------------------------------- MODULE Upkeep -------------------------------
(* What the server keeps up beside the indexing: coordinates and places,      *)
(* backups and their schedule, the lists of the API.  The three share neither *)
(* memory nor files nor tables' columns; a behaviour moves one of them alone. *)
EXTENDS Places, Backups, PeopleLists

CONSTANT Parts
ASSUME PartsAssumption == Parts \subseteq {"places", "backups", "lists", "accounts"}

VARIABLE part       \* what this behaviour is about; "accounts" is left to Sessions
upkeepVars == <<part, placesVars, backupsVars, listsVars>>

UpkeepTypeOK == part \in Parts /\ PlacesTypeOK /\ BackupsTypeOK /\ ListsTypeOK

\* The parts that stand still do so in one of their initial states.
UpkeepInit ==
    /\ part \in Parts /\ PlacesInit /\ BackupsInit /\ ListsInit
    /\ part # "places" => done = {}
    /\ part # "backups" => config = NoFile
    /\ part # "lists" => asks = CHOOSE m \in Mixes : TRUE

PlacesStep == part = "places" /\ PlacesNext /\ UNCHANGED <<part, backupsVars, listsVars>>
BackupsStep == part = "backups" /\ BackupsNext /\ UNCHANGED <<part, placesVars, listsVars>>
ListsStep == part = "lists" /\ ListsNext /\ UNCHANGED <<part, placesVars, backupsVars>>

UpkeepNext == PlacesStep \/ BackupsStep \/ ListsStep

UpkeepSpec == UpkeepInit /\ [][UpkeepNext]_upkeepVars

=============================================================================
