---------------------------- MODULE PhotoLibrary ----------------------------
(* What the indexer promises those who look at its library, whatever threads,  *)
(* claims and retries it takes: a photo is shown once its picture and its faces *)
(* are there, the faces of one detector run; it leaves in two steps, and only  *)
(* then its picture goes; one that is known is never forgotten.                *)
EXTENDS Naturals

CONSTANTS
    Photos,
    Kind            \* Kind[u]: "image", "video" or "other"

VARIABLES
    stage,          \* stage[u]: how far u is
    pictures,       \* the photos with a picture on disk
    faces           \* faces[u]: detector runs whose faces are in the index

libraryVars == <<stage, pictures, faces>>

\* "listed": shown by its name alone, for want of a picture.
Known == {"queued", "shown", "listed", "failed", "leaving", "deleted"}

LibraryInit ==
    /\ stage \in [Photos -> {"unknown", "queued", "listed"}]
    /\ \A u \in Photos : stage[u] = "listed" => Kind[u] = "other"
    /\ pictures = {} /\ faces = [u \in Photos |-> 0]

\* Some of the photos that are at one of these stages go on to another one.
Move(from, to) ==
    /\ \A u \in Photos : stage'[u] # stage[u] => stage[u] \in from /\ stage'[u] = to
    /\ stage' = [u \in Photos |-> stage'[u]]
    /\ UNCHANGED <<pictures, faces>>

\* One that does.
Goes(u, from, to) ==
    /\ stage[u] \in from
    /\ stage' = [stage EXCEPT ![u] = to]

\* The timeline has photos that are not in the library, or not any more.
Enter == Move({"unknown", "leaving", "deleted"}, "queued")

\* It lacks photos that are.
Leave == Move({"queued", "shown", "listed", "failed"}, "leaving")
Delete == Move({"leaving"}, "deleted")

\* A result comes in, be it late: another try, or a failure.
Requeue == Move(Known, "queued")
Fail == Move(Known, "failed")

List(u) ==
    /\ Kind[u] = "other" /\ Goes(u, Known, "listed")
    /\ UNCHANGED <<pictures, faces>>

Picture(u) == pictures' = pictures \cup {u} /\ UNCHANGED <<stage, faces>>

\* The poster of a video.
ShowPoster(u) ==
    /\ Kind[u] = "video" /\ u \in pictures /\ Goes(u, Known, "shown")
    /\ UNCHANGED <<pictures, faces>>

\* Faces that are there already stay the ones of their run.
Recognise(u) ==
    /\ u \in pictures /\ Goes(u, {"queued"}, "shown")
    /\ faces' = [faces EXCEPT ![u] = 1]
    /\ UNCHANGED pictures

\* Pictures go before the rest does.
Unlink ==
    /\ \E S \in SUBSET {u \in Photos : stage[u] = "deleted"} : pictures' = pictures \ S
    /\ UNCHANGED <<stage, faces>>

Purge ==
    /\ \E S \in SUBSET {u \in Photos : stage[u] \in {"deleted", "failed"}} :
          faces' = [u \in Photos |-> IF u \in S THEN 0 ELSE faces[u]]
    /\ UNCHANGED <<stage, pictures>>

LibraryNext ==
    \/ Requeue \/ Fail \/ Enter \/ Leave \/ Delete \/ Unlink \/ Purge
    \/ \E u \in Photos : List(u) \/ Picture(u) \/ ShowPoster(u) \/ Recognise(u)

LibrarySpec == LibraryInit /\ [][LibraryNext]_libraryVars

\* What it is for: whatever is shown is whole.
ShownWhole ==
    \A u \in Photos : stage[u] = "shown" =>
        u \in pictures /\ (faces[u] = 1 \/ Kind[u] = "video")

=============================================================================
