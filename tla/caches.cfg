\* one worker beside the indexer; two of: a commit, a failed write, a restart
CONSTANTS
    w1 = w1
    w2 = w2
    Workers = {w1}
    MaxEvents = 2
    RowCount <- Counts
SPECIFICATION FairSpec
INVARIANTS TypeOK NewMetaNewRows
PROPERTIES ViewsCatchUp DirtyIsWritten
