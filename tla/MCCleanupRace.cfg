SPECIFICATION FairSpec
CONSTANTS
    Markers = {m1}
    Inodes = {i1}
    NoInode = none
    Cleaners = {h1, h2}
    Holders = {h1, h2}
    Nobody = nobody
    Dead = dead
    Concurrent = TRUE
    MaxFaults = 1
    MaxCrashes = 1
INVARIANTS TypeOK ClaimBeforeDelete RemovedMeansGone CompleteMeansClean
PROPERTIES HolderCompletes
CHECK_DEADLOCK FALSE
