SPECIFICATION Spec
CONSTANTS
    Markers = {m1}
    Inodes = {i1}
    NoInode = none
    Cleaners = {h1}
    Holders = {h1}
    Nobody = nobody
    Dead = dead
    Concurrent = FALSE
    MaxFaults = 0
    MaxCrashes = 0
INVARIANTS RetainedManifestRecovers
CHECK_DEADLOCK FALSE
