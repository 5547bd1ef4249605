SPECIFICATION SealSpec
CONSTANTS
    Markers = {m1}
    s1 = s1
    s2 = s2
    s3 = s3
    e1 = e1
    e2 = e2
    Sealers <- MCSealers
    Inodes <- MCInodes
    NoInode = none
    Evidence <- SharedEvidence
    Nobody = nobody
    Twins = TRUE
    MaxSealCrashes = 0
    MaxSealFaults = 0
INVARIANTS SealIsPermanent
CHECK_DEADLOCK FALSE
