SPECIFICATION SealSpec
CONSTANTS
    Markers = {m1}
    s1 = s1
    s2 = s2
    s3 = s3
    e1 = e1
    e2 = e2
    Sealers <- MCSealers
    Inodes <- MCInodes
    NoInode = none
    Evidence <- SharedEvidence
    Nobody = nobody
    Twins = FALSE
    MaxSealCrashes = 2
    MaxSealFaults = 1
INVARIANTS SealTypeOK SealIsPermanent SealedOnce ReadersAgree ReadersOnlySealed RefusalJustified BundleIsClaimed
CHECK_DEADLOCK FALSE
