SPECIFICATION InvocationSpec
CONSTANTS
    Markers = {m1}
    NoInode = none
    Nobody = nobody
    Cleaners = {h1, c1}
    Holders = {h1}
    Dead = dead
    Concurrent = FALSE
    MaxFaults = 1
    MaxCrashes = 1
    s1 = s1
    s2 = s2
    e1 = e1
    e2 = e2
    Sealers <- MCSealers
    Inodes <- MCInodes
    Evidence <- DistinctEvidence
    Twins = TRUE
    MaxSealCrashes = 1
    MaxSealFaults = 0
INVARIANTS ConsumedOnce ClaimBeforeDelete ReadersOnlySealed NoSealAfterCleanup ClaimHeldToTheEnd
CHECK_DEADLOCK FALSE
PROPERTIES ImplementsConsumption
