SPECIFICATION Spec
CONSTANTS
    s1 = s1
    s2 = s2
    ring1 = ring1
    ring2 = ring2
    ABSENT = ABSENT
    ZERO_DIGEST = ZERO_DIGEST
    Sessions = {s1, s2}
    Plan <- MCPlan
    IssuerKey <- IKey
    Registers <- MCRegisters
    Versions <- MCVersions
    MAX_STREAM_ITEMS = 2
    MAX_TOTAL_RECEIPTS = 6
    MAX_STATUS_ENTRIES = 2
    TRUST_MAX_AGE = 1
    Bases <- MCBases
    Worlds <- MCWorlds
    Observations <- MCObservations
    Revocable <- MCRevocable
    Coverings <- MCCoverings
    AnchorKey <- AKey
    BundlesArrive <- MCBundlesArrive
    StatusesArrive <- MCStatusesArrive
INVARIANTS RevocationTakesEffect ReportIsOfLastReceipts IssuedRecordVerifies
PROPERTY ImplementsRegister
CHECK_DEADLOCK FALSE
