SPECIFICATION Spec
CONSTANTS
    s1 = s1
    s2 = s2
    ABSENT = ABSENT
    ZERO_DIGEST = ZERO_DIGEST
    Sessions = {s1, s2}
    Plan <- MCPlan
    MaxAttempts <- MCMaxAttempts
    MaxPrepared = 2
    MaxCertificates = 1
    IssuerKey <- IKey
    Registers <- MCRegisters
    Versions <- MCVersions
    Arrives <- MCArrives
INVARIANTS AcceptedIsGenuine AcceptedAsApproved ApprovedIsOwnSession ApprovedVerifies
CHECK_DEADLOCK FALSE
