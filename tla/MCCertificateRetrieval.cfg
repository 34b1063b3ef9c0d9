SPECIFICATION Spec
CONSTANTS
    s1 = s1
    s2 = s2
    ABSENT = ABSENT
    ZERO_DIGEST = ZERO_DIGEST
    Sessions = {s1, s2}
    Plan <- NoClientPlan
    MaxAttempts <- MCMaxAttempts
    MaxPrepared = 2
    MaxCertificates = 2
    IssuerKey <- IKey
    Registers <- MCRegisters
    Versions <- MCVersions
    Arrives <- MCArrives
PROPERTY StatusIsOfAccepted
CHECK_DEADLOCK FALSE
