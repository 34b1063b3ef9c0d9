SPECIFICATION Spec
CONSTANTS
    ABSENT = ABSENT
    ZERO_DIGEST = ZERO_DIGEST
    r1 = r1
    r2 = r2
    r3 = r3
    s1 = s1
    s2 = s2
    Records = {r1, r2, r3}
    ScopeOf <- MCScopeOf
    Declarations <- MCDeclarations
    EntryOrders <- MCEntryOrders
    Fingerprints <- MCFingerprints
    IssuerKey <- MCIssuerKey
    MaxIssued = 2
    Asks <- MCAsks
    Presented <- MCPresented
INVARIANTS OutcomeIsOfIssued MatchIsDeclared NoFalseMismatch
