SPECIFICATION Spec
CONSTANTS
    s1 = s1
    s2 = s2
    root1 = root1
    ABSENT = ABSENT
    ZERO_DIGEST = ZERO_DIGEST
    MAX_LEAF_LIST = 3
    MAX_CELLS = 3
    MIN_STRATUM_SIZE = 2
    IMBALANCE_RATIO_LIMIT = 1
    REGISTERED_TERMS <- MCTerms
    REGISTERED_METHODS = {"minhash"}
    Worlds <- MCWorlds
    Rendered <- MCRendered
    Issuer <- MCIssuer
    BundlesArrive <- MCBundlesArrive
    ListsArrive <- MCListsArrive
INVARIANTS VerifiedClaimsHold PlanBeforeResults TrueRecordVerifies
PROPERTY ImplementsRegister
CHECK_DEADLOCK FALSE
