SPECIFICATION ProfileSpec
CONSTANTS
    Node = {1, 2, 3}
    Text <- AllText
    Rank = {1, 2}
    MAX_DEPTH = 2
    MAX_CANONICAL_SPEC_BYTES = 7
    Inputs <- AllSmallInputs
INVARIANTS
    TypeOK
    OpenContainersArePath
    AgreesWithRecursive
    CanonicalTextDenotesValue
    Fp2RefusesOnlyTextAndNonFinite
    DigestIffAdmissible
    RefusalIsReal
PROPERTY Terminates
CHECK_DEADLOCK FALSE
