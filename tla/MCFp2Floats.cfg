SPECIFICATION Fp2Spec
CONSTANTS
    Node = {1, 2, 3}
    Text <- AllText
    Rank = {1, 2}
    MAX_DEPTH = 2
    Inputs <- AllSmallInputs
INVARIANT FloatsAreRefused
CHECK_DEADLOCK FALSE
