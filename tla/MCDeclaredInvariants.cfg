SPECIFICATION Spec
CONSTANTS
    Node = {1, 2, 3, 4, 5, 6}
    Text <- MCText
    Rank = {1, 2, 3}
    MAX_COMPARISON_DEPTH = 2
    MAX_COMPARISON_NODES = 4
    Cases <- MCCases
    NameRank <- MCNameRank
    MISSING = MISSING
INVARIANTS
    StacksBounded
    HeldIsStructuralEquality
    NoVerdictOnUnevaluable
    RefusalIsJustified
PROPERTY Terminates
CHECK_DEADLOCK FALSE
