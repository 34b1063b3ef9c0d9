SPECIFICATION Spec
CONSTANTS
    ABSENT = ABSENT
    ANY = ANY
    NOTHING = NOTHING
    ODD = ODD
    SAME = SAME
    ROOT = ROOT
    MAX_HOPS = 25
    MAX_NESTING = 60
    MIN_REASON_LENGTH = 20
    Bases <- MCBases
    Kind <- MCKind
    PatternNames <- MCPatternNames
    Payloads <- MCPayloads
    Families <- EnumFamilies
    GATE_RUNS <- EnumGateRuns
    Historical <- MCHistorical
INVARIANT RejectedSubmissionIsBreaking
CHECK_DEADLOCK FALSE
