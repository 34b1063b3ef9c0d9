SPECIFICATION Spec
CONSTANTS
    ABSENT = ABSENT
    ANY = ANY
    NOTHING = NOTHING
    ODD = ODD
    SAME = SAME
    ROOT = ROOT
    MAX_HOPS = 25
    MAX_NESTING = 60
    MIN_REASON_LENGTH = 20
    Bases <- MCBases
    Kind <- MCKind
    PatternNames <- MCPatternNames
    Payloads <- MCPayloads
    Families <- MCFamilies
    GATE_RUNS <- MCGateRuns
    Historical <- MCHistorical
INVARIANTS
    NoSilentBreak
    AcknowledgedWasPrinted
CHECK_DEADLOCK FALSE
