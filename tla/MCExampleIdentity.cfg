SPECIFICATION Spec
CONSTANTS
    ABSENT = ABSENT
    MALFORMED = MALFORMED
    MAX_COUNT = 7
    MaxItems = 3
    MaxSize = 6
    MaxPath = 3
    Inputs <- MCInputs
    AskedFor <- MCAskedFor
    Arrives <- MCArrives
INVARIANTS SameRootIffSameBag RefusedIffImproper RelationsHoldOfItems BuiltProofVerifies AcceptedIsInDataset AcceptedAtIndex
CHECK_DEADLOCK FALSE
