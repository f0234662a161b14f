CONSTANTS
    Inputs <- MCInputs
    Trials <- MCTrials
    MaxScript = 14
    MaxOps = 8
    MaxStack = 9
    MaxElement = 520
    MaxNum = 1000
    MaxKeys = 3
SPECIFICATION Spec
INVARIANTS
    TypeOK
    AddingFlagsOnlyRestricts
    UsualOutputsAskForTheirSignatures
    WitnessOnlyWhereExpected
    WithinLimits
PROPERTY
    FailedChecksHoldNoSignature
