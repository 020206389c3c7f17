SPECIFICATION Spec
CONSTANTS
    N = 3
    HasControl <- MCControls
    Iterations <- MCIterations
    WordBits = 12
    PipeSize = 4
    BootText <- MCBoot
    NoiseTexts <- MCDebugNoise
    InitTexts <- MCExceptionLog
    NoiseMax = 1
    AbortTexts = {}
    MayDie = FALSE
INVARIANT ReportsInOrder
