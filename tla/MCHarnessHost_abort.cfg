SPECIFICATION Spec
CONSTANTS
    N = 3
    HasControl <- MCControls
    Iterations <- MCIterations
    WordBits = 12
    PipeSize = 4
    BootText <- MCBoot
    NoiseTexts <- MCSpinner
    InitTexts = {}
    NoiseMax = 0
    AbortTexts <- MCAborts
    MayDie = FALSE
INVARIANT TimedWhenFinished
