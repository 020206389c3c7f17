SPECIFICATION Spec
CONSTANTS
    Boards <- MCBoards
    Iters = 3
    TimerWrap = 4
INVARIANTS TypeOK UnknownGicUntouched QuietAtCleanup
PROPERTIES OneHandlerRunPerTrigger BenchmarkEnds
