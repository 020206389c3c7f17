SPECIFICATION Spec
CONSTANTS
    Images <- MCMakefileOrder
    PrefixBytes <- MCPrefixBytes
    MaxPrefixes = 2
    Iters = 2
    PhysStart = 128
    PhysEnd = 512
    Calibrates = FALSE
    HeapPages = 64
    StackPages = 1
INVARIANT OutOfMemoryReported
