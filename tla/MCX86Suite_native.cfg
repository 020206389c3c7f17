SPECIFICATION Spec
CONSTANTS
    Images <- MCAllImages
    PrefixBytes <- MCPrefixBytes
    MaxPrefixes = 2
    Iters = 2
    PhysStart = 32
    PhysEnd = 64
    Calibrates = TRUE
    HeapPages = 64
    StackPages = 1
INVARIANTS TypeOK NoAbort NeverLost CleanStart FaultsWhereMeant
PROPERTIES OneHandlerRunPerTrigger SuiteCompletes
