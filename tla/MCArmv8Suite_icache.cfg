SPECIFICATION Spec
CONSTANTS
    Orders <- MCMakefileOrder
    Iters = 3
    StaleReg = {0, 4}
INVARIANT ICacheStaysOn
