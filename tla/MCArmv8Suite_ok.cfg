SPECIFICATION Spec
CONSTANTS
    Orders <- MCAllOrders
    Iters = 2
    StaleReg = {0, 4}
INVARIANTS TypeOK NoAbort CleanStart FaultsWhereMeant OneInterruptPerTrigger
PROPERTY SuiteCompletes
