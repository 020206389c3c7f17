SPECIFICATION Spec
CONSTANT Boards <- MCBoards
INVARIANTS TypeOK NeverAborts TlbCoherent FaultAddressUnmapped HandlersReachable CacheNeverStale
