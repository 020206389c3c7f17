SPECIFICATION Spec
CONSTANT Boards <- MCBoards
INVARIANT CacheFound
