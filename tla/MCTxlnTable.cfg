SPECIFICATION Spec
CONSTANTS
    Idx <- MCIdx
    HeapPages = 7
    Frames <- MCFrames
    Attrs <- MCAttrs
    NoAttr = NoAttr
    Unmapped = Unmapped
    InitMappings <- MCInitMappings
    Requests <- MCRequests
    Data = Data
    Code = Code
INVARIANTS TypeOK TablesFormATree NoTableLost WalkOnPath
PROPERTY RefinesPageMap
