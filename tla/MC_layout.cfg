CONSTANTS
    Kinds <- MCKinds
    BBoxSize <- MCBBoxSize
    PointKinds <- MCPointKinds
    InstSizes <- MCInstSizes
    OffsetsAt <- MCOffsetsAt
    MaxCount <- MCMaxCount
    MaxCalls <- MCMaxCalls
SPECIFICATION SpecNoPointAppend
INVARIANTS
    LayoutSound
CHECK_DEADLOCK FALSE
