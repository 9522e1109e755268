CONSTANTS
    Vals <- MCVals
    InstTimes <- MCInstTimes
    Times <- MCTimes
    PSTimes <- MCPSTimes
    MaxLen <- MCMaxLen
    MaxCount <- MCMaxCount
    MaxCalls <- MCMaxCalls1
SPECIFICATION SpecSyncRefinement
INVARIANTS
    SyncAligned
    SyncCrossings
PROPERTY
    TemporalValueSpec
CHECK_DEADLOCK FALSE
