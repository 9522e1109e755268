CONSTANTS
    Vals <- MCVals
    InstTimes <- MCInstTimes
    Times <- MCTimes
    PSTimes <- MCPSTimes
    MaxLen <- MCMaxLen
    MaxCount <- MCMaxCount
    MaxCalls <- MCMaxCalls1
SPECIFICATION SpecSyncViolation
INVARIANTS
    SyncAligned
CHECK_DEADLOCK FALSE
