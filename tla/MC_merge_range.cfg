CONSTANTS
    Vals <- MCVals
    InstTimes <- MCInstTimes
    Times <- MCTimes
    PSTimes <- MCPSTimes
    MaxLen <- MCMaxLen
    MaxCount <- MCMaxCount
    MaxCalls <- MCMaxCalls
SPECIFICATION SpecMergeRange
INVARIANTS
    ValueWellFormed
    ResultDenotesOperation
CHECK_DEADLOCK FALSE
