CONSTANTS
    Vals <- MCVals
    InstTimes <- MCInstTimes
    Times <- MCTimes
    PSTimes <- MCPSTimes
    MaxLen <- MCMaxLen
    MaxCount <- MCMaxCount
    MaxCalls <- MCMaxCalls2
SPECIFICATION SpecPeriods
INVARIANTS
    TypeOK
    ValueWellFormed
    ResultDenotesOperation
CHECK_DEADLOCK FALSE
