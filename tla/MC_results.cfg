CONSTANTS
    Vals <- MCVals
    InstTimes <- MCInstTimes
    Times <- MCTimes
    PSTimes <- MCPSTimes
    MaxLen <- MCMaxLen
    MaxCount <- MCMaxCount
    MaxCalls <- MCMaxCalls1
SPECIFICATION SpecResultsViolation
INVARIANTS
    ResultDenotesOperation
CHECK_DEADLOCK FALSE
