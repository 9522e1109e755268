CONSTANTS
    Vals <- MCVals
    InstTimes <- MCInstTimes
    Times <- MCTimes
    PSTimes <- MCPSTimes
    MaxLen <- MCMaxLen
    MaxCount <- MCMaxCount
    MaxCalls <- MCMaxCalls0
SPECIFICATION SpecValues
INVARIANTS
    AlwaysLtCorrect
CHECK_DEADLOCK FALSE
