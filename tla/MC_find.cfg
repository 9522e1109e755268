CONSTANTS
    InstTimes <- MCInstTimes
    Times <- MCTimes
    MaxLen <- MCMaxLen
SPECIFICATION Spec
INVARIANTS
    SearchWindow
PROPERTIES
    TimestampSearchSpec
CHECK_DEADLOCK FALSE
