SPECIFICATION Spec
CONSTANTS
  Macros <- MCMacros
  Notes = {"n1"}
  Hour = 1
  MaxBatch = 2
  Capacity = 1
  MaxActions = 1
  MaxUi = 2
  MaxUpsets = 1
  MaxNow = 2
INVARIANTS
  LimitsHold
  EventsTakenOnce
  ScheduleKeepsInterval
PROPERTIES
  NotesReachTheManager
CHECK_DEADLOCK FALSE
