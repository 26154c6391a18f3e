SPECIFICATION Spec
CONSTANTS
  Pi = 7
  Opd = 4
  Cycles = 8
  CycleRefresh = TRUE
  ResetEachPhase = TRUE
  Colocate = TRUE
INVARIANTS
  ScheduleInv
  ScheduleNeverRejects
  PhaseEndsAreSaved
PROPERTIES
  ImplementsPhasePlan
CHECK_DEADLOCK FALSE
