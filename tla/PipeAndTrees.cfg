SPECIFICATION MCFairSpec
CONSTANTS
  MaxUi = 2
  MaxHost = 2
  MaxAsks = 3
  MaxNotes = 1
  MaxPrints = 1
  MaxRegistrations = 1
  MaxChanges = 1
  MaxClicks = 2
INVARIANTS EveryLineCounts IdsNameRows ChildrenUnderTheirParent
PROPERTIES TakenInOrder UiCallsSettle HostCallsSettle LoadingEnds
CHECK_DEADLOCK FALSE
