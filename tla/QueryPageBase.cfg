SPECIFICATION QueryPageSpec
CONSTANTS
  Tables = {x, y}
  NoText = NoText
  MaxOps = 3
  MaxOnWay = 1
INVARIANTS BaseHasNoConditions
CHECK_DEADLOCK FALSE
