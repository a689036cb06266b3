SPECIFICATION FairSpec
CONSTANTS
  Calls = {c1, c2}
  Id = id
  Sessions = {s}
  Schemas = {a, b}
  NodeKey = key
  None = None
  MaxCloses = 2
INVARIANTS StoredNotEnded SchemaTracked LeaksNeedOverlap
PROPERTIES CallsSettle
CHECK_DEADLOCK FALSE
