SPECIFICATION FairSpec
CONSTANTS
  Calls = {c1}
  Id = id
  Sessions = {}
  NodeKey = key
  Schemas = {a}
  None = None
  MaxCloses = 1
PROPERTIES CloseEnds
CHECK_DEADLOCK FALSE
