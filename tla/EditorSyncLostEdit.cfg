SPECIFICATION FairSpec
CONSTANTS
  Documents = {d1}
  Texts = {a, b}
  NoEditor = NoEditor
  MaxInputs = 4
PROPERTIES EditsReachModel
CHECK_DEADLOCK FALSE
