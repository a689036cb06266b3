SPECIFICATION FairSpec
CONSTANTS
  Documents = {d1}
  Texts = {a, b}
  NoEditor = NoEditor
  MaxInputs = 4
PROPERTIES ShowsProject
CHECK_DEADLOCK FALSE
