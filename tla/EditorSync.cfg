SPECIFICATION FairSpec
CONSTANTS
  Documents = {d1, d2}
  Texts = {a, b}
  NoEditor = NoEditor
  MaxInputs = 4
INVARIANTS Converged VersionNamesText
PROPERTIES ViewVersionMonotone EventuallyProjected
CHECK_DEADLOCK FALSE
