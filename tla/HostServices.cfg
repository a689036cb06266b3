SPECIFICATION MCSpec
CONSTANTS
  Processes = {p1, p2}
  Keys = {k1, k2}
  Values = {v1, v2}
  None = None
  MaxStarts = 2
  MaxUpdates = 3
  Paths = {x, y}
  MaxEdits = 4
  Panels = {a, b}
  MaxTime = 2
  MaxPanelCalls = 3
  Dirs <- MCDirs
  ExtIds = {"e", "f"}
  ContextKeys = {"k"}
  MaxContexts = 1
  MaxReports = 1
  Items = {i}
  MaxItemCalls = 5
INVARIANTS HostTypeOK AckedIsStored ListenerAgrees PageIsCurrent MessagesOnceInOrder LoadingIsShown ItemsAreShown
CHECK_DEADLOCK FALSE
