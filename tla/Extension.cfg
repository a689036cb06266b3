SPECIFICATION MCSpec
CONSTANTS
  ForwardIds = {f, g}
  LocalPorts = {p, q}
  MaxTunnels = 2
  MaxServices = 2
  SshKeys = {k, l}
  MaxClients = 4
  ViewTypes = {t, u}
  MaxViewCalls = 3
  MaxKeys = 1
  MaxSaves = 2
  MaxRevs = 1
  NoValue = NoValue
  FtpOps = {a, b}
  MaxNoops = 1
  Login = Login
  NoOp = NoOp
  Tables = {x, y}
  NoText = NoText
  MaxOps = 3
  MaxOnWay = 1
  Names = {x, y}
  MaxInputs = 2
  MaxAwaited = 3
  ScriptLength = 5
  Singles = {s}
  Batches = {d, e}
  BatchLength = 2
SYMMETRY Symmetry
INVARIANTS ExtensionTypeOK ForwardsAreControlled ClientsAreCached SinglePage SavedOnce OwnData PageIsRepaired EditsKeepTheirRow TreeShowsServer BatchesAreStatements AckedIsKept BatchesAreAtomic
CHECK_DEADLOCK FALSE
