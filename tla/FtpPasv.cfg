SPECIFICATION FtpSpec
CONSTANTS
  FtpOps = {a, b}
  MaxNoops = 1
  Login = Login
  NoOp = NoOp
PROPERTIES PasvHoldsQueue
CHECK_DEADLOCK FALSE
