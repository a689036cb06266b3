SPECIFICATION Spec
CONSTANTS
  Queries = {q1, q2}
  Batches = {b1}
  NoClient = NoClient
  BatchLength = 2
  MaxFailures = 0
INVARIANTS Attended
CHECK_DEADLOCK FALSE
