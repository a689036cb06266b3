SPECIFICATION FairSpec
CONSTANTS
  Queries = {q1, q2}
  Batches = {b1}
  NoClient = NoClient
  BatchLength = 2
  MaxFailures = 2
INVARIANTS OneRequest SentOnce AttendedUnlessLost StaysSmall
PROPERTIES ServedInOrder QueriesAnswered
CHECK_DEADLOCK FALSE
