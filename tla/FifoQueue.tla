----------------------------- MODULE FifoQueue -----------------------------
(***************************************************************************)
(* What a queue in front of servers that run one request each promises its *)
(* callers: requests start in the order in which they came, each runs once *)
(* at a time, and none leaves the queue without being started.             *)
(***************************************************************************)
EXTENDS Naturals, Sequences

CONSTANT Request

VARIABLES
  queue,    \* the requests that wait
  running   \* the requests that a server runs

Init ==
  /\ queue = <<>>
  /\ running = {}

Waiting == {queue[i] : i \in 1..Len(queue)}

\* A request's end may let its caller ask for the next one, and whoever is
\* first in the line then may start: all in one step.
Move(done, new) ==
  LET line == queue \o new
      rest == running \ done
  IN /\ \A i \in 1..Len(new) : new[i] \notin rest \union Waiting
     /\ \/ queue' = line /\ running' = rest
        \/ /\ line # <<>>
           /\ queue' = Tail(line)
           /\ running' = rest \union {Head(line)}

Next ==
  \E done \in {{}} \union {{r} : r \in running},
     new \in {<<>>} \union {<<r>> : r \in Request} : Move(done, new)

Spec == Init /\ [][Next]_<<queue, running>>
=============================================================================
