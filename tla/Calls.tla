------------------------------- MODULE Calls -------------------------------
(***************************************************************************)
(* What a request between the window and the extension host promises its   *)
(* caller: it settles once, with an answer only if the other side gave one *)
(* to this very request, and it does not stay open for ever.               *)
(***************************************************************************)
CONSTANT Call

VARIABLES
  stage,    \* where each call is
  replied   \* the calls the other side has answered

Stages == {"new", "waiting", "answered", "failed"}

Init ==
  /\ stage = [c \in Call |-> "new"]
  /\ replied = {}

Ask(c) ==
  /\ stage[c] = "new"
  /\ stage' = [stage EXCEPT ![c] = "waiting"]
  /\ UNCHANGED replied

\* The other side may answer a call its caller has given up.
Reply(c) ==
  /\ stage[c] # "new"
  /\ c \notin replied
  /\ replied' = replied \union {c}
  /\ UNCHANGED stage

\* Several calls settle at once when several answers are read together or
\* when their process ends.
Settle(S) ==
  /\ S # {}
  /\ \A c \in S : stage[c] = "waiting"
  /\ \E outcome \in [S -> {"answered", "failed"}] :
       /\ \A c \in S : outcome[c] = "answered" => c \in replied
       /\ stage' = [c \in Call |-> IF c \in S THEN outcome[c] ELSE stage[c]]
  /\ UNCHANGED replied

SettleOne(c) == \E S \in SUBSET Call : c \in S /\ Settle(S)

Next ==
  \/ \E c \in Call : Ask(c) \/ Reply(c)
  \/ \E S \in SUBSET Call : Settle(S)

SafeSpec == Init /\ [][Next]_<<stage, replied>>

Spec == SafeSpec /\ \A c \in Call : WF_<<stage, replied>>(SettleOne(c))
=============================================================================
