--------------------------- MODULE MCPipeAndTrees ---------------------------
(***************************************************************************)
(* The pipe to the extension host and a tree view above it, checked by one *)
(* run: a behaviour is a behaviour of one of them, the other stays in its  *)
(* initial state, in which neither its timers nor its window has anything  *)
(* to do.                                                                  *)
(***************************************************************************)
EXTENDS HostPipe, TreeViews

VARIABLE part   \* the part that moves

MCInit == part \in {"pipe", "trees"} /\ Init /\ TreeInit

MCNext ==
  /\ part' = part
  /\ \/ part = "pipe"  /\ Next     /\ UNCHANGED treeVars
     \/ part = "trees" /\ TreeNext /\ UNCHANGED vars

MCSpec == MCInit /\ [][MCNext]_<<vars, treeVars, part>>

\* Each part under its own fairness
MCFairSpec == MCSpec /\ Fairness /\ TreeFairness
=============================================================================
