----------------------------- MODULE TreeViews -----------------------------
(***************************************************************************)
(* A tree view of the standalone host.  The extension host keeps the       *)
(* provider and numbers every node it has ever listed (TreeViewRegistry);  *)
(* the window shows rows, asks for the children of the root or of a row    *)
(* (resolveTreeChildren) and gives up after ten seconds (RequestStore).    *)
(*                                                                         *)
(* Views share nothing but the pipes, so one is modelled.  A listing has   *)
(* one element and a tree two levels; an element is known by the provider  *)
(* it comes from and the data its ancestors and itself were read from.     *)
(* The window listens from the start.                                      *)
(***************************************************************************)
EXTENDS Naturals, Sequences

CONSTANTS
  MaxRegistrations,  \* bound on the calls of createTreeView for the view
  MaxChanges,        \* bound on the refresh events of the provider
  MaxClicks          \* bound on the rows a user expands

ASSUME TreeViewsAssumption ==
  /\ MaxRegistrations \in Nat \ {0}
  /\ MaxChanges \in Nat
  /\ MaxClicks \in Nat

VARIABLES
  up,          \* the extension host process runs
  registered,  \* registrations so far; the last one is TreeViewRegistry's view
  nodes,       \* the nodes of each registration: id n is the n-th
  data,        \* what the provider's data is now
  work,        \* resolveChildren calls in progress
  tree,        \* WorkbenchState.treeViews[viewId]: its loading flag and its rows
  pending,     \* the window's RequestStore
  requested,   \* requests the window has made
  clicks,      \* rows expanded so far
  toUi,        \* host stdout -> window
  toHost       \* window -> host stdin

treeHostVars == <<up, registered, nodes, data, work>>
treeUiVars   == <<tree, pending, requested, clicks>>
treeVars     == <<treeHostVars, treeUiVars, toUi, toHost>>

-----------------------------------------------------------------------------
Root == 0       \* nodeId === undefined
Registrations == 1..MaxRegistrations
Datas    == 0..MaxChanges
Paths    == {<<d>> : d \in Datas} \union (Datas \X Datas)
Element  == [reg : Registrations, path : Paths]
Row      == [id : Nat, el : Element, parent : Nat, loading : BOOLEAN]
Request  == [id : Nat, node : Nat, sent : BOOLEAN]
Message  == [kind : {"create", "refresh"}]
              \union [kind : {"error"}, id : Nat]
              \union [kind : {"answer"}, id : Nat, parent : Nat, node : Nat, el : Element]
Work     == [id : Nat, node : Nat, reg : Registrations, stage : {"called", "listed"},
             path : {<<>>} \union Paths]

TreeInit ==
  /\ up = TRUE
  /\ registered = 0
  /\ nodes = [r \in Registrations |-> <<>>]
  /\ data = 0
  /\ work = {}
  /\ tree = [loading |-> FALSE, rows |-> {}]
  /\ pending = {}
  /\ requested = 0
  /\ clicks = 0
  /\ toUi = <<>>
  /\ toHost = <<>>

-----------------------------------------------------------------------------
(* The extension host.                                                     *)

\* createTreeView: a registration of the same view replaces the earlier one
\* and numbers its nodes from 1 again.
CreateTreeView ==
  /\ up
  /\ registered < MaxRegistrations
  /\ registered' = registered + 1
  /\ toUi' = Append(toUi, [kind |-> "create"])
  /\ UNCHANGED <<up, nodes, data, work, treeUiVars, toHost>>

\* The provider fires onDidChangeTreeData.
Change ==
  /\ up /\ registered > 0
  /\ data < MaxChanges
  /\ data' = data + 1
  /\ toUi' = Append(toUi, [kind |-> "refresh"])
  /\ UNCHANGED <<up, registered, nodes, work, treeUiVars, toHost>>

\* resolveChildren up to the call of the provider, with the view registered
\* at that moment; a node it does not know is answered by an error.
TakeRequest ==
  /\ up /\ toHost # <<>>
  /\ LET r     == Head(toHost)
         known == r.node \in 1..Len(nodes[registered])
     IN IF r.node = Root \/ known
        THEN /\ work' = work \union
                  {[id |-> r.id, node |-> r.node, reg |-> registered,
                    stage |-> "called",
                    path |-> IF known THEN nodes[registered][r.node].path ELSE <<>>]}
             /\ UNCHANGED toUi
        ELSE /\ toUi' = Append(toUi, [kind |-> "error", id |-> r.id])
             /\ UNCHANGED work
  /\ toHost' = Tail(toHost)
  /\ UNCHANGED <<up, registered, nodes, data, treeUiVars>>

\* The provider reads its data, some time before its promise resolves.
ListChildren(w) ==
  /\ up /\ w.stage = "called"
  /\ work' = (work \ {w}) \union
               {[w EXCEPT !.stage = "listed", !.path = Append(w.path, data)]}
  /\ UNCHANGED <<up, registered, nodes, data, treeUiVars, toUi, toHost>>

Answer(w, id, el) ==
  [kind |-> "answer", id |-> w.id, parent |-> w.node, node |-> id, el |-> el]

\* Mutant: a listing starts the numbering again.
CreateNodeAfresh(w) ==
  /\ up /\ w.stage = "listed"
  /\ LET el == [reg |-> w.reg, path |-> w.path]
     IN /\ nodes' = [nodes EXCEPT ![w.reg] = <<el>>]
        /\ toUi' = Append(toUi, Answer(w, 1, el))
  /\ work' = work \ {w}
  /\ UNCHANGED <<up, registered, data, treeUiVars, toHost>>

\* getTreeItem has resolved: the node is numbered in the view resolveChildren
\* was called with, and the request is answered.
CreateNode(w) ==
  /\ up /\ w.stage = "listed"
  /\ LET el == [reg |-> w.reg, path |-> w.path]
     IN /\ nodes' = [nodes EXCEPT ![w.reg] = Append(@, el)]
        /\ toUi' = Append(toUi, Answer(w, Len(nodes[w.reg]) + 1, el))
  /\ work' = work \ {w}
  /\ UNCHANGED <<up, registered, data, treeUiVars, toHost>>

\* The provider throws or rejects.
ProviderFails(w) ==
  /\ up
  /\ work' = work \ {w}
  /\ toUi' = Append(toUi, [kind |-> "error", id |-> w.id])
  /\ UNCHANGED <<up, registered, nodes, data, treeUiVars, toHost>>

\* The process exits; what it has written is still read by the window.
HostEnds ==
  /\ up
  /\ up' = FALSE
  /\ work' = {}
  /\ toHost' = <<>>
  /\ UNCHANGED <<registered, nodes, data, treeUiVars, toUi>>

-----------------------------------------------------------------------------
(* The window.                                                             *)

\* tree/loading.
Loading(t, n, on) ==
  IF n = Root THEN [t EXCEPT !.loading = on]
  ELSE [t EXCEPT !.rows =
          {IF row.id = n THEN [row EXCEPT !.loading = on] ELSE row : row \in t.rows}]

\* Mutant: children whose row is gone are kept.
UpdateAnyChildren(t, n, row) ==
  IF n = Root THEN [loading |-> FALSE, rows |-> {row}]
  ELSE [Loading(t, n, FALSE) EXCEPT !.rows = {r \in @ : r.parent # n} \union {row}]

\* tree/updateChildren: a listing of the root replaces the whole tree, one of
\* a row the children of that row, if it is still there.
UpdateChildren(t, n, row) ==
  IF n = Root THEN [loading |-> FALSE, rows |-> {row}]
  ELSE IF \E r \in t.rows : r.id = n
  THEN [Loading(t, n, FALSE) EXCEPT !.rows = {r \in @ : r.parent # n} \union {row}]
  ELSE t

\* resolveTreeChildren.  A send that fails turns loading off at once and
\* leaves the request in the store until its timer runs.
Ask(t, n) ==
  /\ tree' = Loading(t, n, up)
  /\ pending' = pending \union {[id |-> requested, node |-> n, sent |-> up]}
  /\ toHost' = IF up THEN Append(toHost, [id |-> requested, node |-> n])
              ELSE toHost
  /\ requested' = requested + 1

\* tree.create and tree.refresh.
ReceiveCreate ==
  /\ toUi # <<>> /\ Head(toUi).kind = "create"
  /\ Ask([loading |-> FALSE, rows |-> {}], Root)
  /\ toUi' = Tail(toUi)
  /\ UNCHANGED <<treeHostVars, clicks>>

ReceiveRefresh ==
  /\ toUi # <<>> /\ Head(toUi).kind = "refresh"
  /\ Ask(tree, Root)
  /\ toUi' = Tail(toUi)
  /\ UNCHANGED <<treeHostVars, clicks>>

\* Clicking a row that can be expanded and is not loading.
Expand(row) ==
  /\ clicks < MaxClicks
  /\ clicks' = clicks + 1
  /\ row.parent = Root /\ ~row.loading
  /\ Ask(tree, row.id)
  /\ UNCHANGED <<treeHostVars, toUi>>

\* A response: RequestStore.resolve, then the continuation of
\* resolveTreeChildren; one that comes too late is ignored.
ReceiveResponse ==
  /\ toUi # <<>> /\ Head(toUi).kind \in {"answer", "error"}
  /\ LET m    == Head(toUi)
         mine == {r \in pending : r.id = m.id}
     IN /\ pending' = pending \ mine
        /\ tree' =
             IF mine = {} THEN tree
             ELSE IF m.kind = "error"
             THEN Loading(tree, (CHOOSE r \in mine : TRUE).node, FALSE)
             ELSE UpdateChildren(tree, m.parent,
                    [id |-> m.node, el |-> m.el, parent |-> m.parent, loading |-> FALSE])
  /\ toUi' = Tail(toUi)
  /\ UNCHANGED <<treeHostVars, requested, clicks, toHost>>

\* Mutant: only requests for the root have a timer.
TimeoutOfRoot(request) ==
  /\ request.node = Root
  /\ pending' = pending \ {request}
  /\ tree' = IF request.sent THEN Loading(tree, request.node, FALSE) ELSE tree
  /\ UNCHANGED <<treeHostVars, requested, clicks, toUi, toHost>>

\* The timer of a request.  Nobody awaits the response of one that was not
\* sent.
Timeout(request) ==
  /\ pending' = pending \ {request}
  /\ tree' = IF request.sent THEN Loading(tree, request.node, FALSE) ELSE tree
  /\ UNCHANGED <<treeHostVars, requested, clicks, toUi, toHost>>

-----------------------------------------------------------------------------
HostWorks ==
  \E w \in work : ListChildren(w) \/ CreateNode(w) \/ ProviderFails(w)
WindowReceives == ReceiveCreate \/ ReceiveRefresh \/ ReceiveResponse

TreeNext ==
  \/ CreateTreeView
  \/ Change
  \/ TakeRequest
  \/ HostWorks
  \/ HostEnds
  \/ WindowReceives
  \/ \E row \in tree.rows : Expand(row)
  \/ \E request \in pending : Timeout(request)

TreeSpec == TreeInit /\ [][TreeNext]_treeVars

\* The window takes every message and its timers run.  Nothing is asked of
\* the provider or of the host process.
TreeFairness ==
  /\ WF_treeVars(WindowReceives)
  /\ WF_treeVars(\E request \in pending : Timeout(request))

TreeFairSpec == TreeSpec /\ TreeFairness

-----------------------------------------------------------------------------
TreeTypeOK ==
  /\ up \in BOOLEAN
  /\ registered \in 0..MaxRegistrations
  /\ nodes \in [Registrations -> Seq(Element)]
  /\ data \in Datas
  /\ work \subseteq Work
  /\ tree \in [loading : BOOLEAN, rows : SUBSET Row]
  /\ pending \subseteq Request
  /\ requested \in Nat
  /\ clicks \in 0..MaxClicks
  /\ toUi \in Seq(Message)
  /\ toHost \in Seq([id : Nat, node : Nat])

\* A click on a row reaches the element the row shows: wherever the host
\* knows the id of a row, it names that element, however listings cross and
\* however old the row is ("Assign stable runtime node ids.  Map node ids
\* back to provider elements.", tree command design).
IdsNameRows ==
  registered > 0 =>
    \A row \in tree.rows :
      row.id \in 1..Len(nodes[registered]) => nodes[registered][row.id] = row.el

\* Children are shown under the row they were listed for: an answer that
\* comes after the tree has been replaced does not attach to another row.
ChildrenUnderTheirParent ==
  \A row \in tree.rows :
    row.parent # Root =>
      \E above \in tree.rows :
        /\ above.id = row.parent
        /\ above.el.reg = row.el.reg
        /\ above.el.path[1] = row.el.path[1]

\* Once users and providers are quiet, nothing loads any more, although the
\* provider may never answer and the host may have exited.  A row that loads
\* cannot be clicked, so nothing else would ever free it.
LoadingEnds ==
  <>[](~tree.loading /\ (\A row \in tree.rows : ~row.loading) /\ pending = {})
=============================================================================
