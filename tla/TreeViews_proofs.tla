--------------------------- MODULE TreeViews_proofs ---------------------------
(***************************************************************************)
(* Proofs about TreeViews, for every number of refreshes and clicks, while *)
(* the view has one registration: a second one numbers its nodes from one  *)
(* again, and rows of the first are still shown then.                      *)
(***************************************************************************)
EXTENDS TreeViews, SequenceTheorems, TLAPS

-----------------------------------------------------------------------------
(* The inductive invariant.  A number names one element for ever, so all   *)
(* that is known of a row when it is listed stays true on the way to the   *)
(* window and in the tree.  ns are the nodes of the registration.          *)

Tops == {<<d>> : d \in Datas}

\* What is listed for parent: roots, or children of an element with one datum.
Under(ns, parent, path) ==
  \/ parent = Root /\ path \in Tops
  \/ /\ parent \in 1..Len(ns)
     /\ path \in Datas \X Datas
     /\ ns[parent].path = <<path[1]>>

\* The id of a row or of an answer names the element it comes with.
Names(ns, id, el, parent) ==
  id \in 1..Len(ns) /\ ns[id] = el /\ Under(ns, parent, el.path)

\* What is asked for is the root or the children of a root.
Askable(ns, n) == n = Root \/ (n \in 1..Len(ns) /\ ns[n].path \in Tops)

\* What resolveChildren has found out so far.
Finding(ns, w) ==
  \/ w.stage = "called" /\ w.node = Root /\ w.path = <<>>
  \/ /\ w.stage = "called" /\ w.node \in 1..Len(ns)
     /\ w.path = ns[w.node].path /\ w.path \in Tops
  \/ w.stage = "listed" /\ Under(ns, w.node, w.path)

Rooted(rows, row) ==
  row.parent # Root => \E above \in rows : above.id = row.parent /\ above.parent = Root

RowsOK(ns, rows) ==
  \A row \in rows : Names(ns, row.id, row.el, row.parent) /\ Rooted(rows, row)
WorkOK(ns, ws) == \A w \in ws : w.reg = 1 /\ Finding(ns, w)
AnswersOK(ns, q) ==
  \A i \in 1..Len(q) :
    q[i].kind = "answer" => Names(ns, q[i].node, q[i].el, q[i].parent)
RequestsOK(ns, q) == \A i \in 1..Len(q) : Askable(ns, q[i].node)

\* Before the view is registered nobody has anything to do.
Quiet ==
  registered = 0 => toUi = <<>> /\ toHost = <<>> /\ work = {} /\ tree.rows = {}

Consistent ==
  /\ \A i \in 1..Len(nodes[1]) : nodes[1][i].reg = 1
  /\ RowsOK(nodes[1], tree.rows)
  /\ WorkOK(nodes[1], work)
  /\ AnswersOK(nodes[1], toUi)
  /\ RequestsOK(nodes[1], toHost)
  /\ Quiet

IInv ==
  /\ registered \in 0..MaxRegistrations
  /\ registered <= 1 => TreeTypeOK /\ Consistent

-----------------------------------------------------------------------------
(* Sequences and paths.                                                    *)

\* One datum is not two.
LEMMA PathsApart == \A path \in Tops : path \notin Datas \X Datas
  BY DEF Tops, Datas

\* A child's path is its parent's and one datum more.
LEMMA TwoData ==
  ASSUME NEW a, NEW b
  PROVE  Append(<<a>>, b) = <<a, b>>
  <1> DEFINE S == {a, b}
             q == Append(<<a>>, b)
  <1>1. <<a>> \in Seq(S) /\ Len(<<a>>) = 1 /\ <<a>>[1] = a
    OBVIOUS
  <1>2. q \in Seq(S) /\ Len(q) = 2 /\ q[1] = a /\ q[2] = b
    BY <1>1, AppendProperties
  <1>3. <<a, b>> \in Seq(S) /\ Len(<<a, b>>) = 2 /\ <<a, b>>[1] = a /\ <<a, b>>[2] = b
    OBVIOUS
  <1> HIDE DEF q
  <1>4. \A i \in 1..Len(q) : q[i] = <<a, b>>[i]
    <2>1. \A i \in 1..Len(q) : i = 1 \/ i = 2
      BY <1>2
    <2> QED
      BY <1>2, <1>3, <2>1
  <1>5. q = <<a, b>>
    BY <1>2, <1>3, <1>4, SeqEqual
  <1> QED
    BY <1>5 DEF q

\* What is read from a queue was in it.
LEMMA Taken ==
  ASSUME NEW S, NEW q \in Seq(S), q # <<>>
  PROVE  /\ Head(q) \in S /\ Tail(q) \in Seq(S)
         /\ Head(q) = q[1] /\ 1 \in 1..Len(q)
         /\ \A i \in 1..Len(Tail(q)) : i + 1 \in 1..Len(q) /\ Tail(q)[i] = q[i + 1]
  BY HeadTailProperties, ElementOfSeq, EmptySeq

\* What is written into a queue comes after what was in it.
LEMMA Added ==
  ASSUME NEW S, NEW q \in Seq(S), NEW e \in S
  PROVE  /\ Append(q, e) \in Seq(S) /\ Len(q) \in Nat /\ Len(Append(q, e)) = Len(q) + 1
         /\ Append(q, e)[Len(q) + 1] = e
         /\ \A i \in 1..Len(q) : Append(q, e)[i] = q[i]
  BY AppendProperties, LenProperties

\* Nodes are never renumbered: what is known of them stays known.
LEMMA NodesGrow ==
  ASSUME NEW ns \in Seq(Element), NEW e \in Element, NEW ms, ms = Append(ns, e)
  PROVE  /\ \A rows : RowsOK(ns, rows) => RowsOK(ms, rows)
         /\ \A ws : WorkOK(ns, ws) => WorkOK(ms, ws)
         /\ \A q : AnswersOK(ns, q) => AnswersOK(ms, q)
         /\ \A q : RequestsOK(ns, q) => RequestsOK(ms, q)
  <1>1. \A i \in 1..Len(ns) : i \in 1..Len(ms) /\ ms[i] = ns[i]
    BY Added
  <1>2. \A parent, path : Under(ns, parent, path) => Under(ms, parent, path)
    BY <1>1 DEF Under
  <1>3. \A id, el, parent : Names(ns, id, el, parent) => Names(ms, id, el, parent)
    BY <1>1, <1>2 DEF Names
  <1>4. \A n : Askable(ns, n) => Askable(ms, n)
    BY <1>1 DEF Askable
  <1>5. \A w : Finding(ns, w) => Finding(ms, w)
    BY <1>1, <1>2 DEF Finding
  <1> QED
    BY <1>3, <1>4, <1>5 DEF RowsOK, WorkOK, AnswersOK, RequestsOK

\* A message that is no answer, or one that names its element, may be written.
LEMMA AnswersMore ==
  ASSUME NEW ns, NEW q \in Seq(Message), AnswersOK(ns, q), NEW m \in Message,
         m.kind = "answer" => Names(ns, m.node, m.el, m.parent)
  PROVE  Append(q, m) \in Seq(Message) /\ AnswersOK(ns, Append(q, m))
  <1>1. /\ Append(q, m) \in Seq(Message) /\ Len(q) \in Nat
        /\ Len(Append(q, m)) = Len(q) + 1 /\ Append(q, m)[Len(q) + 1] = m
        /\ \A i \in 1..Len(q) : Append(q, m)[i] = q[i]
    BY Added
  <1> SUFFICES ASSUME NEW i \in 1..Len(Append(q, m))
               PROVE  Append(q, m)[i].kind = "answer" =>
                        Names(ns, Append(q, m)[i].node, Append(q, m)[i].el,
                              Append(q, m)[i].parent)
    BY <1>1 DEF AnswersOK
  <1>2. i \in 1..Len(q) \/ i = Len(q) + 1
    BY <1>1
  <1> QED
    BY <1>1, <1>2 DEF AnswersOK

\* The window reads one message after the other.
LEMMA AnswersTaken ==
  ASSUME NEW ns, NEW q \in Seq(Message), AnswersOK(ns, q), q # <<>>
  PROVE  /\ Tail(q) \in Seq(Message) /\ AnswersOK(ns, Tail(q))
         /\ Head(q) \in Message
         /\ Head(q).kind = "answer" =>
              Names(ns, Head(q).node, Head(q).el, Head(q).parent)
  BY Taken DEF AnswersOK

Asking == [id : Nat, node : Nat]

\* The same of the requests the host reads.
LEMMA RequestsMore ==
  ASSUME NEW ns, NEW q \in Seq(Asking), RequestsOK(ns, q), NEW r \in Asking,
         Askable(ns, r.node)
  PROVE  Append(q, r) \in Seq(Asking) /\ RequestsOK(ns, Append(q, r))
  <1>1. /\ Append(q, r) \in Seq(Asking) /\ Len(q) \in Nat
        /\ Len(Append(q, r)) = Len(q) + 1 /\ Append(q, r)[Len(q) + 1] = r
        /\ \A i \in 1..Len(q) : Append(q, r)[i] = q[i]
    BY Added
  <1> SUFFICES ASSUME NEW i \in 1..Len(Append(q, r))
               PROVE  Askable(ns, Append(q, r)[i].node)
    BY <1>1 DEF RequestsOK
  <1>2. i \in 1..Len(q) \/ i = Len(q) + 1
    BY <1>1
  <1> QED
    BY <1>1, <1>2 DEF RequestsOK

\* The request that is taken first is for a node that may be asked for, and
\* the rest stay as they were.
LEMMA RequestsTaken ==
  ASSUME NEW ns, NEW q \in Seq(Asking), RequestsOK(ns, q), q # <<>>
  PROVE  /\ Tail(q) \in Seq(Asking) /\ RequestsOK(ns, Tail(q))
         /\ Head(q) \in Asking /\ Askable(ns, Head(q).node)
  BY Taken DEF RequestsOK

-----------------------------------------------------------------------------
(* The tree of the window.                                                 *)

Trees == [loading : BOOLEAN, rows : SUBSET Row]

\* A loading flag is all that tree/loading changes.
LEMMA LoadingKeeps ==
  ASSUME NEW ns, NEW t \in Trees, RowsOK(ns, t.rows), NEW n, NEW on \in BOOLEAN
  PROVE  Loading(t, n, on) \in Trees /\ RowsOK(ns, Loading(t, n, on).rows)
         /\ (t.rows = {} => Loading(t, n, on).rows = {})
         /\ \A row \in Loading(t, n, on).rows :
              \E old \in t.rows : /\ row.id = old.id /\ row.el = old.el
                                  /\ row.parent = old.parent
  <1> DEFINE New(row) == IF row.id = n THEN [row EXCEPT !.loading = on] ELSE row
             rows == {New(row) : row \in t.rows}
             l == Loading(t, n, on)
  <1>1. \A row \in t.rows : /\ New(row) \in Row /\ New(row).id = row.id
                            /\ New(row).el = row.el /\ New(row).parent = row.parent
    BY DEF Trees, Row
  <1>2. CASE n = Root
    BY <1>2 DEF Loading, Trees
  <1>3. CASE n # Root
    <2>1. l = [t EXCEPT !.rows = rows]
      BY <1>3 DEF Loading
    <2> HIDE DEF l, New
    <2>2. l \in Trees /\ l.rows = rows
      BY <1>1, <2>1 DEF Trees
    <2>3. \A row \in rows : \E old \in t.rows :
            row.id = old.id /\ row.el = old.el /\ row.parent = old.parent
      BY <1>1
    <2>4. \A old \in t.rows : \E row \in rows :
            row.id = old.id /\ row.parent = old.parent
      BY <1>1
    <2> HIDE DEF rows
    <2>5. ASSUME NEW row \in rows
          PROVE  Names(ns, row.id, row.el, row.parent) /\ Rooted(rows, row)
      <3>1. PICK old \in t.rows :
              row.id = old.id /\ row.el = old.el /\ row.parent = old.parent
        BY <2>3
      <3>2. Names(ns, old.id, old.el, old.parent) /\ Rooted(t.rows, old)
        BY DEF RowsOK
      <3> QED
        BY <2>4, <3>1, <3>2 DEF Rooted
    <2>6. t.rows = {} => rows = {}
      BY <2>3
    <2> QED
      BY <2>2, <2>3, <2>5, <2>6 DEF l, RowsOK
  <1> QED
    BY <1>2, <1>3

\* A listing whose answer names its element and its parent is shown under it.
LEMMA UpdateKeeps ==
  ASSUME NEW ns, NEW t \in Trees, RowsOK(ns, t.rows), NEW row \in Row,
         Names(ns, row.id, row.el, row.parent)
  PROVE  /\ UpdateChildren(t, row.parent, row) \in Trees
         /\ RowsOK(ns, UpdateChildren(t, row.parent, row).rows)
  <1> DEFINE n == row.parent
             u == UpdateChildren(t, n, row)
  <1>1. CASE n = Root
    <2>1. u = [loading |-> FALSE, rows |-> {row}]
      BY <1>1 DEF UpdateChildren
    <2> QED
      BY <1>1, <2>1 DEF Trees, RowsOK, Rooted
  <1>2. CASE n # Root /\ \E r \in t.rows : r.id = n
    <2> DEFINE l == Loading(t, n, FALSE)
               rows == {r \in l.rows : r.parent # n} \union {row}
    <2>1. /\ l \in Trees /\ RowsOK(ns, l.rows)
      BY LoadingKeeps
    <2>2. u = [l EXCEPT !.rows = rows]
      BY <1>2 DEF UpdateChildren
    <2>3. PICK r \in l.rows : r.id = n
      <3>1. PICK old \in t.rows : old.id = n
        BY <1>2
      <3>2. l.rows = {IF q.id = n THEN [q EXCEPT !.loading = FALSE] ELSE q : q \in t.rows}
        BY <1>2 DEF Loading, Trees
      <3>3. [old EXCEPT !.loading = FALSE] \in l.rows
        BY <3>1, <3>2
      <3>4. [old EXCEPT !.loading = FALSE].id = n
        BY <3>1 DEF Trees, Row
      <3> QED
        BY <3>3, <3>4
    <2> HIDE DEF l, u
    <2>4. u \in Trees /\ u.rows = rows
      BY <2>1, <2>2 DEF Trees
    <2>5. r.parent = Root
      <3>1. ns[n].path \in Tops
        BY <1>2 DEF Names, Under, Tops, Datas
      <3>2. r.el.path \in Tops
        BY <2>1, <2>3, <3>1 DEF RowsOK, Names
      <3> QED
        BY <2>1, <3>2, PathsApart DEF RowsOK, Names, Under
    <2>6. ASSUME NEW q \in rows
          PROVE  Names(ns, q.id, q.el, q.parent) /\ Rooted(rows, q)
      <3>1. CASE q = row
        BY <1>2, <2>3, <2>5, <3>1 DEF Rooted
      <3>2. CASE q \in l.rows
        <4>1. Names(ns, q.id, q.el, q.parent) /\ Rooted(l.rows, q)
          BY <2>1, <3>2 DEF RowsOK
        <4>2. \A above \in l.rows : above.parent = Root => above \in rows
          BY <1>2
        <4> QED
          BY <4>1, <4>2 DEF Rooted
      <3> QED
        BY <3>1, <3>2
    <2> QED
      BY <2>4, <2>6 DEF RowsOK, u
  <1>3. CASE n # Root /\ ~(\E r \in t.rows : r.id = n)
    BY <1>3 DEF UpdateChildren
  <1> QED
    BY <1>1, <1>2, <1>3

-----------------------------------------------------------------------------
(* The steps.                                                              *)

\* What the invariant says of a view with one registration at most.
Facts ==
  /\ up \in BOOLEAN
  /\ nodes \in [Registrations -> Seq(Element)] /\ nodes[1] \in Seq(Element)
  /\ 1 \in Registrations
  /\ data \in Datas /\ work \subseteq Work /\ tree \in Trees
  /\ pending \subseteq Request /\ requested \in Nat /\ clicks \in 0..MaxClicks
  /\ toUi \in Seq(Message) /\ toHost \in Seq(Asking)

\* What the types say of the parts, in the terms of these proofs.
LEMMA FactsHold ==
  ASSUME TreeTypeOK
  PROVE  Facts
  BY TreeViewsAssumption DEF TreeTypeOK, Facts, Trees, Asking, Registrations

\* Elements of the nodes are elements.
LEMMA NodeType ==
  ASSUME Facts, NEW n \in 1..Len(nodes[1])
  PROVE  nodes[1][n] \in Element
  BY ElementOfSeq DEF Facts

\* resolveTreeChildren for the root or for a row that may be expanded.
LEMMA AskKeeps ==
  ASSUME Facts, Consistent, registered = 1, NEW t \in Trees, RowsOK(nodes[1], t.rows),
         NEW n \in Nat, Askable(nodes[1], n), Ask(t, n)
  PROVE  /\ tree' \in Trees /\ RowsOK(nodes[1], tree'.rows)
         /\ pending' \subseteq Request /\ requested' \in Nat
         /\ toHost' \in Seq(Asking) /\ RequestsOK(nodes[1], toHost')
  <1>1. tree' = Loading(t, n, up)
    BY DEF Ask
  <1>2. tree' \in Trees /\ RowsOK(nodes[1], tree'.rows)
    BY <1>1, LoadingKeeps DEF Facts
  <1>3. pending' \subseteq Request /\ requested' \in Nat
    BY DEF Ask, Request, Facts
  <1>4. toHost' \in Seq(Asking) /\ RequestsOK(nodes[1], toHost')
    <2> DEFINE r == [id |-> requested, node |-> n]
    <2>1. r \in Asking /\ r.node = n
      BY DEF Facts, Asking
    <2>2. toHost' = IF up THEN Append(toHost, r) ELSE toHost
      BY DEF Ask
    <2> HIDE DEF r
    <2> QED
      BY <2>1, <2>2, RequestsMore DEF Facts, Consistent
  <1> QED
    BY <1>2, <1>3, <1>4

\* A first registration is told to the window.
LEMMA CreateTreeViewInv ==
  ASSUME IInv, CreateTreeView
  PROVE  IInv'
  <1>1. registered' = registered + 1 /\ registered' \in 0..MaxRegistrations
    BY TreeViewsAssumption DEF CreateTreeView, IInv
  <1> SUFFICES ASSUME registered' <= 1
               PROVE  TreeTypeOK' /\ Consistent'
    BY <1>1 DEF IInv
  <1>2. registered = 0 /\ registered <= 1
    BY <1>1 DEF IInv
  <1>3. Facts /\ Consistent /\ TreeTypeOK
    BY <1>2, FactsHold DEF IInv
  <1> DEFINE m == [kind |-> "create"]
  <1>4. m \in Message /\ m.kind # "answer"
    BY DEF Message
  <1>5. toUi' = Append(toUi, m)
    BY DEF CreateTreeView
  <1> HIDE DEF m
  <1>6. toUi' \in Seq(Message) /\ AnswersOK(nodes[1], toUi')
    BY <1>3, <1>4, <1>5, AnswersMore DEF Facts, Consistent
  <1>7. TreeTypeOK'
    BY <1>1, <1>3, <1>6 DEF TreeTypeOK, CreateTreeView, treeUiVars
  <1>8. Consistent'
    BY <1>1, <1>2, <1>3, <1>6 DEF Consistent, CreateTreeView, treeUiVars, Quiet
  <1> QED
    BY <1>7, <1>8

\* A refresh is told to the window.
LEMMA ChangeInv ==
  ASSUME IInv, Change
  PROVE  IInv'
  <1> SUFFICES ASSUME registered <= 1
               PROVE  TreeTypeOK' /\ Consistent'
    BY DEF IInv, Change
  <1>1. Facts /\ Consistent /\ TreeTypeOK /\ registered = 1
    BY FactsHold DEF IInv, Change
  <1> DEFINE m == [kind |-> "refresh"]
  <1>2. m \in Message /\ m.kind # "answer"
    BY DEF Message
  <1>3. toUi' = Append(toUi, m)
    BY DEF Change
  <1> HIDE DEF m
  <1>4. toUi' \in Seq(Message) /\ AnswersOK(nodes[1], toUi')
    BY <1>1, <1>2, <1>3, AnswersMore DEF Facts, Consistent
  <1>5. data' \in Datas
    BY <1>1, TreeViewsAssumption DEF Change, Facts, Datas
  <1> QED
    BY <1>1, <1>4, <1>5 DEF TreeTypeOK, Consistent, Change, treeUiVars, Quiet

\* A request is looked up in the nodes of the registration.
LEMMA TakeRequestInv ==
  ASSUME IInv, TakeRequest
  PROVE  IInv'
  <1> SUFFICES ASSUME registered <= 1
               PROVE  TreeTypeOK' /\ Consistent'
    BY DEF IInv, TakeRequest
  <1>1. Facts /\ Consistent /\ TreeTypeOK /\ registered = 1
    BY FactsHold DEF IInv, TakeRequest, Consistent, Quiet
  <1> DEFINE r     == Head(toHost)
             known == r.node \in 1..Len(nodes[1])
             w     == [id |-> r.id, node |-> r.node, reg |-> 1, stage |-> "called",
                       path |-> IF known THEN nodes[1][r.node].path ELSE <<>>]
             m     == [kind |-> "error", id |-> r.id]
  <1>2. /\ toHost' = Tail(toHost) /\ toHost # <<>>
        /\ \/ /\ r.node = Root \/ known
              /\ work' = work \union {w} /\ toUi' = toUi
           \/ toUi' = Append(toUi, m) /\ work' = work
    BY <1>1 DEF TakeRequest
  <1>3. /\ toHost' \in Seq(Asking) /\ RequestsOK(nodes[1], toHost')
        /\ r \in Asking /\ Askable(nodes[1], r.node)
    BY <1>1, <1>2, RequestsTaken DEF Facts, Consistent
  <1> HIDE DEF r
  <1>4. m \in Message /\ m.kind # "answer"
    BY <1>3 DEF Message, Asking
  <1>5. toUi' \in Seq(Message) /\ AnswersOK(nodes[1], toUi')
    <2> HIDE DEF m
    <2> QED
      BY <1>1, <1>2, <1>4, AnswersMore DEF Facts, Consistent
  <1>6. /\ w.reg = 1 /\ w.stage = "called" /\ w.node = r.node
        /\ w.path = IF known THEN nodes[1][r.node].path ELSE <<>>
    OBVIOUS
  <1>7. w.path \in {<<>>} \union Paths
    <2>1. known => nodes[1][r.node].path \in Paths
      BY <1>1, NodeType DEF Element
    <2> QED
      BY <2>1
  <1>8. w \in Work
    BY <1>1, <1>3, <1>7 DEF Work, Asking, Facts
  <1>9. (r.node = Root \/ known) => Finding(nodes[1], w)
    <2>1. ~(Root \in 1..Len(nodes[1]))
      BY DEF Root
    <2> QED
      BY <1>3, <1>6, <2>1 DEF Finding, Askable
  <1> HIDE DEF w, known
  <1>10. work' \subseteq Work /\ WorkOK(nodes[1], work')
    BY <1>1, <1>2, <1>6, <1>8, <1>9 DEF WorkOK, Facts, Consistent
  <1>11. TreeTypeOK'
    BY <1>1, <1>3, <1>5, <1>10 DEF TreeTypeOK, TakeRequest, treeUiVars, Asking
  <1>12. Consistent'
    BY <1>1, <1>3, <1>5, <1>10 DEF Consistent, TakeRequest, treeUiVars, Quiet
  <1> QED
    BY <1>11, <1>12

\* The provider lists children with what its data is at that moment.
LEMMA ListChildrenInv ==
  ASSUME IInv, NEW w \in work, ListChildren(w)
  PROVE  IInv'
  <1> SUFFICES ASSUME registered <= 1
               PROVE  TreeTypeOK' /\ Consistent'
    BY DEF IInv, ListChildren
  <1>1. Facts /\ Consistent /\ TreeTypeOK /\ registered = 1
    BY FactsHold DEF IInv, ListChildren, Consistent, Quiet
  <1> DEFINE path == Append(w.path, data)
             v    == [w EXCEPT !.stage = "listed", !.path = path]
  <1>2. w \in Work /\ w.reg = 1 /\ Finding(nodes[1], w) /\ w.stage = "called"
    BY <1>1 DEF Facts, Consistent, WorkOK, ListChildren
  <1>3. work' = (work \ {w}) \union {v}
    BY DEF ListChildren
  <1>4. Under(nodes[1], w.node, path)
    <2>1. CASE w.node = Root /\ w.path = <<>>
      <3>1. path = <<data>>
        BY <2>1
      <3> QED
        BY <1>1, <2>1, <3>1 DEF Under, Tops, Facts
    <2>2. CASE /\ w.node \in 1..Len(nodes[1])
               /\ w.path = nodes[1][w.node].path /\ w.path \in Tops
      <3>1. PICK d \in Datas : w.path = <<d>>
        BY <2>2 DEF Tops
      <3>2. path = <<d, data>>
        BY <3>1, TwoData
      <3>3. path \in Datas \X Datas /\ path[1] = d
        BY <1>1, <3>2 DEF Facts
      <3> QED
        BY <2>2, <3>1, <3>3 DEF Under
    <2> QED
      BY <1>2, <2>1, <2>2 DEF Finding
  <1> HIDE DEF path
  <1>5. path \in Paths
    BY <1>4 DEF Under, Tops, Paths
  <1>6. /\ v \in Work /\ v.reg = 1 /\ v.stage = "listed" /\ v.node = w.node
        /\ v.path = path
    BY <1>2, <1>5 DEF Work
  <1> HIDE DEF v
  <1>7. work' \subseteq Work /\ WorkOK(nodes[1], work')
    BY <1>1, <1>3, <1>4, <1>6 DEF WorkOK, Finding, Facts, Consistent
  <1>8. TreeTypeOK'
    BY <1>1, <1>7 DEF TreeTypeOK, ListChildren, treeUiVars
  <1>9. Consistent'
    BY <1>1, <1>7 DEF Consistent, ListChildren, treeUiVars, Quiet
  <1> QED
    BY <1>8, <1>9

\* A node gets the next number, which the answer carries.
LEMMA CreateNodeInv ==
  ASSUME IInv, NEW w \in work, CreateNode(w)
  PROVE  IInv'
  <1> SUFFICES ASSUME registered <= 1
               PROVE  TreeTypeOK' /\ Consistent'
    BY DEF IInv, CreateNode
  <1>1. Facts /\ Consistent /\ TreeTypeOK /\ registered = 1
    BY FactsHold DEF IInv, CreateNode, Consistent, Quiet
  <1>2. w \in Work /\ w.reg = 1 /\ Finding(nodes[1], w) /\ w.stage = "listed"
    BY <1>1 DEF Facts, Consistent, WorkOK, CreateNode
  <1>3. Under(nodes[1], w.node, w.path)
    BY <1>2 DEF Finding
  <1> DEFINE el == [reg |-> w.reg, path |-> w.path]
             ns == nodes[1]
             ms == Append(ns, el)
             id == Len(ns) + 1
             m  == Answer(w, id, el)
  <1>4. el \in Element /\ el.path = w.path /\ el.reg = 1
    <2>1. w.path \in Paths
      BY <1>3 DEF Under, Tops, Paths
    <2> QED
      BY <1>1, <1>2, <2>1 DEF Element, Facts
  <1>5. /\ nodes' = [nodes EXCEPT ![1] = ms] /\ toUi' = Append(toUi, m)
        /\ work' = work \ {w}
    BY <1>2 DEF CreateNode
  <1>6. ns \in Seq(Element)
    BY <1>1 DEF Facts
  <1> HIDE DEF el, ns
  <1>7. /\ ms \in Seq(Element) /\ Len(ns) \in Nat /\ Len(ms) = id /\ ms[id] = el
        /\ \A i \in 1..Len(ns) : ms[i] = ns[i]
    BY <1>4, <1>6, Added
  <1>8. /\ \A rows : RowsOK(ns, rows) => RowsOK(ms, rows)
        /\ \A ws : WorkOK(ns, ws) => WorkOK(ms, ws)
        /\ \A q : AnswersOK(ns, q) => AnswersOK(ms, q)
        /\ \A q : RequestsOK(ns, q) => RequestsOK(ms, q)
    BY <1>4, <1>6, NodesGrow
  <1>9. Names(ms, id, el, w.node)
    <2>1. Under(ms, w.node, w.path)
      BY <1>3, <1>7 DEF Under, ns
    <2> QED
      BY <1>4, <1>7, <2>1 DEF Names
  <1> HIDE DEF ms, id
  <1>10. /\ m \in Message /\ m.node = id /\ m.el = el /\ m.parent = w.node
    <2>1. w.id \in Nat /\ w.node \in Nat
      BY <1>2 DEF Work
    <2>2. id \in Nat
      BY <1>7 DEF id
    <2> QED
      BY <1>4, <2>1, <2>2 DEF Message, Answer
  <1> HIDE DEF m
  <1>11. toUi' \in Seq(Message) /\ AnswersOK(ms, toUi')
    BY <1>1, <1>5, <1>8, <1>9, <1>10, AnswersMore DEF Facts, Consistent, ns
  <1>12. nodes' \in [Registrations -> Seq(Element)] /\ nodes'[1] = ms
    BY <1>1, <1>5, <1>7 DEF Facts
  <1>13. \A i \in 1..Len(ms) : ms[i].reg = 1
    <2> SUFFICES ASSUME NEW i \in 1..Len(ms)
                 PROVE  ms[i].reg = 1
      OBVIOUS
    <2>1. i \in 1..Len(ns) \/ i = id
      BY <1>7 DEF id
    <2> QED
      BY <1>1, <1>4, <1>7, <2>1 DEF Consistent, ns
  <1>14. WorkOK(ms, work') /\ work' \subseteq Work
    BY <1>1, <1>5, <1>8 DEF WorkOK, Consistent, Facts, ns
  <1>15. RowsOK(ms, tree.rows) /\ RequestsOK(ms, toHost)
    BY <1>1, <1>8 DEF Consistent, ns
  <1>16. TreeTypeOK'
    BY <1>1, <1>11, <1>12, <1>14 DEF TreeTypeOK, CreateNode, treeUiVars
  <1>17. Consistent'
    BY <1>1, <1>11, <1>12, <1>13, <1>14, <1>15
       DEF Consistent, CreateNode, treeUiVars, Quiet
  <1> QED
    BY <1>16, <1>17

\* A provider that fails names nothing.
LEMMA ProviderFailsInv ==
  ASSUME IInv, NEW w \in work, ProviderFails(w)
  PROVE  IInv'
  <1> SUFFICES ASSUME registered <= 1
               PROVE  TreeTypeOK' /\ Consistent'
    BY DEF IInv, ProviderFails
  <1>1. Facts /\ Consistent /\ TreeTypeOK /\ registered = 1
    BY FactsHold DEF IInv, ProviderFails, Consistent, Quiet
  <1> DEFINE m == [kind |-> "error", id |-> w.id]
  <1>2. m \in Message /\ m.kind # "answer"
    BY <1>1 DEF Message, Facts, Work
  <1>3. toUi' = Append(toUi, m) /\ work' = work \ {w}
    BY DEF ProviderFails
  <1> HIDE DEF m
  <1>4. toUi' \in Seq(Message) /\ AnswersOK(nodes[1], toUi')
    BY <1>1, <1>2, <1>3, AnswersMore DEF Facts, Consistent
  <1>5. WorkOK(nodes[1], work') /\ work' \subseteq Work
    BY <1>1, <1>3 DEF WorkOK, Consistent, Facts
  <1>6. TreeTypeOK'
    BY <1>1, <1>4, <1>5 DEF TreeTypeOK, ProviderFails, treeUiVars
  <1>7. Consistent'
    BY <1>1, <1>4, <1>5 DEF Consistent, ProviderFails, treeUiVars, Quiet
  <1> QED
    BY <1>6, <1>7

\* What the host has numbered stays so when it exits.
LEMMA HostExitsInv ==
  ASSUME IInv, HostEnds
  PROVE  IInv'
  <1> SUFFICES ASSUME registered <= 1
               PROVE  TreeTypeOK' /\ Consistent'
    BY DEF IInv, HostEnds
  <1>1. Facts /\ Consistent /\ TreeTypeOK
    BY FactsHold DEF IInv
  <1>2. Len(<<>>) = 0 /\ <<>> \in Seq([id : Nat, node : Nat])
    OBVIOUS
  <1>3. TreeTypeOK'
    BY <1>1, <1>2 DEF TreeTypeOK, HostEnds, treeUiVars
  <1>4. Consistent'
    BY <1>1, <1>2
       DEF Consistent, HostEnds, treeUiVars, Quiet, WorkOK, RequestsOK
  <1> QED
    BY <1>3, <1>4

\* tree.create and tree.refresh ask for the root.
LEMMA ReceiveRootInv ==
  ASSUME IInv, ReceiveCreate \/ ReceiveRefresh
  PROVE  IInv'
  <1> SUFFICES ASSUME registered <= 1
               PROVE  TreeTypeOK' /\ Consistent'
    BY DEF IInv, ReceiveCreate, ReceiveRefresh, treeHostVars
  <1>1. Facts /\ Consistent /\ TreeTypeOK /\ registered = 1
    BY FactsHold DEF IInv, ReceiveCreate, ReceiveRefresh, Consistent, Quiet
  <1>2. toUi # <<>> /\ toUi' = Tail(toUi)
    BY DEF ReceiveCreate, ReceiveRefresh
  <1>3. toUi' \in Seq(Message) /\ AnswersOK(nodes[1], toUi')
    BY <1>1, <1>2, AnswersTaken DEF Facts, Consistent
  <1>4. \E t \in Trees : RowsOK(nodes[1], t.rows) /\ Ask(t, Root)
    <2>1. CASE ReceiveCreate
      <3>1. [loading |-> FALSE, rows |-> {}] \in Trees
        BY DEF Trees
      <3>2. RowsOK(nodes[1], [loading |-> FALSE, rows |-> {}].rows)
        BY DEF RowsOK
      <3> QED
        BY <2>1, <3>1, <3>2 DEF ReceiveCreate
    <2>2. CASE ReceiveRefresh
      BY <1>1, <2>2 DEF ReceiveRefresh, Facts, Consistent
    <2> QED
      BY <2>1, <2>2
  <1>5. /\ tree' \in Trees /\ RowsOK(nodes[1], tree'.rows)
        /\ pending' \subseteq Request /\ requested' \in Nat
        /\ toHost' \in Seq(Asking) /\ RequestsOK(nodes[1], toHost')
    <2>1. Root \in Nat /\ Askable(nodes[1], Root)
      BY DEF Root, Askable
    <2> QED
      BY <1>1, <1>4, <2>1, AskKeeps
  <1>6. UNCHANGED <<treeHostVars, clicks>>
    BY DEF ReceiveCreate, ReceiveRefresh
  <1>7. TreeTypeOK'
    BY <1>1, <1>3, <1>5, <1>6 DEF TreeTypeOK, treeHostVars, Trees, Asking
  <1>8. Consistent'
    BY <1>1, <1>3, <1>5, <1>6 DEF Consistent, treeHostVars, Quiet
  <1> QED
    BY <1>7, <1>8

\* A row that may be expanded is a root.
LEMMA ExpandInv ==
  ASSUME IInv, NEW row \in tree.rows, Expand(row)
  PROVE  IInv'
  <1> SUFFICES ASSUME registered <= 1
               PROVE  TreeTypeOK' /\ Consistent'
    BY DEF IInv, Expand, treeHostVars
  <1>1. Facts /\ Consistent /\ TreeTypeOK /\ registered = 1
    BY FactsHold DEF IInv, Consistent, Quiet
  <1>2. row.id \in Nat /\ Askable(nodes[1], row.id)
    <2>1. Names(nodes[1], row.id, row.el, row.parent) /\ row.parent = Root
      BY <1>1 DEF Consistent, RowsOK, Expand
    <2>2. row.el.path \in Tops
      BY <2>1 DEF Names, Under, Root
    <2> QED
      BY <2>1, <2>2 DEF Names, Askable
  <1>3. Ask(tree, row.id)
    BY DEF Expand
  <1>4. /\ tree' \in Trees /\ RowsOK(nodes[1], tree'.rows)
        /\ pending' \subseteq Request /\ requested' \in Nat
        /\ toHost' \in Seq(Asking) /\ RequestsOK(nodes[1], toHost')
    BY <1>1, <1>2, <1>3, AskKeeps DEF Facts, Consistent
  <1>5. clicks' \in 0..MaxClicks
    BY <1>1, TreeViewsAssumption DEF Expand, Facts
  <1>6. TreeTypeOK'
    BY <1>1, <1>4, <1>5 DEF TreeTypeOK, Expand, treeHostVars, Trees, Asking
  <1>7. Consistent'
    BY <1>1, <1>4 DEF Consistent, Expand, treeHostVars, Quiet
  <1> QED
    BY <1>6, <1>7

\* A row that is shown names the element it was listed with.
LEMMA ReceiveResponseInv ==
  ASSUME IInv, ReceiveResponse
  PROVE  IInv'
  <1> SUFFICES ASSUME registered <= 1
               PROVE  TreeTypeOK' /\ Consistent'
    BY DEF IInv, ReceiveResponse, treeHostVars
  <1>1. Facts /\ Consistent /\ TreeTypeOK /\ registered = 1
    BY FactsHold DEF IInv, ReceiveResponse, Consistent, Quiet
  <1> DEFINE m    == Head(toUi)
             mine == {r \in pending : r.id = m.id}
             n    == (CHOOSE r \in mine : TRUE).node
             row  == [id |-> m.node, el |-> m.el, parent |-> m.parent, loading |-> FALSE]
  <1>2. /\ toUi # <<>> /\ toUi' = Tail(toUi) /\ pending' = pending \ mine
        /\ m.kind \in {"answer", "error"}
        /\ \/ tree' = tree
           \/ tree' = Loading(tree, n, FALSE)
           \/ m.kind = "answer" /\ tree' = UpdateChildren(tree, m.parent, row)
    BY DEF ReceiveResponse
  <1>3. /\ toUi' \in Seq(Message) /\ AnswersOK(nodes[1], toUi')
        /\ m \in Message
        /\ m.kind = "answer" => Names(nodes[1], m.node, m.el, m.parent)
    BY <1>1, <1>2, AnswersTaken DEF Facts, Consistent
  <1> HIDE DEF m, n
  <1>4. m.kind = "answer" => /\ row \in Row /\ row.id = m.node /\ row.el = m.el
                             /\ row.parent = m.parent
    BY <1>3 DEF Message, Row
  <1> HIDE DEF row
  <1>5. tree' \in Trees /\ RowsOK(nodes[1], tree'.rows)
    <2>1. tree \in Trees /\ RowsOK(nodes[1], tree.rows)
      BY <1>1 DEF Facts, Consistent
    <2>2. CASE tree' = Loading(tree, n, FALSE)
      BY <2>1, <2>2, LoadingKeeps
    <2>3. CASE m.kind = "answer" /\ tree' = UpdateChildren(tree, m.parent, row)
      BY <1>3, <1>4, <2>1, <2>3, UpdateKeeps
    <2> QED
      BY <1>2, <2>1, <2>2, <2>3
  <1>6. pending' \subseteq Request
    BY <1>1, <1>2 DEF Facts
  <1>7. TreeTypeOK'
    BY <1>1, <1>3, <1>5, <1>6
       DEF TreeTypeOK, ReceiveResponse, treeHostVars, Trees
  <1>8. Consistent'
    BY <1>1, <1>3, <1>5 DEF Consistent, ReceiveResponse, treeHostVars, Quiet
  <1> QED
    BY <1>7, <1>8

\* A request that is given up leaves the rows as they are.
LEMMA TimeoutInv ==
  ASSUME IInv, NEW request \in pending, Timeout(request)
  PROVE  IInv'
  <1> SUFFICES ASSUME registered <= 1
               PROVE  TreeTypeOK' /\ Consistent'
    BY DEF IInv, Timeout, treeHostVars
  <1>1. Facts /\ Consistent /\ TreeTypeOK
    BY FactsHold DEF IInv
  <1>2. tree \in Trees /\ RowsOK(nodes[1], tree.rows)
    BY <1>1 DEF Facts, Consistent
  <1>3. tree' = tree \/ tree' = Loading(tree, request.node, FALSE)
    BY DEF Timeout
  <1>4. /\ tree' \in Trees /\ RowsOK(nodes[1], tree'.rows)
        /\ tree.rows = {} => tree'.rows = {}
    <2>1. CASE tree' = tree
      BY <1>2, <2>1
    <2>2. CASE tree' = Loading(tree, request.node, FALSE)
      BY <1>2, <2>2, LoadingKeeps
    <2> QED
      BY <1>3, <2>1, <2>2
  <1>5. pending' \subseteq Request
    BY <1>1 DEF Facts, Timeout
  <1>6. TreeTypeOK'
    BY <1>1, <1>4, <1>5 DEF TreeTypeOK, Timeout, treeHostVars, Trees
  <1>7. Consistent'
    BY <1>1, <1>4 DEF Consistent, Timeout, treeHostVars, Quiet
  <1> QED
    BY <1>6, <1>7

\* There is nothing initially.
LEMMA InitInv ==
  ASSUME TreeInit
  PROVE  IInv
  <1>1. /\ Len(<<>>) = 0 /\ <<>> \in Seq(Element) /\ <<>> \in Seq(Message)
        /\ <<>> \in Seq([id : Nat, node : Nat])
    OBVIOUS
  <1>2. 1 \in Registrations /\ 0 \in Datas /\ 0 \in 0..MaxClicks
        /\ 0 \in 0..MaxRegistrations
    BY TreeViewsAssumption DEF Registrations, Datas
  <1>3. nodes = [r \in Registrations |-> <<>>] /\ nodes[1] = <<>>
    BY <1>2 DEF TreeInit
  <1>4. TreeTypeOK
    BY <1>1, <1>2, <1>3 DEF TreeInit, TreeTypeOK
  <1>5. Consistent
    BY <1>1, <1>3
       DEF TreeInit, Consistent, RowsOK, WorkOK, AnswersOK, RequestsOK, Quiet
  <1> QED
    BY <1>2, <1>4, <1>5 DEF TreeInit, IInv

\* Every step keeps the invariant.
LEMMA NextInv ==
  ASSUME IInv, [TreeNext]_treeVars
  PROVE  IInv'
  <1>1. CASE TreeNext
    BY <1>1, CreateTreeViewInv, ChangeInv, TakeRequestInv, ListChildrenInv,
       CreateNodeInv, ProviderFailsInv, HostExitsInv, ReceiveRootInv,
       ReceiveResponseInv, ExpandInv, TimeoutInv
       DEF TreeNext, HostWorks, WindowReceives
  <1>2. CASE UNCHANGED treeVars
    BY <1>2
       DEF treeVars, treeHostVars, treeUiVars, IInv, TreeTypeOK, Consistent, Quiet
  <1> QED
    BY <1>1, <1>2

\* What is known of the tree and of the requests for it is always so.
LEMMA AlwaysInv == TreeSpec => []IInv
  <1>1. TreeInit => IInv
    BY InitInv
  <1>2. IInv /\ [TreeNext]_treeVars => IInv'
    BY NextInv
  <1> QED
    BY <1>1, <1>2, PTL DEF TreeSpec

-----------------------------------------------------------------------------
(* The theorems.                                                           *)

\* As long as the view has been registered once, all variables have their
\* types: elements are two levels deep, and whatever is asked for is there.
THEOREM TypeCorrect == TreeSpec => [](registered <= 1 => TreeTypeOK)
  <1>1. IInv => (registered <= 1 => TreeTypeOK)
    BY DEF IInv
  <1> QED
    BY <1>1, AlwaysInv, PTL

\* As long as the view has been registered once, the id of every row names, in
\* the host, the element the row shows, in whatever order refreshes,
\* expansions, answers, failures and time-outs come: a click reaches what the
\* user sees.
THEOREM ClicksReachTheirElement ==
  TreeSpec => [](registered <= 1 => IdsNameRows)
  <1>1. IInv => (registered <= 1 => IdsNameRows)
    <2> SUFFICES ASSUME IInv, registered <= 1, registered > 0, NEW row \in tree.rows
                 PROVE  row.id \in 1..Len(nodes[registered]) =>
                          nodes[registered][row.id] = row.el
      BY DEF IdsNameRows
    <2>1. registered = 1
      BY DEF IInv
    <2>2. Names(nodes[1], row.id, row.el, row.parent)
      BY DEF IInv, Consistent, RowsOK
    <2> QED
      BY <2>1, <2>2 DEF Names
  <1> QED
    BY <1>1, AlwaysInv, PTL

\* As long as the view has been registered once, children are shown under the
\* row they were listed for, also when their answer comes after the tree has
\* been listed again.
THEOREM ChildrenStayWithTheirParent ==
  TreeSpec => [](registered <= 1 => ChildrenUnderTheirParent)
  <1>1. IInv => (registered <= 1 => ChildrenUnderTheirParent)
    <2> SUFFICES ASSUME IInv, registered <= 1, NEW row \in tree.rows, row.parent # Root
                 PROVE  \E above \in tree.rows :
                          /\ above.id = row.parent
                          /\ above.el.reg = row.el.reg
                          /\ above.el.path[1] = row.el.path[1]
      BY DEF ChildrenUnderTheirParent
    <2>1. Consistent
      BY DEF IInv
    <2>2. Names(nodes[1], row.id, row.el, row.parent) /\ Rooted(tree.rows, row)
      BY <2>1 DEF Consistent, RowsOK
    <2>3. PICK above \in tree.rows : above.id = row.parent
      BY <2>2 DEF Rooted
    <2>4. Names(nodes[1], above.id, above.el, above.parent)
      BY <2>1 DEF Consistent, RowsOK
    <2>5. above.el.reg = 1 /\ row.el.reg = 1
      BY <2>1, <2>2, <2>4 DEF Names, Consistent
    <2>6. above.el.path = <<row.el.path[1]>>
      BY <2>2, <2>3, <2>4 DEF Names, Under
    <2> QED
      BY <2>3, <2>5, <2>6
  <1> QED
    BY <1>1, AlwaysInv, PTL
=============================================================================
