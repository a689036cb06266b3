-------------------------- MODULE EditorSync_proofs --------------------------
(***************************************************************************)
(* Proofs about EditorSync, for every set of documents and texts and every *)
(* number of inputs.                                                       *)
(***************************************************************************)
EXTENDS EditorSync, SequenceTheorems, TLAPS

-----------------------------------------------------------------------------
(* The inductive invariant.  Converged speaks of quiet documents only; what  *)
(* makes it inductive is what the messages on their way will do.             *)

\* Nothing in q will set the tab of d.
NoReport(q, d) == \A i \in 1..Len(q) : ~CarriesDocument(q[i], d)

\* The last message of q that sets the tab of d, if any, sets it to doc.
Current(q, d, doc) ==
  \A i \in 1..Len(q) :
    /\ CarriesDocument(q[i], d)
    /\ \A j \in 1..Len(q) : j > i => ~CarriesDocument(q[j], d)
    => q[i].doc = doc

\* The last edit of d in q leaves it with this text.
AheadBy(q, d, text) ==
  \E i \in 1..Len(q) :
    /\ IsEdit(q[i], d)
    /\ \A j \in 1..Len(q) : j > i => ~IsEdit(q[j], d)
    /\ q[i].doc.text = text

\* A response, an awaited continuation and a session each prove that the
\* window has opened the tab.
TabsOpen ==
  /\ \A i \in 1..Len(toHost) : toHost[i].kind = "response" => toHost[i].d \in tabs
  /\ \A i \in 1..Len(resolved) : resolved[i].d \in tabs
  /\ sessions \subseteq tabs

\* The sessions whose registered text the window was told last.
Told == sessions \ astray

\* The last message on its way to such a tab carries what the host has.
ReportsCurrent == \A d \in Told : Current(toUi, d, document[d])

\* When nothing is on its way to it, it differs from the host at most by the
\* last edit still on its way to the host.
OnlyEditsAhead ==
  \A d \in Told :
    NoReport(toUi, d) =>
      /\ view[d].version = document[d].version
      /\ view[d].text = document[d].text \/ AheadBy(toHost, d, view[d].text)

InFlight == TabsOpen /\ ReportsCurrent /\ OnlyEditsAhead
IInv     == TypeOK /\ InFlight

-----------------------------------------------------------------------------
(* Type correctness.                                                       *)

\* Every message the code builds is well typed.
LEMMA BlankType == Blank \in Snapshot
  BY EditorSyncAssumption DEF Blank, Snapshot

\* A message is one the pipe of its kind can hold.
LEMMA MessageTypes ==
  ASSUME NEW d \in Documents, NEW doc \in Snapshot, NEW id \in Nat
  PROVE  /\ \A kind \in UiKinds : Message(kind, d, doc, id) \in ToUiMessage
         /\ \A kind \in HostKinds : Message(kind, d, doc, id) \in ToHostMessage
  BY DEF Message, ToUiMessage, ToHostMessage

\* applyDocumentModelChange keeps the registry and the pipe well typed.
LEMMA ApplyModelChangeType ==
  ASSUME TypeOK, NEW d \in Documents, NEW text \in Texts,
         ApplyModelChange(d, text)
  PROVE  /\ document' \in [Documents -> Snapshot]
         /\ toUi' \in Seq(ToUiMessage)
         /\ astray' \in {astray, astray \union {d}, astray \ {d}}
  <1>1. CASE UNCHANGED <<document, toUi, astray>>
    BY <1>1 DEF TypeOK
  <1>2. ASSUME NEW final \in Texts, NEW n \in {1, 2},
               NEW doc, doc = [text |-> final, version |-> document[d].version + n],
               document' = [document EXCEPT ![d] = doc],
               NEW report, report = Message("changed", d, doc, 0),
               \/ toUi' = Append(toUi, report)
               \/ toUi' = Append(Append(toUi, report), report)
               \/ toUi' = toUi,
               astray' \in {astray \union {d}, astray \ {d}}
        PROVE  /\ document' \in [Documents -> Snapshot]
               /\ toUi' \in Seq(ToUiMessage)
               /\ astray' \in {astray, astray \union {d}, astray \ {d}}
    <2>1. doc \in Snapshot
      BY <1>2 DEF TypeOK, Snapshot
    <2>2. report \in ToUiMessage
      BY <1>2, <2>1, MessageTypes DEF UiKinds
    <2>3. document' \in [Documents -> Snapshot]
      BY <1>2, <2>1 DEF TypeOK
    <2>4. /\ toUi \in Seq(ToUiMessage)
          /\ Append(toUi, report) \in Seq(ToUiMessage)
      BY <2>2, AppendProperties DEF TypeOK
    <2>5. Append(Append(toUi, report), report) \in Seq(ToUiMessage)
      BY <2>2, <2>4, AppendProperties
    <2>6. QED
      BY <1>2, <2>3, <2>4, <2>5
  <1>3. QED
    BY <1>1, <1>2 DEF ApplyModelChange

\* The registry, the tabs and both pipes keep their types: every message names a
\* document and carries a snapshot with a version, whatever is shown and edited.
THEOREM TypeCorrect == Spec => []TypeOK
  <1>1. Init => TypeOK
    BY BlankType, EditorSyncAssumption DEF Init, TypeOK
  <1>2. TypeOK /\ [Next]_vars => TypeOK'
    <2> SUFFICES ASSUME TypeOK, [Next]_vars PROVE TypeOK'
      OBVIOUS
    <2>1. ASSUME NEW d \in Documents, ShowTextDocument(d) PROVE TypeOK'
      <3>1. PICK doc \in Shown(d) :
              /\ pending' = pending \union {[id |-> inputs, d |-> d, doc |-> doc]}
              /\ toUi' = Append(toUi, Message("show", d, doc, inputs))
        BY <2>1 DEF ShowTextDocument
      <3>2. doc \in Snapshot
        BY DEF Shown, FromDisk, Snapshot, TypeOK
      <3>3. Message("show", d, doc, inputs) \in ToUiMessage
        BY <3>2, MessageTypes DEF TypeOK, UiKinds
      <3>4. toUi' \in Seq(ToUiMessage)
        BY <3>1, <3>3, AppendProperties DEF TypeOK
      <3>5. pending' \subseteq Request
        BY <3>1, <3>2 DEF TypeOK, Request
      <3>6. astray' \subseteq sessions
        BY <2>1 DEF ShowTextDocument, TypeOK
      <3>7. QED
        BY <2>1, <3>4, <3>5, <3>6, EditorSyncAssumption
        DEF ShowTextDocument, TakeInput, TypeOK, uiVars
    <2>2. ASSUME NEW request \in pending, RequestTimeout(request) PROVE TypeOK'
      BY <2>2 DEF RequestTimeout, TypeOK, uiVars
    <2>3. ASSUME NEW d \in Documents, NEW text \in Texts, ExtensionEdit(d, text)
          PROVE  TypeOK'
      BY <2>3, ApplyModelChangeType, EditorSyncAssumption
      DEF ExtensionEdit, TakeInput, TypeOK, uiVars
    <2>4. ASSUME NEW text \in Texts, UiEdit(text) PROVE TypeOK'
      <3> DEFINE doc == [view[activeTab] EXCEPT !.text = text]
                 m   == Message("edit", activeTab, doc, 0)
      <3>1. activeTab \in Documents
        BY <2>4 DEF UiEdit, TypeOK
      <3>2. doc \in Snapshot
        BY <3>1 DEF TypeOK, Snapshot
      <3>3. m \in ToHostMessage
        BY <3>1, <3>2, MessageTypes DEF HostKinds
      <3>4. toHost' \in Seq(ToHostMessage)
        BY <2>4, <3>3, AppendProperties DEF UiEdit, TypeOK
      <3>5. view' \in [Documents -> Snapshot]
        BY <2>4, <3>1, <3>2 DEF UiEdit, TypeOK
      <3>6. QED
        BY <2>4, <3>4, <3>5, EditorSyncAssumption
        DEF UiEdit, TakeInput, TypeOK, hostVars
    <2>5. ASSUME NEW d \in Documents, UiActivate(d) PROVE TypeOK'
      <3>1. Message("activate", d, Blank, 0) \in ToHostMessage
        BY MessageTypes, BlankType DEF HostKinds
      <3>2. toHost' \in Seq(ToHostMessage)
        BY <2>5, <3>1, AppendProperties DEF UiActivate, TypeOK
      <3>3. QED
        BY <2>5, <3>2, EditorSyncAssumption
        DEF UiActivate, TakeInput, TypeOK, hostVars
    <2>6. CASE FinishShow
      <3> DEFINE d      == Head(resolved).d
                 doc    == Head(resolved).doc
                 m1     == Message("opened", d, doc, 0)
                 m2     == Message("active", d, Blank, 0)
                 opened == IF d \in sessions THEN toUi ELSE Append(toUi, m1)
      <3>1. Head(resolved) \in Request /\ Tail(resolved) \in Seq(Request)
        BY <2>6, HeadTailProperties DEF FinishShow, TypeOK
      <3>2. d \in Documents /\ doc \in Snapshot
        BY <3>1 DEF Request
      <3>3. m1 \in ToUiMessage /\ m2 \in ToUiMessage
        BY <3>2, MessageTypes, BlankType DEF UiKinds
      <3>4. opened \in Seq(ToUiMessage)
        BY <3>3, AppendProperties DEF TypeOK
      <3>5. toUi' = opened \/ toUi' = Append(opened, m2)
        BY <2>6 DEF FinishShow
      <3>6. toUi' \in Seq(ToUiMessage)
        BY <3>3, <3>4, <3>5, AppendProperties
      <3>7. document' \in [Documents -> Snapshot]
        BY <2>6, <3>2 DEF FinishShow, TypeOK
      <3>8. QED
        BY <2>6, <3>1, <3>2, <3>6, <3>7 DEF FinishShow, TypeOK, uiVars
    <2>7. CASE HostReceives
      <3>1. ASSUME toHost # <<>>
            PROVE  /\ Head(toHost) \in ToHostMessage
                   /\ Tail(toHost) \in Seq(ToHostMessage)
        BY <3>1, HeadTailProperties DEF TypeOK
      <3>2. CASE ReceiveShowResponse
        <4> DEFINE m       == Head(toHost)
                   request == [id |-> m.id, d |-> m.d, doc |-> m.doc]
        <4>1. request \in Request
          BY <3>1, <3>2 DEF ReceiveShowResponse, ToHostMessage, Request
        <4>2. pending' \subseteq Request
          BY <3>2 DEF ReceiveShowResponse, TypeOK
        <4>3. Append(resolved, request) \in Seq(Request)
          BY <4>1, AppendProperties DEF TypeOK
        <4>4. resolved' \in Seq(Request)
          BY <3>2, <4>3 DEF ReceiveShowResponse, TypeOK
        <4>5. QED
          BY <3>1, <3>2, <4>2, <4>4 DEF ReceiveShowResponse, TypeOK, uiVars
      <3>3. CASE ReceiveUiDocument
        <4>1. Head(toHost).d \in Documents /\ Head(toHost).doc.text \in Texts
          BY <3>1, <3>3 DEF ReceiveUiDocument, ToHostMessage, Snapshot
        <4>2. /\ document' \in [Documents -> Snapshot] /\ toUi' \in Seq(ToUiMessage)
              /\ astray' \subseteq sessions
          <5>1. CASE Head(toHost).d \in sessions
            <6>1. ApplyModelChange(Head(toHost).d, Head(toHost).doc.text)
              BY <3>3, <5>1 DEF ReceiveUiDocument
            <6>2. QED
              BY <4>1, <5>1, <6>1, ApplyModelChangeType DEF TypeOK
          <5>2. CASE Head(toHost).d \notin sessions
            BY <3>3, <5>2 DEF ReceiveUiDocument, TypeOK
          <5>3. QED
            BY <5>1, <5>2
        <4>3. QED
          BY <3>1, <3>3, <4>2 DEF ReceiveUiDocument, TypeOK, uiVars
      <3>4. CASE ReceiveUiActivate
        BY <3>1, <3>4 DEF ReceiveUiActivate, TypeOK, uiVars
      <3>5. QED
        BY <2>7, <3>2, <3>3, <3>4 DEF HostReceives
    <2>8. CASE UiReceives
      <3>1. ASSUME toUi # <<>>
            PROVE  /\ Head(toUi).d \in Documents
                   /\ Head(toUi).doc \in Snapshot
                   /\ Head(toUi).id \in Nat
                   /\ Tail(toUi) \in Seq(ToUiMessage)
        <4>1. Head(toUi) \in ToUiMessage /\ Tail(toUi) \in Seq(ToUiMessage)
          BY <3>1, HeadTailProperties DEF TypeOK
        <4>2. QED
          BY <4>1 DEF ToUiMessage
      <3>2. CASE ReceiveShowRequest
        <4> DEFINE m == Head(toUi)
        <4>1. m.d \in Documents /\ m.doc \in Snapshot /\ m.id \in Nat
          BY <3>1, <3>2 DEF ReceiveShowRequest
        <4> DEFINE answer == Message("response", m.d, m.doc, m.id)
        <4>2. answer \in ToHostMessage
          <5> HIDE DEF m
          <5> QED BY <4>1, MessageTypes DEF HostKinds
        <4>3. toHost' = Append(toHost, answer)
          BY <3>2 DEF ReceiveShowRequest
        <4>4. toHost' \in Seq(ToHostMessage)
          <5> HIDE DEF answer
          <5> QED BY <4>2, <4>3, AppendProperties DEF TypeOK
        <4>5. QED
          BY <3>1, <3>2, <4>4 DEF ReceiveShowRequest, OpenTab, TypeOK, hostVars
      <3>3. CASE ReceiveSessionOpened
        BY <3>1, <3>3 DEF ReceiveSessionOpened, OpenTab, TypeOK, hostVars
      <3>4. CASE ReceiveActiveChanged
        BY <3>1, <3>4 DEF ReceiveActiveChanged, TypeOK, hostVars
      <3>5. CASE ReceiveDocumentChanged
        BY <3>1, <3>5 DEF ReceiveDocumentChanged, TypeOK, hostVars
      <3>6. QED
        BY <2>8, <3>2, <3>3, <3>4, <3>5 DEF UiReceives
    <2>9. CASE UNCHANGED vars
      BY <2>9 DEF vars, hostVars, uiVars, TypeOK
    <2>10. QED
      BY <2>1, <2>2, <2>3, <2>4, <2>5, <2>6, <2>7, <2>8, <2>9 DEF Next
  <1>3. QED
    BY <1>1, <1>2, PTL DEF Spec
-----------------------------------------------------------------------------
(* How sending and receiving change what is on its way.                    *)

\* Sending to the window makes the message the newest report of its document.
LEMMA ReportAppended ==
  ASSUME NEW S, NEW q \in Seq(S), NEW m \in S, NEW d, NEW doc
  PROVE  /\ CarriesDocument(m, d) => ~NoReport(Append(q, m), d)
         /\ CarriesDocument(m, d) /\ m.doc = doc => Current(Append(q, m), d, doc)
         /\ ~CarriesDocument(m, d) /\ Current(q, d, doc)
              => Current(Append(q, m), d, doc)
         /\ NoReport(Append(q, m), d) => NoReport(q, d)
  <1> DEFINE r == Append(q, m)
             n == Len(q)
  <1>1. /\ n \in Nat /\ Len(r) = n + 1 /\ r[n + 1] = m
        /\ \A i \in 1..n : r[i] = q[i]
    BY AppendProperties, LenProperties
  <1> HIDE DEF r, n
  <1>2. CarriesDocument(m, d) => ~NoReport(r, d)
    BY <1>1 DEF NoReport
  <1>3. CarriesDocument(m, d) /\ m.doc = doc => Current(r, d, doc)
    BY <1>1 DEF Current
  <1>4. ASSUME ~CarriesDocument(m, d), Current(q, d, doc) PROVE Current(r, d, doc)
    <2> SUFFICES ASSUME NEW i \in 1..Len(r), CarriesDocument(r[i], d),
                        \A j \in 1..Len(r) : j > i => ~CarriesDocument(r[j], d)
                 PROVE  r[i].doc = doc
      BY DEF Current
    <2>1. i # n + 1
      BY <1>1, <1>4
    <2>2. i \in 1..n /\ r[i] = q[i]
      BY <1>1, <2>1
    <2>3. \A j \in 1..n : j > i => ~CarriesDocument(q[j], d)
      BY <1>1
    <2>4. QED
      BY <1>4, <2>2, <2>3 DEF Current, n
  <1>5. NoReport(r, d) => NoReport(q, d)
    BY <1>1 DEF NoReport, n
  <1>6. QED
    BY <1>2, <1>3, <1>4, <1>5 DEF r

\* The window takes the oldest message, which is the newest report of its
\* document only when no other report follows it.
LEMMA ReportTaken ==
  ASSUME NEW S, NEW q \in Seq(S), q # <<>>, NEW d, NEW doc
  PROVE  /\ Current(q, d, doc) => Current(Tail(q), d, doc)
         /\ NoReport(Tail(q), d) /\ ~CarriesDocument(Head(q), d) => NoReport(q, d)
         /\ NoReport(Tail(q), d) /\ CarriesDocument(Head(q), d) /\ Current(q, d, doc)
              => Head(q).doc = doc
  <1> DEFINE r == Tail(q)
             n == Len(q)
  <1>1. /\ n \in Nat \ {0} /\ Len(r) = n - 1 /\ Head(q) = q[1]
        /\ \A i \in 1..(n - 1) : r[i] = q[i + 1]
    BY HeadTailProperties, EmptySeq
  <1> HIDE DEF r, n
  <1>2. ASSUME Current(q, d, doc) PROVE Current(r, d, doc)
    <2> SUFFICES ASSUME NEW i \in 1..Len(r), CarriesDocument(r[i], d),
                        \A j \in 1..Len(r) : j > i => ~CarriesDocument(r[j], d)
                 PROVE  r[i].doc = doc
      BY DEF Current
    <2>1. i + 1 \in 1..n /\ r[i] = q[i + 1]
      BY <1>1
    <2>2. ASSUME NEW j \in 1..n, j > i + 1 PROVE ~CarriesDocument(q[j], d)
      <3>1. j - 1 \in 1..Len(r) /\ j - 1 > i /\ r[j - 1] = q[j]
        BY <1>1, <2>2
      <3>2. QED
        BY <3>1
    <2>3. QED
      BY <1>2, <2>1, <2>2 DEF Current, n
  <1>3. ASSUME NoReport(r, d) PROVE \A j \in 2..n : ~CarriesDocument(q[j], d)
    <2> TAKE j \in 2..n
    <2>1. j - 1 \in 1..Len(r) /\ r[j - 1] = q[j]
      BY <1>1
    <2>2. QED
      BY <1>3, <2>1 DEF NoReport
  <1>4. NoReport(r, d) /\ ~CarriesDocument(Head(q), d) => NoReport(q, d)
    BY <1>1, <1>3 DEF NoReport, n
  <1>5. NoReport(r, d) /\ CarriesDocument(Head(q), d) /\ Current(q, d, doc)
          => Head(q).doc = doc
    BY <1>1, <1>3 DEF Current, n
  <1>6. QED
    BY <1>2, <1>4, <1>5 DEF r

\* Sending an edit to the host makes it the newest edit of its document.
LEMMA EditAppended ==
  ASSUME NEW S, NEW q \in Seq(S), NEW m \in S, NEW d, NEW text
  PROVE  /\ IsEdit(m, d) => AheadBy(Append(q, m), d, m.doc.text)
         /\ ~IsEdit(m, d) /\ AheadBy(q, d, text) => AheadBy(Append(q, m), d, text)
  <1> DEFINE r == Append(q, m)
             n == Len(q)
  <1>1. /\ n \in Nat /\ Len(r) = n + 1 /\ r[n + 1] = m
        /\ \A i \in 1..n : r[i] = q[i]
    BY AppendProperties, LenProperties
  <1> HIDE DEF r, n
  <1>2. IsEdit(m, d) => AheadBy(r, d, m.doc.text)
    BY <1>1 DEF AheadBy
  <1>3. ASSUME ~IsEdit(m, d), AheadBy(q, d, text) PROVE AheadBy(r, d, text)
    <2>1. PICK i \in 1..n : /\ IsEdit(q[i], d)
                            /\ \A j \in 1..n : j > i => ~IsEdit(q[j], d)
                            /\ q[i].doc.text = text
      BY <1>3 DEF AheadBy, n
    <2>2. \A j \in 1..Len(r) : j > i => ~IsEdit(r[j], d)
      BY <1>1, <1>3, <2>1
    <2>3. i \in 1..Len(r) /\ r[i] = q[i]
      BY <1>1
    <2>4. QED
      BY <2>1, <2>2, <2>3 DEF AheadBy
  <1>4. QED
    BY <1>2, <1>3 DEF r

\* The host takes the newest edit of a document only when it is the last one.
LEMMA EditTaken ==
  ASSUME NEW S, NEW q \in Seq(S), q # <<>>, NEW d, NEW text, AheadBy(q, d, text)
  PROVE  \/ AheadBy(Tail(q), d, text)
         \/ IsEdit(Head(q), d) /\ Head(q).doc.text = text
  <1> DEFINE r == Tail(q)
             n == Len(q)
  <1>1. /\ n \in Nat \ {0} /\ Len(r) = n - 1 /\ Head(q) = q[1]
        /\ \A i \in 1..(n - 1) : r[i] = q[i + 1]
    BY HeadTailProperties, EmptySeq
  <1> HIDE DEF r, n
  <1>2. PICK i \in 1..n : /\ IsEdit(q[i], d)
                          /\ \A j \in 1..n : j > i => ~IsEdit(q[j], d)
                          /\ q[i].doc.text = text
    BY DEF AheadBy, n
  <1>3. CASE i = 1
    BY <1>1, <1>2, <1>3
  <1>4. CASE i # 1
    <2>1. i - 1 \in 1..Len(r) /\ r[i - 1] = q[i]
      BY <1>1, <1>4
    <2>2. \A j \in 1..Len(r) : j > i - 1 => ~IsEdit(r[j], d)
      BY <1>1, <1>2
    <2>3. AheadBy(r, d, text)
      BY <1>2, <2>1, <2>2 DEF AheadBy
    <2>4. QED
      BY <2>3 DEF r
  <1>5. QED
    BY <1>3, <1>4

\* What a pipe holds after a send.
LEMMA MembersAppended ==
  ASSUME NEW S, NEW q \in Seq(S), NEW m \in S
  PROVE  \A i \in 1..Len(Append(q, m)) :
           \/ Append(q, m)[i] = m
           \/ \E j \in 1..Len(q) : Append(q, m)[i] = q[j]
  BY AppendProperties, LenProperties

\* What a pipe holds after its reader has taken a message.
LEMMA MembersTaken ==
  ASSUME NEW S, NEW q \in Seq(S), q # <<>>
  PROVE  /\ \A i \in 1..Len(Tail(q)) : \E j \in 1..Len(q) : Tail(q)[i] = q[j]
         /\ \E j \in 1..Len(q) : Head(q) = q[j]
  <1>1. /\ Len(q) \in Nat \ {0} /\ Len(Tail(q)) = Len(q) - 1 /\ Head(q) = q[1]
        /\ \A i \in 1..(Len(q) - 1) : Tail(q)[i] = q[i + 1]
    BY HeadTailProperties, EmptySeq
  <1>2. \A i \in 1..Len(Tail(q)) : i + 1 \in 1..Len(q) /\ Tail(q)[i] = q[i + 1]
    BY <1>1
  <1>3. QED
    BY <1>1, <1>2

\* applyDocumentModelChange leaves no tab behind that was told of its document,
\* except by a report lost in a listener: a document that changed has its report
\* on the way.
LEMMA ApplyModelChangeReports ==
  ASSUME TypeOK, NEW d \in Documents, NEW text \in Texts,
         ApplyModelChange(d, text), NEW e \in Documents, e \notin astray',
         e \notin astray => Current(toUi, e, document[e])
  PROVE  /\ Current(toUi', e, document'[e])
         /\ NoReport(toUi', e) => /\ e \notin astray /\ NoReport(toUi, e)
                                  /\ document'[e] = document[e]
                                  /\ e = d => document[d].text = text
  <1>1. CASE document[d].text = text /\ UNCHANGED <<document, toUi, astray>>
    BY <1>1
  <1>2. ASSUME NEW final \in Texts, NEW n \in {1, 2},
               NEW doc, doc = [text |-> final, version |-> document[d].version + n],
               document' = [document EXCEPT ![d] = doc],
               NEW report, report = Message("changed", d, doc, 0),
               \/ /\ \/ toUi' = Append(toUi, report)
                     \/ toUi' = Append(Append(toUi, report), report)
                  /\ astray' = astray \ {d}
               \/ UNCHANGED toUi /\ astray' = astray \union {d}
        PROVE  /\ Current(toUi', e, document'[e])
               /\ NoReport(toUi', e) => /\ e \notin astray /\ NoReport(toUi, e)
                                        /\ document'[e] = document[e]
                                        /\ e = d => document[d].text = text
    <2>1. doc \in Snapshot
      BY <1>2 DEF TypeOK, Snapshot
    <2>2. report \in ToUiMessage
      BY <1>2, <2>1, MessageTypes DEF UiKinds
    <2>3. /\ toUi \in Seq(ToUiMessage)
          /\ Append(toUi, report) \in Seq(ToUiMessage)
      BY <2>2, AppendProperties DEF TypeOK
    <2>4. /\ report.doc = doc
          /\ CarriesDocument(report, e) <=> e = d
      BY <1>2 DEF Message, CarriesDocument
    <2>5. document'[e] = IF e = d THEN doc ELSE document[e]
      BY <1>2 DEF TypeOK
    <2>6. CASE e = d
      <3>1. \/ toUi' = Append(toUi, report)
            \/ toUi' = Append(Append(toUi, report), report)
        BY <1>2, <2>6
      <3>2. Current(toUi', e, doc) /\ ~NoReport(toUi', e)
        BY <2>2, <2>3, <2>4, <2>6, <3>1, ReportAppended
      <3>3. QED
        BY <2>5, <2>6, <3>2
    <2>7. CASE e # d
      <3>1. e \notin astray /\ ~CarriesDocument(report, e) /\ document'[e] = document[e]
        BY <1>2, <2>4, <2>5, <2>7
      <3>2. Current(toUi, e, document[e])
        BY <3>1
      <3>3. /\ Current(Append(toUi, report), e, document[e])
            /\ NoReport(Append(toUi, report), e) => NoReport(toUi, e)
        BY <2>2, <2>3, <3>1, <3>2, ReportAppended
      <3> DEFINE r == Append(toUi, report)
      <3>4. /\ Current(Append(r, report), e, document[e])
            /\ NoReport(Append(r, report), e) => NoReport(r, e)
        <4>1. r \in Seq(ToUiMessage) /\ Current(r, e, document[e])
          BY <2>3, <3>3
        <4> HIDE DEF r
        <4>2. QED
          BY <2>2, <3>1, <4>1, ReportAppended
      <3>5. QED
        BY <1>2, <2>7, <3>1, <3>2, <3>3, <3>4
    <2>8. QED
      BY <2>6, <2>7
  <1>3. QED
    BY <1>1, <1>2 DEF ApplyModelChange
-----------------------------------------------------------------------------
(* The invariant is inductive: one lemma per action.                       *)

\* A show of the registered document is a current report, a show of another one
\* leaves the tab astray.
LEMMA ShowTextDocumentKeeps ==
  ASSUME IInv, TypeOK', NEW d \in Documents, ShowTextDocument(d)
  PROVE  InFlight'
  <1>1. PICK doc \in Shown(d) :
          /\ toUi' = Append(toUi, Message("show", d, doc, inputs))
          /\ astray' = IF d \in sessions /\ doc # document[d]
                       THEN astray \union {d} ELSE astray \ {d}
    BY DEF ShowTextDocument
  <1> DEFINE m == Message("show", d, doc, inputs)
  <1>2. /\ doc \in Snapshot
        /\ \A e \in Told' :
             /\ e \in sessions
             /\ e = d => doc = document[d]
             /\ e # d => e \in Told
    <2>1. doc \in Snapshot
      <3>1. document[d] \in Snapshot
        BY DEF TypeOK, IInv
      <3>2. FromDisk \subseteq Snapshot
        BY DEF FromDisk, Snapshot
      <3>3. QED
        BY <3>1, <3>2 DEF Shown
    <2>2. UNCHANGED sessions
      BY DEF ShowTextDocument
    <2>3. QED
      BY <1>1, <2>1, <2>2 DEF Told
  <1>3. m \in ToUiMessage /\ m.doc = doc /\ m.d = d /\ m.kind = "show"
    <2>1. inputs \in Nat
      BY EditorSyncAssumption DEF IInv, TypeOK
    <2>2. m \in ToUiMessage
      BY <1>2, <2>1, MessageTypes DEF UiKinds
    <2>3. QED
      BY <2>2 DEF Message
  <1>4. UNCHANGED <<sessions, document, resolved, tabs, view, toHost>>
    BY DEF ShowTextDocument, uiVars
  <1>5. toUi \in Seq(ToUiMessage) /\ toUi' = Append(toUi, m)
    BY <1>1 DEF TypeOK, IInv
  <1>6. \A e : CarriesDocument(m, e) <=> e = d
    BY <1>3 DEF CarriesDocument
  <1> HIDE DEF m
  <1>7. TabsOpen'
    BY <1>4 DEF TabsOpen, IInv, InFlight
  <1>8. ReportsCurrent'
    <2> SUFFICES ASSUME NEW e \in Told' PROVE Current(toUi', e, document[e])
      BY <1>4 DEF ReportsCurrent
    <2>1. e # d => Current(toUi, e, document[e])
      BY <1>2 DEF IInv, InFlight, ReportsCurrent
    <2>2. QED
      BY <2>1, <1>2, <1>3, <1>5, <1>6, ReportAppended
  <1>9. OnlyEditsAhead'
    <2> SUFFICES ASSUME NEW e \in Told', NoReport(toUi', e)
                 PROVE  e \in Told /\ NoReport(toUi, e)
      BY <1>4 DEF OnlyEditsAhead, IInv, InFlight
    <2>1. QED
      BY <1>2, <1>3, <1>5, <1>6, ReportAppended
  <1>10. QED
    BY <1>7, <1>8, <1>9 DEF InFlight

\* An answered show opens a session only together with the report of it.
LEMMA FinishShowKeeps ==
  ASSUME IInv, TypeOK', FinishShow
  PROVE  InFlight'
  <1> DEFINE d      == Head(resolved).d
             doc    == Head(resolved).doc
             m1     == Message("opened", d, doc, 0)
             m2     == Message("active", d, Blank, 0)
             opened == IF d \in sessions THEN toUi ELSE Append(toUi, m1)
  <1>1. /\ resolved \in Seq(Request) /\ resolved # <<>>
        /\ Head(resolved) \in Request
    BY HeadTailProperties DEF FinishShow, TypeOK, IInv
  <1>2. d \in Documents /\ doc \in Snapshot
    BY <1>1 DEF Request
  <1>3. /\ m1 \in ToUiMessage /\ m2 \in ToUiMessage
        /\ m1.doc = doc /\ CarriesDocument(m1, d)
        /\ \A e : CarriesDocument(m1, e) => e = d
        /\ \A e : ~CarriesDocument(m2, e)
    BY <1>2, MessageTypes, BlankType DEF UiKinds, Message, CarriesDocument
  <1>4. /\ toUi \in Seq(ToUiMessage)
        /\ opened \in Seq(ToUiMessage)
    BY <1>3, AppendProperties DEF TypeOK, IInv
  <1>5. toUi' = opened \/ toUi' = Append(opened, m2)
    BY DEF FinishShow
  <1>6. /\ sessions' = sessions \union {d}
        /\ document' = IF d \in sessions THEN document
                       ELSE [document EXCEPT ![d] = doc]
        /\ resolved' = Tail(resolved)
        /\ UNCHANGED <<tabs, view, toHost, astray>>
    BY DEF FinishShow, uiVars
  <1>7. document[d] \in Snapshot /\ \A e \in Documents :
          document'[e] = IF e = d /\ d \notin sessions THEN doc ELSE document[e]
    BY <1>2, <1>6 DEF TypeOK, IInv
  <1>8. TabsOpen'
    <2>1. d \in tabs
      BY <1>1, MembersTaken DEF IInv, InFlight, TabsOpen
    <2>2. \A i \in 1..Len(resolved') : resolved'[i].d \in tabs
      BY <1>1, <1>6, MembersTaken DEF IInv, InFlight, TabsOpen
    <2>3. QED
      BY <1>6, <2>1, <2>2 DEF IInv, InFlight, TabsOpen
  <1> HIDE DEF m1, m2, doc, d
  <1>9. ASSUME NEW e \in (sessions \union {d}) \ astray
        PROVE  /\ Current(opened, e, document'[e])
               /\ NoReport(opened, e) =>
                    e \in Told /\ NoReport(toUi, e) /\ document'[e] = document[e]
    <2>1. e \in Documents /\ (e \in sessions => e \in Told)
      BY <1>2, <1>9 DEF TypeOK, IInv, Told
    <2>2. CASE d \in sessions
      BY <2>1, <2>2, <1>7, <1>9 DEF IInv, InFlight, ReportsCurrent
    <2>3. CASE d \notin sessions
      <3>1. opened = Append(toUi, m1)
        BY <2>3
      <3>2. CASE e = d
        BY <3>1, <3>2, <2>1, <2>3, <1>3, <1>4, <1>7, ReportAppended
      <3>3. CASE e # d
        <4>1. e \in sessions /\ ~CarriesDocument(m1, e) /\ document'[e] = document[e]
          BY <3>3, <2>1, <1>3, <1>7, <1>9
        <4>2. e \in Told /\ Current(toUi, e, document[e])
          BY <2>1, <4>1 DEF IInv, InFlight, ReportsCurrent
        <4>3. QED
          BY <3>1, <4>1, <4>2, <1>3, <1>4, ReportAppended
      <3>4. QED
        BY <3>2, <3>3
    <2>4. QED
      BY <2>2, <2>3
  <1> HIDE DEF opened
  <1>10. ASSUME NEW e \in (sessions \union {d}) \ astray
         PROVE  /\ Current(toUi', e, document'[e])
                /\ NoReport(toUi', e) =>
                     e \in Told /\ NoReport(toUi, e) /\ document'[e] = document[e]
    <2>1. CASE toUi' = opened
      BY <2>1, <1>9, <1>10
    <2>2. CASE toUi' = Append(opened, m2)
      <3>1. ~CarriesDocument(m2, e) /\ Current(opened, e, document'[e])
        BY <1>3, <1>9, <1>10
      <3>2. Current(toUi', e, document'[e])
        BY <2>2, <3>1, <1>3, <1>4, ReportAppended
      <3>3. NoReport(toUi', e) => NoReport(opened, e)
        BY <2>2, <1>3, <1>4, ReportAppended
      <3>4. QED
        BY <3>2, <3>3, <1>9, <1>10
    <2>3. QED
      BY <1>5, <2>1, <2>2
  <1>11. ReportsCurrent'
    BY <1>6, <1>10 DEF ReportsCurrent, Told
  <1>12. OnlyEditsAhead'
    <2> SUFFICES ASSUME NEW e \in Told', NoReport(toUi', e)
                 PROVE  e \in Told /\ NoReport(toUi, e) /\ document'[e] = document[e]
      BY <1>6 DEF OnlyEditsAhead, IInv, InFlight
    <2>1. e \in (sessions \union {d}) \ astray
      BY <1>6 DEF Told
    <2>2. QED
      BY <1>10, <2>1
  <1>13. QED
    BY <1>8, <1>11, <1>12 DEF InFlight
\* The two callers of applyDocumentModelChange.
LEMMA ModelChangeKeeps ==
  ASSUME IInv, TypeOK', NEW d \in sessions, NEW text \in Texts,
         ApplyModelChange(d, text),
         UNCHANGED <<sessions, resolved, tabs, view>>,
         \/ UNCHANGED toHost
         \/ /\ toHost # <<>> /\ toHost' = Tail(toHost)
            /\ Head(toHost).d = d /\ Head(toHost).doc.text = text
  PROVE  InFlight'
  <1>1. /\ toUi \in Seq(ToUiMessage) /\ toHost \in Seq(ToHostMessage)
        /\ d \in Documents /\ sessions \subseteq Documents
    BY DEF IInv, TypeOK
  <1>2. ASSUME NEW e \in Told'
        PROVE  /\ Current(toUi', e, document'[e])
               /\ NoReport(toUi', e) => /\ e \in Told /\ NoReport(toUi, e)
                                        /\ document'[e] = document[e]
                                        /\ e = d => document[d].text = text
    <2>1. e \in Documents /\ e \in sessions /\ e \notin astray'
      BY <1>1, <1>2 DEF Told
    <2>2. e \notin astray => e \in Told /\ Current(toUi, e, document[e])
      BY <2>1 DEF Told, IInv, InFlight, ReportsCurrent
    <2>3. QED
      BY <1>1, <2>1, <2>2, ApplyModelChangeReports DEF IInv
  <1>3. TabsOpen'
    <2>1. \A i \in 1..Len(toHost') : \E j \in 1..Len(toHost) : toHost'[i] = toHost[j]
      <3>1. CASE UNCHANGED toHost
        BY <3>1
      <3>2. CASE toHost # <<>> /\ toHost' = Tail(toHost)
        BY <3>2, <1>1, MembersTaken
      <3>3. QED
        BY <3>1, <3>2
    <2>2. QED
      BY <2>1 DEF IInv, InFlight, TabsOpen
  <1>4. ReportsCurrent'
    BY <1>2 DEF ReportsCurrent
  <1>5. OnlyEditsAhead'
    <2> SUFFICES ASSUME NEW e \in Told', NoReport(toUi', e)
                 PROVE  /\ view[e].version = document'[e].version
                        /\ \/ view[e].text = document'[e].text
                           \/ AheadBy(toHost', e, view[e].text)
      BY DEF OnlyEditsAhead
    <2>1. /\ document'[e] = document[e]
          /\ view[e].version = document[e].version
          /\ view[e].text = document[e].text \/ AheadBy(toHost, e, view[e].text)
          /\ e = d => document[d].text = text
      BY <1>2 DEF IInv, InFlight, OnlyEditsAhead
    <2>2. CASE view[e].text = document[e].text \/ UNCHANGED toHost
      BY <2>1, <2>2
    <2>3. CASE AheadBy(toHost, e, view[e].text) /\ ~UNCHANGED toHost
      <3>1. \/ AheadBy(Tail(toHost), e, view[e].text)
            \/ IsEdit(Head(toHost), e) /\ Head(toHost).doc.text = view[e].text
        BY <2>3, <1>1, EditTaken
      <3>2. IsEdit(Head(toHost), e) => e = d
        BY <2>3 DEF IsEdit
      <3>3. QED
        BY <2>1, <2>3, <3>1, <3>2
    <2>4. QED
      BY <2>1, <2>2, <2>3
  <1>6. QED
    BY <1>3, <1>4, <1>5 DEF InFlight

\* Messages the host takes without touching a document: what it takes is not
\* an edit of a session, so no tab is ahead because of it.
LEMMA TakenByHostKeeps ==
  ASSUME IInv, TypeOK',
         toHost # <<>>, toHost' = Tail(toHost),
         \A d \in sessions : ~IsEdit(Head(toHost), d),
         UNCHANGED <<sessions, document, tabs, view, toUi, astray>>,
         \/ UNCHANGED resolved
         \/ /\ Head(toHost).kind = "response"
            /\ \E request \in Request :
                 request.d = Head(toHost).d /\ resolved' = Append(resolved, request)
  PROVE  InFlight'
  <1>1. toHost \in Seq(ToHostMessage) /\ resolved \in Seq(Request)
    BY DEF IInv, TypeOK
  <1>2. \A i \in 1..Len(resolved') : resolved'[i].d \in tabs
    <2>1. CASE UNCHANGED resolved
      BY <2>1 DEF IInv, InFlight, TabsOpen
    <2>2. ASSUME Head(toHost).kind = "response", NEW request \in Request,
                 request.d = Head(toHost).d, resolved' = Append(resolved, request)
          PROVE  \A i \in 1..Len(resolved') : resolved'[i].d \in tabs
      <3>1. Head(toHost).d \in tabs
        BY <1>1, <2>2, MembersTaken DEF IInv, InFlight, TabsOpen
      <3>2. QED
        BY <1>1, <2>2, <3>1, MembersAppended DEF IInv, InFlight, TabsOpen
    <2>3. QED
      BY <2>1, <2>2
  <1>3. TabsOpen'
    BY <1>1, <1>2, MembersTaken DEF IInv, InFlight, TabsOpen
  <1>4. ReportsCurrent'
    BY DEF IInv, InFlight, ReportsCurrent, Told
  <1>5. OnlyEditsAhead'
    BY <1>1, EditTaken DEF IInv, InFlight, OnlyEditsAhead, Told
  <1>6. QED
    BY <1>3, <1>4, <1>5 DEF InFlight

\* Messages the window takes: m.doc replaces the tab of m.d if m carries it.
LEMMA TakenByUiKeeps ==
  ASSUME IInv, TypeOK',
         toUi # <<>>, toUi' = Tail(toUi),
         UNCHANGED <<sessions, document, resolved, astray>>,
         tabs \subseteq tabs',
         \A d \in sessions :
           view'[d] = IF CarriesDocument(Head(toUi), d) THEN Head(toUi).doc ELSE view[d],
         \/ UNCHANGED toHost
         \/ /\ Head(toUi).d \in tabs'
            /\ \E m \in ToHostMessage : /\ toHost' = Append(toHost, m)
                                        /\ m.kind = "response" /\ m.d = Head(toUi).d
  PROVE  InFlight'
  <1>1. toUi \in Seq(ToUiMessage) /\ toHost \in Seq(ToHostMessage)
    BY DEF IInv, TypeOK
  <1>2. TabsOpen'
    <2>1. \A i \in 1..Len(toHost') :
            toHost'[i].kind = "response" => toHost'[i].d \in tabs'
      <3>1. \A i \in 1..Len(toHost) :
              toHost[i].kind = "response" => toHost[i].d \in tabs'
        BY DEF IInv, InFlight, TabsOpen
      <3>2. CASE UNCHANGED toHost
        BY <3>1, <3>2
      <3>3. ASSUME NEW m \in ToHostMessage, toHost' = Append(toHost, m), m.d \in tabs'
            PROVE  \A i \in 1..Len(toHost') :
                     toHost'[i].kind = "response" => toHost'[i].d \in tabs'
        <4> TAKE i \in 1..Len(toHost')
        <4>1. toHost'[i] = m \/ \E j \in 1..Len(toHost) : toHost'[i] = toHost[j]
          BY <1>1, <3>3, MembersAppended
        <4>2. QED
          BY <3>1, <3>3, <4>1
      <3>4. QED
        BY <3>2, <3>3
    <2>2. QED
      BY <2>1 DEF IInv, InFlight, TabsOpen
  <1>3. ReportsCurrent'
    BY <1>1, ReportTaken DEF IInv, InFlight, ReportsCurrent, Told
  <1>4. \A d, text : AheadBy(toHost, d, text) => AheadBy(toHost', d, text)
    BY <1>1, EditAppended DEF IsEdit
  <1>5. OnlyEditsAhead'
    <2> SUFFICES ASSUME NEW d \in Told, NoReport(Tail(toUi), d)
                 PROVE  /\ view'[d].version = document[d].version
                        /\ \/ view'[d].text = document[d].text
                           \/ AheadBy(toHost', d, view'[d].text)
      BY DEF OnlyEditsAhead, Told
    <2> d \in sessions
      BY DEF Told
    <2>1. CASE CarriesDocument(Head(toUi), d)
      <3>1. Head(toUi).doc = document[d]
        BY <1>1, <2>1, ReportTaken DEF IInv, InFlight, ReportsCurrent
      <3>2. QED
        BY <2>1, <3>1
    <2>2. CASE ~CarriesDocument(Head(toUi), d)
      <3>1. NoReport(toUi, d) /\ view'[d] = view[d]
        BY <1>1, <2>2, ReportTaken
      <3>2. QED
        BY <3>1, <1>4 DEF IInv, InFlight, OnlyEditsAhead
    <2>3. QED
      BY <2>1, <2>2
  <1>6. QED
    BY <1>2, <1>3, <1>5 DEF InFlight

\* Typing puts a tab ahead by the edit that is sent.
LEMMA UiEditKeeps ==
  ASSUME IInv, TypeOK', NEW text \in Texts, UiEdit(text)
  PROVE  InFlight'
  <1> DEFINE d   == activeTab
             doc == [view[d] EXCEPT !.text = text]
             m   == Message("edit", d, doc, 0)
  <1>1. /\ d \in Documents /\ doc \in Snapshot
        /\ doc.text = text /\ doc.version = view[d].version
    BY DEF UiEdit, IInv, TypeOK, Snapshot
  <1>2. /\ m \in ToHostMessage /\ m.kind = "edit" /\ m.doc = doc
        /\ \A e : IsEdit(m, e) <=> e = d
    <2>1. m \in ToHostMessage
      BY <1>1, MessageTypes DEF HostKinds
    <2>2. QED
      BY <2>1 DEF Message, IsEdit
  <1>3. /\ toHost \in Seq(ToHostMessage) /\ toHost' = Append(toHost, m)
        /\ \A e \in Documents : view'[e] = IF e = d THEN doc ELSE view[e]
        /\ UNCHANGED <<sessions, document, resolved, tabs, toUi, astray>>
        /\ sessions \subseteq Documents
    BY DEF UiEdit, hostVars, IInv, TypeOK
  <1> HIDE DEF m, doc, d
  <1>4. TabsOpen'
    BY <1>2, <1>3, MembersAppended DEF IInv, InFlight, TabsOpen
  <1>5. ReportsCurrent'
    BY <1>3 DEF IInv, InFlight, ReportsCurrent, Told
  <1>6. OnlyEditsAhead'
    <2> SUFFICES ASSUME NEW e \in Told, NoReport(toUi, e)
                 PROVE  /\ view'[e].version = document[e].version
                        /\ \/ view'[e].text = document[e].text
                           \/ AheadBy(toHost', e, view'[e].text)
      BY <1>3 DEF OnlyEditsAhead, Told
    <2> e \in Documents
      BY <1>3 DEF Told
    <2>1. /\ view[e].version = document[e].version
          /\ view[e].text = document[e].text \/ AheadBy(toHost, e, view[e].text)
      BY DEF IInv, InFlight, OnlyEditsAhead
    <2>2. CASE e = d
      BY <2>1, <2>2, <1>1, <1>2, <1>3, EditAppended
    <2>3. CASE e # d
      BY <2>1, <2>3, <1>2, <1>3, EditAppended
    <2>4. QED
      BY <2>2, <2>3
  <1>7. QED
    BY <1>4, <1>5, <1>6 DEF InFlight

\* Clicking a tab sends nothing about a text.
LEMMA UiActivateKeeps ==
  ASSUME IInv, TypeOK', NEW d \in Documents, UiActivate(d)
  PROVE  InFlight'
  <1> DEFINE m == Message("activate", d, Blank, 0)
  <1>1. m \in ToHostMessage /\ m.kind = "activate"
    <2>1. m \in ToHostMessage
      BY MessageTypes, BlankType DEF HostKinds
    <2>2. QED
      BY <2>1 DEF Message
  <1>2. /\ toHost \in Seq(ToHostMessage) /\ toHost' = Append(toHost, m)
        /\ UNCHANGED <<sessions, document, resolved, tabs, view, toUi, astray>>
    BY DEF UiActivate, hostVars, IInv, TypeOK
  <1> HIDE DEF m
  <1>3. TabsOpen'
    BY <1>1, <1>2, MembersAppended DEF IInv, InFlight, TabsOpen
  <1>4. ReportsCurrent'
    BY <1>2 DEF IInv, InFlight, ReportsCurrent, Told
  <1>5. OnlyEditsAhead'
    BY <1>1, <1>2, EditAppended DEF IInv, InFlight, OnlyEditsAhead, IsEdit, Told
  <1>6. QED
    BY <1>3, <1>4, <1>5 DEF InFlight

\* Every message the host takes from its stdin.
LEMMA HostReceivesKeeps ==
  ASSUME IInv, TypeOK', HostReceives
  PROVE  InFlight'
  <1> DEFINE m == Head(toHost)
  <1>1. toHost # <<>>
    BY DEF HostReceives, ReceiveShowResponse, ReceiveUiDocument, ReceiveUiActivate
  <1>2. m \in ToHostMessage
    BY <1>1, HeadTailProperties DEF IInv, TypeOK
  <1>3. CASE ReceiveShowResponse
    <2> DEFINE request == [id |-> m.id, d |-> m.d, doc |-> m.doc]
    <2>1. request \in Request
      BY <1>2 DEF ToHostMessage, Request
    <2>2. UNCHANGED resolved \/ resolved' = Append(resolved, request)
      BY <1>3 DEF ReceiveShowResponse
    <2>3. request.d = m.d /\ m.kind = "response" /\ \A d : ~IsEdit(m, d)
      BY <1>3 DEF ReceiveShowResponse, IsEdit
    <2>4. /\ toHost' = Tail(toHost)
          /\ UNCHANGED <<sessions, document, tabs, view, toUi, astray>>
      BY <1>3 DEF ReceiveShowResponse, uiVars
    <2>5. QED
      <3> HIDE DEF request
      <3> QED BY <1>1, <2>1, <2>2, <2>3, <2>4, TakenByHostKeeps
  <1>4. CASE ReceiveUiDocument
    <2>1. CASE m.d \in sessions
      <3>1. m.doc.text \in Texts
        BY <1>2 DEF ToHostMessage, Snapshot
      <3>2. ApplyModelChange(m.d, m.doc.text)
        BY <1>4, <2>1 DEF ReceiveUiDocument
      <3>3. toHost' = Tail(toHost) /\ UNCHANGED <<sessions, resolved, tabs, view>>
        BY <1>4 DEF ReceiveUiDocument, uiVars
      <3>4. QED
        BY <1>1, <2>1, <3>1, <3>2, <3>3, ModelChangeKeeps
    <2>2. CASE m.d \notin sessions
      <3>1. /\ toHost' = Tail(toHost)
            /\ UNCHANGED <<sessions, document, resolved, tabs, view, toUi, astray>>
        BY <1>4, <2>2 DEF ReceiveUiDocument, uiVars
      <3>2. \A d \in sessions : ~IsEdit(m, d)
        BY <2>2 DEF IsEdit
      <3>3. QED
        BY <1>1, <3>1, <3>2, TakenByHostKeeps
    <2>3. QED
      BY <2>1, <2>2
  <1>5. CASE ReceiveUiActivate
    <2>1. /\ toHost' = Tail(toHost)
          /\ UNCHANGED <<sessions, document, resolved, tabs, view, toUi, astray>>
          /\ \A d \in sessions : ~IsEdit(m, d)
      BY <1>5 DEF ReceiveUiActivate, uiVars, IsEdit
    <2>2. QED
      BY <1>1, <2>1, TakenByHostKeeps
  <1>6. QED
    BY <1>3, <1>4, <1>5 DEF HostReceives

\* Every message the window takes from the host.
LEMMA UiReceivesKeeps ==
  ASSUME IInv, TypeOK', UiReceives
  PROVE  InFlight'
  <1> DEFINE m == Head(toUi)
  <1>1. /\ toUi # <<>> /\ toUi' = Tail(toUi)
        /\ UNCHANGED <<sessions, document, resolved, astray>>
    BY DEF UiReceives, ReceiveShowRequest, ReceiveSessionOpened,
           ReceiveActiveChanged, ReceiveDocumentChanged, hostVars
  <1>2. m \in ToUiMessage
    BY <1>1, HeadTailProperties DEF IInv, TypeOK
  <1>3. m.d \in Documents /\ m.doc \in Snapshot /\ m.id \in Nat
    BY <1>2 DEF ToUiMessage
  <1>4. view \in [Documents -> Snapshot] /\ sessions \subseteq Documents
        /\ sessions \subseteq tabs
    BY DEF IInv, TypeOK, InFlight, TabsOpen
  <1>5. CASE ReceiveShowRequest
    <2> DEFINE answer == Message("response", m.d, m.doc, m.id)
    <2>1. answer \in ToHostMessage
      BY <1>3, MessageTypes DEF HostKinds
    <2>2. answer.kind = "response" /\ answer.d = m.d
      BY DEF Message
    <2>3. toHost' = Append(toHost, answer) /\ tabs' = tabs \union {m.d}
      BY <1>5 DEF ReceiveShowRequest, OpenTab
    <2>4. \A d \in sessions :
            view'[d] = IF CarriesDocument(m, d) THEN m.doc ELSE view[d]
      BY <1>4, <1>5 DEF ReceiveShowRequest, OpenTab, CarriesDocument
    <2>5. QED
      <3> HIDE DEF answer
      <3> QED BY <1>1, <2>1, <2>2, <2>3, <2>4, TakenByUiKeeps
  <1>6. CASE ReceiveSessionOpened
    <2>1. \A d \in sessions :
            view'[d] = IF CarriesDocument(m, d) THEN m.doc ELSE view[d]
      BY <1>4, <1>6 DEF ReceiveSessionOpened, OpenTab, CarriesDocument
    <2>2. QED
      BY <1>1, <1>6, <2>1, TakenByUiKeeps DEF ReceiveSessionOpened, OpenTab
  <1>7. CASE ReceiveActiveChanged
    <2>1. \A d : ~CarriesDocument(m, d)
      BY <1>7 DEF ReceiveActiveChanged, CarriesDocument
    <2>2. QED
      BY <1>1, <1>7, <2>1, TakenByUiKeeps DEF ReceiveActiveChanged
  <1>8. CASE ReceiveDocumentChanged
    <2>1. \A d \in sessions :
            view'[d] = IF CarriesDocument(m, d) THEN m.doc ELSE view[d]
      BY <1>4, <1>8 DEF ReceiveDocumentChanged, CarriesDocument
    <2>2. QED
      BY <1>1, <1>8, <2>1, TakenByUiKeeps DEF ReceiveDocumentChanged
  <1>9. QED
    BY <1>5, <1>6, <1>7, <1>8 DEF UiReceives

\* With no message left, the bound on what a tab can be ahead by is nothing.
LEMMA QuietConverged == IInv => Converged
  <1> SUFFICES ASSUME IInv, NEW d \in sessions, Quiet(d)
               PROVE  d \in tabs /\ (d \notin astray => view[d] = document[d])
    BY DEF Converged
  <1>1. d \in tabs
    BY DEF IInv, InFlight, TabsOpen
  <1>2. NoReport(toUi, d) /\ \A text : ~AheadBy(toHost, d, text)
    BY DEF Quiet, NoReport, AheadBy
  <1>3. d \notin astray => /\ view[d].version = document[d].version
                           /\ view[d].text = document[d].text
    BY <1>2 DEF IInv, InFlight, OnlyEditsAhead, Told
  <1>4. view[d] \in Snapshot /\ document[d] \in Snapshot
    BY DEF IInv, TypeOK
  <1>5. QED
    BY <1>1, <1>3, <1>4 DEF Snapshot

\* Whatever the edits, shows, answers and timeouts and however they cross,
\* a document nothing is on its way about is shown as the host has it
\* (editorSessions.ts, applyDocumentModelChange), unless the host's last word on
\* it was an object read again or a report lost in a listener; and its tab is
\* open in any case.
THEOREM Convergence == Spec => []Converged
  <1>1. Init => InFlight
    BY DEF Init, InFlight, TabsOpen, ReportsCurrent, OnlyEditsAhead, Told
  <1>2. TypeOK /\ TypeOK' /\ InFlight /\ [Next]_vars => InFlight'
    <2> SUFFICES ASSUME IInv, TypeOK', [Next]_vars PROVE InFlight'
      BY DEF IInv
    <2>1. ASSUME NEW d \in Documents, ShowTextDocument(d) PROVE InFlight'
      BY <2>1, ShowTextDocumentKeeps
    <2>2. ASSUME NEW request \in pending, RequestTimeout(request) PROVE InFlight'
      BY <2>2 DEF RequestTimeout, uiVars, IInv, InFlight, TabsOpen, ReportsCurrent,
                  OnlyEditsAhead, Told
    <2>3. ASSUME NEW d \in Documents, NEW text \in Texts, ExtensionEdit(d, text)
          PROVE  InFlight'
      BY <2>3, ModelChangeKeeps DEF ExtensionEdit, uiVars
    <2>4. ASSUME NEW text \in Texts, UiEdit(text) PROVE InFlight'
      BY <2>4, UiEditKeeps
    <2>5. ASSUME NEW d \in Documents, UiActivate(d) PROVE InFlight'
      BY <2>5, UiActivateKeeps
    <2>6. CASE FinishShow
      BY <2>6, FinishShowKeeps
    <2>7. CASE HostReceives
      BY <2>7, HostReceivesKeeps
    <2>8. CASE UiReceives
      BY <2>8, UiReceivesKeeps
    <2>9. CASE UNCHANGED vars
      BY <2>9 DEF vars, hostVars, uiVars, IInv, InFlight, TabsOpen, ReportsCurrent,
                  OnlyEditsAhead, Told
    <2>10. QED
      BY <2>1, <2>2, <2>3, <2>4, <2>5, <2>6, <2>7, <2>8, <2>9 DEF Next
  <1>3. TypeOK /\ InFlight => Converged
    BY QuietConverged DEF IInv
  <1>4. QED
    BY <1>1, <1>2, <1>3, TypeCorrect, PTL DEF Spec

-----------------------------------------------------------------------------
(* Versions name texts.                                                    *)

IsReport(m, d) == m.d = d /\ m.kind = "changed"

\* The documents the change reports about d carry.
Reported(q, d) == {q[i].doc : i \in {j \in 1..Len(q) : IsReport(q[j], d)}}

\* R reports versions of a document up to the one it has, each under one text,
\* and none before it has a session.
Named(R, open, doc) ==
  /\ ~open => R = {}
  /\ \A x \in R : /\ x.version <= doc.version
                  /\ x.version = doc.version => x = doc
  /\ \A x, y \in R : x.version = y.version => x = y

VersionsNamed ==
  \A d \in Documents : Named(Reported(toUi, d), d \in sessions, document[d])

\* Sending adds the document of a report.
LEMMA ReportedAppended ==
  ASSUME NEW S, NEW q \in Seq(S), NEW m \in S, NEW d
  PROVE  /\ IsReport(m, d) => Reported(Append(q, m), d) = Reported(q, d) \union {m.doc}
         /\ ~IsReport(m, d) => Reported(Append(q, m), d) = Reported(q, d)
  <1> DEFINE r == Append(q, m)
             n == Len(q)
  <1>1. /\ n \in Nat /\ Len(r) = n + 1 /\ r[n + 1] = m
        /\ \A i \in 1..n : r[i] = q[i]
    BY AppendProperties, LenProperties
  <1> HIDE DEF r
  <1>2. ASSUME NEW x \in Reported(r, d)
        PROVE  x \in Reported(q, d) \/ (IsReport(m, d) /\ x = m.doc)
    <2>1. PICK i \in 1..Len(r) : IsReport(r[i], d) /\ x = r[i].doc
      BY DEF Reported
    <2>2. CASE i = n + 1
      BY <1>1, <2>1, <2>2
    <2>3. CASE i # n + 1
      <3>1. i \in 1..Len(q) /\ r[i] = q[i]
        BY <1>1, <2>3
      <3>2. i \in {j \in 1..Len(q) : IsReport(q[j], d)} /\ x = q[i].doc
        BY <2>1, <3>1
      <3>3. x \in Reported(q, d)
        BY <3>2 DEF Reported
      <3>4. QED
        BY <3>3
    <2>4. QED
      BY <2>2, <2>3
  <1>3. Reported(q, d) \subseteq Reported(r, d)
    <2> SUFFICES ASSUME NEW i \in 1..n, IsReport(q[i], d)
                 PROVE  q[i].doc \in Reported(r, d)
      BY DEF Reported
    <2>1. i \in 1..Len(r) /\ r[i] = q[i]
      BY <1>1
    <2>2. QED
      BY <2>1 DEF Reported
  <1>4. IsReport(m, d) => m.doc \in Reported(r, d)
    <2>1. n + 1 \in 1..Len(r) /\ r[n + 1] = m
      BY <1>1
    <2>2. QED
      BY <2>1 DEF Reported
  <1>5. QED
    BY <1>2, <1>3, <1>4 DEF r

\* Receiving adds none.
LEMMA ReportedTaken ==
  ASSUME NEW S, NEW q \in Seq(S), q # <<>>, NEW d
  PROVE  Reported(Tail(q), d) \subseteq Reported(q, d)
  <1> SUFFICES ASSUME NEW i \in 1..Len(Tail(q)), IsReport(Tail(q)[i], d)
               PROVE  Tail(q)[i].doc \in Reported(q, d)
    BY DEF Reported
  <1>1. PICK j \in 1..Len(q) : Tail(q)[i] = q[j]
    BY MembersTaken
  <1>2. QED
    BY <1>1 DEF Reported

\* What is reported is a snapshot.
LEMMA ReportedType ==
  ASSUME TypeOK, NEW d \in Documents
  PROVE  Reported(toUi, d) \subseteq Snapshot /\ document[d] \in Snapshot
  <1>1. \A i \in 1..Len(toUi) : toUi[i] \in ToUiMessage
    BY ElementOfSeq DEF TypeOK
  <1>2. QED
    BY <1>1 DEF TypeOK, Reported, ToUiMessage

\* A version that is new names the text it is reported with.
LEMMA NewVersionNamed ==
  ASSUME NEW R \in SUBSET Snapshot, NEW old \in Snapshot, NEW new \in Snapshot,
         Named(R, TRUE, old), new.version > old.version,
         NEW Q, Q \subseteq R \union {new}
  PROVE  Named(Q, TRUE, new)
  <1>1. \A x \in Q : x = new \/ (x \in R /\ x.version < new.version)
    <2> SUFFICES ASSUME NEW x \in R PROVE x.version < new.version
      OBVIOUS
    <2>1. x.version \in Nat /\ old.version \in Nat /\ new.version \in Nat
      BY DEF Snapshot
    <2>2. QED
      BY <2>1 DEF Named
  <1>2. \A x \in Q : x.version \in Nat
    BY DEF Snapshot
  <1>3. new.version \in Nat
    BY DEF Snapshot
  <1>4. \A x \in Q : x.version <= new.version /\ (x.version = new.version => x = new)
    BY <1>1, <1>2, <1>3
  <1>5. \A x, y \in Q : x.version = y.version => x = y
    BY <1>1, <1>2, <1>3 DEF Named
  <1>6. QED
    BY <1>4, <1>5 DEF Named

\* applyDocumentModelChange reports no version twice with two texts, however
\* the listeners of its event edit the document again.
LEMMA ModelChangeNamed ==
  ASSUME TypeOK, VersionsNamed, NEW d \in sessions, NEW text \in Texts,
         ApplyModelChange(d, text), UNCHANGED sessions
  PROVE  VersionsNamed'
  <1>1. d \in Documents /\ toUi \in Seq(ToUiMessage)
    BY DEF TypeOK
  <1>2. CASE UNCHANGED <<document, toUi>>
    BY <1>2 DEF VersionsNamed
  <1>3. ASSUME NEW final \in Texts, NEW n \in {1, 2},
               NEW doc, doc = [text |-> final, version |-> document[d].version + n],
               document' = [document EXCEPT ![d] = doc],
               NEW report, report = Message("changed", d, doc, 0),
               \/ toUi' = Append(toUi, report)
               \/ toUi' = Append(Append(toUi, report), report)
               \/ toUi' = toUi
        PROVE  VersionsNamed'
    <2>1. /\ document[d].version \in Nat /\ document[d] \in Snapshot
          /\ doc \in Snapshot /\ doc.version = document[d].version + n
      BY <1>1, <1>3 DEF TypeOK, Snapshot
    <2>2. /\ report \in ToUiMessage /\ report.doc = doc /\ report.d = d
      BY <1>1, <1>3, <2>1, MessageTypes DEF UiKinds, Message
    <2>3. Append(toUi, report) \in Seq(ToUiMessage)
      BY <1>1, <2>2, AppendProperties
    <2> SUFFICES ASSUME NEW e \in Documents
                 PROVE  Named(Reported(toUi', e), e \in sessions, document'[e])
      BY DEF VersionsNamed
    <2>4. /\ Named(Reported(toUi, e), e \in sessions, document[e])
          /\ Reported(toUi, e) \subseteq Snapshot
      BY ReportedType DEF VersionsNamed
    <2>5. /\ e = d => Reported(toUi', e) \subseteq Reported(toUi, e) \union {doc}
          /\ e # d => Reported(toUi', e) = Reported(toUi, e)
      <3>1. /\ IsReport(report, e) => e = d
            /\ IsReport(report, d)
        BY <1>3, <2>2 DEF IsReport, Message
      <3>2. \A q \in Seq(ToUiMessage) :
              /\ e = d => Reported(Append(q, report), e) = Reported(q, e) \union {doc}
              /\ e # d => Reported(Append(q, report), e) = Reported(q, e)
        BY <2>2, <3>1, ReportedAppended
      <3>3. QED
        BY <1>1, <1>3, <2>3, <3>2
    <2>6. CASE e = d
      <3>1. document'[e] = doc /\ doc.version > document[d].version
        BY <1>1, <1>3, <2>1, <2>6 DEF TypeOK
      <3>2. QED
        BY <2>1, <2>4, <2>5, <2>6, <3>1, NewVersionNamed
    <2>7. CASE e # d
      <3>1. document'[e] = document[e]
        BY <1>3, <2>7 DEF TypeOK
      <3>2. QED
        BY <2>4, <2>5, <2>7, <3>1 DEF Named
    <2>8. QED
      BY <2>6, <2>7
  <1>4. QED
    BY <1>2, <1>3 DEF ApplyModelChange

\* A step that changes no document and adds no report.
LEMMA NoReportNamed ==
  ASSUME VersionsNamed, UNCHANGED <<sessions, document>>,
         \A d \in Documents : Reported(toUi', d) \subseteq Reported(toUi, d)
  PROVE  VersionsNamed'
  BY DEF VersionsNamed, Named

\* A session starts with nothing reported about its document.
LEMMA FinishShowNamed ==
  ASSUME TypeOK, VersionsNamed, FinishShow
  PROVE  VersionsNamed'
  <1> DEFINE d      == Head(resolved).d
             doc    == Head(resolved).doc
             m1     == Message("opened", d, doc, 0)
             m2     == Message("active", d, Blank, 0)
             opened == IF d \in sessions THEN toUi ELSE Append(toUi, m1)
  <1>1. d \in Documents /\ doc \in Snapshot
    <2>1. Head(resolved) \in Request
      BY HeadTailProperties DEF FinishShow, TypeOK
    <2>2. QED
      BY <2>1 DEF Request
  <1>2. m1 \in ToUiMessage /\ m2 \in ToUiMessage
    BY <1>1, MessageTypes, BlankType DEF UiKinds
  <1>3. \A e : ~IsReport(m1, e) /\ ~IsReport(m2, e)
    BY DEF Message, IsReport
  <1>4. /\ toUi' = opened \/ toUi' = Append(opened, m2)
        /\ sessions' = sessions \union {d}
        /\ document' = IF d \in sessions THEN document
                       ELSE [document EXCEPT ![d] = doc]
    BY DEF FinishShow
  <1> HIDE DEF m1, m2, d, doc
  <1>5. toUi \in Seq(ToUiMessage)
    BY DEF TypeOK
  <1>6. opened \in Seq(ToUiMessage)
    BY <1>2, <1>5, AppendProperties
  <1>7. ASSUME NEW e PROVE Reported(toUi', e) = Reported(toUi, e)
    <2>1. ~IsReport(m1, e) /\ ~IsReport(m2, e)
      BY <1>3
    <2>2. Reported(opened, e) = Reported(toUi, e)
      BY <1>2, <1>5, <2>1, ReportedAppended
    <2> HIDE DEF opened
    <2>3. Reported(Append(opened, m2), e) = Reported(opened, e)
      BY <1>2, <1>6, <2>1, ReportedAppended
    <2>4. QED
      BY <1>4, <2>2, <2>3
  <1>8. ASSUME NEW e \in Documents
        PROVE  Named(Reported(toUi', e), e \in sessions', document'[e])
    <2>1. Named(Reported(toUi, e), e \in sessions, document[e])
      BY DEF VersionsNamed
    <2>2. CASE e = d /\ d \notin sessions
      BY <1>7, <2>1, <2>2 DEF Named
    <2>3. CASE ~(e = d /\ d \notin sessions)
      <3>1. document'[e] = document[e] /\ (e \in sessions' <=> e \in sessions)
        BY <1>1, <1>4, <2>3 DEF TypeOK
      <3>2. QED
        BY <1>7, <2>1, <3>1 DEF Named
    <2>4. QED
      BY <2>2, <2>3
  <1>9. QED
    BY <1>8 DEF VersionsNamed

\* Every step keeps versions naming texts.
LEMMA VersionsNamedKept ==
  ASSUME TypeOK, VersionsNamed, [Next]_vars
  PROVE  VersionsNamed'
  <1>1. toUi \in Seq(ToUiMessage)
    BY DEF TypeOK
  <1>2. CASE UNCHANGED <<sessions, document, toUi>>
    BY <1>2 DEF VersionsNamed
  <1>3. ASSUME NEW d \in Documents, ShowTextDocument(d) PROVE VersionsNamed'
    <2>1. PICK doc \in Shown(d) : toUi' = Append(toUi, Message("show", d, doc, inputs))
      BY <1>3 DEF ShowTextDocument
    <2>2. doc \in Snapshot /\ inputs \in Nat
      BY EditorSyncAssumption DEF Shown, FromDisk, Snapshot, TypeOK
    <2> DEFINE m == Message("show", d, doc, inputs)
    <2>3. m \in ToUiMessage /\ \A e : ~IsReport(m, e)
      BY <2>2, MessageTypes DEF UiKinds, Message, IsReport
    <2> HIDE DEF m
    <2>4. ASSUME NEW e PROVE Reported(toUi', e) = Reported(toUi, e)
      <3>1. toUi' = Append(toUi, m) /\ ~IsReport(m, e)
        BY <2>1, <2>3 DEF m
      <3>2. QED
        BY <1>1, <2>3, <3>1, ReportedAppended
    <2>5. QED
      BY <1>3, <2>4, NoReportNamed DEF ShowTextDocument
  <1>4. ASSUME NEW d \in Documents, NEW text \in Texts, ExtensionEdit(d, text)
        PROVE  VersionsNamed'
    BY <1>4, ModelChangeNamed DEF ExtensionEdit
  <1>5. CASE FinishShow
    BY <1>5, FinishShowNamed
  <1>6. CASE ReceiveUiDocument
    <2>1. toHost # <<>> /\ Head(toHost) \in ToHostMessage
      BY <1>6, HeadTailProperties DEF ReceiveUiDocument, TypeOK
    <2>2. Head(toHost).doc.text \in Texts
      BY <2>1 DEF ToHostMessage, Snapshot
    <2>3. QED
      BY <1>2, <1>6, <2>2, ModelChangeNamed DEF ReceiveUiDocument
  <1>7. CASE UiReceives
    <2>1. toUi # <<>> /\ toUi' = Tail(toUi) /\ UNCHANGED hostVars
      BY <1>7 DEF UiReceives, ReceiveShowRequest, ReceiveSessionOpened,
         ReceiveActiveChanged, ReceiveDocumentChanged
    <2>2. \A d \in Documents : Reported(toUi', d) \subseteq Reported(toUi, d)
      BY <1>1, <2>1, ReportedTaken
    <2>3. QED
      BY <2>1, <2>2, NoReportNamed DEF hostVars
  <1>8. QED
    BY <1>2, <1>3, <1>4, <1>5, <1>6, <1>7
    DEF Next, RequestTimeout, UiEdit, UiActivate, HostReceives,
        ReceiveShowResponse, ReceiveUiActivate, vars, hostVars

\* A version of a document names one text among all that is on its way and
\* the registered document, also when listeners edit from inside the event or
\* throw, and when an extension shows an object it has read again: every change
\* raises the version, and a session starts with no report left of its id.
THEOREM OneTextPerVersion == Spec => []VersionNamesText
  <1>1. Init => VersionsNamed
    <2> SUFFICES ASSUME Init, NEW d \in Documents
                 PROVE  Named(Reported(toUi, d), d \in sessions, document[d])
      BY DEF VersionsNamed
    <2>1. Len(toUi) = 0
      BY EmptySeq DEF Init
    <2>2. Reported(toUi, d) = {}
      BY <2>1 DEF Reported
    <2>3. QED
      BY <2>2 DEF Named
  <1>2. TypeOK /\ VersionsNamed /\ [Next]_vars => VersionsNamed'
    BY VersionsNamedKept
  <1>3. TypeOK /\ VersionsNamed => VersionNamesText
    <2> SUFFICES ASSUME TypeOK, VersionsNamed, NEW d \in sessions,
                        NEW i \in 1..Len(toUi), IsReport(toUi[i], d)
                 PROVE  /\ toUi[i].doc.version = document[d].version
                             => toUi[i].doc = document[d]
                        /\ \A j \in 1..Len(toUi) :
                             /\ IsReport(toUi[j], d)
                             /\ toUi[j].doc.version = toUi[i].doc.version
                             => toUi[j].doc = toUi[i].doc
      BY DEF VersionNamesText, IsReport
    <2>1. \A j \in 1..Len(toUi) :
            IsReport(toUi[j], d) => toUi[j].doc \in Reported(toUi, d)
      BY DEF Reported
    <2>2. Named(Reported(toUi, d), d \in sessions, document[d])
      BY DEF VersionsNamed, TypeOK
    <2>3. QED
      BY <2>1, <2>2 DEF Named
  <1>4. QED
    BY <1>1, <1>2, <1>3, TypeCorrect, PTL DEF Spec

-----------------------------------------------------------------------------
(* Tabs fall back only to what is read again.                              *)

\* A message that may not take the tab of d back: any but a show at version 1.
Advances(m, d) ==
  CarriesDocument(m, d) /\ ~(m.kind = "show" /\ m.doc.version = 1)

\* The messages of q about d carry versions up to high; those that may not take
\* the tab back none below low or below the version of one before them.
Climbs(q, d, low, high) ==
  \A i \in 1..Len(q) :
    CarriesDocument(q[i], d) =>
      /\ q[i].doc.version <= high
      /\ Advances(q[i], d) => low <= q[i].doc.version
      /\ \A j \in 1..Len(q) :
           j > i /\ Advances(q[j], d) => q[i].doc.version <= q[j].doc.version

\* A document starts its session at version 1.
Newest(d) == IF d \in sessions THEN document[d].version ELSE 1

Climbing ==
  \A d \in Documents : /\ 1 <= Newest(d) /\ view[d].version <= Newest(d)
                       /\ Climbs(toUi, d, view[d].version, Newest(d))

\* Whatever was asked for before the session carries version 1.
FirstVersions ==
  /\ \A r \in pending : r.d \notin sessions => r.doc.version = 1
  /\ \A i \in 1..Len(resolved) :
       resolved[i].d \notin sessions => resolved[i].doc.version = 1

Ascending == Climbing /\ FirstVersions

\* A message with the newest version, or a show at version 1, is sent behind
\* the others.
LEMMA ClimbsAppended ==
  ASSUME NEW q \in Seq(ToUiMessage), NEW m \in ToUiMessage, NEW d,
         NEW low \in Nat, NEW high \in Nat, NEW top \in Nat,
         Climbs(q, d, low, high), low <= high, high <= top,
         CarriesDocument(m, d) =>
           m.doc.version = top \/ (~Advances(m, d) /\ m.doc.version <= top)
  PROVE  Climbs(Append(q, m), d, low, top)
  <1> DEFINE r == Append(q, m)
             n == Len(q)
  <1>1. /\ n \in Nat /\ Len(r) = n + 1 /\ r[n + 1] = m
        /\ \A i \in 1..n : r[i] = q[i] /\ q[i] \in ToUiMessage
    BY AppendProperties, LenProperties, ElementOfSeq
  <1> HIDE DEF r, n
  <1>2. \A i \in 1..n : q[i].doc.version \in Nat
    BY <1>1 DEF ToUiMessage, Snapshot
  <1>3. \A i \in 1..n : CarriesDocument(q[i], d) =>
          /\ q[i].doc.version <= high
          /\ Advances(q[i], d) => low <= q[i].doc.version
          /\ \A j \in 1..n : j > i /\ Advances(q[j], d)
                               => q[i].doc.version <= q[j].doc.version
    BY DEF Climbs, n
  <1> low <= top
    OBVIOUS
  <1>4. ASSUME NEW i \in 1..Len(r), CarriesDocument(r[i], d)
        PROVE  /\ r[i].doc.version <= top
               /\ Advances(r[i], d) => low <= r[i].doc.version
               /\ \A j \in 1..Len(r) : j > i /\ Advances(r[j], d)
                    => r[i].doc.version <= r[j].doc.version
    <2>1. CASE i = n + 1
      BY <1>1, <1>4, <2>1
    <2>2. CASE i # n + 1
      <3>1. i \in 1..n /\ r[i] = q[i]
        BY <1>1, <2>2
      <3>2. /\ q[i].doc.version \in Nat /\ q[i].doc.version <= top
            /\ Advances(q[i], d) => low <= q[i].doc.version
        BY <1>2, <1>3, <1>4, <3>1
      <3>3. ASSUME NEW j \in 1..Len(r), j > i, Advances(r[j], d)
            PROVE  r[i].doc.version <= r[j].doc.version
        <4>1. CASE j = n + 1
          <5>1. Advances(m, d) /\ CarriesDocument(m, d)
            BY <1>1, <3>3, <4>1 DEF Advances
          <5>2. m.doc.version = top
            BY <5>1
          <5>3. QED
            BY <1>1, <3>1, <3>2, <4>1, <5>2
        <4>2. CASE j # n + 1
          <5>1. j \in 1..n /\ r[j] = q[j]
            BY <1>1, <4>2
          <5>2. QED
            BY <1>3, <1>4, <3>1, <3>3, <5>1
        <4>3. QED
          BY <4>1, <4>2
      <3>4. QED
        BY <3>1, <3>2, <3>3
    <2>3. QED
      BY <2>1, <2>2
  <1>5. QED
    BY <1>4 DEF Climbs, r

\* The window takes the message with the oldest version.
LEMMA ClimbsTaken ==
  ASSUME NEW q \in Seq(ToUiMessage), q # <<>>, NEW d, NEW low, NEW high,
         Climbs(q, d, low, high)
  PROVE  /\ Climbs(Tail(q), d, low, high)
         /\ CarriesDocument(Head(q), d) =>
              /\ Head(q).doc.version <= high
              /\ Advances(Head(q), d) => low <= Head(q).doc.version
              /\ Climbs(Tail(q), d, Head(q).doc.version, high)
  <1> DEFINE r == Tail(q)
             n == Len(q)
  <1>1. /\ n \in Nat \ {0} /\ Len(r) = n - 1 /\ Head(q) = q[1]
        /\ \A i \in 1..(n - 1) : r[i] = q[i + 1]
    BY HeadTailProperties, EmptySeq
  <1> HIDE DEF r, n
  <1>2. \A i \in 1..n : CarriesDocument(q[i], d) =>
          /\ q[i].doc.version <= high
          /\ Advances(q[i], d) => low <= q[i].doc.version
          /\ \A j \in 1..n : j > i /\ Advances(q[j], d)
                               => q[i].doc.version <= q[j].doc.version
    BY DEF Climbs, n
  <1>3. ASSUME NEW i \in 1..Len(r), CarriesDocument(r[i], d)
        PROVE  /\ r[i].doc.version <= high
               /\ Advances(r[i], d) =>
                    /\ low <= r[i].doc.version
                    /\ CarriesDocument(q[1], d) => q[1].doc.version <= r[i].doc.version
               /\ \A j \in 1..Len(r) : j > i /\ Advances(r[j], d)
                    => r[i].doc.version <= r[j].doc.version
    <2>1. /\ i + 1 \in 1..n /\ i + 1 > 1 /\ 1 \in 1..n /\ r[i] = q[i + 1]
          /\ \A j \in 1..Len(r) : j + 1 \in 1..n /\ r[j] = q[j + 1]
                                  /\ (j > i => j + 1 > i + 1)
      BY <1>1
    <2>2. QED
      BY <1>2, <1>3, <2>1
  <1>4. Climbs(r, d, low, high)
    BY <1>3 DEF Climbs
  <1>5. CarriesDocument(Head(q), d) =>
          /\ Head(q).doc.version <= high
          /\ Advances(Head(q), d) => low <= Head(q).doc.version
          /\ Climbs(r, d, Head(q).doc.version, high)
    <2>1. 1 \in 1..n
      BY <1>1
    <2>2. QED
      BY <1>1, <1>2, <1>3, <2>1 DEF Climbs
  <1>6. QED
    BY <1>4, <1>5 DEF r

\* Versions are numbers.
LEMMA VersionTypes ==
  ASSUME TypeOK, NEW d \in Documents
  PROVE  view[d].version \in Nat /\ document[d].version \in Nat /\ Newest(d) \in Nat
  BY DEF TypeOK, Snapshot, Newest

\* Sending the newest version of a document, or showing it at version 1, keeps
\* what is on its way to every tab climbing.
LEMMA SentClimbs ==
  ASSUME TypeOK, Climbing, NEW d \in Documents, NEW m \in ToUiMessage,
         \A e : CarriesDocument(m, e) => e = d,
         \/ m.doc.version = Newest(d)
         \/ m.kind = "show" /\ m.doc.version = 1,
         toUi' = Append(toUi, m), UNCHANGED <<sessions, document, view>>
  PROVE  Climbing'
  <1> SUFFICES ASSUME NEW e \in Documents
               PROVE  /\ 1 <= Newest(e) /\ view[e].version <= Newest(e)
                      /\ Climbs(toUi', e, view[e].version, Newest(e))
    BY DEF Climbing, Newest
  <1>1. /\ 1 <= Newest(e) /\ view[e].version <= Newest(e)
        /\ Climbs(toUi, e, view[e].version, Newest(e))
    BY DEF Climbing
  <1>2. toUi \in Seq(ToUiMessage) /\ Newest(e) <= Newest(e)
    BY VersionTypes DEF TypeOK
  <1>3. CarriesDocument(m, e) =>
          \/ m.doc.version = Newest(e)
          \/ ~Advances(m, e) /\ m.doc.version <= Newest(e)
    BY <1>1 DEF Advances
  <1>4. QED
    BY <1>1, <1>2, <1>3, VersionTypes, ClimbsAppended

\* applyDocumentModelChange raises the version, so its report goes on top.
LEMMA ModelChangeClimbs ==
  ASSUME TypeOK, Climbing, NEW d \in sessions, NEW text \in Texts,
         ApplyModelChange(d, text), UNCHANGED <<sessions, view>>
  PROVE  Climbing'
  <1>1. d \in Documents /\ toUi \in Seq(ToUiMessage)
    BY DEF TypeOK
  <1>2. CASE UNCHANGED <<document, toUi>>
    BY <1>2 DEF Climbing, Newest
  <1>3. ASSUME NEW final \in Texts, NEW n \in {1, 2},
               NEW doc, doc = [text |-> final, version |-> document[d].version + n],
               document' = [document EXCEPT ![d] = doc],
               NEW report, report = Message("changed", d, doc, 0),
               \/ toUi' = Append(toUi, report)
               \/ toUi' = Append(Append(toUi, report), report)
               \/ toUi' = toUi
        PROVE  Climbing'
    <2>1. /\ document[d].version \in Nat /\ doc \in Snapshot
          /\ doc.version = document[d].version + n /\ doc.version \in Nat
      BY <1>1, <1>3 DEF TypeOK, Snapshot
    <2>2. report \in ToUiMessage
      BY <1>1, <1>3, <2>1, MessageTypes DEF UiKinds
    <2>3. /\ report.doc = doc
          /\ \A e : CarriesDocument(report, e) => e = d
      BY <1>3 DEF CarriesDocument, Message
    <2>4. Append(toUi, report) \in Seq(ToUiMessage)
      BY <1>1, <2>2, AppendProperties
    <2> SUFFICES ASSUME NEW e \in Documents
                 PROVE  /\ 1 <= Newest(e)' /\ view[e].version <= Newest(e)'
                        /\ Climbs(toUi', e, view[e].version, Newest(e)')
      BY DEF Climbing
    <2>5. /\ 1 <= Newest(e) /\ view[e].version <= Newest(e)
          /\ Climbs(toUi, e, view[e].version, Newest(e))
          /\ view[e].version \in Nat /\ Newest(e) \in Nat
      BY VersionTypes DEF Climbing
    <2>6. /\ Newest(e)' \in Nat /\ Newest(e) <= Newest(e)'
          /\ e = d => Newest(e)' = doc.version
          /\ e # d => Newest(e)' = Newest(e)
      BY <1>1, <1>3, <2>1, <2>5 DEF Newest, TypeOK
    <2> DEFINE top == Newest(e)'
    <2>7. ASSUME NEW q \in Seq(ToUiMessage), NEW high \in Nat, high <= top,
                 view[e].version <= high, Climbs(q, e, view[e].version, high)
          PROVE  Climbs(Append(q, report), e, view[e].version, top)
      <3>1. CarriesDocument(report, e) => report.doc.version = top
        BY <2>3, <2>6
      <3> HIDE DEF top
      <3>2. QED
        BY <2>2, <2>5, <2>6, <2>7, <3>1, ClimbsAppended DEF top
    <2>8. 1 <= top /\ view[e].version <= top /\ top <= top
      BY <2>5, <2>6
    <2>9. Climbs(Append(toUi, report), e, view[e].version, top)
      BY <1>1, <2>5, <2>6, <2>7
    <2>10. Climbs(Append(Append(toUi, report), report), e, view[e].version, top)
      BY <2>4, <2>6, <2>7, <2>8, <2>9
    <2>11. Climbs(toUi, e, view[e].version, top)
      <3>1. \A i \in 1..Len(toUi) : toUi[i].doc.version \in Nat
        <4>1. \A i \in 1..Len(toUi) : toUi[i] \in ToUiMessage
          BY <1>1, ElementOfSeq
        <4>2. QED
          BY <4>1 DEF ToUiMessage, Snapshot
      <3> HIDE DEF top
      <3>2. QED
        BY <2>5, <2>6, <3>1 DEF Climbs, top
    <2>12. QED
      BY <1>3, <2>8, <2>9, <2>10, <2>11
  <1>4. QED
    BY <1>2, <1>3 DEF ApplyModelChange

\* A session opens at version 1, which nothing on its way has passed.
LEMMA FinishShowClimbs ==
  ASSUME TypeOK, Ascending, FinishShow
  PROVE  Ascending'
  <1> DEFINE d      == Head(resolved).d
             doc    == Head(resolved).doc
             m1     == Message("opened", d, doc, 0)
             m2     == Message("active", d, Blank, 0)
             opened == IF d \in sessions THEN toUi ELSE Append(toUi, m1)
  <1>1. /\ d \in Documents /\ doc \in Snapshot
        /\ d \notin sessions => doc.version = 1
        /\ \A i \in 1..Len(Tail(resolved)) : \E j \in 1..Len(resolved) :
             Tail(resolved)[i] = resolved[j]
    <2>1. /\ resolved # <<>> /\ resolved \in Seq(Request)
          /\ Head(resolved) \in Request
      BY HeadTailProperties DEF FinishShow, TypeOK
    <2>2. PICK j \in 1..Len(resolved) : Head(resolved) = resolved[j]
      BY <2>1, MembersTaken
    <2>3. d \notin sessions => doc.version = 1
      BY <2>2 DEF Ascending, FirstVersions
    <2>4. QED
      BY <2>1, <2>3, MembersTaken DEF Request
  <1>2. m1 \in ToUiMessage /\ m2 \in ToUiMessage
    BY <1>1, MessageTypes, BlankType DEF UiKinds
  <1>3. /\ \A e : ~CarriesDocument(m2, e)
        /\ \A e : CarriesDocument(m1, e) => e = d
        /\ m1.doc = doc
    BY DEF Message, CarriesDocument
  <1>4. /\ toUi' = opened \/ toUi' = Append(opened, m2)
        /\ sessions' = sessions \union {d}
        /\ document' = IF d \in sessions THEN document
                       ELSE [document EXCEPT ![d] = doc]
        /\ resolved' = Tail(resolved) /\ UNCHANGED <<pending, view>>
    BY DEF FinishShow, uiVars
  <1> HIDE DEF m1, m2, d, doc
  <1>5. toUi \in Seq(ToUiMessage)
    BY DEF TypeOK
  <1>6. opened \in Seq(ToUiMessage)
    BY <1>2, <1>5, AppendProperties
  <1>7. ASSUME NEW e \in Documents PROVE Newest(e)' = Newest(e)
    <2>1. CASE e = d /\ d \notin sessions
      BY <1>1, <1>4, <2>1 DEF Newest, TypeOK
    <2>2. CASE ~(e = d /\ d \notin sessions)
      BY <1>1, <1>4, <2>2 DEF Newest, TypeOK
    <2>3. QED
      BY <2>1, <2>2
  <1>8. ASSUME NEW e \in Documents
        PROVE  /\ 1 <= Newest(e) /\ view[e].version <= Newest(e)
               /\ Climbs(toUi', e, view[e].version, Newest(e))
    <2>1. /\ 1 <= Newest(e) /\ view[e].version <= Newest(e) /\ Newest(e) <= Newest(e)
          /\ Climbs(toUi, e, view[e].version, Newest(e))
          /\ view[e].version \in Nat /\ Newest(e) \in Nat
      BY VersionTypes DEF Ascending, Climbing
    <2>2. d \notin sessions /\ CarriesDocument(m1, e) => m1.doc.version = Newest(e)
      BY <1>1, <1>3 DEF Newest
    <2>3. Climbs(opened, e, view[e].version, Newest(e))
      BY <1>2, <1>5, <2>1, <2>2, ClimbsAppended
    <2> HIDE DEF opened
    <2>4. Climbs(Append(opened, m2), e, view[e].version, Newest(e))
      BY <1>2, <1>3, <1>6, <2>1, <2>3, ClimbsAppended
    <2>5. QED
      BY <1>4, <2>1, <2>3, <2>4
  <1>9. Climbing'
    BY <1>4, <1>7, <1>8 DEF Climbing
  <1>10. FirstVersions'
    BY <1>1, <1>4 DEF Ascending, FirstVersions
  <1>11. QED
    BY <1>9, <1>10 DEF Ascending

\* The window takes a message: a tab that is set gets a version no lower than
\* the one it had, unless it is shown an object at version 1.
LEMMA UiReceivesClimbs ==
  ASSUME TypeOK, Ascending, UiReceives
  PROVE  /\ Ascending'
         /\ \A d \in Documents : view'[d].version >= view[d].version \/ ShowsReread(d)
  <1> DEFINE m == Head(toUi)
  <1>1. /\ toUi # <<>> /\ toUi \in Seq(ToUiMessage) /\ toUi' = Tail(toUi)
        /\ UNCHANGED <<sessions, document, pending, resolved>>
    BY DEF UiReceives, ReceiveShowRequest, ReceiveSessionOpened,
       ReceiveActiveChanged, ReceiveDocumentChanged, hostVars, TypeOK
  <1>2. /\ m \in ToUiMessage /\ m.d \in Documents /\ m.doc \in Snapshot
    <2>1. m \in ToUiMessage
      BY <1>1, HeadTailProperties
    <2>2. QED
      BY <2>1 DEF ToUiMessage
  <1>3. \/ view' = view
        \/ m.kind # "active" /\ view' = [view EXCEPT ![m.d] = m.doc]
    BY DEF UiReceives, ReceiveShowRequest, ReceiveSessionOpened,
       ReceiveActiveChanged, ReceiveDocumentChanged, OpenTab
  <1> HIDE DEF m
  <1>4. ASSUME NEW e \in Documents
        PROVE  /\ view'[e].version >= view[e].version \/ ShowsReread(e)
               /\ 1 <= Newest(e) /\ view'[e].version <= Newest(e)
               /\ Climbs(toUi', e, view'[e].version, Newest(e))
    <2>1. /\ 1 <= Newest(e) /\ view[e].version <= Newest(e)
          /\ Climbs(toUi, e, view[e].version, Newest(e))
          /\ view[e].version \in Nat /\ Newest(e) \in Nat
      BY VersionTypes DEF Ascending, Climbing
    <2>2. CASE view'[e] = view[e]
      BY <1>1, <2>1, <2>2, ClimbsTaken
    <2>3. CASE e = m.d /\ m.kind # "active" /\ view'[e] = m.doc
      <3>1. CarriesDocument(Head(toUi), e)
        BY <2>3 DEF CarriesDocument, m
      <3>2. m.doc.version \in Nat
        BY <1>2 DEF Snapshot
      <3>3. Advances(m, e) \/ ShowsReread(e)
        <4>1. ASSUME m.kind = "show", m.doc.version = 1
              PROVE  m.doc \in FromDisk
          BY <1>2, <4>1 DEF Snapshot, FromDisk
        <4>2. QED
          BY <1>1, <2>3, <3>1, <4>1 DEF Advances, ShowsReread, m
      <3>4. /\ m.doc.version <= Newest(e)
            /\ Advances(m, e) => view[e].version <= m.doc.version
            /\ Climbs(toUi', e, m.doc.version, Newest(e))
        BY <1>1, <2>1, <3>1, ClimbsTaken DEF m
      <3>5. QED
        BY <2>1, <2>3, <3>2, <3>3, <3>4
    <2>4. QED
      BY <1>2, <1>3, <2>2, <2>3 DEF TypeOK
  <1>5. Climbing'
    BY <1>1, <1>4 DEF Climbing, Newest
  <1>6. QED
    BY <1>1, <1>4, <1>5 DEF Ascending, FirstVersions

\* Every step keeps what is on its way climbing.
LEMMA AscendingKept ==
  ASSUME TypeOK, Ascending, [Next]_vars
  PROVE  /\ Ascending'
         /\ \A d \in Documents : view'[d].version >= view[d].version \/ ShowsReread(d)
  <1>1. toUi \in Seq(ToUiMessage)
    BY DEF TypeOK
  <1>2. ASSUME view' = view
        PROVE  \A d \in Documents : view'[d].version >= view[d].version
    BY <1>2, VersionTypes
  <1>3. CASE UNCHANGED <<sessions, document, toUi, view, pending, resolved>>
    BY <1>2, <1>3 DEF Ascending, Climbing, FirstVersions, Newest
  <1>4. ASSUME NEW d \in Documents, ShowTextDocument(d) PROVE Ascending' /\ view' = view
    <2>1. PICK doc \in Shown(d) :
            /\ pending' = pending \union {[id |-> inputs, d |-> d, doc |-> doc]}
            /\ toUi' = Append(toUi, Message("show", d, doc, inputs))
      BY <1>4 DEF ShowTextDocument
    <2>2. /\ doc \in Snapshot /\ inputs \in Nat
          /\ doc.version = Newest(d) \/ doc.version = 1
          /\ d \notin sessions => doc.version = 1
      BY EditorSyncAssumption DEF Shown, FromDisk, Snapshot, TypeOK, Newest
    <2> DEFINE m == Message("show", d, doc, inputs)
    <2>3. /\ m \in ToUiMessage
          /\ \A e : CarriesDocument(m, e) => e = d
          /\ m.kind = "show" /\ m.doc = doc
      <3>1. m \in ToUiMessage
        BY <2>2, MessageTypes DEF UiKinds
      <3>2. QED
        BY <2>2, <3>1 DEF Message, CarriesDocument
    <2>4. UNCHANGED <<sessions, document, view, resolved>>
      BY <1>4 DEF ShowTextDocument, uiVars
    <2> HIDE DEF m
    <2>5. Climbing'
      BY <2>1, <2>2, <2>3, <2>4, SentClimbs DEF m, Ascending
    <2>6. FirstVersions'
      BY <2>1, <2>2, <2>4 DEF Ascending, FirstVersions, Newest
    <2>7. QED
      BY <2>4, <2>5, <2>6 DEF Ascending
  <1>5. ASSUME NEW r \in pending, RequestTimeout(r) PROVE Ascending' /\ view' = view
    BY <1>5 DEF RequestTimeout, uiVars, Ascending, Climbing, FirstVersions, Newest
  <1>6. ASSUME NEW d \in sessions, NEW text \in Texts, ApplyModelChange(d, text),
               UNCHANGED <<sessions, pending, resolved, view>>
        PROVE  Ascending'
    BY <1>6, ModelChangeClimbs DEF Ascending, FirstVersions
  <1>7. ASSUME NEW d \in Documents, NEW text \in Texts, ExtensionEdit(d, text)
        PROVE  Ascending' /\ view' = view
    BY <1>6, <1>7 DEF ExtensionEdit, uiVars
  <1>8. ASSUME NEW text \in Texts, UiEdit(text)
        PROVE  Ascending' /\ \A d \in Documents : view'[d].version >= view[d].version
    <2>1. /\ UNCHANGED <<sessions, document, toUi, pending, resolved>>
          /\ view' = [view EXCEPT ![activeTab] =
                        [view[activeTab] EXCEPT !.text = text]]
      BY <1>8 DEF UiEdit, hostVars
    <2>2. \A d \in Documents : view'[d].version = view[d].version
      BY <2>1 DEF TypeOK, Snapshot
    <2>3. QED
      BY <2>1, <2>2, VersionTypes DEF Ascending, Climbing, FirstVersions, Newest
  <1>9. CASE ReceiveShowResponse
    <2> DEFINE m       == Head(toHost)
               request == [id |-> m.id, d |-> m.d, doc |-> m.doc]
    <2>1. /\ UNCHANGED <<sessions, document, toUi, view>>
          /\ \/ UNCHANGED <<pending, resolved>>
             \/ /\ request \in pending /\ pending' = pending \ {request}
                /\ resolved' = Append(resolved, request)
      BY <1>9 DEF ReceiveShowResponse, uiVars
    <2> HIDE DEF request
    <2>2. FirstVersions'
      <3>1. CASE UNCHANGED <<pending, resolved>>
        BY <2>1, <3>1 DEF Ascending, FirstVersions
      <3>2. CASE /\ request \in pending /\ pending' = pending \ {request}
                 /\ resolved' = Append(resolved, request)
        <4>1. request \in Request /\ resolved \in Seq(Request)
          BY <3>2 DEF TypeOK
        <4>2. \A i \in 1..Len(resolved') :
                resolved'[i] = request \/ \E j \in 1..Len(resolved) : resolved'[i] = resolved[j]
          BY <3>2, <4>1, MembersAppended
        <4>3. QED
          BY <2>1, <3>2, <4>2 DEF Ascending, FirstVersions
      <3>3. QED
        BY <2>1, <3>1, <3>2
    <2>3. QED
      BY <1>2, <2>1, <2>2 DEF Ascending, Climbing, Newest
  <1>10. CASE ReceiveUiDocument
    <2>1. toHost # <<>> /\ Head(toHost) \in ToHostMessage
      BY <1>10, HeadTailProperties DEF ReceiveUiDocument, TypeOK
    <2>2. Head(toHost).doc.text \in Texts
      BY <2>1 DEF ToHostMessage, Snapshot
    <2>3. QED
      BY <1>2, <1>3, <1>6, <1>10, <2>2 DEF ReceiveUiDocument, uiVars
  <1>11. QED
    BY <1>2, <1>3, <1>4, <1>5, <1>7, <1>8, <1>9, <1>10, FinishShowClimbs,
       UiReceivesClimbs
    DEF Next, FinishShow, UiActivate, HostReceives, ReceiveUiActivate, vars,
        hostVars, uiVars

\* No step of either process takes a tab back to an older version, except the
\* show of an object that has just been read (queryUnit.ts): reports, late
\* answers and crossed shows reach the window in the order of their versions.
THEOREM TabsNeverFallBack == Spec => ViewVersionMonotone
  <1>1. Init => Ascending
    <2> SUFFICES ASSUME Init PROVE Ascending
      OBVIOUS
    <2>1. Len(toUi) = 0 /\ Len(resolved) = 0 /\ pending = {}
      BY EmptySeq DEF Init
    <2>2. \A d \in Documents : view[d].version = 0 /\ Newest(d) = 1
      BY DEF Init, Blank, Newest
    <2>3. QED
      BY <2>1, <2>2 DEF Ascending, Climbing, Climbs, FirstVersions
  <1>2. TypeOK /\ Ascending /\ [Next]_vars => Ascending'
    BY AscendingKept
  <1>3. TypeOK /\ Ascending /\ [Next]_vars
          => [\A d \in Documents :
                view'[d].version >= view[d].version \/ ShowsReread(d)]_vars
    BY AscendingKept
  <1>4. QED
    BY <1>1, <1>2, <1>3, TypeCorrect, PTL DEF Spec, ViewVersionMonotone
=============================================================================
