---------------------------- MODULE EditorSync ----------------------------
(***************************************************************************)
(* The text-editor sessions of the standalone host.                        *)
(*                                                                         *)
(* The extension host owns every document (EditorSessionRegistry); the     *)
(* application window keeps a copy of each in an editor tab and lets the   *)
(* user type into it before the host has heard of the edit.  The two       *)
(* processes talk over two FIFO pipes: the host's stdout (toUi) and its    *)
(* stdin (toHost).                                                         *)
(*                                                                         *)
(* Texts are opaque: an edit replaces the whole text of a document, as the *)
(* `content` of editor.ui.document and editor.document.changed does.       *)
(* Selections and view columns are left out: no property reads them.       *)
(***************************************************************************)
EXTENDS Naturals, Sequences

CONSTANTS
  Documents,       \* document ids; the editor of d is "editor:" + d
  Texts,           \* the texts a document can hold
  NoEditor,        \* activeEditorId / state.activeEditorId === undefined
  MaxInputs        \* bound on what users and extensions start by themselves

ASSUME EditorSyncAssumption ==
  /\ NoEditor \notin Documents
  /\ Texts # {}
  /\ MaxInputs \in Nat

VARIABLES
  sessions,      \* EditorSessionRegistry.editors (and .documents): open ids
  document,      \* text and version of the registered document of each id
  activeEditor,  \* EditorSessionRegistry.activeEditorId
  pending,       \* IpcBridge's RequestStore: showDocument calls in flight
  resolved,      \* awaited responses whose continuation has not run yet
  tabs,          \* WorkbenchState.editors: ids with an open tab
  view,          \* text and version of each tab
  activeTab,     \* WorkbenchState.activeEditorId
  toUi,          \* host stdout -> window
  toHost,        \* window -> host stdin
  inputs,        \* spontaneous inputs so far; also names the requests
  astray         \* history: the sessions whose registered text and version is
                 \* not what the window was told last

hostVars == <<sessions, document, activeEditor, pending, resolved, astray>>
uiVars   == <<tabs, view, activeTab>>
vars     == <<hostVars, uiVars, toUi, toHost, inputs>>

-----------------------------------------------------------------------------
Snapshot == [text : Texts, version : Nat]
Request  == [id : Nat, d : Documents, doc : Snapshot]

\* Every message names a document and carries a snapshot and a request id;
\* the kinds that need no snapshot or no id carry Blank and 0.
UiKinds   == {"show", "opened", "active", "changed"}
HostKinds == {"response", "edit", "activate"}
Blank     == [text |-> CHOOSE t \in Texts : TRUE, version |-> 0]

Message(kind, d, doc, id) == [kind |-> kind, d |-> d, doc |-> doc, id |-> id]
ToUiMessage   == [kind : UiKinds, d : Documents, doc : Snapshot, id : Nat]
ToHostMessage == [kind : HostKinds, d : Documents, doc : Snapshot, id : Nat]

\* The messages that set a tab's text: all but a change of the active editor.
CarriesDocument(m, d) == m.d = d /\ m.kind # "active"
IsEdit(m, d)          == m.d = d /\ m.kind = "edit"

Init ==
  /\ sessions = {}
  /\ document = [d \in Documents |-> Blank]
  /\ activeEditor = NoEditor
  /\ pending = {}
  /\ resolved = <<>>
  /\ tabs = {}
  /\ view = [d \in Documents |-> Blank]
  /\ activeTab = NoEditor
  /\ toUi = <<>>
  /\ toHost = <<>>
  /\ inputs = 0
  /\ astray = {}

TakeInput == inputs < MaxInputs /\ inputs' = inputs + 1

-----------------------------------------------------------------------------
(* The extension host.                                                     *)

\* A document object read from disk is at version 1.
FromDisk == {[text |-> t, version |-> 1] : t \in Texts}

\* What an extension can pass to window.showTextDocument for d: an object
\* openTextDocument has just read, also if d is open (each call makes a new
\* object), or the registered object behind the open editor.
Shown(d) == FromDisk \union (IF d \in sessions THEN {document[d]} ELSE {})

\* window.showTextDocument up to its await.
ShowTextDocument(d) ==
  /\ TakeInput
  /\ \E doc \in Shown(d) :
       /\ pending' = pending \union {[id |-> inputs, d |-> d, doc |-> doc]}
       /\ toUi' = Append(toUi, Message("show", d, doc, inputs))
       /\ astray' = IF d \in sessions /\ doc # document[d]
                    THEN astray \union {d} ELSE astray \ {d}
  /\ UNCHANGED <<sessions, document, activeEditor, resolved, uiVars, toHost>>

\* RequestStore's timer.  No timer runs between a chunk of stdin and the
\* promise continuations that chunk has made ready.
RequestTimeout(request) ==
  /\ resolved = <<>>
  /\ pending' = pending \ {request}
  /\ UNCHANGED <<sessions, document, activeEditor, resolved, astray, uiVars, toUi,
                 toHost, inputs>>

\* Mutant: a document that is already registered is replaced by the snapshot
\* the request carried.
FinishShowReplacing ==
  /\ resolved # <<>>
  /\ LET d   == Head(resolved).d
         doc == Head(resolved).doc
     IN /\ sessions' = sessions \union {d}
        /\ document' = [document EXCEPT ![d] = doc]
        /\ activeEditor' = d
        /\ toUi' = IF d \in sessions THEN toUi
                   ELSE Append(toUi, Message("opened", d, doc, 0))
  /\ resolved' = Tail(resolved)
  /\ UNCHANGED <<pending, astray, uiVars, toHost, inputs>>

\* The continuation of showTextDocument: openOrShowDocument keeps a document
\* that is already registered, reports a new session, and reports the editor
\* as active unless it already is; a listener that throws loses that report.
FinishShow ==
  /\ resolved # <<>>
  /\ LET d      == Head(resolved).d
         doc    == Head(resolved).doc
         opened == IF d \in sessions THEN toUi
                   ELSE Append(toUi, Message("opened", d, doc, 0))
         active == Append(opened, Message("active", d, Blank, 0))
     IN /\ sessions' = sessions \union {d}
        /\ document' = IF d \in sessions THEN document
                       ELSE [document EXCEPT ![d] = doc]
        /\ activeEditor' = d
        /\ \/ activeEditor = d /\ toUi' = opened
           \/ activeEditor # d /\ toUi' = active
           \/ activeEditor # d /\ toUi' = opened
  /\ resolved' = Tail(resolved)
  /\ UNCHANGED <<pending, astray, uiVars, toHost, inputs>>

\* Mutant: the version is not raised.
ApplyModelChangeSameVersion(d, text) ==
  /\ document' = [document EXCEPT ![d].text = text]
  /\ toUi' = IF document[d].text = text THEN toUi
             ELSE Append(toUi, Message("changed", d,
                                [document[d] EXCEPT !.text = text], 0))
  /\ astray' = IF document[d].text = text THEN astray ELSE astray \ {d}

\* applyDocumentModelChange.  The change event fires before the window is
\* told, so a listener may edit the document again from inside (final # text):
\* both calls then report the text and version read after the event.  A
\* listener that throws skips the report of the call it runs in.
ApplyModelChange(d, text) ==
  \/ /\ document[d].text = text
     /\ UNCHANGED <<document, toUi, astray>>
  \/ /\ document[d].text # text
     /\ \E final \in Texts :
          LET nested == final # text
              doc    == [text    |-> final,
                         version |-> document[d].version
                                       + (IF nested THEN 2 ELSE 1)]
              report == Message("changed", d, doc, 0)
          IN /\ document' = [document EXCEPT ![d] = doc]
             /\ \/ /\ \/ toUi' = Append(toUi, report)
                      \/ nested /\ toUi' = Append(Append(toUi, report), report)
                   /\ astray' = astray \ {d}
                \/ UNCHANGED toUi /\ astray' = astray \union {d}

\* TextEditor.edit called by an extension.
ExtensionEdit(d, text) ==
  /\ TakeInput
  /\ d \in sessions
  /\ document[d].text # text
  /\ ApplyModelChange(d, text)
  /\ UNCHANGED <<sessions, activeEditor, pending, resolved, uiVars, toHost>>

\* The stdin loop hands a response to RequestStore.resolve; an answer to a
\* request that has timed out falls through and is ignored.
ReceiveShowResponse ==
  /\ toHost # <<>> /\ Head(toHost).kind = "response"
  /\ LET m       == Head(toHost)
         request == [id |-> m.id, d |-> m.d, doc |-> m.doc]
     IN IF request \in pending
        THEN /\ pending' = pending \ {request}
             /\ resolved' = Append(resolved, request)
        ELSE UNCHANGED <<pending, resolved>>
  /\ toHost' = Tail(toHost)
  /\ UNCHANGED <<sessions, document, activeEditor, astray, uiVars, toUi, inputs>>

\* Mutant: like activateEditor, an edit from the window is not reported back.
ReceiveUiDocumentSilently ==
  /\ toHost # <<>> /\ Head(toHost).kind = "edit"
  /\ LET m == Head(toHost)
     IN document' = IF m.d \in sessions /\ document[m.d].text # m.doc.text
                    THEN [document EXCEPT ![m.d] =
                            [text    |-> m.doc.text,
                             version |-> document[m.d].version + 1]]
                    ELSE document
  /\ toHost' = Tail(toHost)
  /\ UNCHANGED <<sessions, activeEditor, pending, resolved, astray, uiVars, toUi,
                 inputs>>

\* editor.ui.document: an edit of an editor the registry does not have yet is
\* dropped.
ReceiveUiDocument ==
  /\ toHost # <<>> /\ Head(toHost).kind = "edit"
  /\ LET m == Head(toHost)
     IN IF m.d \in sessions THEN ApplyModelChange(m.d, m.doc.text)
        ELSE UNCHANGED <<document, toUi, astray>>
  /\ toHost' = Tail(toHost)
  /\ UNCHANGED <<sessions, activeEditor, pending, resolved, uiVars, inputs>>

\* editor.ui.activate: source "ui", so the window is not told.
ReceiveUiActivate ==
  /\ toHost # <<>> /\ Head(toHost).kind = "activate"
  /\ activeEditor' = IF Head(toHost).d \in sessions THEN Head(toHost).d
                     ELSE activeEditor
  /\ toHost' = Tail(toHost)
  /\ UNCHANGED <<sessions, document, pending, resolved, astray, uiVars, toUi,
                 inputs>>

-----------------------------------------------------------------------------
(* The application window.                                                 *)

OpenTab(d, doc) ==
  /\ tabs' = tabs \union {d}
  /\ view' = [view EXCEPT ![d] = doc]
  /\ activeTab' = d

\* editor.showDocument: open the tab and answer at once.
ReceiveShowRequest ==
  /\ toUi # <<>> /\ Head(toUi).kind = "show"
  /\ LET m == Head(toUi)
     IN /\ OpenTab(m.d, m.doc)
        /\ toHost' = Append(toHost, Message("response", m.d, m.doc, m.id))
  /\ toUi' = Tail(toUi)
  /\ UNCHANGED <<hostVars, inputs>>

ReceiveSessionOpened ==
  /\ toUi # <<>> /\ Head(toUi).kind = "opened"
  /\ OpenTab(Head(toUi).d, Head(toUi).doc)
  /\ toUi' = Tail(toUi)
  /\ UNCHANGED <<hostVars, toHost, inputs>>

ReceiveActiveChanged ==
  /\ toUi # <<>> /\ Head(toUi).kind = "active"
  /\ activeTab' = IF Head(toUi).d \in tabs THEN Head(toUi).d ELSE activeTab
  /\ toUi' = Tail(toUi)
  /\ UNCHANGED <<hostVars, tabs, view, toHost, inputs>>

\* Mutant: a report changes the active tab only.
ReceiveDocumentChangedActive ==
  /\ toUi # <<>> /\ Head(toUi).kind = "changed"
  /\ LET m == Head(toUi)
     IN view' = IF m.d = activeTab THEN [view EXCEPT ![m.d] = m.doc] ELSE view
  /\ toUi' = Tail(toUi)
  /\ UNCHANGED <<hostVars, tabs, activeTab, toHost, inputs>>

ReceiveDocumentChanged ==
  /\ toUi # <<>> /\ Head(toUi).kind = "changed"
  /\ LET m == Head(toUi)
     IN view' = IF m.d \in tabs THEN [view EXCEPT ![m.d] = m.doc] ELSE view
  /\ toUi' = Tail(toUi)
  /\ UNCHANGED <<hostVars, tabs, activeTab, toHost, inputs>>

\* Typing into the active tab: shown at once under the version the tab has,
\* and sent without a version.
UiEdit(text) ==
  /\ TakeInput
  /\ activeTab \in tabs
  /\ view[activeTab].text # text
  /\ LET doc == [view[activeTab] EXCEPT !.text = text]
     IN /\ view' = [view EXCEPT ![activeTab] = doc]
        /\ toHost' = Append(toHost, Message("edit", activeTab, doc, 0))
  /\ UNCHANGED <<hostVars, tabs, activeTab, toUi>>

\* Clicking a tab.
UiActivate(d) ==
  /\ TakeInput
  /\ d \in tabs
  /\ activeTab' = d
  /\ toHost' = Append(toHost, Message("activate", d, Blank, 0))
  /\ UNCHANGED <<hostVars, tabs, view, toUi>>

-----------------------------------------------------------------------------
HostReceives == ReceiveShowResponse \/ ReceiveUiDocument \/ ReceiveUiActivate
UiReceives   == \/ ReceiveShowRequest \/ ReceiveSessionOpened
                \/ ReceiveActiveChanged \/ ReceiveDocumentChanged

Next ==
  \/ \E d \in Documents : ShowTextDocument(d)
  \/ \E request \in pending : RequestTimeout(request)
  \/ \E d \in Documents, text \in Texts : ExtensionEdit(d, text)
  \/ \E text \in Texts : UiEdit(text)
  \/ \E d \in Documents : UiActivate(d)
  \/ FinishShow
  \/ HostReceives
  \/ UiReceives

Spec == Init /\ [][Next]_vars

\* Both processes keep reading their pipe, and node runs every promise
\* continuation it has made ready.  Nobody is obliged to type or to edit.
Fairness ==
  /\ WF_vars(FinishShow)
  /\ WF_vars(HostReceives)
  /\ WF_vars(UiReceives)

FairSpec == Spec /\ Fairness

-----------------------------------------------------------------------------
TypeOK ==
  /\ sessions \subseteq Documents
  /\ document \in [Documents -> Snapshot]
  /\ activeEditor \in Documents \union {NoEditor}
  /\ pending \subseteq Request
  /\ resolved \in Seq(Request)
  /\ tabs \subseteq Documents
  /\ view \in [Documents -> Snapshot]
  /\ activeTab \in Documents \union {NoEditor}
  /\ toUi \in Seq(ToUiMessage)
  /\ toHost \in Seq(ToHostMessage)
  /\ inputs \in 0..MaxInputs
  /\ astray \subseteq sessions

\* No message that would still change the text of d is on its way.
Quiet(d) ==
  /\ \A i \in 1..Len(toUi) : ~CarriesDocument(toUi[i], d)
  /\ \A i \in 1..Len(toHost) : ~IsEdit(toHost[i], d)

\* Whenever nothing about a document is on its way, its tab shows the host's
\* text under the host's version, however user edits, extension edits, shows
\* and timeouts crossed before, if the host's last word on it was the registered
\* text: not an object read again, and no report lost in a listener.
Converged ==
  \A d \in sessions :
    Quiet(d) => d \in tabs /\ (d \notin astray => view[d] = document[d])

\* A tab falls back to an older version of its document only when an object that
\* has just been read is shown, at version 1: reports, late answers and shows of
\* the registered object cannot undo a change the window has displayed.
ShowsReread(d) ==
  /\ toUi # <<>> /\ Head(toUi).kind = "show" /\ Head(toUi).d = d
  /\ Head(toUi).doc \in FromDisk
  /\ toUi' = Tail(toUi)
ViewVersionMonotone ==
  [][\A d \in Documents :
       view'[d].version >= view[d].version \/ ShowsReread(d)]_vars

\* A version names one text: no two reports of one document still on their
\* way, and no report and the registered document, share a version but not
\* the text.
VersionNamesText ==
  \A d \in sessions : \A i \in 1..Len(toUi) :
    toUi[i].d = d /\ toUi[i].kind = "changed" =>
      /\ toUi[i].doc.version = document[d].version => toUi[i].doc = document[d]
      /\ \A j \in 1..Len(toUi) :
           /\ toUi[j].d = d
           /\ toUi[j].kind = "changed"
           /\ toUi[j].doc.version = toUi[i].doc.version
           => toUi[j].doc = toUi[i].doc

\* Once users and extensions stop, both sides fall silent and every tab shows
\* its document for good, unless the window was told something else last: no
\* report and no edit echoes for ever.
EventuallyProjected ==
  <>[](/\ toUi = <<>> /\ toHost = <<>> /\ resolved = <<>>
       /\ \A d \in sessions :
            d \in tabs /\ (d \notin astray => view[d] = document[d]))

\* A show leaves its tab with the host's text and version, if nothing else about
\* an open document is on its way (editorSessions.ts: "Host remains the version
\* authority for document content").
ShowsProject ==
  [][\A d \in sessions :
       /\ toUi # <<>> /\ Head(toUi).kind = "show" /\ Head(toUi).d = d
       /\ toUi' = Tail(toUi) /\ Quiet(d)'
       => view'[d] = document'[d]]_vars

\* An edit the user makes in an open tab reaches the registry: when the host
\* takes it from the pipe, the document has a session (lifecycle plan:
\* editor.ui.document is routed into applyDocumentModelChange).
EditsReachModel ==
  [][\A d \in Documents :
       toHost # <<>> /\ IsEdit(Head(toHost), d) /\ toHost' = Tail(toHost)
         => d \in sessions]_vars
=============================================================================
