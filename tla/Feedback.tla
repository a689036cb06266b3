------------------------------- MODULE Feedback -------------------------------
(***************************************************************************)
(* The items of the workbench an extension of the standalone host makes:   *)
(* output channels, status bar items, virtual terminals and progress       *)
(* (workbenchFeedback.ts, withProgress), each an object in the host that   *)
(* notifies the window of what is done to it, and the window's list of     *)
(* items (messageHandlers.ts, workbenchStore.ts).                          *)
(*                                                                         *)
(* A content is a sequence of numbers: what was appended to an output or a *)
(* terminal, or the one text of a status bar item or of a progress.        *)
(***************************************************************************)
EXTENDS Naturals, Sequences

CONSTANTS
  Items,    \* objects
  MaxItemCalls  \* bound on the calls of their methods

ASSUME FeedbackAssumption == MaxItemCalls \in Nat

VARIABLES
  kind,      \* what each object is
  item,      \* the objects: state, visible, content
  itemMessages,  \* notifications, host -> window
  itemListening, \* the window listens
  heardAll,  \* ... and has since before the first notification
  list,      \* the window's items
  calls

feedbackVars == <<kind, item, itemMessages, itemListening, heardAll, list, calls>>

-----------------------------------------------------------------------------
ItemKinds    == {"output", "status", "terminal", "progress"}
NoItem   == [listed |-> FALSE, visible |-> FALSE, content |-> <<>>]
Listed(visible, content) == [listed |-> TRUE, visible |-> visible, content |-> content]

FeedbackInit ==
  /\ kind \in [Items -> ItemKinds]
  /\ item = [i \in Items |-> [state |-> "none", visible |-> FALSE, content |-> <<>>]]
  /\ itemMessages = <<>>
  /\ itemListening \in BOOLEAN /\ heardAll = itemListening
  /\ list = [i \in Items |-> NoItem]
  /\ calls = 0

Live(i) == item[i].state = "live"
Called  == calls < MaxItemCalls /\ calls' = calls + 1

NotifyItem(i, group) ==
  itemMessages' = Append(itemMessages, [kind |-> kind[i], group |-> group, item |-> i,
                                visible |-> item'[i].visible, content |-> item'[i].content])

-----------------------------------------------------------------------------
(* The extension.                                                          *)

\* createOutputChannelApi, createVirtualTerminalApi and the start of
\* withProgress notify; a status bar item is first heard of when it is shown.
Create(i) ==
  /\ item[i].state = "none"
  /\ item' = [item EXCEPT ![i].state = "live"]
  /\ IF kind[i] = "status" THEN UNCHANGED itemMessages ELSE NotifyItem(i, "create")
  /\ UNCHANGED <<kind, itemListening, heardAll, list, calls>>

\* append, appendLine, sendText: only of a live object
Write(i) ==
  /\ kind[i] \in {"output", "terminal"} /\ Live(i) /\ Called
  /\ item' = [item EXCEPT ![i].content = Append(@, calls + 1)]
  /\ NotifyItem(i, "append")
  /\ UNCHANGED <<kind, itemListening, heardAll, list>>

\* mutant: an item that was disposed still sends
UpdatesAlways(i) == item[i].visible

Updates(i) == item[i].visible /\ Live(i)

\* The text of a status bar item, which is sent while it is visible.
SetText(i) ==
  /\ kind[i] = "status" /\ item[i].state # "none" /\ Called
  /\ item' = [item EXCEPT ![i].content = <<calls + 1>>]
  /\ IF Updates(i) THEN NotifyItem(i, "update") ELSE UNCHANGED itemMessages
  /\ UNCHANGED <<kind, itemListening, heardAll, list>>

\* progress.report, also after the task has ended: nothing guards it.
Report(i) ==
  /\ kind[i] = "progress" /\ item[i].state # "none" /\ Called
  /\ item' = [item EXCEPT ![i].content = <<calls + 1>>]
  /\ NotifyItem(i, "report")
  /\ UNCHANGED <<kind, itemListening, heardAll, list>>

Clear(i) ==
  /\ kind[i] = "output" /\ Live(i) /\ Called
  /\ item' = [item EXCEPT ![i].content = <<>>]
  /\ NotifyItem(i, "clear")
  /\ UNCHANGED <<kind, itemListening, heardAll, list>>

Show(i) ==
  /\ kind[i] # "progress" /\ Live(i) /\ Called
  /\ item' = [item EXCEPT ![i].visible = TRUE]
  /\ NotifyItem(i, "show")
  /\ UNCHANGED <<kind, itemListening, heardAll, list>>

Hide(i) ==
  /\ kind[i] # "progress" /\ Live(i) /\ Called
  /\ item' = [item EXCEPT ![i].visible = FALSE]
  /\ NotifyItem(i, "hide")
  /\ UNCHANGED <<kind, itemListening, heardAll, list>>

\* dispose, and the end of withProgress.  A status bar item keeps visible.
DisposeItem(i) ==
  /\ Live(i)
  /\ item' = [item EXCEPT ![i].state = "disposed"]
  /\ NotifyItem(i, "dispose")
  /\ UNCHANGED <<kind, itemListening, heardAll, list, calls>>

-----------------------------------------------------------------------------
(* The window.                                                             *)

\* What a notification makes of an item that is listed ...
ListedAfter(m, old) ==
  CASE m.group = "create" /\ m.kind # "output"      -> Listed(m.visible, <<>>)
    [] m.group = "create" /\ m.kind = "output"      -> [old EXCEPT !.visible = m.visible]
    [] m.group \in {"append"}      -> [old EXCEPT !.content = Append(@, m.content[Len(m.content)])]
    [] m.group = "report"                                 -> [old EXCEPT !.content = m.content]
    [] m.group = "clear"                                  -> [old EXCEPT !.content = <<>>]
    [] m.group \in {"show", "update"} /\ m.kind = "status" -> Listed(m.visible, m.content)
    [] m.group = "show" /\ m.kind # "status"        -> [old EXCEPT !.visible = TRUE]
    [] m.group = "hide"                                   -> [old EXCEPT !.visible = FALSE]
    [] m.group = "dispose"                                -> NoItem

\* ... and of one that is not: a window that has missed the creation of an
\* output or a terminal makes it when it is written to.
UnlistedAfter(m) ==
  CASE m.group = "create" -> Listed(m.visible, <<>>)
    [] m.group = "append" ->
         Listed(m.kind = "terminal", <<m.content[Len(m.content)]>>)
    [] m.group \in {"show", "update"} /\ m.kind = "status" -> Listed(m.visible, m.content)
    [] m.group = "show" /\ m.kind = "output" -> Listed(TRUE, <<>>)
    [] OTHER -> NoItem

Arrive ==
  /\ itemMessages # <<>>
  /\ itemMessages' = Tail(itemMessages)
  /\ LET m == Head(itemMessages)
     IN list' = IF ~itemListening THEN list
                ELSE [list EXCEPT ![m.item] =
                        IF @.listed THEN ListedAfter(m, @) ELSE UnlistedAfter(m)]
  /\ UNCHANGED <<kind, item, itemListening, heardAll, calls>>

StartListening ==
  /\ ~itemListening
  /\ itemListening' = TRUE
  /\ UNCHANGED <<kind, item, itemMessages, heardAll, list, calls>>

FeedbackNext ==
  \/ \E i \in Items :
       \/ Create(i) \/ Write(i) \/ SetText(i) \/ Report(i) \/ Clear(i) \/ Show(i) \/ Hide(i)
       \/ DisposeItem(i)
  \/ Arrive
  \/ StartListening

FeedbackSpec == FeedbackInit /\ [][FeedbackNext]_feedbackVars

-----------------------------------------------------------------------------
FeedbackTypeOK ==
  /\ kind \in [Items -> ItemKinds]
  /\ item \in [Items -> [state : {"none", "live", "disposed"}, visible : BOOLEAN,
                         content : Seq(1..MaxItemCalls)]]
  /\ list \in [Items -> [listed : BOOLEAN, visible : BOOLEAN, content : Seq(1..MaxItemCalls)]]
  /\ itemListening \in BOOLEAN /\ heardAll \in BOOLEAN
  /\ calls \in 0..MaxItemCalls

Caught(i) == itemListening /\ \A n \in DOMAIN itemMessages : itemMessages[n].item # i

\* A window that has taken every notification of an item lists none the
\* extension has disposed or ended, whatever is called on it afterwards; and
\* if it has listened from the start the item is as the extension left it:
\* visible or not, and with the content it has, which a status bar item that
\* is hidden need not show.
ItemsAreShown ==
  \A i \in Items : Caught(i) =>
    /\ list[i].listed => Live(i)
    /\ heardAll /\ Live(i) =>
         /\ list[i].visible = item[i].visible
         /\ kind[i] # "status" \/ item[i].visible => list[i].content = item[i].content
=============================================================================
