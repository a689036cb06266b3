------------------------------- MODULE Webviews -------------------------------
(***************************************************************************)
(* Webview panels of the standalone application: the object an extension   *)
(* gets from createWebviewPanel, the host's registry, the notifications to *)
(* the window in their order, the window's list of panels and the frame    *)
(* that shows one.  A frame prepares the html (its resources are read one  *)
(* after the other) and then shows the page; it hands the messages of the  *)
(* panel to whatever page it has.  What a page posts back is a request like *)
(* those of HostPipe and left out here.                                    *)
(*                                                                         *)
(* An html text is the number of its assignment, 0 for the empty one;      *)
(* messages are numbered as they are posted.  A panel's id is made of its  *)
(* type and the time in milliseconds: panels of one type that are created  *)
(* within one have the same id, here the time itself.                      *)
(***************************************************************************)
EXTENDS Naturals, Sequences, SequencesExt

CONSTANTS
  Panels,     \* panel objects, of one type
  MaxTime,    \* bound on the time, in milliseconds
  MaxPanelCalls    \* bound on the assignments of html, posts and reveals

ASSUME WebviewsAssumption == MaxTime \in Nat \ {0} /\ MaxPanelCalls \in Nat

VARIABLES
  clock,
  object,     \* panel objects: state, id, html
  registry,   \* WebviewRegistry.panels: html and the object that receives
  panelMessages,   \* notifications, host -> window
  webviews,   \* the window's panels: html and messages
  frame,      \* their frames
  count       \* assignments, posts and reveals so far

webviewVars == <<clock, object, registry, panelMessages, webviews, frame, count>>

-----------------------------------------------------------------------------
Ids    == 1..MaxTime
Htmls  == 0..MaxPanelCalls
Posts  == 1..MaxPanelCalls
NoRecord   == [none |-> TRUE]    \* no record of the id

\* A frame that was never rendered; flights are preparations under way, want
\* the one whose result will be taken (the others are disposed).
NoFrame == [flights |-> {}, want |-> 0, waiting |-> FALSE, page |-> 0, error |-> FALSE,
            delivered |-> 0, received |-> <<>>]

WebviewInit ==
  /\ clock = 1
  /\ object = [o \in Panels |-> [state |-> "none", id |-> 1, html |-> 0, blank |-> TRUE]]
  /\ registry = [i \in Ids |-> NoRecord]
  /\ panelMessages = <<>>
  /\ webviews = [i \in Ids |-> NoRecord]
  /\ frame = [i \in Ids |-> NoFrame]
  /\ count = [html |-> 0, posts |-> 0, reveals |-> 0]

NotifyPanel(m) == panelMessages' = Append(panelMessages, m)
CanCall   == count.html + count.posts + count.reveals < MaxPanelCalls
Made(o)   == object[o].state # "none"
PanelId(o)     == object[o].id

-----------------------------------------------------------------------------
(* The extension.                                                          *)

Tick ==
  /\ clock < MaxTime
  /\ clock' = clock + 1
  /\ UNCHANGED <<object, registry, panelMessages, webviews, frame, count>>

\* createWebviewPanel: registerPanel takes the place of a panel with the id.
CreateWebviewPanel(o) ==
  /\ ~Made(o)
  /\ object' = [object EXCEPT ![o].state = "live", ![o].id = clock]
  /\ registry' = [registry EXCEPT ![clock] = [html |-> 0, receiver |-> o]]
  /\ NotifyPanel([group |-> "create", id |-> clock, html |-> 0])
  /\ UNCHANGED <<clock, webviews, frame, count>>

\* webview.html = ...  The object keeps it also when the registry, which no
\* longer has the panel, throws.
SetHtml(o) ==
  /\ Made(o) /\ CanCall
  /\ count' = [count EXCEPT !.html = @ + 1]
  /\ object' = [object EXCEPT ![o].html = count.html + 1, ![o].blank = FALSE]
  /\ IF registry[PanelId(o)] = NoRecord
     THEN UNCHANGED <<registry, panelMessages>>
     ELSE /\ registry' = [registry EXCEPT ![PanelId(o)].html = count.html + 1]
          /\ NotifyPanel([group |-> "setHtml", id |-> PanelId(o), html |-> count.html + 1])
  /\ UNCHANGED <<clock, webviews, frame>>

\* webview.postMessage; rejected when the registry has no such panel.
PostMessage(o) ==
  /\ Made(o) /\ registry[PanelId(o)] # NoRecord /\ CanCall
  /\ count' = [count EXCEPT !.posts = @ + 1]
  /\ NotifyPanel([group |-> "postMessage", id |-> PanelId(o), message |-> count.posts + 1])
  /\ UNCHANGED <<clock, object, registry, webviews, frame>>

\* reveal sends webview.create without html.
Reveal(o) ==
  /\ Made(o) /\ CanCall
  /\ count' = [count EXCEPT !.reveals = @ + 1]
  /\ object' = [object EXCEPT ![o].blank = TRUE]
  /\ NotifyPanel([group |-> "create", id |-> PanelId(o), html |-> 0])
  /\ UNCHANGED <<clock, registry, webviews, frame>>

\* dispose: the window is told to empty the page and keeps the panel.
Dispose(o) ==
  /\ object[o].state = "live"
  /\ object' = [object EXCEPT ![o].state = "disposed", ![o].blank = TRUE]
  /\ registry' = [registry EXCEPT ![PanelId(o)] = NoRecord]
  /\ NotifyPanel([group |-> "setHtml", id |-> PanelId(o), html |-> 0])
  /\ UNCHANGED <<clock, webviews, frame, count>>

-----------------------------------------------------------------------------
(* The window.                                                             *)

\* upsertWebview replaces a panel whole.  Its localResourceRoots are a new
\* array, so the frame prepares the page again whatever the html is.
Opened(m) == [webviews EXCEPT ![m.id] = [html |-> m.html, messages |-> <<>>, due |-> TRUE]]

\* updateWebviewHtml and appendWebviewMessage of a panel the window has not are lost.
HtmlSet(m) ==
  LET old == webviews[m.id]
  IN [webviews EXCEPT ![m.id] = [old EXCEPT !.html = m.html, !.due = old.due \/ old.html # m.html]]

\* mutant: the newest message is the one that is kept
MessageReplaced(m) == [webviews EXCEPT ![m.id].messages = <<m.message>>]

MessageAppended(m) == [webviews EXCEPT ![m.id].messages = Append(@, m.message)]

TakeNotification ==
  /\ panelMessages # <<>>
  /\ panelMessages' = Tail(panelMessages)
  /\ LET m == Head(panelMessages)
     IN webviews' = IF m.group = "create" THEN Opened(m)
                    ELSE IF webviews[m.id] = NoRecord THEN webviews
                    ELSE IF m.group = "setHtml" THEN HtmlSet(m) ELSE MessageAppended(m)
  /\ UNCHANGED <<clock, object, registry, frame, count>>

Undelivered(i) ==
  SubSeq(webviews[i].messages, frame[i].delivered + 1, Len(webviews[i].messages))

\* The effects of WebviewFrame after a render, which may show the outcome of
\* several notifications at once: the html that is new is prepared, and the
\* messages beyond deliveredCount go to the page there is.
RenderFrame(i) ==
  /\ webviews[i] # NoRecord
  /\ webviews[i].due \/ Len(webviews[i].messages) # frame[i].delivered
  /\ webviews' = [webviews EXCEPT ![i].due = FALSE]
  /\ LET old == frame[i]
     IN frame' = [frame EXCEPT ![i] =
          [old EXCEPT
             !.flights   = IF webviews[i].due THEN @ \union {webviews[i].html} ELSE @,
             !.want      = IF webviews[i].due THEN webviews[i].html ELSE @,
             !.waiting   = old.waiting \/ webviews[i].due,
             !.error     = old.error /\ ~webviews[i].due,
             !.received  = @ \o Undelivered(i),
             !.delivered = Len(webviews[i].messages)]]
  /\ UNCHANGED <<clock, object, registry, panelMessages, count>>

\* mutant: a preparation that was disposed is shown all the same
TakenAlways(i, h) == TRUE

Taken(i, h) == frame[i].waiting /\ h = frame[i].want

\* prepareWebviewHtml ends, or fails to read a resource.  The empty page has
\* none to read.
Prepared(i, h) ==
  /\ h \in frame[i].flights
  /\ LET old == frame[i]
     IN frame' = [frame EXCEPT ![i] =
          IF Taken(i, h)
          THEN [old EXCEPT !.flights = @ \ {h}, !.page = h, !.waiting = old.waiting /\ h # old.want]
          ELSE [old EXCEPT !.flights = @ \ {h}]]
  /\ UNCHANGED <<clock, object, registry, panelMessages, webviews, count>>

PrepareFails(i, h) ==
  /\ h \in frame[i].flights /\ h # 0
  /\ LET old == frame[i]
     IN frame' = [frame EXCEPT ![i] =
          IF Taken(i, h)
          THEN [old EXCEPT !.flights = @ \ {h}, !.error = TRUE, !.waiting = FALSE]
          ELSE [old EXCEPT !.flights = @ \ {h}]]
  /\ UNCHANGED <<clock, object, registry, panelMessages, webviews, count>>

WebviewNext ==
  \/ Tick
  \/ \E o \in Panels :
       \/ CreateWebviewPanel(o) \/ SetHtml(o) \/ PostMessage(o) \/ Reveal(o) \/ Dispose(o)
  \/ TakeNotification
  \/ \E i \in Ids :
       \/ RenderFrame(i)
       \/ \E h \in Htmls : Prepared(i, h) \/ PrepareFails(i, h)

WebviewSpec == WebviewInit /\ [][WebviewNext]_webviewVars

-----------------------------------------------------------------------------
WebviewTypeOK ==
  /\ clock \in Ids
  /\ object \in [Panels -> [state : {"none", "live", "disposed"}, id : Ids, html : Htmls,
                            blank : BOOLEAN]]
  /\ \A i \in Ids :
       /\ registry[i] \in {NoRecord} \union [html : Htmls, receiver : Panels]
       /\ webviews[i] = NoRecord \/ webviews[i].html \in Htmls
       /\ frame[i].flights \subseteq Htmls /\ {frame[i].want, frame[i].page} \subseteq Htmls
       /\ frame[i].waiting => frame[i].want \in frame[i].flights
       /\ ToSet(frame[i].received) \subseteq Posts

\* No other panel was created in the same millisecond.
Alone(o) == Made(o) /\ \A q \in Panels \ {o} : Made(q) => PanelId(q) # PanelId(o)

\* Nothing is under way for a panel of the window.
Settled(i) ==
  /\ \A n \in DOMAIN panelMessages : panelMessages[n].id # i
  /\ webviews[i] # NoRecord
  /\ ~webviews[i].due /\ ~frame[i].waiting
  /\ Len(webviews[i].messages) = frame[i].delivered

\* Once nothing is under way the frame shows the html its extension set last,
\* however preparations overtake each other, unless that html could not be
\* prepared: then the frame says so.  A panel that was revealed or disposed
\* since has the empty page.
PageIsCurrent ==
  \A o \in Panels :
    Alone(o) /\ Settled(PanelId(o)) /\ object[o].state = "live" =>
      \/ frame[PanelId(o)].error
      \/ frame[PanelId(o)].page = IF object[o].blank THEN 0 ELSE object[o].html

\* A frame hands over the messages of a panel in the order in which they were
\* posted and none twice, and only those: renders that skip states of the
\* window, and a list that starts again after a reveal, included.  Without a
\* reveal it hands over all.
MessagesOnceInOrder ==
  \A i \in Ids :
    LET received == frame[i].received
    IN /\ \A m, n \in DOMAIN received : m < n => received[m] < received[n]
       /\ (Settled(i) /\ count.reveals = 0 /\ \A o \in Panels : Made(o) /\ PanelId(o) = i => Alone(o))
            => received = webviews[i].messages
=============================================================================
