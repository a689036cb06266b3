---------------------------- MODULE ExtensionViews ----------------------------
(***************************************************************************)
(* The pages of the extension (viewManager.ts).  A page has a type and     *)
(* there is to be a single one of each; a second call shows the page there *)
(* is and puts its own event handler in the place of the one before.  A    *)
(* page is made at once, but its html is read from a file, and only after  *)
(* that are its disposal and its messages listened to.  The panels are     *)
(* VS Code's: asking a disposed one whether it is visible throws.          *)
(*                                                                         *)
(* Calls are numbered; a handler is named by the number of its call.       *)
(***************************************************************************)
EXTENDS Naturals, Sequences

CONSTANTS
  ViewTypes,
  MaxViewCalls   \* bound on the calls of createWebviewPanel

ASSUME ExtensionViewsAssumption == MaxViewCalls \in Nat

VARIABLES
  viewStatu,  \* ViewManager.viewStatu: for each type the call that made its page, or 0
  page,       \* the page each call has made, if it made one
  answer,     \* what became of each call's promise
  newest      \* the last call for each type

viewVars == <<viewStatu, page, answer, newest>>

-----------------------------------------------------------------------------
ViewCalls == 1..MaxViewCalls
NoPage    == 0

ViewsInit ==
  /\ viewStatu = [t \in ViewTypes |-> NoPage]
  /\ page = <<>>
  /\ answer = <<>>
  /\ newest = [t \in ViewTypes |-> NoPage]

Call          == Len(answer) + 1
TypeOfPage(c) == page[c].type
Status(t)     == viewStatu[t]

\* The page a call makes
MadePage(t) == [stage |-> "reading", type |-> t, open |-> TRUE, visible |-> TRUE,
                creating |-> TRUE, handlers |-> <<>>, joined |-> FALSE]
NotMade(t)  == [stage |-> "none", type |-> t, open |-> FALSE, visible |-> FALSE,
                creating |-> FALSE, handlers |-> <<>>, joined |-> FALSE]

\* mutant: the handlers there are stay
HandledTogether(c, t) == Append(page[Status(t)].handlers, c)

\* removeAllListeners and the handler of the call
HandledBy(c, t) == <<c>>

\* The page there is, for one more call
Reused(c, t) ==
  LET p == page[Status(t)]
  IN [p EXCEPT !.visible = TRUE, !.handlers = HandledBy(c, t),
               !.joined = p.joined \/ p.stage = "reading"]

-----------------------------------------------------------------------------
(* createWebviewPanel, for the first or the second column.                 *)

Called(t, outcome) ==
  /\ Call \in ViewCalls
  /\ answer' = Append(answer, outcome)
  /\ newest' = [newest EXCEPT ![t] = Call]

\* There is no page, or one to be put in the second column that is not visible
\* and is disposed first.
MakesPage(t, second) ==
  Status(t) # NoPage => second /\ page[Status(t)].open /\ ~page[Status(t)].visible

MakePage(t, second) ==
  /\ Called(t, "pending")
  /\ MakesPage(t, second)
  /\ viewStatu' = [viewStatu EXCEPT ![t] = Call]
  /\ page' = Append([c \in DOMAIN page |->
                       IF c = Status(t) THEN [page[c] EXCEPT !.open = FALSE] ELSE page[c]],
                    MadePage(t))

\* The page there is gets the handler and is asked to start again.  Neither
\* the plain return nor the promise returned settles the promise of the call.
ReusePage(t, second) ==
  /\ Status(t) # NoPage /\ page[Status(t)].open
  /\ ~MakesPage(t, second)
  /\ Called(t, "never")
  /\ page' = Append([page EXCEPT ![Status(t)] = Reused(Call, t)], NotMade(t))
  /\ UNCHANGED viewStatu

\* The page there was is disposed but still in the table.
AskDisposedPage(t) ==
  /\ Status(t) # NoPage /\ ~page[Status(t)].open
  /\ Called(t, "rejected")
  /\ page' = Append(page, NotMade(t))
  /\ UNCHANGED viewStatu

\* The callback of readFile: the html is set and everything listened to, the
\* handler of the call that made the page included.  On a page disposed since
\* then, setting the html throws.
HtmlRead(c) ==
  /\ page[c].stage = "reading"
  /\ IF page[c].open
     THEN /\ page' = [page EXCEPT ![c].stage = "shown", ![c].handlers = Append(@, c)]
          /\ answer' = [answer EXCEPT ![c] = "resolved"]
     ELSE /\ page' = [page EXCEPT ![c].stage = "unread"]
          /\ answer' = [answer EXCEPT ![c] = "never"]
  /\ UNCHANGED <<viewStatu, newest>>

HtmlUnread(c) ==
  /\ page[c].stage = "reading"
  /\ page' = [page EXCEPT ![c].stage = "unread"]
  /\ answer' = [answer EXCEPT ![c] = "rejected"]
  /\ UNCHANGED <<viewStatu, newest>>

\* The page posts its first init.
PageStarts(c) ==
  /\ page[c].stage = "shown" /\ page[c].open /\ page[c].creating
  /\ page' = [page EXCEPT ![c].creating = FALSE]
  /\ UNCHANGED <<viewStatu, answer, newest>>

-----------------------------------------------------------------------------
(* The user.                                                               *)

HideOrShow(c) ==
  /\ page[c].open
  /\ page' = [page EXCEPT ![c].visible = ~@]
  /\ UNCHANGED <<viewStatu, answer, newest>>

\* onDidDispose clears the type's entry, if it is registered by then.
ClosePage(c) ==
  /\ page[c].open
  /\ page' = [page EXCEPT ![c].open = FALSE]
  /\ viewStatu' = IF page[c].stage = "shown"
                  THEN [viewStatu EXCEPT ![TypeOfPage(c)] = NoPage] ELSE viewStatu
  /\ UNCHANGED <<answer, newest>>

ViewsNext ==
  \/ \E t \in ViewTypes :
       \/ \E second \in BOOLEAN : MakePage(t, second) \/ ReusePage(t, second)
       \/ AskDisposedPage(t)
  \/ \E c \in DOMAIN page :
       HtmlRead(c) \/ HtmlUnread(c) \/ PageStarts(c) \/ HideOrShow(c) \/ ClosePage(c)

ViewsSpec == ViewsInit /\ [][ViewsNext]_viewVars

-----------------------------------------------------------------------------
ViewsTypeOK ==
  /\ viewStatu \in [ViewTypes -> 0..MaxViewCalls] /\ newest \in [ViewTypes -> 0..MaxViewCalls]
  /\ answer \in Seq({"pending", "resolved", "rejected", "never"})
  /\ DOMAIN page = DOMAIN answer
  /\ \A c \in DOMAIN page :
       /\ page[c].stage \in {"none", "reading", "unread", "shown"}
       /\ page[c].type \in ViewTypes
       /\ {page[c].open, page[c].visible, page[c].creating, page[c].joined} \subseteq BOOLEAN
       /\ page[c].handlers \in Seq(ViewCalls)

\* There is one page of a type and it is the one that is found again; what it
\* posts is handled once, by the handler of the newest call for the type.
\* Only a call that came while the html was read leaves two handlers, its own
\* and the first's (createWebviewPanel, "keep single page by viewType").
SinglePage ==
  \A c \in DOMAIN page : page[c].open =>
    /\ viewStatu[TypeOfPage(c)] = c
    /\ page[c].stage = "shown" =>
         IF page[c].joined
         THEN newest[TypeOfPage(c)] = page[c].handlers[1]
         ELSE page[c].handlers = <<newest[TypeOfPage(c)]>>
=============================================================================
