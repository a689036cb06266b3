------------------------------ MODULE QueryPage ------------------------------
(***************************************************************************)
(* One page of query results (App.vue of vue/result) with what stands      *)
(* behind it: QueryUnit.runQuery, QueryPage.send and its handlers, and the *)
(* page's way through ViewManager.  The page stays open, in one column.    *)
(*                                                                         *)
(* A statement lists a table, lists it under the page's conditions or      *)
(* changes data.  Rows are named by the statement and the page number they *)
(* were read with; of the rows shown one stands for all.  Results are      *)
(* those of one table with a key (isTableResult, editable).                *)
(***************************************************************************)
EXTENDS Naturals, Sequences, Bags

CONSTANTS
  Tables,
  NoText,    \* no statement, no rows
  MaxOps,    \* bound on what the user does with statements
  MaxOnWay   \* bound on what is on its way when the user does something

VARIABLES
  view,       \* the page in ViewManager
  first,      \* what its first caller sends, until the html is read
  handlers,   \* what each handler of its events sends on init
  requests,   \* requests that wait for a connection or an answer
  toPage, toHost,
  app,        \* the data of App.vue
  ops,        \* what the user has done
  alone,      \* the last of it was a listing begun while nothing was on its way
  calm,       \* such a listing was shown, and nothing was begun in a hurry since
  dropped,    \* kinds of requests that were never answered
  twice,      \* an event of the page was handled twice
  typed,      \* how the last edit was made
  misplaced   \* a row was saved over another

hostSide == <<view, first, handlers, requests>>
ghosts   == <<ops, alone, calm, dropped, twice, typed, misplaced>>
pageVars == <<hostSide, toPage, toHost, app, ghosts>>

-----------------------------------------------------------------------------
Listing(t)  == [table |-> t, kind |-> "list"]
Filtered(t) == [table |-> t, kind |-> "filter"]
Change(t)   == [table |-> t, kind |-> "change"]
Texts == [table : Tables, kind : {"list", "filter", "change"}]

ASSUME QueryPageAssumption == MaxOps \in Nat /\ MaxOnWay \in Nat /\ NoText \notin Texts

PageRows  == [sql : Texts, page : 1..2]
NoEdits == [tracked |-> TRUE, row |-> NoText]

QueryPageInit ==
  /\ view = "none" /\ first = NoText /\ handlers = <<>>
  /\ requests = EmptyBag /\ toPage = <<>> /\ toHost = <<>>
  /\ app = [sql |-> NoText, rows |-> NoText, base |-> NoText, total |-> NoText,
            filtering |-> FALSE, loading |-> TRUE, edits |-> NoEdits]
  /\ ops = 0 /\ alone = FALSE /\ calm = FALSE
  /\ dropped = {} /\ twice = FALSE /\ typed = "still" /\ misplaced = FALSE

Quiet == /\ view \in {"none", "shown"}
         /\ requests = EmptyBag /\ toPage = <<>> /\ toHost = <<>>

\* The user does something with a statement.
Begins(lists) ==
  /\ ops < MaxOps
  /\ BagCardinality(requests) + Len(toPage) + Len(toHost) <= MaxOnWay
  /\ ops' = ops + 1
  /\ alone' = (Quiet /\ lists)
  /\ calm' = (calm /\ Quiet)

-----------------------------------------------------------------------------
(* The extension.                                                          *)

\* A message names its statement where the page uses it.
Message(type, text) ==
  [type |-> type, page |-> 1,
   sql  |-> IF type \in {"DATA", "NEXT_PAGE", "COUNT"} THEN text ELSE NoText]

\* QueryPage.send, with createWebviewPanel: the sender's handlers take the
\* place of those there are, and the page is told unless it has not started.
Sends(messages) ==
  /\ IF view = "none"
     THEN view' = "reading" /\ first' = messages[1] /\ UNCHANGED handlers
     ELSE handlers' = <<messages[Len(messages)]>> /\ UNCHANGED <<view, first>>
  /\ toPage' = IF view = "shown" THEN toPage \o messages ELSE toPage

Request(op, text, page) == [op |-> op, sql |-> text, page |-> page]
Asks(n, request) == requests (+) [r \in {request} |-> n]

\* QueryUnit.runQuery, called by each of n handlers
RunQuery(text, n) ==
  /\ requests' = Asks(n, Request("run", text, 1))
  /\ Sends([i \in 1..n |-> Message("RUN", text)])

\* A statement is run from an editor or a node of the tree.
RunFromEditor(text) ==
  /\ Begins(text.kind # "change")
  /\ RunQuery(text, 1)
  /\ UNCHANGED <<toHost, app, dropped, twice, typed, misplaced>>

\* The events of the page: execute, next, count and saveModify
HostTakes ==
  /\ toHost # <<>>
  /\ toHost' = Tail(toHost)
  /\ LET e == Head(toHost)
         n == Len(handlers)
     IN /\ IF e.op = "run"
           THEN RunQuery(e.sql, n)
           ELSE requests' = Asks(n, e) /\ UNCHANGED <<view, first, handlers, toPage>>
        /\ twice' = (twice \/ n > 1)
  /\ UNCHANGED <<app, ops, alone, calm, dropped, typed, misplaced>>

\* What the handlers of next, count and saveModify emit
Emitted(r) ==
  CASE r.op = "next"  -> [Message("NEXT_PAGE", r.sql) EXCEPT !.page = r.page]
    [] r.op = "count" -> Message("COUNT", r.sql)
    [] r.op = "save"  -> Message("updateSuccess", NoText)

\* A request is answered: a statement through its callback, where rows are
\* sent when adaptData has listed the columns, the others by their handler.
\* The connection answers in order, but getConnection, a promise for each
\* request, puts them on it in any order.
Answered(r) ==
  /\ requests' = requests (-) SetToBag({r})
  /\ \/ /\ r.op = "run"
        /\ \E type \in IF r.sql.kind = "change" THEN {"DML", "INSERTED", "ERROR"}
                       ELSE {"DATA", "ERROR"} :
             Sends(<<Message(type, r.sql)>>)
     \/ /\ r.op # "run"
        /\ toPage' = Append(toPage, Emitted(r))
        /\ UNCHANGED <<view, first, handlers>>
     \/ /\ r.op = "save"
        /\ toPage' = Append(toPage, Message("updateFail", NoText))
        /\ UNCHANGED <<view, first, handlers>>
  /\ UNCHANGED <<toHost, app, ops, alone, calm, dropped, twice, typed, misplaced>>

\* A request that is never answered: runQuery logs what getConnection throws,
\* nobody takes the rejections of next, of count and of the column list.
Dropped(r) ==
  /\ r.op # "save"
  /\ requests' = requests (-) SetToBag({r})
  /\ dropped' = dropped \union
       ({IF r.op = "run" THEN r.sql.kind ELSE r.op} \intersect {"filter", "next"})
  /\ UNCHANGED <<view, first, handlers, toPage, toHost, app, ops, alone, calm,
                 twice, typed, misplaced>>

\* The callback of readFile adds the handlers of the page's first caller.
PageRead ==
  /\ view = "reading"
  /\ view' = "loading"
  /\ handlers' = Append(handlers, first)
  /\ first' = NoText
  /\ UNCHANGED <<requests, toPage, toHost, app, ghosts>>

\* App.vue is mounted and its init is answered by every handler.
PageMounted ==
  /\ view = "loading"
  /\ view' = "shown"
  /\ toPage' = toPage \o handlers
  /\ UNCHANGED <<first, handlers, requests, toHost, app, ghosts>>

-----------------------------------------------------------------------------
(* The page.                                                               *)

Execute(text) == Append(toHost, Request("run", text, 1))

\* mutant: the conditions of the table before stay
BaseKept(text) == IF app.base # NoText THEN app.base ELSE text

\* baseTableSql after a result: the conditions are put on the statement they
\* were put on before, if the page has asked for them, else on the new one.
Base(text) == IF app.filtering /\ app.base # NoText THEN app.base ELSE text

\* handlerData; a full page of rows makes the page ask for their number.
ShowData(text, full) ==
  /\ app' = [sql       |-> text,
             rows      |-> [sql |-> text, page |-> 1],
             base      |-> Base(text),
             total     |-> IF full THEN NoText ELSE text,
             filtering |-> FALSE,
             loading   |-> FALSE,
             edits     |-> NoEdits]
  /\ toHost' = IF full THEN Append(toHost, Request("count", text, 1)) ELSE toHost
  /\ calm' = (calm \/ alone)

\* The listeners of the page.  A RUN shows nothing as loading, since the
\* listener has just noted the very transId it compares; the one of a DML
\* does not contain the word that makes the page list again.  updateSuccess
\* puts the edits into the rows and leaves an object where a list was: the
\* next edit fails.
PageTakes ==
  /\ view = "shown" /\ toPage # <<>>
  /\ toPage' = Tail(toPage)
  /\ LET m == Head(toPage)
     IN \/ /\ m.type = "DATA"
           /\ \E full \in BOOLEAN : ShowData(m.sql, full)
        \/ /\ m.type = "NEXT_PAGE"
           /\ app' = [app EXCEPT !.rows = [sql |-> m.sql, page |-> m.page], !.loading = FALSE]
           /\ UNCHANGED <<toHost, calm>>
        \/ /\ m.type = "COUNT"
           /\ app' = [app EXCEPT !.total = m.sql, !.loading = FALSE]
           /\ UNCHANGED <<toHost, calm>>
        \/ /\ m.type = "ERROR"
           /\ app' = [app EXCEPT !.filtering = FALSE, !.loading = FALSE]
           /\ UNCHANGED <<toHost, calm>>
        \/ /\ m.type = "INSERTED"
           /\ app' = [app EXCEPT !.loading = (app.sql # NoText)]
           /\ toHost' = IF app.sql # NoText THEN Execute(app.sql) ELSE toHost
           /\ UNCHANGED calm
        \/ /\ m.type \in {"RUN", "DML", "updateFail"}
           /\ app' = [app EXCEPT !.loading = FALSE]
           /\ UNCHANGED <<toHost, calm>>
        \/ /\ m.type = "updateSuccess"
           /\ app' = [app EXCEPT !.rows = IF app.edits.row # NoText THEN app.edits.row ELSE @,
                                 !.edits = [tracked |-> FALSE, row |-> NoText]]
           /\ UNCHANGED <<toHost, calm>>
  /\ UNCHANGED <<hostSide, ops, alone, dropped, twice, typed, misplaced>>

\* The user runs a statement on the page: typed, sorted, refreshed, inserted,
\* deleted.
RunOnPage(text) ==
  /\ view = "shown" /\ Begins(text.kind # "change")
  /\ toHost' = Execute(text)
  /\ app' = [app EXCEPT !.loading = TRUE]
  /\ UNCHANGED <<hostSide, toPage, dropped, twice, typed, misplaced>>

\* refresh: the statement of the rows shown, conditions and all
Refresh == app.sql # NoText /\ RunOnPage(app.sql)

ApplyConditionFilters ==
  /\ view = "shown" /\ app.sql # NoText /\ Begins(TRUE)
  /\ toHost' = Execute(Filtered(app.base.table))
  /\ app' = [app EXCEPT !.filtering = TRUE, !.loading = TRUE]
  /\ UNCHANGED <<hostSide, toPage, dropped, twice, typed, misplaced>>

ClearConditionFilters ==
  /\ view = "shown" /\ app.sql # NoText /\ Begins(TRUE)
  /\ toHost' = Execute(app.base)
  /\ app' = [app EXCEPT !.filtering = FALSE, !.loading = TRUE]
  /\ UNCHANGED <<hostSide, toPage, dropped, twice, typed, misplaced>>

\* mutant: edits stay when another page is asked for
EditsKept == app.edits

\* changePage asks before it drops edits.
EditsDropped == IF app.edits.row # NoText THEN NoEdits ELSE app.edits

ChangePage(n) ==
  /\ view = "shown" /\ app.sql # NoText /\ Begins(FALSE)
  /\ toHost' = Append(toHost, Request("next", app.sql, n))
  /\ app' = [app EXCEPT !.loading = TRUE, !.edits = EditsDropped]
  /\ UNCHANGED <<hostSide, toPage, dropped, twice, typed, misplaced>>

\* Requests for rows that are not shown yet
NextDue ==
  \/ \E j \in DOMAIN toHost : toHost[j].op = "next"
  \/ \E r \in BagToSet(requests) : r.op = "next"
  \/ \E j \in DOMAIN toPage : toPage[j].type = "NEXT_PAGE"

\* editListen: the row is copied at its first edit.  While the table is
\* loading it is covered.
EditRow ==
  /\ view = "shown" /\ app.rows # NoText /\ ~app.loading
  /\ app.edits.tracked /\ app.edits.row = NoText
  /\ app' = [app EXCEPT !.edits.row = app.rows]
  /\ typed' = IF NextDue THEN "hurried" ELSE "still"
  /\ UNCHANGED <<hostSide, toPage, toHost, ops, alone, calm, dropped, twice, misplaced>>

\* save builds the update from the edited copy and the row shown now.
Save ==
  /\ view = "shown" /\ app.edits.row # NoText /\ Begins(FALSE)
  /\ toHost' = Append(toHost, Request("save", app.sql, 1))
  /\ misplaced' = (misplaced \/ (app.edits.row # app.rows /\ typed = "still"))
  /\ UNCHANGED <<hostSide, toPage, app, dropped, twice, typed>>

-----------------------------------------------------------------------------
QueryPageNext ==
  \/ \E t \in Tables : RunFromEditor(Listing(t)) \/ RunFromEditor(Change(t))
  \/ HostTakes
  \/ \E r \in BagToSet(requests) : Answered(r) \/ Dropped(r)
  \/ PageRead
  \/ PageMounted
  \/ PageTakes
  \/ \E t \in Tables : RunOnPage(Listing(t)) \/ RunOnPage(Change(t))
  \/ Refresh
  \/ ApplyConditionFilters
  \/ ClearConditionFilters
  \/ ChangePage(2)
  \/ EditRow
  \/ Save

QueryPageSpec == QueryPageInit /\ [][QueryPageNext]_pageVars

-----------------------------------------------------------------------------
QueryPageTypeOK ==
  /\ view \in {"none", "reading", "loading", "shown"}
  /\ \A r \in BagToSet(requests) : r.sql \in Texts
  /\ app \in [sql : Texts \union {NoText}, rows : PageRows \union {NoText},
              base : Texts \union {NoText}, total : Texts \union {NoText},
              filtering : BOOLEAN, loading : BOOLEAN,
              edits : [tracked : BOOLEAN, row : PageRows \union {NoText}]]
  /\ ops \in 0..MaxOps
  /\ {alone, calm, twice, misplaced} \subseteq BOOLEAN

\* A listing that is run while nothing else is on its way puts the page right,
\* whatever crossed before: from then on, as long as nothing is begun in a
\* hurry, the page when all is answered shows rows and a number of rows of its
\* statement, puts conditions on a listing of the table it shows, and is not
\* loading.  Only a page turn that failed leaves it loading, and only a
\* listing under conditions that was never answered leaves it with the
\* conditions of another (handlerData, clear, reset, applyConditionFilters).
PageIsRepaired ==
  Quiet /\ calm =>
    /\ app.rows.sql = app.sql
    /\ app.total \in {NoText, app.sql}
    /\ app.loading => "next" \in dropped
    /\ \/ ~app.filtering /\ app.base.table = app.sql.table
       \/ "filter" \in dropped

\* An edit is saved over the row it was typed in, unless it was typed while
\* the rows of another page were on their way (changePage, editListen, save).
EditsKeepTheirRow == ~misplaced

\* "The base SQL is the table select without conditions added by the condition
\* filter panel" (2026-07-09-query-workspace-and-table-filters-design.md:89), at
\* least when all is answered, and without an event that was handled twice.
BaseHasNoConditions ==
  Quiet /\ ~twice /\ app.base # NoText => app.base.kind = "list"
=============================================================================
