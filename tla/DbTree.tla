-------------------------------- MODULE DbTree --------------------------------
(***************************************************************************)
(* What the connection tree lists under a row (DbTreeDataProvider and the  *)
(* getChildren of the nodes) and what DatabaseCache remembers of it: the   *)
(* databases under an open connection, the schemas under a catalog (SQL    *)
(* Server, PostgreSQL and their like) or the tables under a schema.  The   *)
(* rows have caches, listings and timers of their own and share what makes *)
(* the editor list them, so that one row stands for all.                   *)
(*                                                                         *)
(* A listing is the set of names in it.  An empty listing of tables is the *)
(* row "This schema has no table".  The editor lists a row again whenever  *)
(* it is told to and shows the answers as they come.  Nobody but the       *)
(* extension changes the server.  Pinned tables are left out.              *)
(***************************************************************************)
EXTENDS Naturals, Bags

CONSTANTS
  Names,       \* names of databases, schemas and tables
  MaxInputs,   \* bound on what the user does, and on failures
  MaxAwaited   \* bound on the listings that are awaited

ASSUME DbTreeAssumption == MaxInputs \in Nat /\ MaxAwaited \in Nat

VARIABLES
  row,        \* the row: of what, and whether what is dropped under it has a
              \* connect id of its own
  server,     \* what there is under it on the server
  keyword,    \* the names the filter of the tables lets through
  cache,      \* DatabaseCache of the row
  shown,      \* what the tree shows under it
  told,       \* what the editor has been told to list again
  calls,      \* calls of getChildren that await the server
  commands,   \* statements that create and drop, and await the server
  inputs,     \* what the user has done, and failures
  wrong       \* the row may be wrong until everything is refreshed

treeVars == <<row, server, keyword, cache, shown, told, calls, commands, inputs, wrong>>

-----------------------------------------------------------------------------
Listed(names) == [note |-> "names", names |-> names]
Info(note)    == [note |-> note, names |-> {}]
Nothing       == Info("nothing")

DbTreeInit ==
  /\ row \in [kind : {"connection", "catalog", "tables"}, ownId : BOOLEAN]
  /\ row.ownId => row.kind = "connection"
  /\ server = Names /\ keyword = Names
  /\ cache = Nothing /\ shown = Nothing
  /\ told = {"root"}
  /\ calls = EmptyBag /\ commands = {}
  /\ inputs = 0 /\ wrong = FALSE

NewCall(by, k)   == [by |-> by, keyword |-> k, got |-> Nothing, late |-> FALSE]
Awaits(c)     == /\ BagCardinality(calls) < MaxAwaited
                 /\ calls' = calls (+) SetToBag({c})
Returns(c)      == calls' = calls (-) SetToBag({c})
Becomes(c, d) == calls' = (calls (-) SetToBag({c})) (+) SetToBag({d})

Input == inputs < MaxInputs /\ inputs' = inputs + 1

-----------------------------------------------------------------------------
(* Listing.                                                                *)

\* The root is listed again: ConnectionNode's constructor lists the
\* connection, for whoever asks next, and the editor lists what is expanded.
ListRoot ==
  /\ "root" \in told
  /\ told' = {"row"}
  /\ IF row.kind = "connection" /\ cache = Nothing
     THEN Awaits(NewCall("node", keyword)) ELSE UNCHANGED calls
  /\ UNCHANGED <<row, server, keyword, cache, shown, commands, inputs, wrong>>

\* A remembered listing of the tables is filtered again; "This schema has no
\* table" has no name the keyword could be looked for in.
Remembered ==
  IF row.kind = "tables" /\ cache.names = {} /\ keyword # Names
  THEN Info("error")
  ELSE Listed(cache.names \intersect keyword)

\* A catalog is always listed anew.
IsRemembered == cache # Nothing /\ row.kind # "catalog"

\* DbTreeDataProvider.getChildren, with a timer
ListRow ==
  /\ "row" \in told
  /\ told' = told \ {"row"}
  /\ IF IsRemembered
     THEN shown' = Remembered /\ UNCHANGED calls
     ELSE Awaits(NewCall("tree", keyword)) /\ UNCHANGED shown
  /\ UNCHANGED <<row, server, keyword, cache, commands, inputs, wrong>>

\* The server runs the query of a call.  Calls reach it in any order: each
\* awaits getConnection, and a pool has several connections.
ServerLists(c) ==
  /\ c.got = Nothing
  /\ Becomes(c, [c EXCEPT !.got = Listed(server)])
  /\ UNCHANGED <<row, server, keyword, cache, shown, told, commands, inputs, wrong>>

TimesOut(c) ==
  /\ c.by = "tree" /\ ~c.late
  /\ Becomes(c, [c EXCEPT !.late = TRUE])
  /\ shown' = Info("timeout")
  /\ UNCHANGED <<row, server, keyword, cache, told, commands, inputs, wrong>>

\* mutant: who was shown a timeout is told nothing more
TellLost(c) ==
  told' = IF c.by \in {"refresh", "reload"} THEN told \union {"row"} ELSE told

\* Whoever called has the children: the tree shows them, or is told to list
\* again if it was given a timeout meanwhile; refresh and reload tell it.
Tell(c) ==
  told' = IF c.late \/ c.by \in {"refresh", "reload"} THEN told \union {"row"} ELSE told

Shows(c, listing) ==
  shown' = IF c.by = "tree" /\ ~c.late THEN listing ELSE shown

\* Nothing is under way that makes up for an old listing.
Left(c) ==
  /\ \A m \in commands : ~m.done
  /\ \A d \in BagToSet(calls) \ {c} : ~(d.by = "reload" /\ d.keyword = keyword)

\* The answer of the server: the listing is remembered, whatever happened
\* since it was read or its call began.
ListingAnswered(c) ==
  LET listing == Listed(c.got.names \intersect c.keyword)
      old     == c.got # Listed(server) \/ c.keyword # keyword
  IN /\ c.got # Nothing
     /\ Returns(c)
     /\ cache' = listing
     /\ Tell(c) /\ Shows(c, listing)
     /\ wrong' = (wrong \/ (old /\ Left(c)))
     /\ UNCHANGED <<row, server, keyword, commands, inputs>>

\* The connection or the query fails: the listing of the tables is the error
\* then, the others reject.
ListingFails(c) ==
  /\ Input
  /\ Returns(c)
  /\ Shows(c, Info("error"))
  /\ IF row.kind = "tables" THEN Tell(c) ELSE UNCHANGED told
  /\ wrong' = TRUE
  /\ UNCHANGED <<row, server, keyword, cache, commands>>

-----------------------------------------------------------------------------
(* What the user does.                                                     *)

\* airdb.refresh of the row
RefreshRow ==
  /\ Input
  /\ Awaits(NewCall("refresh", keyword))
  /\ UNCHANGED <<row, server, keyword, cache, shown, told, commands, wrong>>

\* clearCache, and the tree is told of everything.  It sets right what there is
\* unless something is under way that began before.
ClearsAll(underWay) ==
  /\ cache' = Nothing
  /\ told' = told \union {"root"}
  /\ wrong' = (wrong /\ underWay)

\* airdb.refresh
RefreshAll ==
  /\ Input
  /\ ClearsAll(calls # EmptyBag \/ commands # {})
  /\ UNCHANGED <<row, server, keyword, shown, calls, commands>>

\* TableGroup.filterTable, and its reload
FilterTables(k) ==
  /\ Input
  /\ row.kind = "tables"
  /\ keyword' = k
  /\ cache' = Nothing
  /\ Awaits(NewCall("reload", k))
  /\ UNCHANGED <<row, server, shown, told, commands, wrong>>

\* createDatabase; drop of a schema, a catalog or a table; and a statement of
\* a query page that creates or drops a table
SendsStatement(op, name) ==
  /\ Input
  /\ op = "create" => row.kind = "connection"
  /\ op = "page" => row.kind = "tables"
  /\ commands' = commands \union {[op |-> op, name |-> name, done |-> FALSE]}
  /\ UNCHANGED <<row, server, keyword, cache, shown, told, calls, wrong>>

ServerRuns(m) ==
  /\ ~m.done
  /\ commands' = (commands \ {m}) \union {[m EXCEPT !.done = TRUE]}
  /\ server' = IF m.op = "drop" \/ (m.op = "page" /\ m.name \in server)
               THEN server \ {m.name} ELSE server \union {m.name}
  /\ UNCHANGED <<row, keyword, cache, shown, told, calls, inputs, wrong>>

StatementFails(m) ==
  /\ Input
  /\ ~m.done
  /\ commands' = commands \ {m}
  /\ UNCHANGED <<row, server, keyword, cache, shown, told, calls, wrong>>

\* What is dropped is forgotten under its connect id, which is not the
\* connection's if it has a database in it.
Forgets(m) == m.op = "drop" => ~row.ownId

\* A statement of the tree clears a listing and tells of the row above; one of
\* a query page refreshes everything.
Done(m) ==
  /\ m.done
  /\ commands' = commands \ {m}
  /\ IF m.op = "page"
     THEN ClearsAll(calls # EmptyBag \/ commands # {m})
     ELSE /\ cache' = IF Forgets(m) THEN Nothing ELSE cache
          /\ told' = told \union {"row"}
          /\ wrong' = (wrong \/ ~Forgets(m))
  /\ UNCHANGED <<row, server, keyword, shown, calls, inputs>>

DbTreeNext ==
  \/ ListRoot \/ ListRow \/ RefreshRow \/ RefreshAll
  \/ \E op \in {"create", "drop", "page"}, n \in Names : SendsStatement(op, n)
  \/ \E c \in BagToSet(calls) : ServerLists(c) \/ TimesOut(c) \/ ListingAnswered(c) \/ ListingFails(c)
  \/ \E k \in SUBSET Names : FilterTables(k)
  \/ \E m \in commands : ServerRuns(m) \/ StatementFails(m) \/ Done(m)

DbTreeSpec == DbTreeInit /\ [][DbTreeNext]_treeVars

-----------------------------------------------------------------------------
Notes    == {"names", "nothing", "timeout", "error"}
Listings == [note : Notes, names : SUBSET Names]

DbTreeTypeOK ==
  /\ row.kind \in {"connection", "catalog", "tables"} /\ row.ownId \in BOOLEAN
  /\ server \subseteq Names /\ keyword \subseteq Names
  /\ cache \in Listings /\ shown \in Listings
  /\ told \subseteq {"root", "row"}
  /\ BagToSet(calls) \subseteq
       [by : {"tree", "node", "refresh", "reload"}, keyword : SUBSET Names,
        got : Listings, late : BOOLEAN]
  /\ commands \subseteq [op : {"create", "drop", "page"}, name : Names, done : BOOLEAN]
  /\ inputs \in 0..MaxInputs /\ wrong \in BOOLEAN

\* Nothing is awaited and nothing is left to list.
TreeIsQuiet == told = {} /\ calls = EmptyBag /\ commands = {}

\* What the row should show.  Tables of which none passes the filter are an
\* error when the empty listing is remembered.
Truth ==
  LET names == server \intersect keyword
  IN {Listed(names)} \union
     (IF names = {} /\ keyword # Names THEN {Info("error")} ELSE {})

\* Whatever listings, timeouts, refreshes, filters, creations and drops cross,
\* the tree that has come to rest shows what is on the server, also where it
\* showed a timeout.  Only three things leave a row wrong, and refreshing
\* everything at rest sets it right: a listing that fails, one that was read
\* before a change and is remembered after it, and a drop under a connection
\* that forgets another listing than the connection's (getChildren of the
\* provider and the nodes, DatabaseCache).
TreeShowsServer == TreeIsQuiet /\ ~wrong => shown \in Truth
=============================================================================
