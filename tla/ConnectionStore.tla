--------------------------- MODULE ConnectionStore ---------------------------
(***************************************************************************)
(* The stored connections of the extension and those who change them: the  *)
(* rows of the connection tree (open, disable, delete: treeDataProvider.ts, *)
(* Node.indent) and the two pages of the connection form, one to add and   *)
(* one to edit (connectService.ts, vue/connect/index.vue).  A connection   *)
(* is stored under its key in one of four places: global or workspace,     *)
(* database or NoSQL.                                                      *)
(*                                                                         *)
(* A row is an object made when the tree was read last and writes its own  *)
(* copy of the connection back, whatever has been stored since.  A save    *)
(* tries the connection first; to move it, it deletes it at the place the  *)
(* form says it is in and then adds it.  A configuration is a revision     *)
(* number; cloud connections and the editing of config.json are left out.  *)
(***************************************************************************)
EXTENDS Naturals

CONSTANTS
  MaxKeys,     \* bound on the connections added
  MaxSaves,    \* bound on the saves
  MaxRevs,     \* bound on the configurations typed in
  NoValue      \* undefined

VARIABLES
  storedAt,   \* the four maps: place -> key -> connection
  tree,       \* the same when the tree was read last, of which its rows are made
  opening,    \* rows of SSH connections whose client is awaited
  deleting,   \* rows whose deletion the user is asked to confirm
  form,       \* the option of each page
  saves,      \* the "connecting" messages being handled: number -> save
  tried,      \* saves begun so far
  keys,       \* keys given so far
  revs,       \* revisions typed in so far
  meant,      \* of each key, what the last change that was made meant to store
  crossed     \* a row that is out of date was written, or a form changed its
              \* place or its connection while a save of it was under way

storeVars == <<storedAt, tree, opening, deleting, form, saves, tried, keys, revs, meant, crossed>>

-----------------------------------------------------------------------------
Keys    == 1..MaxKeys
Revs    == 0..MaxRevs
Scopes  == {"global", "workspace"}
Kinds   == {"sql", "nosql"}      \* CacheKey, of the database type (getKeyByNode)
Places  == Scopes \X Kinds
Pages   == {"connect", "edit"}
Config(rev, disable) == [rev |-> rev, disable |-> disable]
Configs == [rev : Revs, disable : BOOLEAN]
Meanings == [place : Places, config : Configs]

ASSUME ConnectionStoreAssumption ==
  /\ {MaxKeys, MaxSaves, MaxRevs} \subseteq Nat
  /\ NoValue \notin Keys /\ NoValue \notin Scopes \union Kinds
  /\ NoValue \notin Configs /\ NoValue \notin Meanings

Row(p, k) == tree[p][k] # NoValue

\* connectionOption of a page that was just made
NewForm == [shown |-> FALSE, key |-> NoValue, wasScope |-> NoValue, wasKind |-> NoValue,
            scope |-> "global", kind |-> "sql", rev |-> 0]

StoreInit ==
  /\ storedAt = [p \in Places |-> [k \in Keys |-> NoValue]]
  /\ tree = storedAt
  /\ opening = {} /\ deleting = {}
  /\ form = [g \in Pages |-> NewForm]
  /\ saves = <<>> /\ tried = 0
  /\ keys = 0 /\ revs = 0
  /\ meant = [k \in Keys |-> NoValue]
  /\ crossed = FALSE

Put(p, k, c) == storedAt' = [storedAt EXCEPT ![p][k] = c]
UnderWay(g)  == \E n \in DOMAIN saves : saves[n].page = g
SavesLeft    == tried < MaxSaves
Without(n)   == [m \in (DOMAIN saves) \ {n} |-> saves[m]]
WithSave(n, s) == [m \in (DOMAIN saves) \union {n} |-> IF m = n THEN s ELSE saves[m]]

-----------------------------------------------------------------------------
(* The tree.                                                               *)

ReadTree ==
  /\ tree # storedAt
  /\ tree' = storedAt
  /\ UNCHANGED <<storedAt, opening, deleting, form, saves, tried, keys, revs, meant, crossed>>

\* Node.indent of a row, "update": the row's copy is stored where the row was
\* read from.  config is that copy, disable apart.
WriteRow(p, k, config, disable) ==
  /\ Put(p, k, Config(config.rev, disable))
  /\ meant' = [meant EXCEPT ![k] = [place |-> p, config |-> Config(config.rev, disable)]]
  /\ crossed' = (crossed \/ storedAt[p][k] = NoValue \/ storedAt[p][k].rev # config.rev)

\* disableConnection, and openConnection of what is no SSH connection
ToggleRow(p, k) ==
  /\ Row(p, k)
  /\ WriteRow(p, k, tree[p][k], ~tree[p][k].disable)
  /\ UNCHANGED <<tree, opening, deleting, form, saves, tried, keys, revs>>

\* openConnection of an SSH connection awaits the client.
OpenRow(p, k) ==
  /\ Row(p, k) /\ p[2] = "nosql" /\ tree[p][k].disable /\ opening = {}
  /\ opening' = opening \union {<<p, k, tree[p][k]>>}
  /\ UNCHANGED <<storedAt, tree, deleting, form, saves, tried, keys, revs, meant, crossed>>

RowOpened(r) ==
  /\ r \in opening
  /\ opening' = opening \ {r}
  /\ WriteRow(r[1], r[2], r[3], FALSE)
  /\ UNCHANGED <<tree, deleting, form, saves, tried, keys, revs>>

RowFails(r) ==
  /\ r \in opening
  /\ opening' = opening \ {r}
  /\ UNCHANGED <<storedAt, tree, deleting, form, saves, tried, keys, revs, meant, crossed>>

\* deleteConnection asks first.
AskDelete(p, k) ==
  /\ Row(p, k)
  /\ deleting' = {<<p, k>>}
  /\ UNCHANGED <<storedAt, tree, opening, form, saves, tried, keys, revs, meant, crossed>>

ConfirmDelete(p, k) ==
  /\ <<p, k>> \in deleting
  /\ deleting' = {}
  /\ Put(p, k, NoValue)
  /\ meant' = [meant EXCEPT ![k] = NoValue]
  /\ crossed' = (crossed \/ storedAt[p][k] = NoValue)
  /\ UNCHANGED <<tree, opening, form, saves, tried, keys, revs>>

-----------------------------------------------------------------------------
(* The form.                                                               *)

\* The user turns to a form while a save is left (MaxSaves).
\* airdb.connection.add: a page that is open keeps its connectionOption.
OpenAddForm ==
  /\ SavesLeft /\ ~form["connect"].shown
  /\ form' = [form EXCEPT !["connect"].shown = TRUE]
  /\ UNCHANGED <<storedAt, tree, opening, deleting, saves, tried, keys, revs, meant, crossed>>

\* airdb.connection.edit of a row, also when the page shows another one
OpenEditForm(p, k) ==
  /\ SavesLeft /\ Row(p, k)
  /\ form' = [form EXCEPT !["edit"] =
       [shown |-> TRUE, key |-> k, wasScope |-> p[1], wasKind |-> p[2],
        scope |-> p[1], kind |-> p[2], rev |-> tree[p][k].rev]]
  /\ crossed' = (crossed \/ UnderWay("edit"))
  /\ UNCHANGED <<storedAt, tree, opening, deleting, saves, tried, keys, revs, meant>>

\* Something else than the place is typed in.
TypeConfig(g) ==
  /\ SavesLeft /\ form[g].shown /\ revs < MaxRevs
  /\ revs' = revs + 1
  /\ form' = [form EXCEPT ![g].rev = revs + 1]
  /\ UNCHANGED <<storedAt, tree, opening, deleting, saves, tried, keys, meant, crossed>>

ChoosePlace(g, p) ==
  /\ SavesLeft /\ form[g].shown /\ p # <<form[g].scope, form[g].kind>>
  /\ form' = [form EXCEPT ![g].scope = p[1], ![g].kind = p[2]]
  /\ crossed' = (crossed \/ UnderWay(g))
  /\ UNCHANGED <<storedAt, tree, opening, deleting, saves, tried, keys, revs, meant>>

CloseForm(g) ==
  /\ SavesLeft /\ form[g].shown
  /\ form' = [form EXCEPT ![g] = NewForm]
  /\ UNCHANGED <<storedAt, tree, opening, deleting, saves, tried, keys, revs, meant, crossed>>

\* mutant: the option is saved under the key it has, if it has one
KeyOfForm(o) == o.key

KeyOf(o) == IF o.key = NoValue THEN keys + 1 ELSE o.key

\* "connecting": the handler takes a copy of the option, with a key.
TryConnect(g) ==
  LET o == form[g]
  IN /\ SavesLeft /\ o.shown
     /\ o.key = NoValue => keys < MaxKeys
     /\ keys' = IF o.key = NoValue THEN keys + 1 ELSE keys
     /\ tried' = tried + 1
     /\ saves' = WithSave(tried', [page |-> g, stage |-> "connecting",
                                  option |-> [o EXCEPT !.key = KeyOf(o)]])
     /\ crossed' = (crossed \/ UnderWay(g))
     /\ UNCHANGED <<storedAt, tree, opening, deleting, form, revs, meant>>

\* connect rejects: the form shows the error.
ConnectFails(n) ==
  /\ saves[n].stage = "connecting"
  /\ saves' = Without(n)
  /\ UNCHANGED <<storedAt, tree, opening, deleting, form, tried, keys, revs, meant, crossed>>

Place(o)     == <<o.scope, o.kind>>
Unchanged(o) == o.kind = o.wasKind /\ o.scope = o.wasScope

\* The connection is no longer where the form has it.
OutOfDate(o) == o.wasScope # NoValue /\ storedAt[<<o.wasScope, o.wasKind>>][o.key] = NoValue

\* addConnection stores the connection, and the page that is there by then
\* takes the key, the kind that was saved and its own scope for stored.
Stored(n) ==
  LET o == saves[n].option
      g == saves[n].page
  IN /\ Put(Place(o), o.key, Config(o.rev, FALSE))
     /\ meant' = [meant EXCEPT ![o.key] =
                    [place |-> Place(o), config |-> Config(o.rev, FALSE)]]
     /\ saves' = Without(n)
     /\ form' = IF form[g].shown
                THEN [form EXCEPT ![g] = [@ EXCEPT !.key = o.key, !.wasKind = o.kind,
                                                   !.wasScope = form[g].scope]]
                ELSE form

\* mutant: the connection is removed from where it is to be stored
LeftPlaceNew(o) == <<o.scope, o.wasKind>>

LeftPlace(o) == <<o.wasScope, o.wasKind>>

\* connect resolves, and addConnection updates in place, adds what was not
\* stored before, or deletes what was and waits for that.
SaveInPlace(n) ==
  /\ saves[n].stage = "connecting"
  /\ saves[n].option.wasScope = NoValue \/ Unchanged(saves[n].option)
  /\ Stored(n)
  /\ crossed' = (crossed \/ OutOfDate(saves[n].option))
  /\ UNCHANGED <<tree, opening, deleting, tried, keys, revs>>

SaveLeavesPlace(n) ==
  LET o == saves[n].option
  IN /\ saves[n].stage = "connecting"
     /\ o.wasScope # NoValue /\ ~Unchanged(o)
     /\ Put(LeftPlace(o), o.key, NoValue)
     /\ crossed' = (crossed \/ OutOfDate(o))
     /\ saves' = [saves EXCEPT ![n].stage = "left"]
     /\ UNCHANGED <<tree, opening, deleting, form, tried, keys, revs, meant>>

SaveMoves(n) ==
  /\ saves[n].stage = "left"
  /\ Stored(n)
  /\ UNCHANGED <<tree, opening, deleting, tried, keys, revs, crossed>>

\* Nothing is looked at any more once copies have crossed.
StoreNext == ~crossed /\ (
  \/ ReadTree
  \/ \E p \in Places, k \in Keys :
       ToggleRow(p, k) \/ OpenRow(p, k) \/ AskDelete(p, k) \/ ConfirmDelete(p, k)
       \/ OpenEditForm(p, k)
  \/ \E r \in opening : RowOpened(r) \/ RowFails(r)
  \/ OpenAddForm
  \/ \E g \in Pages :
       \/ TypeConfig(g) \/ CloseForm(g) \/ TryConnect(g)
       \/ \E p \in Places : ChoosePlace(g, p)
  \/ \E n \in DOMAIN saves :
       ConnectFails(n) \/ SaveInPlace(n) \/ SaveLeavesPlace(n) \/ SaveMoves(n))

StoreSpec == StoreInit /\ [][StoreNext]_storeVars

-----------------------------------------------------------------------------
OptionTypeOK(o) ==
  /\ o.shown \in BOOLEAN
  /\ o.key \in Keys \union {NoValue} /\ o.rev \in Revs
  /\ o.wasScope \in Scopes \union {NoValue} /\ o.wasKind \in Kinds \union {NoValue}
  /\ o.scope \in Scopes /\ o.kind \in Kinds

StoreTypeOK ==
  /\ storedAt \in [Places -> [Keys -> Configs \union {NoValue}]]
  /\ tree \in [Places -> [Keys -> Configs \union {NoValue}]]
  /\ opening \subseteq Places \X Keys \X Configs /\ deleting \subseteq Places \X Keys
  /\ \A g \in Pages : OptionTypeOK(form[g])
  /\ \A n \in DOMAIN saves :
       /\ saves[n].page \in Pages /\ saves[n].stage \in {"connecting", "left"}
       /\ OptionTypeOK(saves[n].option) /\ saves[n].option.key \in Keys
  /\ tried \in 0..MaxSaves /\ keys \in 0..MaxKeys /\ revs \in Revs
  /\ crossed \in BOOLEAN

\* Whatever the tree's rows and the two pages do to a connection, and in what
\* order, it is stored in one place, the one that was chosen last, as it was
\* saved last, and not at all once it is deleted or while it is being moved.
\* Two things alone break this: a row or a form that is out of date writes its
\* copy, and a page is given another place or connection while it saves
\* (addConnection, Node.indent, "success" of the form).
SavedOnce ==
  ~crossed =>
    \A k \in Keys :
      LET places == {p \in Places : storedAt[p][k] # NoValue}
          moving == \E n \in DOMAIN saves : saves[n].stage = "left" /\ saves[n].option.key = k
      IN IF moving \/ meant[k] = NoValue THEN places = {}
         ELSE places = {meant[k].place} /\ storedAt[meant[k].place][k] = meant[k].config
=============================================================================
