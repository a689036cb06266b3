# AirDB: a TLA+ verification of its connection, query and standalone-host logic

AirDB is a database client. The repository holds two programs that share code:

* the **VS Code extension** (`src/`, about 20k lines of TypeScript and a Vue
  front end): a tree of connections, drivers for some twenty databases, SSH
  tunnels and forwards, an FTP client, query pages, import, export and dump;
* the **standalone application** (`standalone/`, about 14k lines): a Tauri
  window (`app`), an extension host process (`extension-host`) that runs the
  same extension against an imitation of the VS Code API (`vscode-shim`), and
  the message types between them (`protocol`).

This directory models the parts of both whose correctness depends on the order
of events: callbacks, promises, pipes between processes, timers, failures.
Paths below are relative to the repository.

## 1. Inventory

### 1.1 Components, their state and their operations

Standalone application:

| Component | State | Operations | Talks to | Module |
|---|---|---|---|---|
| Editor sessions: `editorSessions.ts`, `window.ts`, `App.tsx`, `workbenchStore.ts` | sessions, documents with versions, active editor (host); tabs (window); pending requests | show, edit and activate from both sides | two FIFO pipes | `EditorSync` |
| Tree views: `treeViewRegistry.ts`, `App.resolveTreeChildren`, `requestStore.ts` | numbered nodes per view (host); rows and loading flags (window); pending requests | create, refresh, list, expand, time out | two FIFO pipes, the extension's provider | `TreeViews` |
| Line protocol and bridge: `jsonLine.ts`, `stdinMessageLoop.ts`, `hostBridge.ts`, `ipcBridge.ts`, `requestStore.ts`, `main.rs` | line buffer, two pipes, events on the way, open requests of both ends | send, invoke, print, read, forward, answer, time out, exit | both processes | `HostPipe`, `Calls` |
| Storage: `extensionContext.ts`, `secrets.ts` | two JSON files and their copy in memory | update, store, delete, crash | file system | `HostStorage` |
| File watcher: `fileSystemWatcher.ts` | known paths, a timer per path | snapshot, report, emit, dispose | operating system, listener | `FileWatch` |
| Webview panels: `webviews.ts`, `WebviewPanel.tsx` | panel objects, registry, the window's list, the frame | create, html, post, reveal, dispose, prepare | one pipe | `Webviews` |
| Loading: `extensionLoader.ts`, diagnostics and contribution registries | record per extension, contributions, context keys | load, fail, report, set context | file system, window | `HostLoading` |
| Feedback: `workbenchFeedback.ts` | outputs, status bar items, terminals, progress; the window's items | create, write, show, hide, dispose | one pipe | `Feedback` |
| Commands, notifications, dialogs, authentication, Tauri shell | registries, none, sessions, none | | window | not modelled (section 7) |

Extension:

| Component | State | Operations | Talks to | Module |
|---|---|---|---|---|
| SQL Server pool: `connect/pool`, `mssqlConnection.ts`, `QueryUnit.runBatch` | slots, statuses, wait queue | query, begin, commit, rollback, release, loss, end | tedious (callbacks) | `MssqlPool` |
| Connection manager and tunnels: `connectionManager.ts`, `sshTunnelService.ts`, `tunnel-ssh.js` | `alivedConnection`, `tunelMark` | getConnection, removeConnection, createTunnel, closeTunnel | drivers, ssh (callbacks) | `Connections` |
| Query page: `QueryUnit.runQuery`, `query.ts`, `vue/result` | handlers (extension); rows, base statement, edits, loading (page) | run, next, count, filter, clear, refresh, edit, save | connection, `ViewManager` | `QueryPage` |
| Port forwarding: `forwardService.ts`, `forward/tunnel.js` | stored forwards, marks, servers | update, start, stop, remove, list | ssh, store | `Forwards` |
| SSH clients: `clientManager.ts` | client per key | getSSH, closeSSH | ssh2 | `SshClients` |
| Webview pages: `viewManager.ts` | status per page type, handlers | createWebviewPanel, dispose | file system, webview | `ExtensionViews` |
| Stored connections: `treeDataProvider.ts`, `node.ts`, `connectService.ts`, `vue/connect` | four places that hold connections, rows, forms | open, disable, delete, save | connection manager | `ConnectionStore` |
| FTP client: `model/ftp/lib/connection.js` and its nodes | request queue, current request, data connections, keepalive | list, get, put, plain commands | FTP server | `FtpClient` |
| Connection tree: `DbTreeDataProvider.getChildren`, the nodes' `getChildren`, `DatabaseCache` | remembered listings, filter, what the tree shows | list, time out, refresh, filter, create, drop | connection manager, query page | `DbTree` |
| Script batches: `sqlScriptBatchParser.ts` | place, open comment or quote, batches | one per branch of the loop | import services | `SqlBatches` |
| Drivers: `connect/*Connection.ts`, `QueryUnit.runBatch`, `queryPromise` | one shared connection, Oracle's and Dameng's `inTransaction` | query, begin, commit, rollback, end | database libraries (callbacks, promises) | `SqlSessions` |
| Dumps, the drivers' other operations, the other Vue pages | | | | not modelled (section 7) |

`PROJECT.json` lists the same parts with their sources and status.

### 1.2 What is hard here

* *Two processes, two pipes.* Window and host both change what they show and
  tell the other side later. Each pipe is FIFO, but nothing orders the two
  pipes against each other, and stdout is shared with whatever an extension
  prints.
* *Awaits.* `getConnection`, `showTextDocument`, `resolveChildren`, `runBatch`,
  the save of a connection and the preparation of an html read shared state,
  await, and write it.
* *Callbacks that run synchronously.* A waiter of the pool is served inside
  `release`, a request on a dead connection fails inside the `getConnection`
  that makes it; an extension's listener runs inside `EventEmitter.fire`.
* *Copies that grow old.* A tree row writes back the connection it was made
  from; an edited row waits while the page under it changes; a watcher's timer
  compares with what it knew.
* *Failure paths.* Connections are lost, connect errors arrive late, requests
  time out and are answered afterwards, the host crashes between two writes.

The hazards themselves, each at its line and with the properties aimed at it,
are in `PROJECT.json` under `hazards`.

### 1.3 What makes each part correct

* Editor sessions: both sides end with the same text and version, the window
  does not go back to an older version, a version names one text. The code keeps
  the first two but for a document that is opened again.
* Tree views: a row's id names the element the row shows, children hang under
  the row they were listed for, whatever is loading stops loading.
* Pipe: nothing that is sent is lost or fatal, the order is kept, a request
  settles exactly once and only as answered if it was.
* Storage: what was acknowledged is in the file.
* Watcher: a listener that follows the events has what the disk has.
* Panels: the frame shows the newest html and gives a page its messages once
  and in order.
* Loading: diagnostics tell of each extension what became of it.
* Feedback: the window lists the items that live, with their content.
* Pool: a connection runs one request at a time, nothing is sent twice, callers
  are served in the order in which they asked, nobody waits at an idle pool,
  every query is answered.
* Connections: the table never holds a connection that was ended, the noted
  schema is the selected one, calls settle, a connection that is closed is
  ended.
* Query page: whatever crosses, a listing sets the page right, and an edit is
  saved over the row it was typed in.
* Forwards, clients, pages: what runs can be stopped, what lives is found
  again, what a page posts is handled once.
* Stored connections: a connection is in one place, in its newest state.
* FTP: an operation that is reported done has its own data, whole.
* Connection tree: at rest it shows what is on the server, also where it showed
  a timeout.
* Script batches: a script is split where a statement ends and nowhere else.
* Drivers: what a caller was told was done stays done, and a batch is done as a
  whole or not at all.

## 2. The modules

The models take one turn of the event loop, together with the promise
continuations it makes ready, as one step. This is how node and the browser
run the code; splitting a turn would add behaviours the program does not have.
`MssqlPool` is the exception: there callbacks run inside the calls that lead to
them, so it cuts a turn at those calls and says in which order node goes on.

### 2.1 `EditorSync`

Host: `sessions`, `document`, `activeEditor` (EditorSessionRegistry),
`pending` (RequestStore), `resolved` (answers whose `await` has not continued:
stdin is read in chunks and continuations run after the whole chunk,
`stdinMessageLoop.ts:16-40`). Window: `tabs`, `view`, `activeTab`
(WorkbenchState). Pipes: `toUi`, `toHost`.

Actions: `ShowTextDocument`, `RequestTimeout`, `FinishShow` (the continuation:
`openOrShowDocument`), `ExtensionEdit`, one `Receive...` action per message,
`UiEdit`, `UiActivate`. An edit replaces a whole text, as the messages do.
A React dispatch is one step with the rendering it causes.

`Shown` is what an extension can show: an object `openTextDocument` has just
read, which is a new one at version 1 in every call (`workspace.ts:33-35`,
`textDocument.ts:236-255`), also for a file that is open, or the registered
object. The extension does the former each time it shows a template
(`queryUnit.ts:202-206`). The window then takes the new object's text and
version; the registry keeps its own and says nothing (`openOrShowDocument`).
A listener may throw inside `fire`, which loses the report after it. In both
cases the window's last word from the host is not what the registry has. The
history variable `astray` holds the sessions this is true of: a show of another
object or a lost report puts a session in, the next report or show of the
registered text takes it out.

Left out: selections and view columns (no property reads them), a window whose
send fails. A click that crosses the host's own activation leaves the two sides
with different active editors; no property speaks of that.

### 2.2 `TreeViews`

Host: `registered`, `nodes` (one numbering per registration), `data` (what the
provider would list now), `work` (calls of resolveChildren between their
awaits). Window: `tree`, `pending`, `requested`. `HostEnds` ends the process; what
it had written is still delivered. Elements are identified by registration and
by the data their ancestors and they were read from, so that a row showing a
stale element differs from a row showing a new one.

Abstractions: one view (views share nothing), one element per listing, two
levels. The commands of a row go through the same lookup of its id as an
expansion (`getNode`) and change nothing, so they are not actions. The window
listens from the start. The run has one registration: a second one restarts
the numbering while rows of the first are shown. `MCPipeAndTrees` checks this
module and `HostPipe`, which share no state, in one run: a behaviour is a
behaviour of one of them, and each has its own fairness.

### 2.3 `HostPipe` and `Calls`

`HostPipe` is the way of a message from the call that sends it to the handler
that takes it. The window's requests go through `invokes` (the Tauri command
checks the text with the backend's parser and refuses what it cannot read),
`stdin`, the decoder's `buffer` and lines; the host's through `stdout`, the
reading thread of `main.rs` and `events`. A print without a newline joins the
next message into one line; output that is not UTF-8 ends the reading thread;
messages that come before the window listens are lost. Both
ends hold their open requests with a timer; the host may exit at any time.

`Calls` is the abstract specification: a call is new, waiting, answered or
failed; it settles once, as answered only if the other side has replied; and
it settles. `UiCalls` and `HostCalls` instantiate it for the two request
stores. The mapping of the window's calls, `UiStage`, calls a request waiting
from the moment `sendHostRequest` makes its entry, and failed also when the
backend refuses the text. The fixed timeouts of the stores are what makes
every call end: besides them only the backend's answer to what is invoked,
`Forward`, is fair.

### 2.4 Services of the host (`MCHostServices`)

Five modules that share no state. `MCHostServices` runs each of them by itself:
the variable `part` names the one that moves, so one run explores the union of
five state spaces, not their product.

* `HostStorage`: `writeFileSync` is two steps (`Open` empties the file,
  `Finish` writes), between which the process may end (`Crash`) or the write
  fail (`Fail`). A memento changes memory first and ignores a failed write's
  effect on it; a secret's deletion that is repeated finds memory already
  changed. Processes come one after another, or two use the same files.
* `FileWatch`: reports of the operating system come late, merged, or without a
  name; a path's timer starts again with each report of it; `EmitPathChange`
  chooses the event from what was known. The listener is one that keeps a copy
  of each path.
* `Webviews`: panels, the registry, the notifications, the window's list, and
  a frame that prepares an html for some time. Ids are a type and a time in
  milliseconds, so two panels may share one.
* `HostLoading`: `loadAll` and the awaits of `loadExtension` (manifest, main,
  import, activation), any of which fails. Diagnostics are keyed by directory
  until the manifest is read, then by id.
* `Feedback`: outputs, status bar items, terminals and progress, as objects in
  the host and as items in the window.

### 2.5 `MssqlPool`

`pool` is the ConnectionPool: `slots` (the array with its holes), `conns`
(every connection ever made, with the requests it runs) and `waiting` (the
queue, in which `NoCallback` stands for the `undefined` that `getConnection()`
without a callback pushes). The operators `Queued`, `Fill`, `Serve`, `Release`
are the methods, as functions from pool to pool, because the code calls them
inside one another; the actions compose them as the code does. `Query`,
`RunBatch` and the `Finish...` actions are the clients. tedious and the server
are the environment.

`getConnection` calls back before it sets BUSY (`connectionPool.ts:18-20`), and
tedious ends a request on a dead connection inside the call that makes it
(`src/bin/tedious.js`, `makeRequest`). So `Get` sends the request and notes the
connection in `taking`; `MarkBusy` is line 20. Likewise `beginTransaction` calls
back the batch, which asks for its next connection, before it releases its own
(`mssqlConnection.ts:131-132`): `releasing` notes it, `ReleaseAfterBegin` is the
release. `ready` is the queue of promise continuations: batches whose statement
has ended, and transaction calls whose `await getConnection()` goes on
(`Continue`). What runs next follows node: a request that fails synchronously
(`Failing`) before what called it goes on, that before the next tick, that before
the continuations, and these before the next event (`Returned`, `Noticed`,
`EventLoop`). A connection dies in two ways: by a socket error, where tedious
emits "error" before it fails the request (`Lose`), or by a request that timed
out and cannot be cancelled, where the request fails first and "end" follows in
the next tick (`CancelTimeout`, `Notice`).

What the code does that surprises: a query that finds a dead connection FREE
fails, is released inside `getConnection`, and is then marked BUSY with nothing
running, for ever; every pool connection has id 0, so the loss
of any of them empties slot 0; `fill` looks at slot 0 and pushes at the end, so
after a loss each miss opens another connection; connections that were lost
while BUSY are given to waiters; an empty batch commits inside the callback of
begin; other queries run on the connection of an open transaction; `end()` calls
`end` of a tedious connection, which has none, and `ConnectionManager.end`
catches the exception: nothing is closed and the pool goes on serving. All of
that is in the model. The connection that `connect()` itself opens and never
uses is not.

`FifoQueue` says what such a pool is for: requests start in the
order in which they came, and each is in the line or on a server once.
`ServedInOrder` is that a step of the pool is a step of it (`queue` is
`waiting`, `running` what the connections run), until a transaction call is
lost. After that it is not: the connection that an undefined callback leaves
FREE goes to whoever asks next, past those who wait.

### 2.6 `Connections`

`stored` is `alivedConnection`, `conns` the driver connections with the schema
the manager notes and the schema the server has selected, `calls` the progress
of each executor (`at`) and its promise (`result`): a promise may be rejected
while its executor goes on. `mark` is the entry of `tunelMark`. `GetConnection`
runs to the first await; `AnswerPing`, `Connected`, `ConnectFails`,
`PortFound`, `TunnelReady`, `TunnelFails` are the continuations. `Connect` is
ConnectService.connect, `Close` is Close Connection. As in `MssqlPool` the
helpers (`End`, `CloseTunnel`, `Opened`, `Created`) are functions on the
manager's state, since `end` runs inside a continuation that then goes on to
create a connection. A driver's constructor may throw, which leaves the
promise pending for ever (state `thrown`).

The driver is the MySQL one (`mysqlConnection.ts`): dead once it failed, was
lost or ended, and answering in order. An error of a tunnel always clears the
table entry: `err.errno` is a number, so its comparison with `'EADDRINUSE'`
never holds. Left out: a port finder that rejects, an ssh configuration that
`createConfig` refuses, the active node and file.

### 2.7 `QueryPage`

One page of results with what stands behind it. Extension: `view` (how far the
page has come in `ViewManager`), `handlers` (who answers its events, and what
each sends on `init`), `requests` (a bag: what waits for a connection or an
answer). Page: `app`, the data of `App.vue` the actions read: the statement of
the rows, the rows, the base of the filters, the number of rows, the two flags
and the edited copy of a row. Messages and events are FIFO between them.
Requests are answered in any order: a driver answers in order, but each
request awaits `getConnection` for itself before it reaches the driver, and
each result awaits its column list.

What the code does that surprises, all in the model: `RUN` never shows the
page as loading, since the listener notes the `transId` it then compares
(`App.vue:323,331`); a change that is no insert never lists again, since the
message tested for "AffectedRows" says "Affected N Rows." (`App.vue:354`,
`query.ts:156`); `updateSuccess` leaves an object where the next edit expects a
list, so that edit throws (`App.vue:300`, `Row/index.vue:50`); the failures of
`next`, `count` and of `getConnection` are told to nobody; a page that is asked
for while its html is read handles each of its events twice.

Left out: the split of a text into several statements and pages, the query
workspace, exports, the change of the delimiter, Elasticsearch and MongoDB,
results without a key.

### 2.8 Other parts of the extension (`MCExtension`)

`MCExtension` runs `Forwards`, `SshClients`, `ExtensionViews`,
`ConnectionStore`, `FtpClient`, `QueryPage`, `DbTree`, `SqlBatches` and
`SqlSessions` the way `MCHostServices` runs its five.

* `Forwards`: a forward's server is looked up before it listens, and its mark
  belongs to the service object of one tree node; the tree makes new nodes.
* `SshClients`: every client of a key removes the key's entry when it ends or
  fails.
* `ExtensionViews`: `createWebviewPanel` in all its branches; the html is read
  from a file, and only then are disposal and messages listened to.
* `ConnectionStore`: four places (global or workspace, database or NoSQL),
  rows that write their own copy back, and the two pages of the form. A save
  tries the connection, deletes the connection where the form says it is, and
  adds it.
* `FtpClient`: queue, current request, PASV with its retry and its timeout,
  transfers, NOOPs, against a server with one data port that answers in order.
* `DbTree`: one row (a connection, a catalog or the tables of a schema), what
  `DatabaseCache` remembers of it (`cache`), what the tree shows, and the calls
  of `getChildren` that await the server with who asked: the tree with its
  timer, the constructor of a row, `airdb.refresh`, or the filter's `reload`.
  Surprises, all in the model: a listing that was too slow is not shown but
  listed again from the cache, and a catalog, which is never read from the
  cache, is asked of the server again each time, so that a slow one never
  shows; an old listing is remembered after whatever cleared the cache; a drop
  under a connection clears the cache of the dropped node's connect id, not of
  the connection's; a filter that lets nothing through remembers the row "This
  schema has no table", and filtering that row again throws.
* `SqlBatches`: the loop of `parseSqlScriptBatches`. A script is a sequence of
  the characters the loop looks for (`Alphabet`), a batch the places of its
  first and last character. The reference definition, `Statements`, does not
  scan: it says where each comment, quoted text or body ends, which characters
  therefore stand by themselves, and where a statement begins.
* `SqlSessions`: statements (`queryPromise`) and batches (`runBatch`) on the one
  connection the manager gives to all of them. A record per driver class says
  what its `beginTransaction` is (a request, a flag that turns autoCommit off, a
  callback and nothing else, nothing, an exception), whether its library keeps
  the order of requests, and what an error and `end()` do to the connection;
  `session` is the connection, its requests on the way and the transaction at
  the server, `history` remembers what the exceptions of the properties need.
  Surprises, all in the model:
  * `runBatch` does not look at the error of `beginTransaction`
    (`queryUnit.ts:166`), such as ClickHouse's "does not support transactions":
    there, and on SQLite, DuckDB, TDengine and Neo4j, which call back and do
    nothing else, its statements run without a transaction. On Elasticsearch,
    MongoDB and Redis, which never call back, it never settles;
  * it waits neither for `commit` nor for `rollback`: a batch whose commit is
    lost, or is never sent since the connection was ended in between, resolves;
  * a failed query of PostgreSQL or Kingbase ends the connection, for everybody
    who waits on it (`postgreSqlConnection.ts:51`);
  * Oracle and Dameng clear `inTransaction` when the answer to the commit or the
    rollback comes (`oracleConnection.ts:143-145`). A statement sent before that
    goes without autoCommit and is acknowledged uncommitted; of two batches one
    right after the other, the first one's answer clears the second one's flag.

  Not in the model: PostgreSQL, Oracle, SQLite, DuckDB and ClickHouse also emit
  "error" on an emitter nobody listens to after they have called back, which
  node throws. VS Code logs such an error; the standalone host has no handler
  for it and ends. Kingbase and Dameng look for a listener first, and their
  tests say why (`test/kingbaseConnection.test.js:154`).

## 3. Runs

| Run | Question | Bounds | Result |
|---|---|---|---|
| `editor_sync` | do both sides converge? | 2 documents, 2 texts, 4 inputs | holds, 980,965 states |
| `editor_lost_edit` | does every edit reach the registry? | 1 document, 4 inputs | **violated** |
| `editor_reread` | does a show leave tab and registry alike? | 1 document, 4 inputs | **violated** |
| `mssql_pool` | is the pool sound, fair and live, if no transaction call is lost? | 2 queries, 1 batch of up to 2 statements, 2 failures | holds, 26,430 states |
| `mssql_starved` | is nobody left waiting, without failures? | the same, 0 failures | **violated** |
| `connections` | is the table right, does nothing leak, do calls settle? | 2 calls, a connection id and a session, 2 schemas, 2 closes, all tunnel kinds | holds, 428,160 states |
| `connections_close` | does Close Connection end the connection? | 1 call, 1 close | **violated** |
| `pipe_and_trees` | pipe: is nothing lost, and is a request a call? trees: do ids, parents and loading flags stay right? | 3 requests, up to 2 of each side, 1 notification, 1 print; 1 registration, 1 refresh, 2 clicks | holds, 308,945 states |
| `host_services` | storage, watcher, panels, loading, feedback | see below | holds, 1,663,874 states |
| `extension_services` | forwards, clients, pages, stored connections, FTP, query page, connection tree, script batches, drivers | see below | holds, 1,756,575 states |
| `ftp_pasv` | does the queue wait for a data connection? | 2 operations, 1 NOOP | **violated** |
| `query_page_base` | is the base of the filters free of conditions? | 2 tables, 3 inputs | **violated** |

Why the bounds are enough. Four inputs let two users' and two extensions'
edits of a document cross, or a show, a timeout, a second show and an edit, each
show of an object read again or of the registered one.
Two queries and a batch put a waiter before and behind a transaction call, and
two failures let a lost connection be replaced and the replacement fail. Two
clicks and a refresh (with the listing after the creation) put three listings
on the way at once, one of them for a row that is gone. Two calls with two
schemas are one that makes a connection and one that uses, switches, loses or
duplicates it at the same time, with a close before and between. Three
requests in the pipe put an answer, a late answer and a request of the other
side on the way together with a print that joins a line.

The services: two processes, two keys, two values, three changes and two
starts are a write that is cut, a restart and a write after it; four edits of
two paths are a removal and a new file in one burst with a change unnoticed;
two panels in two milliseconds share an id or not, and three calls put two
preparations on the way; two directories can hold one extension; five calls
take an item past its disposal. Two forwards, two services and two servers on
two ports take a port or a mark from each other;
four clients of two keys are two pairs that overlap; three calls of two page
types meet a page that is read; one connection with two saves and one revision
moves while a row of it opens (a form is used while a save is left, since
nothing else reads it); two FTP operations and a NOOP cross in the PASV of
each. A query page under three inputs takes one to make a mess,
one to cross it and one listing to repair it; `MaxOnWay` lets the user act
while at most one message or request is on its way, so that inputs cross in
pairs. With it at 1, four inputs hold too. Under the connection tree, two inputs
and three awaited listings are a listing, a drop and a refresh or a filter that
cross, each in any state of the other (three inputs hold too). Scripts of five
characters open and close a comment or a quote with a separator inside, or put
a doubled quote beside one; seven hold a tagged dollar quote with an untagged
one inside. A statement and two batches of two statements on one connection are
a batch that fails in its middle, with a statement or a whole batch inside it or
right behind it, for each of nineteen drivers.

Every property of a passing run is violated by at least one mutated definition
under the same configuration; the mutants stand in the modules, before the
definition they replace, and `PROJECT.json` lists them. The type invariants of
`EditorSync`, `HostPipe`, `MssqlPool`, `Connections` and `TreeViews` are not in
the runs: they are proved. `extension_services` uses the symmetry of the query page's
tables, of the tree's names and of the drivers' batches, which are only
compared; it checks no liveness.

Deadlock checking is off: every system here may stop when its bounded inputs
are used up and everything is answered.

### 3.1 Fairness

* `EditorSync`: weak fairness on each end taking messages and on
  continuations; none on users, extensions or timers.
* `MssqlPool`: node runs what is ready to run (`Proceed`), some running request
  ends (tedious has a timeout for it) and some pending connection connects in
  the end (the pool tries again each time; the run bounds the failures); none on
  clients.
* `TreeViews`: the window takes messages and its timers run. Neither the
  provider nor the host has to do anything.
* `Connections`: a driver answers pings in order and connects or gives up
  (`connectTimeout`), a port is found, a tunnel gets ready or fails.
* `HostPipe`: the timers of both request stores and the backend's `Forward` of
  an invoked message. The pipes, the reading thread, the host and the user owe
  nothing.

The other modules state no fairness and are checked for safety.

### 3.2 What the violated runs show

* `editor_lost_edit`: the tab exists before the session; edits in between are
  dropped by the host.
* `editor_reread`: a file is open and was edited; showing it again puts the text
  on disk at version 1 into its tab, while the registry keeps the edited text.
* `mssql_starved`: `getConnection()` without a callback queues `undefined`;
  the connection that should serve the queue takes it for an empty one, and
  the callers behind it wait at an idle pool.
* `connections_close`: Close Connection removes by `node.key`; the table is
  keyed by `getConnectId()`.
* `ftp_pasv`: `_pasv` clears the current request so that nothing is sent while
  the data connection is made; but `_send` sends exactly when there is none.
* `query_page_base`: after a filter and a refresh (or an insert, which
  refreshes by itself) the page takes the statement with the conditions for its
  base. Clear runs it again, and further conditions are added to the old ones.

`PROJECT.json` (`findings`) quotes the sentence of the repository each
disagrees with.

## 4. Proofs

TLAPS checks the following for every value of the constants, from the named
assumptions on them and no other. Each invariant was checked by TLC, whole or
in its parts, before it was proved. The proofs of a component are in one
module; components that share an MC module share one.

**`EditorSync_proofs`.** `TypeCorrect` and `Convergence` (`Converged`), whatever
listeners do and extensions show. `Converged` is not inductive: it speaks
only of quiet documents. The invariant is `TypeOK` and

* `TabsOpen`: an answer, a continuation and a session each prove an open tab;
* `ReportsCurrent`: the last message to the window about a document that is not
  `astray` carries what the registry has;
* `OnlyEditsAhead`: when no message about such a document is on its way to the
  window, tab and registry have the same version, and the tab is ahead by at most
  the last edit on its way to the host.

A user's edit makes the tab differ and puts that edit last on the pipe; when
the host takes it, it reports, and the report becomes the last message. That
is why "last" is enough on both pipes although they are not ordered.

`OneTextPerVersion` (`VersionNamesText`) holds whatever the listeners do: a
report carries at most the registry's version, and among reports, registry and
tab equal versions have equal texts (`VersionsNamed`). `TabsNeverFallBack`
(`ViewVersionMonotone`) is an action property: on the pipe the versions of a
document's messages climb from the tab's to the registry's, starting anew at 1
where an object read again is shown (`Climbing`, `FirstVersions`), so only the
step that takes such a show can fall back.

**`MssqlPool_proofs`.** `TypeCorrect`, `RunsOneRequest`
(`OneRequest`), `SendsOnce` (`SentOnce`), `WaitersAttended`
(`AttendedUnlessLost`). The core of the invariant is
`Sound(pool, taking, releasing, 0)`: each client is in one place, each
connection is as its status says, except the one `getConnection` has called back
with and the one `beginTransaction` has not released, and while slot 0 is taken
its connection is the only one ever made and alive. The last argument of `Sound`
is the connection between the end of its request and its release, which is the
state in which the code runs the callbacks; lemmas show what `Get`, `Call`,
`Serve`, `Release` and `Fill` do to it, and each action is a composition of them.
Beside it stand `StatementsLeft` (a batch with a statement in the pool has
statements left), `IdleAbsent` (an idle client is nowhere in the pool),
`SettledOnce` (a batch has one continuation, and no request then), `OneFails`
(one synchronous failure at a time) and `Intact`. `Attended` needs in addition
that no waiter is `NoCallback`, which holds while no transaction call was lost
(`Calm`). `OneConnection` (`StaysSmall`) follows from `Sound` and `Intact`: until
something fails slot 0 is taken.

`ServesInOrder` (`ServedInOrder`) is the refinement of `FifoQueue`, step by
step. What makes it hold is that nobody waits while a connection in a slot is
free (`InLine`). Lemmas say of `Get`, `Call`, `Serve` and `Release` what each
does to the line, what is sent and who is free; every step of the pool is then
one of the queue: one request ends, one goes to the end of the line, its head
starts (`NobodyComes`, `OneComes`). A transaction call that is not lost finds a
connection, hence an empty line (`CallLine`). `QueriesQueueUp` is
`Spec => Line!Spec` where only queries use the pool.

**`Connections_proofs`.** `TypeCorrect` and `StoredAreLive`
(`StoredNotEnded`). `StoredNotEnded` is not inductive: `Pinged` ends the
connection `w` it has waited for but clears the key of the call that pinged, so
it matters that no other key holds `w`. The invariant `OK` is stated of the
manager's record rather than of the variables, since a step composes several
operators on that record: its type, `Kept` (a stored connection was made under
the key it is stored at, by a call that has started, and is not ended) and
`SameKey` (whoever has a ping in a connection's queue asked for the key its
maker asked for). One lemma per operator says that it keeps `OK`; each action
composes them.

`SchemasAgree` (`SchemaTracked`) rests on `Tracked`: what is queued on a live
connection and what is noted for it agree until the last ping has run
(`NotedSelected`), because a ping that selects stands in front of whoever noted
its schema (`FirstAhead`, `Waiting`, `OnePing`). `SequentialCallsLeakNothing`
(`LeaksNeedOverlap`) is for connections without a tunnel: as long as no two
calls for a key overlapped, the key's connections are in place (`InPlace`): the
one that lives is stored or belongs to the one call under way.

**`HostPipe_proofs`.** `HostKeepsReading` (`HostNeverThrows`, which no run
checks: the proof is enough), and the safety
half of the refinement: `UiCallsAreSafe` (`Spec => UiCalls!SafeSpec`) and
`HostCallsAreSafe`. The invariant says of every message wherever it is (invoked,
in `stdin`, in the decoder's buffer, in `stdout`, among the events) what both
ends must have done for it to be there: a request was asked, an answer was
asked for and given by the other side, and each request is invoked once
(`UiOK`, `HostOK`, `StdinOK`, `StdoutOK`, `RepliedOK`). A line the decoder
throws at would be one that nobody sent whole. A step of the pipe is then a
step or a stutter of each `Calls`; the lemmas split them by who moves.
`TypeCorrect` follows from the same invariant and the types of the processes
and counters (`ProcessesOK`, `CountsOK`).

`LinesAllCount` (`EveryLineCounts`) counts messages: those handled and those in
`stdin`, pieces joined, are all that were written (`Counted`).
`MessagesTakenInOrder` (`TakenInOrder`) numbers them: what is in `stdout` and
among the events follows what was taken and is ascending (`Numbered`), and
without prints leaves no gap (`Unbroken`).

**`TreeViews_proofs`.** `TypeCorrect`, `ClicksReachTheirElement`
(`IdsNameRows`) and `ChildrenStayWithTheirParent`
(`ChildrenUnderTheirParent`), each as long as the view has been registered at
most once (`registered <= 1`; the constant that bounds registrations is free).
A number is given once and for ever within a registration; so what is known of
a row when it is listed stays true of it in `work`, in an answer and in the
tree. The invariant `Consistent` says it at each of these places: an id names
the element it comes with, and that element is a root or a child of the
element asked for. What is asked for is a root or the whole view.

**`HostServices_proofs`.** Five services, each with its type theorem and one or
two properties:

* `AckedStaysStored` (`AckedIsStored`): the invariant adds `StoppedIdle` (a
  process that does not run has no write begun) and `Alone`: when the files are
  not shared, at most one process runs and its memory is as recent as the file
  (`InMemory`, `MemoryRecent`, `SecretsInStep`), so what it writes next loses
  nothing that was acknowledged.
* `ListenersStayRight` (`ListenerAgrees`): the listener's copy of a path is
  what the watcher knows (`CopyOfKnown`), and for every path heard of since the
  snapshot, what is known is what is there unless a report or a timer is
  outstanding (`HeardOf`, `Current`).
* `ItemsStayShown` (`ItemsAreShown`): what an item's notifications on their way
  do to the window's item, one after the other, ends at what the object is
  (`HeardRight`); they begin with the item's first (`ItemStarts`), nothing but
  an update of what is gone follows a disposal (`ItemEnds`).
* `PagesStayCurrent` (`PageIsCurrent`) and `MessagesComeInOrder`
  (`MessagesOnceInOrder`): the window's panel, with the notifications on their
  way applied, is the registered one (`Follows`, `Told`); every message names a
  panel that was made (`Owned`) and the numbers of a page's messages ascend from
  the frame through the panel to the pipe (`Ordered`).
* `LoadingStaysShown` (`LoadingIsShown`): a directory has one record, under its
  path until the manifest is read and under its id then (`RecordsRight`), which
  the loader's place tells (`Progress`, `Untold`), and the window is told each
  change of the records (`WindowTold`). The assumption says what a file system
  gives: directories are distinct and no extension id is a path.

`HostStaysRight` puts them together for `MCSpec`, the specification the run
checks: whichever part moves, all types and all six properties hold.

**`Extension_proofs`.** The other parts of the extension, and all of them
together:

* `ForwardsStayControlled` (`ForwardsAreControlled`): `MarkOK` (a mark names
  the server that listens for its service and forward) and `TunnelOK` (a
  listening server is marked; it is in the list unless it was overtaken or its
  service left behind; a refused configuration never gets a server).
* `ClientsStayCached` (`ClientsAreCached`): an entry's client is in the range
  of clients made, and any two of a key that live together are both marked as
  overlapping.
* `PagesStaySingle` (`SinglePage`): the table names pages that exist and, for a
  page at each stage, which handlers it has so far.
* `ConnectionsStoredOnce` (`SavedOnce`), while no two forms crossed: new keys
  are above all that are used, a first save finds its connection nowhere, a
  save moves a connection from at most one place, and of a saved key the one
  place chosen last holds the newest option (`StoreSound`).
* `TreeComesRight` (`TreeShowsServer`): a remembered listing is what is on the
  server, except by one of the named ways to be stale (`CacheRight`), and what
  is shown is the remembered listing unless a call is under way that shows it
  again (`ShownRight`). Calls are a bag, and the lemmas on bags say which calls
  one more or one less leaves.
* `DataStayOwn` (`OwnData`). As long as no command crossed the making of a data
  connection, one operation at a time is between its PASV and its end: its
  requests are the current one and those that stand first in the queue
  (`Lined`), what its record says of its connection follows from how far it is
  (`Own`), command, transfer and replies at the server are those of the current
  request (`AtServer`), and the port that is open is the one its connection is
  made to (`Ported`). Once a command has crossed, the property claims nothing,
  so the invariant keeps its types only (`FtpInv`).

`ExtensionTypeCorrect` (`ExtensionTypeOK`) and `ExtensionStaysRight` put the
nine parts together for `MCSpec`, the specification the run checks: a step of
it is a step of one part and a stutter of the others (`PartsMove`), so each
part behaves as its own specification says (`PartsAlone`), and all types and
all eleven invariants of the run hold.

**`Queries_proofs`.** What is sent to a database, and the page that shows it:

* `AnswersAreKept` (`AckedIsKept`) and `BatchesWhole` (`BatchesAreAtomic`), on
  every driver. The invariant is stated of a driver, a connection and a history,
  so that the several connections inside one step can be followed: who has a
  request on its way (`SharedInv`), and for each batch, by the place it has
  reached, what of it is in the open transaction and what is kept
  (`BatchInv`). Assumed: single statements are not statements of a batch, and
  batches have one.
* `PagesAreRepaired` (`PageIsRepaired`) and `EditsStayOnTheirRow`
  (`EditsKeepTheirRow`). Order on the way does not matter here, so the
  invariant `PageInv` takes what is on its way as two sets, what is asked of
  the host and what the page is told. Its core is `OneListing`: after a listing
  that was begun with nothing else under way, all that is on its way belongs to
  it; hence the page ends right (`Right`). `EditsFollow` says the same of an
  edit and the rows under it. Assumed: the text that stands for no statement is
  not one.
* `ScriptIsSplitRight` (`BatchesAreStatements`), for every length of a script.
  The reference definition is two recursive functions, and the provers have no
  induction over data: the lemmas take the least place where a claim fails
  (`LeastNat`) and show by it that the functions exist (`LexemeIs`,
  `StatementIs`), that lexemes do not overlap (`LexemesApart`) and that a
  statement goes on until a separator stands by itself (`StatementGoesOn`,
  `StatementOver`). The invariant compares the splitter with it at every turn of
  the loop: outside comments and quotes it stands where a lexeme begins and has
  noted where this statement began, inside one it knows what was opened and
  nothing has closed it since (`Reading`, `OpenSince`), and what it has pushed
  are the statements that end before that (`Pushed`).

**Only model-checked.** Liveness (`EventuallyProjected`, `QueriesAnswered`,
`LoadingEnds`, `CallsSettle`, and the fair half of `UiCallsSettle` and
`HostCallsSettle`), which needs fairness and ENABLED. Every invariant and every
action property of a passing run is stated by a theorem, with one restriction:
those of `TreeViews` are proved, and checked, while a view is registered at
most once, since with a second registration a number no longer names one
element.

## 5. Properties and their exceptions

Where a property of this code holds only with an exception, the exception is
written into it and is what the code does, for example: `AckedIsStored` excepts
files that a crash or a failed write has cut, and storage two applications
share; `SinglePage` a page called for while its html was read;
`ForwardsAreControlled` a forward removed while its server started, or
left behind by the tree; `OwnData` a transfer whose data connection was disturbed by another's;
`PageIsRepaired` a page turn that failed and a filter that was never answered;
`EditsKeepTheirRow` an edit typed while a page turn was
on its way; `TreeShowsServer` a listing that failed, one that was read before a
change and remembered after it, and a drop that cleared another id;
`Converged` and `EventuallyProjected` a document the window was told something
else of last (`astray`), and `ViewVersionMonotone` the show of an object read
again; `OneRequest` a dead connection that stays BUSY;
`ServedInOrder` a pool that has lost a transaction call;
`AckedIsKept` a statement that a batch of somebody else took up;
`BatchesAreAtomic` batches at the same time, a schema statement in the middle
where the server commits it, and a commit that was lost or never sent. Each such
exception can be made to occur by the run.

## 6. Plan

Done: all modules of section 2. Next, in this order:

1. The refinement of `Calls` by the requests of `TreeViews`, which needs a
   variable for how each request ended.
2. New modules: authentication sessions, messages from webview pages, struct
   diff over two connections, `connect` and `isAlive` of each driver in
   `SqlSessions`.
3. Tree requests of the window in the order of their refreshes, and two tunnels
   for one connection: both go wrong in the models, but no sentence of the
   repository says they may not.
4. A versioned register as an abstract specification of `EditorSync`.

## 7. Not modelled

* *Commands* (a registry without order), *notifications and dialogs* (their
  requests are in `HostPipe`), *authentication* (planned), the *Tauri shell*
  (its pipes are in `HostPipe`, the rest is I/O).
* *Connection tree*: pinned tables, the collapse state, the active database and
  the nodes of databases without schemas (Redis, MongoDB, S3 and others).
* *Import*: the services that read a file and pass its statements to
  `runBatch`, which is in `SqlSessions` and, for SQL Server, in `MssqlPool`.
* *Dump, export, mock data, struct diff*: sequential I/O over queries.
* *Drivers and dialects*: transactions, statements and ends are in
  `SqlSessions`, what the manager sees of a driver in `Connections`. Left out are
  the conversion of rows and types, the operations of Kafka, RabbitMQ, S3,
  ZooKeeper, Redis and MongoDB, each one call of a library, and the dialects,
  which are texts of statements. They are most of the repository's lines,
  together with generated tables of completions, icons and locales, and have no
  order of events to check.
* *Vue applications* other than the result page and the connection form:
  presentation.
* *Vendored mssql pool*: nothing in the extension calls it.

## 8. Running

    tlasany EditorSync.tla
    tlc -workers 2 -config EditorSync.cfg EditorSync.tla
    tlc -workers 2 -config Extension.cfg MCExtension.tla
    tlapm MssqlPool_proofs.tla
