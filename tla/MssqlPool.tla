----------------------------- MODULE MssqlPool -----------------------------
(***************************************************************************)
(* The connection pool of SQL Server sessions (connect/pool), as its       *)
(* clients use it: plain queries (MSSqlConnnection.query) and batches      *)
(* (QueryUnit.runBatch: begin a transaction, run statements one after the  *)
(* other, commit or roll back).  tedious runs one request at a time on a   *)
(* connection, so callers that find none free wait in the pool's queue.    *)
(*                                                                         *)
(* tedious and the server are the environment: a pool connection connects, *)
(* fails to, is lost, and answers what it runs.  What the server keeps of  *)
(* a transaction is left out, and so are rows.                             *)
(*                                                                         *)
(* The order in which node runs the code is part of the model, since a     *)
(* connection that is dead fails a request inside the call that makes it:  *)
(* callbacks run inside getConnection, release and tedious' own handlers.  *)
(* A step is the code between two such calls.  What a synchronous run of   *)
(* code still has to do comes first (a request on a dead connection fails, *)
(* then getConnection and beginTransaction's callback go on), then the     *)
(* next tick, then the promise continuations, and only then the next event.*)
(***************************************************************************)
EXTENDS Naturals, Sequences

CONSTANTS
  Queries,      \* calls of query made outside any batch
  Batches,      \* calls of runBatch
  NoClient,     \* whose callback an undefined callback is
  BatchLength,  \* a batch has at most this many statements
  MaxFailures   \* bound on connect errors, SQL errors and lost connections

Clients == Queries \union Batches

ASSUME MssqlPoolAssumption ==
  /\ Queries \intersect Batches = {}
  /\ NoClient \notin Clients
  /\ BatchLength \in Nat
  /\ MaxFailures \in Nat

VARIABLES
  pool,      \* the ConnectionPool: slots, conns and waiting, see Pool
  taking,    \* the connection whose callback getConnection has called (line
             \* 19) and that it has not marked BUSY yet (line 20), or None
  releasing, \* the connection whose beginTransaction has called back the
             \* batch and not released it yet (mssqlConnection.ts:131), or None
  ready,     \* promise continuations of batches that can run, in order
  phase,     \* how far each client is
  left,      \* statements a batch has not finished
  lost,      \* transaction calls that got no connection: await getConnection()
             \* gave undefined and reading its `actual` threw
  failures,  \* failures so far
  ended      \* ConnectionManager has called end()

vars == <<pool, taking, releasing, ready, phase, left, lost, failures, ended>>

-----------------------------------------------------------------------------
Statuses == {"PEENDING", "FREE", "BUSY"}
Links    == {"none", "open", "broken", "closed"}
Calls    == {"begin", "commit", "rollback"}
Jobs     == [client : Queries, op : {"query"}]
              \union [client : Batches, op : Calls \union {"sql"}]

\* getConnection() without a callback queues undefined.
NoCallback == [client |-> NoClient, op |-> "none"]
Waiters    == Jobs \union {NoCallback}
Job(c, op) == [client |-> c, op |-> op]

\* An IpoolConnection, the requests it has been given, and its tedious
\* connection: open is logged in; broken and closed are tedious' final state,
\* before and after the pool has heard of it.
Conn    == [status : Statuses, running : SUBSET Jobs, link : Links]
NewConn == [status |-> "PEENDING", running |-> {}, link |-> "none"]

\* slots is this.connections, each slot an index of conns or a hole.  A pool
\* connection is numbered in the order of creation; its `id` is always 0.
Hole == 0
None == 0
Pool == [slots : Seq(Nat), conns : Seq(Conn), waiting : Seq(Waiters)]

FreeSlots(p) ==
  {i \in 1..Len(p.slots) : p.slots[i] # Hole /\ p.conns[p.slots[i]].status = "FREE"}
FirstFree(p) ==
  p.slots[CHOOSE i \in FreeSlots(p) : \A j \in FreeSlots(p) : i <= j]

Changed(p, o, status, running) ==
  [p EXCEPT !.conns[o] =
     [status |-> status, running |-> running, link |-> p.conns[o].link]]

Started(p, o, job)   == Changed(p, o, p.conns[o].status,
                                p.conns[o].running \union {job})
Occupied(p, o, job)  == Changed(p, o, "BUSY", p.conns[o].running \union {job})
Freed(p, o)          == Changed(p, o, "FREE", p.conns[o].running)
Marked(p, o)         == Changed(p, o, "BUSY", p.conns[o].running)
Completed(p, o, job) == Changed(p, o, p.conns[o].status,
                                p.conns[o].running \ {job})

\* Mutant: the slot is not looked at before a connection is added to it.
FillAlways(p) ==
  [p EXCEPT !.slots = Append(@, Len(p.conns) + 1), !.conns = Append(@, NewConn)]

\* fill: slot 0 is filled by pushing at the END of connections.
Fill(p) ==
  IF Len(p.slots) > 0 /\ p.slots[1] # Hole THEN p
  ELSE [p EXCEPT !.slots = Append(@, Len(p.conns) + 1),
                 !.conns = Append(@, NewConn)]

\* Mutant: whoever waits relies on the connections there are.
QueuedWithoutFill(p, waiter) == [p EXCEPT !.waiting = Append(@, waiter)]

\* Mutant: whoever comes last is served first.
QueuedInFront(p, waiter) == Fill([p EXCEPT !.waiting = <<waiter>> \o @])

Queued(p, waiter) == Fill([p EXCEPT !.waiting = Append(@, waiter)])

\* Mutant: the waiter that is served stays in the queue.
ServeTwice(p, o) ==
  IF p.waiting # <<>> /\ Head(p.waiting) # NoCallback
  THEN Occupied(p, o, Head(p.waiting))
  ELSE [Freed(p, o) EXCEPT !.waiting = IF @ = <<>> THEN @ ELSE Tail(@)]

\* Mutant: a connection that has come free is only marked so.
ServeNobody(p, o) == Freed(p, o)

\* A connection that has come free: an undefined waiter is taken off the
\* queue and serves nobody, also when others wait behind it.
Serve(p, o) ==
  LET rest == [p EXCEPT !.waiting = Tail(@)]
  IN IF p.waiting = <<>> THEN Freed(p, o)
     ELSE IF Head(p.waiting) = NoCallback THEN Freed(rest, o)
     ELSE Occupied(rest, o, Head(p.waiting))

\* The end of a request's callback: release(poolConnection).
Release(p, o, job) == Serve(Completed(p, o, job), o)

Init ==
  /\ pool = Fill([slots |-> <<>>, conns |-> <<>>, waiting |-> <<>>])
  /\ taking = None
  /\ releasing = None
  /\ ready = <<>>
  /\ phase = [c \in Clients |-> "idle"]
  /\ left = [b \in Batches |-> 0]
  /\ lost = {}
  /\ failures = 0
  /\ ended = FALSE

Fail == failures < MaxFailures /\ failures' = failures + 1

-----------------------------------------------------------------------------
(* What node runs next.                                                    *)

Dead(p, o) == p.conns[o].link \in {"broken", "closed"}

\* A continuation: a statement of a batch has ended (ok or not), or a
\* transaction call goes on after its await and sends its request.
Continuation(job, ok) == [job |-> job, ok |-> ok]
Sends(job) == job.op \in Calls /\ \E i \in 1..Len(ready) : ready[i].job = job

\* tedious fails a request on a dead connection at once, and ends the request
\* of a connection that dies in the same run of code.
Failing(o) == Dead(pool, o) /\ \E job \in pool.conns[o].running : ~Sends(job)
NoneFails  == \A o \in 1..Len(pool.conns) : ~Failing(o)

Returned  == NoneFails /\ taking = None /\ releasing = None
Noticed   == \A o \in 1..Len(pool.conns) : pool.conns[o].link # "broken"
EventLoop == Returned /\ Noticed /\ ready = <<>>

-----------------------------------------------------------------------------
(* The clients.                                                            *)

\* Mutant: the connection is used but stays FREE.
GetWithoutBusy(p, job) ==
  IF FreeSlots(p) = {}
  THEN pool' = Queued(p, job) /\ UNCHANGED taking
  ELSE pool' = Started(p, FirstFree(p), job) /\ UNCHANGED taking

\* getConnection(callback), the callback sending job to the connection: it
\* runs while the connection is still marked FREE.
Get(p, job) ==
  IF FreeSlots(p) = {}
  THEN pool' = Queued(p, job) /\ UNCHANGED taking
  ELSE pool' = Started(p, FirstFree(p), job) /\ taking' = FirstFree(p)

\* The rest of getConnection after the callback.  If the request has failed in
\* the meantime and the connection was released, it is BUSY from now on.
MarkBusy ==
  /\ NoneFails /\ taking # None
  /\ pool' = Marked(pool, taking)
  /\ taking' = None
  /\ UNCHANGED <<releasing, ready, phase, left, lost, failures, ended>>

\* beginTransaction, commit and rollback on pool p, with continuations rest: a
\* connection is used only if one is free at once; otherwise the call throws
\* and leaves undefined in the queue.
Call(p, job, rest) ==
  IF FreeSlots(p) = {}
  THEN /\ pool' = Queued(p, NoCallback)
       /\ lost' = lost \union {job}
       /\ ready' = rest
  ELSE /\ pool' = Occupied(p, FirstFree(p), job)
       /\ ready' = Append(rest, Continuation(job, TRUE))
       /\ UNCHANGED lost

Query(q) ==
  /\ EventLoop
  /\ phase[q] = "idle"
  /\ phase' = [phase EXCEPT ![q] = "asked"]
  /\ Get(pool, Job(q, "query"))
  /\ UNCHANGED <<releasing, ready, left, lost, failures, ended>>

RunBatch(b) ==
  /\ EventLoop
  /\ phase[b] = "idle"
  /\ phase' = [phase EXCEPT ![b] = "asked"]
  /\ \E n \in 0..BatchLength : left' = [left EXCEPT ![b] = n]
  /\ Call(pool, Job(b, "begin"), ready)
  /\ UNCHANGED <<taking, releasing, failures, ended>>

\* How a request of o ends: an error if its connection is dead, otherwise
\* success or, while the bound allows, an SQL error.
Ends(o, ok) ==
  \/ Failing(o) /\ ~ok /\ UNCHANGED failures
  \/ /\ EventLoop /\ pool.conns[o].link = "open"
     /\ IF ok THEN UNCHANGED failures ELSE Fail

FinishQuery(o, ok) ==
  /\ Ends(o, ok)
  /\ \E job \in pool.conns[o].running :
       /\ job.op = "query"
       /\ phase' = [phase EXCEPT ![job.client] = "answered"]
       /\ pool' = Release(pool, o, job)
  /\ UNCHANGED <<taking, releasing, ready, left, lost, ended>>

\* The callback of beginTransaction, which runs the first statement (or
\* commits an empty batch) before the connection is released.
FinishBegin(o, ok) ==
  /\ Ends(o, ok)
  /\ \E job \in pool.conns[o].running :
       LET p == Completed(pool, o, job)
           b == job.client
       IN /\ job.op = "begin"
          /\ \/ /\ left[b] > 0
                /\ Get(p, Job(b, "sql"))
                /\ UNCHANGED <<ready, phase, lost>>
             \/ /\ left[b] = 0
                /\ Call(p, Job(b, "commit"), ready)
                /\ phase' = [phase EXCEPT ![b] = "succeeded"]
                /\ UNCHANGED taking
  /\ releasing' = o
  /\ UNCHANGED <<left, ended>>

ReleaseAfterBegin ==
  /\ NoneFails /\ taking = None /\ releasing # None
  /\ pool' = Serve(pool, releasing)
  /\ releasing' = None
  /\ UNCHANGED <<taking, ready, phase, left, lost, failures, ended>>

\* A statement's callback settles its promise and releases the connection.
\* (One that fails inside its own getConnection is awaited only afterwards,
\* so that statements served by its release go on before it; that takes
\* waiters at a free connection, and with them a lost transaction call.)
FinishStatement(o, ok) ==
  /\ Ends(o, ok)
  /\ \E job \in pool.conns[o].running :
       /\ job.op = "sql"
       /\ pool' = Release(pool, o, job)
       /\ ready' = Append(ready, Continuation(job, ok))
  /\ UNCHANGED <<taking, releasing, phase, left, lost, ended>>

\* commit and rollback ignore how the request ended.
FinishTransaction(o, ok) ==
  /\ Ends(o, ok)
  /\ \E job \in pool.conns[o].running :
       /\ job.op \in {"commit", "rollback"}
       /\ pool' = Release(pool, o, job)
  /\ UNCHANGED <<taking, releasing, ready, phase, left, lost, ended>>

\* The next continuation: a batch goes on after a statement, or a transaction
\* call sends its request.
Continue ==
  /\ Returned /\ Noticed /\ ready # <<>>
  /\ LET job  == Head(ready).job
         ok   == Head(ready).ok
         b    == job.client
         rest == Tail(ready)
     IN \/ /\ job.op \in Calls
           /\ ready' = rest
           /\ UNCHANGED <<pool, taking, phase, left, lost>>
        \/ /\ job.op = "sql" /\ ok /\ left[b] > 1
           /\ left' = [left EXCEPT ![b] = @ - 1]
           /\ Get(pool, Job(b, "sql"))
           /\ ready' = rest
           /\ UNCHANGED <<phase, lost>>
        \/ /\ job.op = "sql" /\ ok /\ left[b] = 1
           /\ left' = [left EXCEPT ![b] = 0]
           /\ phase' = [phase EXCEPT ![b] = "succeeded"]
           /\ Call(pool, Job(b, "commit"), rest)
           /\ UNCHANGED taking
        \/ /\ job.op = "sql" /\ ~ok
           /\ phase' = [phase EXCEPT ![b] = "failed"]
           /\ Call(pool, Job(b, "rollback"), rest)
           /\ UNCHANGED <<taking, left>>
  /\ UNCHANGED <<releasing, failures, ended>>

-----------------------------------------------------------------------------
(* The connections.                                                        *)

Connected(p, o) == [p EXCEPT !.conns[o].link = "open"]

Connect(o) ==
  /\ EventLoop
  /\ pool.conns[o].status = "PEENDING"
  /\ pool' = Serve(Connected(pool, o), o)
  /\ UNCHANGED <<taking, releasing, ready, phase, left, lost, failures, ended>>

\* The same pool connection is tried again at once.
ConnectFails(o) ==
  /\ EventLoop
  /\ pool.conns[o].status = "PEENDING"
  /\ Fail
  /\ UNCHANGED <<pool, taking, releasing, ready, phase, left, lost, ended>>

\* endConnnection: tedious has no end(), which is caught, and the slot of the
\* connection's id, which is 0, is deleted.
Closed(p, o) == [p EXCEPT !.conns[o].link = "closed", !.slots[1] = Hole]

\* A socket error: "error" is emitted before the running request fails; the
\* "end" that follows changes nothing more.
Lose(o) ==
  /\ EventLoop
  /\ pool.conns[o].link = "open"
  /\ Fail
  /\ pool' = Closed(pool, o)
  /\ UNCHANGED <<taking, releasing, ready, phase, left, lost, ended>>

\* A request has timed out and the server does not even acknowledge its
\* cancellation: the request fails first, and "end" follows in the next tick.
CancelTimeout(o) ==
  /\ EventLoop
  /\ pool.conns[o].link = "open" /\ pool.conns[o].running # {}
  /\ Fail
  /\ pool' = [pool EXCEPT !.conns[o].link = "broken"]
  /\ UNCHANGED <<taking, releasing, ready, phase, left, lost, ended>>

Notice(o) ==
  /\ Returned
  /\ pool.conns[o].link = "broken"
  /\ pool' = Closed(pool, o)
  /\ UNCHANGED <<taking, releasing, ready, phase, left, lost, failures, ended>>

\* end(): calls end() of the first tedious connection in a slot, which has
\* none, and throws; ConnectionManager.end catches it.
End ==
  /\ EventLoop
  /\ ~ended
  /\ ended' = TRUE
  /\ UNCHANGED <<pool, taking, releasing, ready, phase, left, lost, failures>>

-----------------------------------------------------------------------------
Finish(o) ==
  \E ok \in BOOLEAN : \/ FinishQuery(o, ok) \/ FinishBegin(o, ok)
                      \/ FinishStatement(o, ok) \/ FinishTransaction(o, ok)

\* What node does by itself.
Proceed == \/ MarkBusy \/ ReleaseAfterBegin \/ Continue
           \/ \E o \in 1..Len(pool.conns) : Notice(o)

Next ==
  \/ \E q \in Queries : Query(q)
  \/ \E b \in Batches : RunBatch(b)
  \/ \E o \in 1..Len(pool.conns) :
       Finish(o) \/ Connect(o) \/ ConnectFails(o) \/ Lose(o) \/ CancelTimeout(o)
  \/ Proceed
  \/ End

Spec == Init /\ [][Next]_vars

\* The code runs on, the server answers (or tedious's request timeout does),
\* and connecting is tried until it succeeds.
Fairness ==
  /\ WF_vars(Proceed)
  /\ WF_vars(\E o \in 1..Len(pool.conns) : Finish(o))
  /\ WF_vars(\E o \in 1..Len(pool.conns) : Connect(o))

FairSpec == Spec /\ Fairness

-----------------------------------------------------------------------------
PoolOK(p) == p \in Pool /\ p.slots \in Seq(0..Len(p.conns))

TypeOK ==
  /\ PoolOK(pool)
  /\ taking \in 0..Len(pool.conns)
  /\ releasing \in 0..Len(pool.conns)
  /\ ready \in Seq([job : Jobs, ok : BOOLEAN])
  /\ phase \in [Clients -> {"idle", "asked", "answered", "succeeded", "failed"}]
  /\ left \in [Batches -> 0..BatchLength]
  /\ lost \subseteq [client : Batches, op : Calls]
  /\ failures \in 0..MaxFailures
  /\ ended \in BOOLEAN

\* A connection never has two requests ("tedious not support connection
\* queue, so need using pool").  When getConnection and beginTransaction's
\* callback have gone to their end, one that is not BUSY has none, and one
\* that is BUSY has one or is dead: getConnection has marked it after its
\* request had failed, and nobody will ever release it.
Exclusive(p) ==
  \A o \in 1..Len(p.conns) :
    IF p.conns[o].status = "BUSY"
    THEN \/ \E job \in Jobs : p.conns[o].running = {job}
         \/ p.conns[o].running = {} /\ Dead(p, o)
    ELSE p.conns[o].running = {}
OneRequest ==
  /\ \A o \in 1..Len(pool.conns) :
       \A job, other \in pool.conns[o].running : job = other
  /\ taking = None /\ releasing = None => Exclusive(pool)

\* A client has at most one request in the pool, waiting or on one
\* connection: no SQL is sent twice, and no statement of a batch before the
\* one it follows has ended.
Holds(p, c, o) == \E job \in p.conns[o].running : job.client = c
Awaits(p, c, i) == p.waiting[i].client = c
OnePlace(p, c) ==
  /\ \A o, u \in 1..Len(p.conns) : Holds(p, c, o) /\ Holds(p, c, u) => o = u
  /\ \A i, j \in 1..Len(p.waiting) : Awaits(p, c, i) /\ Awaits(p, c, j) => i = j
  /\ \A o \in 1..Len(p.conns), i \in 1..Len(p.waiting) :
       ~(Holds(p, c, o) /\ Awaits(p, c, i))
SentOnce == \A c \in Clients : OnePlace(pool, c)

\* Whoever waits has a connection that will come free: one that has a request
\* or is still connecting.
Working(p) ==
  \E o \in 1..Len(p.conns) :
    p.conns[o].status = "PEENDING" \/ p.conns[o].running # {}
Attended ==
  releasing = None /\ (\E i \in 1..Len(pool.waiting) : pool.waiting[i] # NoCallback)
    => Working(pool)

\* Nobody is left waiting at an idle pool as long as every transaction call
\* has found a free connection, whatever fails.
AttendedUnlessLost == lost = {} => Attended

\* The pool holds one connection until one is lost: interleaved misses of
\* getConnection do not each open another.
StaysSmall == failures = 0 => Len(pool.conns) = 1

\* The pool is a queue in front of its connections as long as every
\* transaction call has found a free one: connections are given to callers in
\* the order in which they asked, and a newcomer never takes one that has come
\* free before those who wait.  A lost call ends this: the connection that its
\* undefined callback leaves FREE goes to whoever asks next.
Sent(p) == UNION {p.conns[o].running : o \in 1..Len(p.conns)}
Line == INSTANCE FifoQueue
          WITH Request <- Jobs, queue <- pool.waiting, running <- Sent(pool)
ServedInOrder ==
  Line!Init /\ [][lost' = {} => [Line!Next]_<<pool.waiting, Sent(pool)>>]_vars

\* Every query is answered, with rows or with an error, unless a transaction
\* call was lost.
QueriesAnswered ==
  \A q \in Queries : phase[q] = "asked" ~> phase[q] = "answered" \/ lost # {}
=============================================================================
