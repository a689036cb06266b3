--------------------------- MODULE MssqlPool_proofs ---------------------------
(***************************************************************************)
(* Proofs about MssqlPool, for every set of queries and batches, every     *)
(* length of a batch and every number of failures.                         *)
(***************************************************************************)
EXTENDS MssqlPool, SequenceTheorems, FiniteSetTheorems, WellFoundedInduction,
        TLAPS

-----------------------------------------------------------------------------
(* The inductive invariant.                                                *)

\* The requests in the pool, waiting or running.
InPool(p) ==
  {job \in Jobs : \/ \E o \in 1..Len(p.conns) : job \in p.conns[o].running
                  \/ \E i \in 1..Len(p.waiting) : p.waiting[i] = job}

Absent(p, c) == \A job \in InPool(p) : job.client # c

\* Connection o of a pool where getConnection has called back with t and
\* beginTransaction has not released x yet.
ExclusiveAt(p, t, x, o) ==
  /\ \A job, other \in p.conns[o].running : job = other
  /\ p.conns[o].status = "PEENDING" => p.conns[o].running = {}
  /\ p.conns[o].status = "FREE" /\ p.conns[o].running # {} => o = t
  /\ p.conns[o].status = "BUSY" /\ p.conns[o].running = {} => Dead(p, o) \/ o = x
  /\ o = t => p.conns[o].status # "PEENDING" /\ (Dead(p, o) \/ p.conns[o].running # {})
  /\ o = x => p.conns[o].status = "BUSY" /\ p.conns[o].running = {}

\* While the first slot is taken, its connection is the only one.
FirstSlot(p, t, x, y) ==
  /\ Len(p.slots) > 0
  /\ p.slots[1] # Hole =>
       /\ Len(p.slots) = 1 /\ p.slots[1] = 1 /\ Len(p.conns) = 1
       /\ p.conns[1].link # "closed"
       /\ t = 1 => p.conns[1].link # "broken"
       /\ p.conns[1].status = "BUSY" /\ p.conns[1].running = {} => x = 1 \/ y = 1

Plain(job) == job.op \in {"query", "sql"}

\* Between the end of a request and the release of its connection y the pool
\* is sound but for y; y = 0 when no connection is in between.
Sound(p, t, x, y) ==
  /\ PoolOK(p)
  /\ \A o \in 1..Len(p.conns) : o # y => ExclusiveAt(p, t, x, o)
  /\ y # 0 => /\ y \in 1..Len(p.conns)
              /\ p.conns[y].running = {}
              /\ y # x
              /\ y = t => Dead(p, y)
  /\ x # 0 => x \in 1..Len(p.conns)
  /\ FirstSlot(p, t, x, y)
  /\ \A i \in 1..Len(p.waiting) : p.waiting[i] # NoCallback => Plain(p.waiting[i])
  /\ \A c \in Clients : OnePlace(p, c)

\* Every waiter has a callback.
Callbacks(p) == \A i \in 1..Len(p.waiting) : p.waiting[i] # NoCallback

\* Nobody waits at an idle pool, and every waiter has a callback.
Tended(p) == Callbacks(p) /\ (p.waiting = <<>> \/ Working(p))

\* A batch that has a statement in the pool has not finished it.
StatementsLeft == \A job \in InPool(pool) : job.op = "sql" => left[job.client] > 0

IdleAbsent == \A c \in Clients : phase[c] = "idle" => Absent(pool, c)

\* Where the list r of continuations has ends of statements of batch b.
Settled(r, b) == {i \in 1..Len(r) : r[i].job.op = "sql" /\ r[i].job.client = b}

\* A batch goes on after one statement at a time, and has no request then.
SettledOnce ==
  \A b \in Batches :
    /\ \A i, j \in Settled(ready, b) : i = j
    /\ Settled(ready, b) # {} =>
         Absent(pool, b) /\ left[b] > 0 /\ phase[b] # "idle"

\* One request fails at a time, and none of a transaction call while
\* getConnection or beginTransaction has not gone on.
OneFails ==
  /\ \A o, u \in 1..Len(pool.conns) : Failing(o) /\ Failing(u) => o = u
  /\ taking # None \/ releasing # None =>
       \A o \in 1..Len(pool.conns) :
         Failing(o) => \A job \in pool.conns[o].running : Plain(job)

\* Until something fails the first slot holds a connection that lives.
Intact ==
  failures = 0 => pool.slots[1] # Hole /\ pool.conns[1].link # "broken"

IInv ==
  /\ TypeOK
  /\ Sound(pool, taking, releasing, 0)
  /\ StatementsLeft
  /\ IdleAbsent
  /\ SettledOnce
  /\ OneFails
  /\ Intact

-----------------------------------------------------------------------------
(* The first free connection.                                              *)

\* A set of slots that is not empty has a first element.
LEMMA LeastElement ==
  ASSUME NEW n \in Nat, NEW S \in SUBSET (1..n), S # {}
  PROVE  \E i \in S : \A j \in S : i <= j
  <1> DEFINE U == 1..n
             Below(i) == {k \in U : k <= i}
             T == {Below(i) : i \in S}
  <1>1. IsFiniteSet(U)
    BY FS_Interval
  <1>2. IsWellFoundedOn(StrictSubsetOrdering(U), SUBSET U)
    BY <1>1, FS_StrictSubsetOrderingWellFounded, FS_FiniteSubsetsOfFinite, Zenon
  <1>3. T \subseteq SUBSET U /\ T # {}
    <2>1. \A i \in S : Below(i) \in SUBSET U
      OBVIOUS
    <2>2. QED
      BY <2>1
  <1>4. \E x \in T : \A y \in T : <<y, x>> \notin StrictSubsetOrdering(U)
    <2> HIDE DEF T, U
    <2>1. QED
      BY <1>2, <1>3, WFMin
  <1>5. PICK i \in S :
          \A j \in S : <<Below(j), Below(i)>> \notin StrictSubsetOrdering(U)
    BY <1>4
  <1>6. ASSUME NEW j \in S, j < i PROVE FALSE
    <2>1. Below(j) \subseteq Below(i) /\ i \in Below(i) /\ i \notin Below(j)
      BY <1>6
    <2>2. Below(j) \in SUBSET U /\ Below(i) \in SUBSET U
      OBVIOUS
    <2> HIDE DEF Below, U
    <2>3. <<Below(j), Below(i)>> \in StrictSubsetOrdering(U)
      BY <2>1, <2>2 DEF StrictSubsetOrdering
    <2>4. QED
      BY <1>5, <2>3
  <1>7. QED
    BY <1>6

\* getConnection's loop stops at a connection that is FREE.
LEMMA FirstFreeIsFree ==
  ASSUME NEW p, PoolOK(p), FreeSlots(p) # {}
  PROVE  /\ FirstFree(p) \in 1..Len(p.conns)
         /\ p.conns[FirstFree(p)].status = "FREE"
  <1>1. Len(p.slots) \in Nat /\ FreeSlots(p) \in SUBSET (1..Len(p.slots))
    BY LenProperties DEF PoolOK, Pool, FreeSlots
  <1>2. PICK i \in FreeSlots(p) : FirstFree(p) = p.slots[i]
    BY <1>1, LeastElement DEF FirstFree
  <1>3. p.slots[i] \in 0..Len(p.conns) /\ Len(p.conns) \in Nat
    BY <1>1, <1>2, ElementOfSeq, LenProperties DEF PoolOK, Pool
  <1>4. QED
    BY <1>2, <1>3 DEF FreeSlots, Hole

-----------------------------------------------------------------------------
(* What each operation makes of the pool.                                  *)

\* The pool with another record for a connection
WithConn(p, o, conn) == [p EXCEPT !.conns[o] = conn]

\* A connection is changed in place.
LEMMA ConnChanged ==
  ASSUME NEW p, PoolOK(p), NEW o \in 1..Len(p.conns), NEW conn \in Conn,
         NEW q, q = WithConn(p, o, conn)
  PROVE  /\ PoolOK(q)
         /\ q.slots = p.slots /\ q.waiting = p.waiting
         /\ Len(q.conns) = Len(p.conns)
         /\ q.conns[o] = conn
         /\ \A u \in 1..Len(p.conns) : u # o => q.conns[u] = p.conns[u]
  <1>1. /\ [p.conns EXCEPT ![o] = conn] \in Seq(Conn)
        /\ Len([p.conns EXCEPT ![o] = conn]) = Len(p.conns)
        /\ \A u \in 1..Len(p.conns) : [p.conns EXCEPT ![o] = conn][u]
                                        = IF u = o THEN conn ELSE p.conns[u]
    BY ExceptSeq DEF PoolOK, Pool
  <1>2. /\ q.conns = [p.conns EXCEPT ![o] = conn]
        /\ q.slots = p.slots /\ q.waiting = p.waiting /\ q \in Pool
    BY <1>1 DEF PoolOK, Pool, WithConn
  <1>3. QED
    BY <1>1, <1>2 DEF PoolOK

\* A connection is taken for a request, completes one, or is marked FREE.
LEMMA ConnStep ==
  ASSUME NEW p, PoolOK(p), NEW o \in 1..Len(p.conns),
         NEW status \in Statuses, NEW running \in SUBSET Jobs,
         NEW q, q = Changed(p, o, status, running)
  PROVE  /\ PoolOK(q)
         /\ q.slots = p.slots /\ q.waiting = p.waiting
         /\ Len(q.conns) = Len(p.conns)
         /\ q.conns[o].status = status /\ q.conns[o].running = running
         /\ q.conns[o].link = p.conns[o].link
         /\ \A u \in 1..Len(p.conns) : u # o => q.conns[u] = p.conns[u]
  <1> DEFINE conn == [status |-> status, running |-> running,
                      link   |-> p.conns[o].link]
  <1>1. p.conns[o] \in Conn
    BY ElementOfSeq DEF PoolOK, Pool
  <1>2. /\ conn \in Conn
        /\ conn.status = status /\ conn.running = running
        /\ conn.link = p.conns[o].link
    BY <1>1 DEF Conn
  <1>3. q = WithConn(p, o, conn)
    BY DEF Changed, WithConn
  <1> HIDE DEF conn
  <1>4. QED
    BY <1>2, <1>3, ConnChanged

\* The first waiter is taken off the queue.
LEMMA DequeuedChange ==
  ASSUME NEW p, PoolOK(p), p.waiting # <<>>
  PROVE  LET q == [p EXCEPT !.waiting = Tail(@)]
         IN /\ PoolOK(q)
            /\ q.slots = p.slots /\ q.conns = p.conns
            /\ Len(q.waiting) = Len(p.waiting) - 1
            /\ \A i \in 1..Len(q.waiting) : q.waiting[i] = p.waiting[i + 1]
            /\ Head(p.waiting) = p.waiting[1]
            /\ Len(p.waiting) \in Nat \ {0}
            /\ Head(p.waiting) \in Waiters
  <1>1. p.waiting \in Seq(Waiters)
    BY DEF PoolOK, Pool
  <1>2. /\ Tail(p.waiting) \in Seq(Waiters) /\ Head(p.waiting) \in Waiters
        /\ Len(p.waiting) \in Nat \ {0} /\ Head(p.waiting) = p.waiting[1]
        /\ Len(Tail(p.waiting)) = Len(p.waiting) - 1
        /\ \A i \in 1..Len(Tail(p.waiting)) : Tail(p.waiting)[i] = p.waiting[i + 1]
    BY <1>1, HeadTailProperties, EmptySeq
  <1> DEFINE q == [p EXCEPT !.waiting = Tail(@)]
  <1>3. /\ PoolOK(q) /\ q.slots = p.slots /\ q.conns = p.conns
        /\ q.waiting = Tail(p.waiting)
    BY <1>2 DEF PoolOK, Pool
  <1> HIDE DEF q
  <1>4. QED
    BY <1>2, <1>3 DEF q

\* fill adds a connection that is PEENDING, or changes nothing.
LEMMA FillChange ==
  ASSUME NEW p, PoolOK(p)
  PROVE  LET q == Fill(p)
         IN /\ PoolOK(q)
            /\ q.waiting = p.waiting
            /\ \/ /\ q = p /\ Len(p.slots) > 0 /\ p.slots[1] # Hole
               \/ /\ Len(q.conns) = Len(p.conns) + 1
                  /\ q.conns[Len(p.conns) + 1] = NewConn
                  /\ Len(p.slots) > 0 => p.slots[1] = Hole
            /\ Len(q.conns) >= Len(p.conns)
            /\ \A u \in 1..Len(p.conns) : q.conns[u] = p.conns[u]
            /\ Len(q.slots) > 0
            /\ Len(p.slots) > 0 => q.slots[1] = p.slots[1]
  <1> DEFINE n == Len(p.conns) + 1
             conns == Append(p.conns, NewConn)
             slots == Append(p.slots, n)
  <1>1. CASE Len(p.slots) > 0 /\ p.slots[1] # Hole
    BY <1>1, LenProperties DEF Fill, PoolOK, Pool
  <1>2. CASE ~(Len(p.slots) > 0 /\ p.slots[1] # Hole)
    <2>1. NewConn \in Conn
      BY DEF NewConn, Conn, Statuses, Links
    <2>2. /\ conns \in Seq(Conn) /\ Len(conns) = n /\ conns[n] = NewConn
          /\ \A u \in 1..Len(p.conns) : conns[u] = p.conns[u]
          /\ Len(p.conns) \in Nat
      BY <2>1, AppendProperties, LenProperties DEF PoolOK, Pool
    <2>3. p.slots \in Seq(0..n)
      BY <2>2, SeqMonotonic DEF PoolOK
    <2>4. slots \in Seq(0..n)
      BY <2>2, <2>3, AppendProperties
    <2>5. slots \in Seq(Nat)
      BY <2>2, <2>4, SeqMonotonic
    <2>6. Fill(p) = [p EXCEPT !.slots = slots, !.conns = conns]
      BY <1>2 DEF Fill
    <2> HIDE DEF slots, conns
    <2>7. /\ Fill(p).slots = slots /\ Fill(p).conns = conns
          /\ Fill(p).waiting = p.waiting /\ Fill(p) \in Pool
      BY <2>2, <2>5, <2>6 DEF PoolOK, Pool
    <2>8. PoolOK(Fill(p))
      BY <2>2, <2>4, <2>7 DEF PoolOK
    <2>9. Len(slots) > 0 /\ (Len(p.slots) > 0 => slots[1] = p.slots[1])
      BY AppendProperties, LenProperties DEF slots, PoolOK, Pool
    <2>10. QED
      BY <1>2, <2>2, <2>7, <2>8, <2>9
  <1>3. QED
    BY <1>1, <1>2

\* A waiter is queued.
LEMMA QueuedChange ==
  ASSUME NEW p, PoolOK(p), NEW w \in Waiters
  PROVE  LET q == Queued(p, w)
             n == Len(p.waiting)
         IN /\ PoolOK(q)
            /\ n \in Nat /\ Len(q.waiting) = n + 1 /\ q.waiting[n + 1] = w
            /\ \A i \in 1..n : q.waiting[i] = p.waiting[i]
            /\ \/ /\ q.conns = p.conns /\ q.slots = p.slots
                  /\ Len(p.slots) > 0 /\ p.slots[1] # Hole
               \/ /\ Len(q.conns) = Len(p.conns) + 1
                  /\ q.conns[Len(p.conns) + 1] = NewConn
                  /\ Len(p.slots) > 0 => p.slots[1] = Hole
            /\ \A u \in 1..Len(p.conns) : q.conns[u] = p.conns[u]
            /\ Len(q.slots) > 0
            /\ Len(p.slots) > 0 => q.slots[1] = p.slots[1]
  <1> DEFINE r == [p EXCEPT !.waiting = Append(@, w)]
             a == Append(p.waiting, w)
  <1>1. /\ a \in Seq(Waiters) /\ Len(a) = Len(p.waiting) + 1
        /\ a[Len(p.waiting) + 1] = w /\ Len(p.waiting) \in Nat
        /\ \A i \in 1..Len(p.waiting) : a[i] = p.waiting[i]
    BY AppendProperties, LenProperties DEF PoolOK, Pool
  <1>2. r = [p EXCEPT !.waiting = a]
    OBVIOUS
  <1> HIDE DEF a
  <1>3. PoolOK(r) /\ r.slots = p.slots /\ r.conns = p.conns /\ r.waiting = a
    BY <1>1, <1>2 DEF PoolOK, Pool
  <1>4. Queued(p, w) = Fill(r)
    BY DEF Queued
  <1> HIDE DEF r
  <1> DEFINE q == Queued(p, w)
  <1>5. /\ PoolOK(q) /\ q.waiting = a
        /\ \/ q = r /\ Len(p.slots) > 0 /\ p.slots[1] # Hole
           \/ /\ Len(q.conns) = Len(p.conns) + 1
              /\ q.conns[Len(p.conns) + 1] = NewConn
              /\ Len(p.slots) > 0 => p.slots[1] = Hole
        /\ \A u \in 1..Len(p.conns) : q.conns[u] = p.conns[u]
        /\ Len(q.slots) > 0
        /\ Len(p.slots) > 0 => q.slots[1] = p.slots[1]
    BY <1>3, <1>4, FillChange
  <1> HIDE DEF q
  <1>6. QED
    BY <1>1, <1>3, <1>5 DEF q

-----------------------------------------------------------------------------
(* Soundness is kept.                                                      *)

\* The elements of a pool are well typed.
LEMMA PoolElements ==
  ASSUME NEW p, PoolOK(p)
  PROVE  /\ Len(p.conns) \in Nat /\ Len(p.waiting) \in Nat /\ Len(p.slots) \in Nat
         /\ \A o \in 1..Len(p.conns) :
              /\ p.conns[o].status \in Statuses
              /\ p.conns[o].running \in SUBSET Jobs
              /\ p.conns[o].link \in Links
         /\ \A i \in 1..Len(p.waiting) : p.waiting[i] \in Waiters
         /\ \A i \in 1..Len(p.slots) : p.slots[i] \in 0..Len(p.conns)
  <1>1. \A o \in 1..Len(p.conns) : p.conns[o] \in Conn
    BY ElementOfSeq DEF PoolOK, Pool
  <1>2. /\ \A i \in 1..Len(p.waiting) : p.waiting[i] \in Waiters
        /\ \A i \in 1..Len(p.slots) : p.slots[i] \in 0..Len(p.conns)
        /\ Len(p.conns) \in Nat /\ Len(p.waiting) \in Nat /\ Len(p.slots) \in Nat
    BY ElementOfSeq, LenProperties DEF PoolOK, Pool
  <1>3. QED
    BY <1>1, <1>2 DEF Conn

\* The client of a request is a client, and nobody's is undefined's.
LEMMA JobClients ==
  /\ \A job \in Jobs : job.client \in Clients
  /\ NoCallback \notin Jobs /\ NoCallback.client = NoClient
  /\ NoClient \notin Clients
  BY MssqlPoolAssumption DEF Jobs, Clients, NoCallback

\* Being absent is holding no connection and awaiting none.
LEMMA AbsentPlaces ==
  ASSUME NEW p, PoolOK(p), NEW c \in Clients
  PROVE  Absent(p, c) <=> /\ \A o \in 1..Len(p.conns) : ~Holds(p, c, o)
                          /\ \A i \in 1..Len(p.waiting) : ~Awaits(p, c, i)
  <1>1. /\ \A o \in 1..Len(p.conns) : p.conns[o].running \in SUBSET Jobs
        /\ \A i \in 1..Len(p.waiting) : p.waiting[i] \in Waiters
    BY PoolElements
  <1>2. \A w \in Waiters : w.client = c => w \in Jobs
    BY JobClients DEF Waiters
  <1>3. QED
    BY <1>1, <1>2 DEF Absent, InPool, Holds, Awaits

-----------------------------------------------------------------------------
(* Soundness is kept.                                                      *)

\* Between p and q connections may be added, and only o may change what it
\* runs.
Elsewhere(p, q, o) ==
  /\ Len(p.conns) <= Len(q.conns)
  /\ \A u \in 1..Len(p.conns) :
       /\ q.conns[u].link = p.conns[u].link
       /\ u # o => q.conns[u].running = p.conns[u].running
  /\ \A u \in 1..Len(q.conns) :
       u \notin 1..Len(p.conns) => q.conns[u].link = "none" /\ q.conns[u].running = {}
  /\ q.slots[1] = p.slots[1]

\* Two such changes of one connection make one.
LEMMA ElsewhereTwice ==
  ASSUME NEW p, NEW q, NEW r, NEW o, PoolOK(p), PoolOK(q), PoolOK(r),
         Elsewhere(p, q, o), Elsewhere(q, r, o), o \in 1..Len(p.conns)
  PROVE  Elsewhere(p, r, o)
  <1>1. Len(p.conns) \in Nat /\ Len(q.conns) \in Nat /\ Len(r.conns) \in Nat
    BY PoolElements
  <1>2. Len(p.conns) <= Len(q.conns) /\ Len(q.conns) <= Len(r.conns)
    BY DEF Elsewhere
  <1>3. ASSUME NEW u \in 1..Len(r.conns), u \notin 1..Len(p.conns)
        PROVE  r.conns[u].link = "none" /\ r.conns[u].running = {}
    <2>1. CASE u \in 1..Len(q.conns)
      BY <1>3, <2>1 DEF Elsewhere
    <2>2. CASE u \notin 1..Len(q.conns)
      BY <1>3, <2>2 DEF Elsewhere
    <2>3. QED
      BY <2>1, <2>2
  <1>4. ASSUME NEW u \in 1..Len(p.conns)
        PROVE  /\ r.conns[u].link = p.conns[u].link
               /\ u # o => r.conns[u].running = p.conns[u].running
    <2>1. u \in 1..Len(q.conns)
      BY <1>1, <1>2
    <2>2. QED
      BY <2>1 DEF Elsewhere
  <1>5. Len(p.conns) <= Len(r.conns) /\ r.slots[1] = p.slots[1]
    BY <1>1, <1>2 DEF Elsewhere
  <1>6. QED
    BY <1>3, <1>4, <1>5 DEF Elsewhere

\* A connection of the pool changes its status and what it runs.
LEMMA ChangedElsewhere ==
  ASSUME NEW p, PoolOK(p), NEW o \in 1..Len(p.conns), NEW q,
         q.slots = p.slots, Len(q.conns) = Len(p.conns),
         q.conns[o].link = p.conns[o].link,
         \A u \in 1..Len(p.conns) : u # o => q.conns[u] = p.conns[u]
  PROVE  Elsewhere(p, q, o)
  BY PoolElements DEF Elsewhere

\* A connection that takes a request of a client that has none, while all else
\* stays as it is.
LEMMA TakesPlace ==
  ASSUME NEW p, PoolOK(p), NEW o \in 1..Len(p.conns), NEW job \in Jobs,
         p.conns[o].running = {}, Absent(p, job.client),
         \A c \in Clients : OnePlace(p, c),
         NEW q, PoolOK(q), q.waiting = p.waiting, Len(q.conns) = Len(p.conns),
         q.conns[o].running = {job},
         \A u \in 1..Len(p.conns) : u # o => q.conns[u] = p.conns[u]
  PROVE  /\ \A c \in Clients : OnePlace(q, c)
         /\ InPool(q) \subseteq InPool(p) \union {job}
         /\ Working(q)
  <1>1. ASSUME NEW c \in Clients PROVE OnePlace(q, c)
    <2>1. OnePlace(p, c)
      OBVIOUS
    <2>2. \A u \in 1..Len(p.conns) : Holds(q, c, u) <=>
            IF u = o THEN c = job.client ELSE Holds(p, c, u)
      BY DEF Holds
    <2>3. \A i \in 1..Len(p.waiting) : Awaits(q, c, i) <=> Awaits(p, c, i)
      BY DEF Awaits
    <2>4. CASE c = job.client
      BY <2>2, <2>3, <2>4, AbsentPlaces DEF OnePlace
    <2>5. CASE c # job.client
      BY <2>1, <2>2, <2>3, <2>5 DEF OnePlace
    <2>6. QED
      BY <2>4, <2>5
  <1>2. InPool(q) \subseteq InPool(p) \union {job}
    BY DEF InPool
  <1>3. Working(q)
    BY DEF Working
  <1>4. QED
    BY <1>1, <1>2, <1>3

\* A free connection, or the one in between, takes a new request.
LEMMA OccupiedSound ==
  ASSUME NEW p, NEW t, NEW x, NEW y, Sound(p, t, x, y),
         NEW o \in 1..Len(p.conns), NEW job \in Jobs, Absent(p, job.client),
         o = y \/ (t = 0 /\ p.conns[o].status = "FREE"),
         NEW q, q = Occupied(p, o, job), NEW z, z = IF o = y THEN 0 ELSE y
  PROVE  /\ Sound(q, t, x, z)
         /\ InPool(q) \subseteq InPool(p) \union {job}
         /\ Working(q) /\ q.waiting = p.waiting
         /\ q.conns[o].running = {job}
         /\ Elsewhere(p, q, o)
  <1>1. PoolOK(p) /\ o # 0 /\ Len(p.conns) \in Nat
    BY PoolElements DEF Sound
  <1>2. p.conns[o].running = {} /\ o # x
    <2>1. CASE o = y
      BY <2>1, <1>1 DEF Sound
    <2>2. CASE o # y
      <3>1. ExclusiveAt(p, t, x, o) /\ t = 0 /\ p.conns[o].status = "FREE"
        BY <2>2 DEF Sound
      <3>2. QED
        BY <1>1, <3>1 DEF ExclusiveAt
    <2>3. QED
      BY <2>1, <2>2
  <1>3. /\ PoolOK(q) /\ q.slots = p.slots /\ q.waiting = p.waiting
        /\ Len(q.conns) = Len(p.conns)
        /\ q.conns[o].status = "BUSY" /\ q.conns[o].running = {job}
        /\ q.conns[o].link = p.conns[o].link
        /\ \A u \in 1..Len(p.conns) : u # o => q.conns[u] = p.conns[u]
    <2>1. p.conns[o].running \union {job} \in SUBSET Jobs
      BY <1>2
    <2>2. "BUSY" \in Statuses
      BY DEF Statuses
    <2>3. q = Changed(p, o, "BUSY", p.conns[o].running \union {job})
      BY DEF Occupied
    <2>4. p.conns[o].running \union {job} = {job}
      BY <1>2
    <2>5. QED
      BY <1>1, <2>1, <2>2, <2>3, <2>4, ConnStep
  <1>4. \A u \in 1..Len(q.conns) : u # z => ExclusiveAt(q, t, x, u)
    <2> SUFFICES ASSUME NEW u \in 1..Len(q.conns), u # z
                 PROVE  ExclusiveAt(q, t, x, u)
      OBVIOUS
    <2>1. CASE u = o
      BY <2>1, <1>2, <1>3 DEF ExclusiveAt
    <2>2. CASE u # o
      <3>1. u # y
        BY <2>2
      <3>2. ExclusiveAt(p, t, x, u)
        BY <1>3, <3>1 DEF Sound
      <3>3. QED
        BY <3>2, <1>3, <2>2 DEF ExclusiveAt, Dead
    <2>3. QED
      BY <2>1, <2>2
  <1>5. /\ \A c \in Clients : OnePlace(q, c)
        /\ InPool(q) \subseteq InPool(p) \union {job} /\ Working(q)
    <2>1. \A c \in Clients : OnePlace(p, c)
      BY DEF Sound
    <2>2. QED
      BY <1>1, <1>2, <1>3, <2>1, TakesPlace
  <1>6. z # 0 => /\ z \in 1..Len(q.conns) /\ q.conns[z].running = {}
                 /\ z # x /\ (z = t => Dead(q, z))
    BY <1>3 DEF Sound, Dead
  <1>7. FirstSlot(q, t, x, z)
    <2>1. FirstSlot(p, t, x, y)
      BY DEF Sound
    <2>2. p.slots[1] # Hole => o = 1
      <3>1. p.slots[1] # Hole => Len(p.conns) = 1
        BY <2>1 DEF FirstSlot
      <3>2. \A k \in 1..1 : k = 1
        OBVIOUS
      <3>3. QED
        BY <3>1, <3>2
    <2>3. QED
      BY <1>3, <2>1, <2>2 DEF FirstSlot
  <1>8. \A i \in 1..Len(q.waiting) : q.waiting[i] # NoCallback => Plain(q.waiting[i])
    BY <1>3 DEF Sound
  <1>9. Sound(q, t, x, z)
    <2>1. x # 0 => x \in 1..Len(q.conns)
      BY <1>3 DEF Sound
    <2>2. QED
      BY <2>1, <1>3, <1>4, <1>5, <1>6, <1>7, <1>8 DEF Sound
  <1>10. Elsewhere(p, q, o)
    BY <1>1, <1>3, ChangedElsewhere
  <1>11. QED
    BY <1>3, <1>5, <1>9, <1>10

\* getConnection calls back with a free connection, which takes the request
\* and stays FREE.
LEMMA StartedSound ==
  ASSUME NEW p, NEW x, Sound(p, 0, x, 0), NEW o \in 1..Len(p.conns),
         NEW job \in Jobs, Absent(p, job.client), p.conns[o].status = "FREE",
         p.slots[1] # Hole => p.conns[1].link # "broken",
         NEW q, q = Started(p, o, job)
  PROVE  /\ Sound(q, o, x, 0)
         /\ InPool(q) \subseteq InPool(p) \union {job}
         /\ Working(q) /\ q.waiting = p.waiting
         /\ q.conns[o].running = {job}
         /\ Elsewhere(p, q, o)
  <1>1. PoolOK(p) /\ o # 0 /\ Len(p.conns) \in Nat
    BY PoolElements DEF Sound
  <1>2. p.conns[o].running = {} /\ o # x
    <2>1. ExclusiveAt(p, 0, x, o)
      BY <1>1 DEF Sound
    <2>2. QED
      BY <1>1, <2>1 DEF ExclusiveAt
  <1>3. /\ PoolOK(q) /\ q.slots = p.slots /\ q.waiting = p.waiting
        /\ Len(q.conns) = Len(p.conns)
        /\ q.conns[o].status = "FREE" /\ q.conns[o].running = {job}
        /\ q.conns[o].link = p.conns[o].link
        /\ \A u \in 1..Len(p.conns) : u # o => q.conns[u] = p.conns[u]
    <2>1. p.conns[o].running \union {job} \in SUBSET Jobs
      BY <1>2
    <2>2. "FREE" \in Statuses
      BY DEF Statuses
    <2>3. q = Changed(p, o, "FREE", p.conns[o].running \union {job})
      BY DEF Started
    <2>4. p.conns[o].running \union {job} = {job}
      BY <1>2
    <2>5. QED
      BY <1>1, <2>1, <2>2, <2>3, <2>4, ConnStep
  <1>4. \A u \in 1..Len(q.conns) : u # 0 => ExclusiveAt(q, o, x, u)
    <2> SUFFICES ASSUME NEW u \in 1..Len(q.conns) PROVE ExclusiveAt(q, o, x, u)
      OBVIOUS
    <2>1. CASE u = o
      BY <2>1, <1>2, <1>3 DEF ExclusiveAt
    <2>2. CASE u # o
      <3>1. ExclusiveAt(p, 0, x, u) /\ u # 0
        BY <1>3 DEF Sound
      <3>2. QED
        BY <3>1, <1>3, <2>2 DEF ExclusiveAt, Dead
    <2>3. QED
      BY <2>1, <2>2
  <1>5. /\ \A c \in Clients : OnePlace(q, c)
        /\ InPool(q) \subseteq InPool(p) \union {job} /\ Working(q)
    <2>1. \A c \in Clients : OnePlace(p, c)
      BY DEF Sound
    <2>2. QED
      BY <1>1, <1>2, <1>3, <2>1, TakesPlace
  <1>6. FirstSlot(q, o, x, 0)
    <2>1. FirstSlot(p, 0, x, 0)
      BY DEF Sound
    <2>2. p.slots[1] # Hole => o = 1
      <3>1. p.slots[1] # Hole => Len(p.conns) = 1
        BY <2>1 DEF FirstSlot
      <3>2. \A k \in 1..1 : k = 1
        OBVIOUS
      <3>3. QED
        BY <3>1, <3>2
    <2>3. QED
      BY <1>3, <2>1, <2>2 DEF FirstSlot
  <1>7. \A i \in 1..Len(q.waiting) : q.waiting[i] # NoCallback => Plain(q.waiting[i])
    BY <1>3 DEF Sound
  <1>8. Sound(q, o, x, 0)
    <2>1. x # 0 => x \in 1..Len(q.conns)
      BY <1>3 DEF Sound
    <2>2. QED
      BY <2>1, <1>3, <1>4, <1>5, <1>6, <1>7 DEF Sound
  <1>9. Elsewhere(p, q, o)
    BY <1>1, <1>3, ChangedElsewhere
  <1>10. QED
    BY <1>3, <1>5, <1>8, <1>9

\* A waiter that is not in the pool yet joins the queue.
LEMMA QueuedSound ==
  ASSUME NEW p, NEW x, Sound(p, 0, x, 0), NEW w \in Waiters,
         w # NoCallback => Plain(w) /\ Absent(p, w.client),
         NEW q, q = Queued(p, w)
  PROVE  /\ Sound(q, 0, x, 0)
         /\ InPool(q) \subseteq InPool(p) \union {w}
         /\ w = NoCallback => InPool(q) \subseteq InPool(p)
         /\ x = 0 /\ FreeSlots(p) = {} => Working(q)
         /\ Callbacks(p) /\ w # NoCallback => Callbacks(q)
         /\ Elsewhere(p, q, 0)
  <1> DEFINE n == Len(p.waiting)
  <1>1. PoolOK(p) /\ Len(p.conns) \in Nat /\ Len(p.slots) \in Nat
    BY PoolElements DEF Sound
  <1>2. /\ PoolOK(q)
        /\ n \in Nat /\ Len(q.waiting) = n + 1 /\ q.waiting[n + 1] = w
        /\ \A i \in 1..n : q.waiting[i] = p.waiting[i]
        /\ \/ /\ q.conns = p.conns /\ q.slots = p.slots
              /\ Len(p.slots) > 0 /\ p.slots[1] # Hole
           \/ /\ Len(q.conns) = Len(p.conns) + 1
              /\ q.conns[Len(p.conns) + 1] = NewConn
              /\ Len(p.slots) > 0 => p.slots[1] = Hole
        /\ \A u \in 1..Len(p.conns) : q.conns[u] = p.conns[u]
        /\ Len(q.slots) > 0 /\ (Len(p.slots) > 0 => q.slots[1] = p.slots[1])
    BY <1>1, QueuedChange, ZenonT(60)
  <1> HIDE DEF n
  <1>3. /\ NewConn.status = "PEENDING" /\ NewConn.running = {} /\ NewConn.link = "none"
        /\ Len(q.conns) \in {Len(p.conns), Len(p.conns) + 1}
        /\ \A u \in 1..Len(q.conns) : u \notin 1..Len(p.conns) =>
             u = Len(p.conns) + 1 /\ q.conns[u] = NewConn
    BY <1>1, <1>2 DEF NewConn
  <1>4. ASSUME NEW u \in 1..Len(q.conns) PROVE ExclusiveAt(q, 0, x, u)
    <2>1. CASE u \in 1..Len(p.conns)
      <3>1. ExclusiveAt(p, 0, x, u)
        BY <2>1 DEF Sound
      <3>2. QED
        BY <3>1, <2>1, <1>2 DEF ExclusiveAt, Dead
    <2>2. CASE u \notin 1..Len(p.conns)
      <3>1. u # x
        <4>1. x # 0 => x \in 1..Len(p.conns)
          BY DEF Sound
        <4>2. QED
          BY <2>2, <4>1
      <3>2. QED
        BY <2>2, <3>1, <1>3 DEF ExclusiveAt
    <2>3. QED
      BY <2>1, <2>2
  <1>5. ASSUME NEW c \in Clients PROVE OnePlace(q, c)
    <2>1. OnePlace(p, c)
      BY DEF Sound
    <2>2. \A u \in 1..Len(q.conns) :
            Holds(q, c, u) <=> u \in 1..Len(p.conns) /\ Holds(p, c, u)
      BY <1>2, <1>3 DEF Holds
    <2>3. \A i \in 1..Len(q.waiting) : Awaits(q, c, i) <=>
            IF i = n + 1 THEN c = w.client ELSE i \in 1..n /\ Awaits(p, c, i)
      BY <1>2 DEF Awaits
    <2>4. c = w.client => w # NoCallback
      BY JobClients
    <2>5. CASE c = w.client
      <3>1. /\ \A u \in 1..Len(p.conns) : ~Holds(p, c, u)
            /\ \A i \in 1..n : ~Awaits(p, c, i)
        BY <2>4, <2>5, <1>1, AbsentPlaces DEF n
      <3>2. QED
        BY <2>2, <2>3, <2>5, <3>1, <1>2 DEF OnePlace
    <2>6. CASE c # w.client
      BY <2>1, <2>2, <2>3, <2>6, <1>2 DEF OnePlace, n
    <2>7. QED
      BY <2>5, <2>6
  <1>6. ASSUME NEW job \in InPool(q) PROVE job \in InPool(p) \/ job = w
    <2>1. ASSUME NEW u \in 1..Len(q.conns), job \in q.conns[u].running
          PROVE  job \in InPool(p)
      <3>1. u \in 1..Len(p.conns)
        BY <2>1, <1>3
      <3>2. QED
        BY <2>1, <3>1, <1>2 DEF InPool
    <2>2. ASSUME NEW i \in 1..Len(q.waiting), job = q.waiting[i]
          PROVE  job \in InPool(p) \/ job = w
      <3>1. i = n + 1 \/ i \in 1..n
        BY <1>2
      <3>2. job \in Jobs
        BY DEF InPool
      <3>3. QED
        BY <2>2, <3>1, <3>2, <1>2 DEF InPool, n
    <2>3. QED
      BY <2>1, <2>2 DEF InPool
  <1>7. w = NoCallback => InPool(q) \subseteq InPool(p)
    BY <1>6, JobClients DEF InPool
  <1>8. FirstSlot(p, 0, x, 0)
    BY DEF Sound
  <1>9. ASSUME x = 0, FreeSlots(p) = {} PROVE Working(q)
    <2>1. CASE q.conns = p.conns /\ Len(p.slots) > 0 /\ p.slots[1] # Hole
      <3>1. /\ p.slots[1] = 1 /\ Len(p.conns) = 1
            /\ ~(p.conns[1].status = "BUSY" /\ p.conns[1].running = {})
        BY <1>8, <1>9, <2>1 DEF FirstSlot
      <3>2. p.conns[1].status # "FREE"
        BY <1>1, <1>9, <2>1, <3>1 DEF FreeSlots
      <3>3. p.conns[1].status \in Statuses
        BY <1>1, <3>1, PoolElements
      <3>4. QED
        BY <2>1, <3>1, <3>2, <3>3 DEF Working, Statuses
    <2>2. CASE Len(q.conns) = Len(p.conns) + 1
      BY <2>2, <1>1, <1>2, <1>3 DEF Working
    <2>3. QED
      BY <1>2, <2>1, <2>2
  <1>10. Callbacks(p) /\ w # NoCallback => Callbacks(q)
    BY <1>2, SMTT(30) DEF Callbacks, n
  <1>11. FirstSlot(q, 0, x, 0)
    BY <1>2, <1>8 DEF FirstSlot
  <1>12. \A i \in 1..Len(q.waiting) : q.waiting[i] # NoCallback => Plain(q.waiting[i])
    <2>1. \A i \in 1..n : p.waiting[i] # NoCallback => Plain(p.waiting[i])
      BY DEF Sound, n
    <2>2. ASSUME NEW i \in 1..Len(q.waiting), q.waiting[i] # NoCallback
          PROVE  Plain(q.waiting[i])
      <3>1. i = n + 1 \/ i \in 1..n
        BY <1>2
      <3>2. QED
        BY <1>2, <2>1, <2>2, <3>1
    <2>3. QED
      BY <2>2
  <1>13. Elsewhere(p, q, 0)
    BY <1>1, <1>2, <1>3, <1>8, SMTT(30) DEF Elsewhere, FirstSlot
  <1>14. Sound(q, 0, x, 0)
    <2>1. x # 0 => x \in 1..Len(q.conns)
      BY <1>1, <1>3 DEF Sound
    <2>2. QED
      BY <2>1, <1>2, <1>4, <1>5, <1>11, <1>12 DEF Sound
  <1>15. QED
    BY <1>6, <1>7, <1>9, <1>10, <1>13, <1>14

\* The connection in between is marked FREE.
LEMMA FreedSound ==
  ASSUME NEW p, NEW t, NEW x, NEW o, o # 0, Sound(p, t, x, o),
         NEW q, q = Freed(p, o)
  PROVE  /\ Sound(q, t, x, 0) /\ InPool(q) \subseteq InPool(p)
         /\ q.waiting = p.waiting /\ q.conns[o].running = {}
         /\ Elsewhere(p, q, o)
  <1>1. PoolOK(p) /\ o \in 1..Len(p.conns) /\ p.conns[o].running = {} /\ o # x
    BY DEF Sound
  <1>2. "FREE" \in Statuses /\ p.conns[o].running \in SUBSET Jobs
    BY <1>1 DEF Statuses
  <1>3. q = Changed(p, o, "FREE", p.conns[o].running)
    BY DEF Freed
  <1>4. /\ PoolOK(q) /\ q.slots = p.slots /\ q.waiting = p.waiting
        /\ Len(q.conns) = Len(p.conns)
        /\ q.conns[o].status = "FREE" /\ q.conns[o].running = {}
        /\ q.conns[o].link = p.conns[o].link
        /\ \A u \in 1..Len(p.conns) : u # o => q.conns[u] = p.conns[u]
    BY <1>1, <1>2, <1>3, ConnStep
  <1>5. \A u \in 1..Len(q.conns) : ExclusiveAt(q, t, x, u)
    <2> SUFFICES ASSUME NEW u \in 1..Len(q.conns) PROVE ExclusiveAt(q, t, x, u)
      OBVIOUS
    <2>1. CASE u = o
      <3>1. u = t => Dead(p, o)
        BY <2>1 DEF Sound
      <3>2. Dead(p, o) => Dead(q, u)
        BY <1>4, <2>1 DEF Dead
      <3>3. QED
        BY <2>1, <3>1, <3>2, <1>1, <1>4 DEF ExclusiveAt
    <2>2. CASE u # o
      <3>1. ExclusiveAt(p, t, x, u)
        BY <1>4, <2>2 DEF Sound
      <3>2. QED
        BY <2>2, <3>1, <1>4 DEF ExclusiveAt, Dead
    <2>3. QED
      BY <2>1, <2>2
  <1>6. ASSUME NEW c \in Clients PROVE OnePlace(q, c)
    <2>1. /\ \A u \in 1..Len(p.conns) : Holds(q, c, u) <=> Holds(p, c, u)
          /\ \A i \in 1..Len(p.waiting) : Awaits(q, c, i) <=> Awaits(p, c, i)
      BY <1>1, <1>4 DEF Holds, Awaits
    <2>2. OnePlace(p, c)
      BY DEF Sound
    <2>3. QED
      BY <1>4, <2>1, <2>2 DEF OnePlace
  <1>7. InPool(q) \subseteq InPool(p)
    BY <1>1, <1>4 DEF InPool
  <1>8. FirstSlot(q, t, x, 0)
    <2>1. FirstSlot(p, t, x, o)
      BY DEF Sound
    <2>2. p.slots[1] # Hole => o = 1
      <3>1. p.slots[1] # Hole => Len(p.conns) = 1
        BY <2>1 DEF FirstSlot
      <3>2. \A k \in 1..1 : k = 1
        OBVIOUS
      <3>3. QED
        BY <1>1, <3>1, <3>2
    <2>3. QED
      BY <1>4, <2>1, <2>2 DEF FirstSlot
  <1>9. \A i \in 1..Len(q.waiting) : q.waiting[i] # NoCallback => Plain(q.waiting[i])
    BY <1>4 DEF Sound
  <1>10. Elsewhere(p, q, o)
    BY <1>1, <1>4, ChangedElsewhere
  <1>11. Sound(q, t, x, 0)
    <2>1. x # 0 => x \in 1..Len(q.conns)
      BY <1>4 DEF Sound
    <2>2. QED
      BY <2>1, <1>4, <1>5, <1>6, <1>8, <1>9 DEF Sound
  <1>12. QED
    BY <1>4, <1>7, <1>10, <1>11

\* The waiter taken off the queue is nowhere in the pool any more.
LEMMA DequeuedSound ==
  ASSUME NEW p, NEW t, NEW x, NEW y, Sound(p, t, x, y), p.waiting # <<>>,
         NEW q, q = [p EXCEPT !.waiting = Tail(@)]
  PROVE  /\ Sound(q, t, x, y) /\ InPool(q) \subseteq InPool(p)
         /\ q.conns = p.conns /\ q.slots = p.slots
         /\ Head(p.waiting) \in Waiters
         /\ Head(p.waiting) # NoCallback => Plain(Head(p.waiting))
         /\ Head(p.waiting) \in Jobs => /\ Head(p.waiting) \in InPool(p)
                                        /\ Absent(q, Head(p.waiting).client)
         /\ \A i \in 1..Len(q.waiting) : \E j \in 1..Len(p.waiting) :
              q.waiting[i] = p.waiting[j]
  <1> DEFINE h == Head(p.waiting)
  <1>1. PoolOK(p)
    BY DEF Sound
  <1>2. /\ PoolOK(q) /\ q.slots = p.slots /\ q.conns = p.conns
        /\ Len(q.waiting) = Len(p.waiting) - 1
        /\ \A i \in 1..Len(q.waiting) : q.waiting[i] = p.waiting[i + 1]
        /\ h = p.waiting[1] /\ Len(p.waiting) \in Nat \ {0} /\ h \in Waiters
    BY <1>1, DequeuedChange
  <1> HIDE DEF h
  <1>3. \A i \in 1..Len(q.waiting) :
          i + 1 \in 1..Len(p.waiting) /\ i + 1 # 1
    BY <1>2
  <1>4. ASSUME NEW c \in Clients
        PROVE  OnePlace(q, c) /\ (c = h.client => Absent(q, c))
    <2>1. /\ \A u \in 1..Len(p.conns) : Holds(q, c, u) <=> Holds(p, c, u)
          /\ \A i \in 1..Len(q.waiting) : Awaits(q, c, i) <=> Awaits(p, c, i + 1)
      BY <1>2 DEF Holds, Awaits
    <2>2. OnePlace(p, c)
      BY DEF Sound
    <2>3. OnePlace(q, c)
      <3>1. ASSUME NEW i \in 1..Len(q.waiting), NEW j \in 1..Len(q.waiting),
                   Awaits(q, c, i), Awaits(q, c, j)
            PROVE  i = j
        <4>1. i + 1 = j + 1
          BY <1>3, <2>1, <2>2, <3>1 DEF OnePlace
        <4>2. QED
          BY <4>1
      <3>2. ASSUME NEW u \in 1..Len(q.conns), NEW i \in 1..Len(q.waiting),
                   Holds(q, c, u), Awaits(q, c, i)
            PROVE  FALSE
        BY <1>2, <1>3, <2>1, <2>2, <3>2 DEF OnePlace
      <3>3. \A u, v \in 1..Len(q.conns) : Holds(q, c, u) /\ Holds(q, c, v) => u = v
        BY <1>2, <2>1, <2>2 DEF OnePlace
      <3>4. QED
        BY <3>1, <3>2, <3>3 DEF OnePlace
    <2>4. ASSUME c = h.client PROVE Absent(q, c)
      <3>1. 1 \in 1..Len(p.waiting) /\ Awaits(p, c, 1)
        BY <1>2, <2>4 DEF Awaits
      <3>2. \A u \in 1..Len(q.conns) : ~Holds(q, c, u)
        BY <1>2, <2>1, <2>2, <3>1 DEF OnePlace
      <3>3. ASSUME NEW i \in 1..Len(q.waiting), Awaits(q, c, i) PROVE FALSE
        <4>1. i + 1 \in 1..Len(p.waiting) /\ i + 1 # 1 /\ Awaits(p, c, i + 1)
          BY <1>3, <2>1, <3>3
        <4>2. QED
          BY <2>2, <3>1, <4>1 DEF OnePlace
      <3>4. QED
        BY <1>2, <3>2, <3>3, AbsentPlaces
    <2>5. QED
      BY <2>3, <2>4
  <1>5. ASSUME NEW job \in InPool(q) PROVE job \in InPool(p)
    <2>1. ASSUME NEW i \in 1..Len(q.waiting), q.waiting[i] = job
          PROVE  job \in InPool(p)
      <3>1. i + 1 \in 1..Len(p.waiting) /\ p.waiting[i + 1] = job
        BY <1>2, <1>3, <2>1
      <3>2. QED
        BY <3>1 DEF InPool
    <2>2. QED
      BY <1>2, <2>1 DEF InPool
  <1>6. ASSUME h \in Jobs PROVE h \in InPool(p) /\ Absent(q, h.client)
    <2>1. 1 \in 1..Len(p.waiting) /\ p.waiting[1] = h
      BY <1>2
    <2>2. h.client \in Clients
      BY <1>6, JobClients
    <2>3. QED
      BY <1>4, <1>6, <2>1, <2>2 DEF InPool
  <1>7. /\ \A u \in 1..Len(q.conns) : u # y => ExclusiveAt(q, t, x, u)
        /\ y # 0 => /\ y \in 1..Len(q.conns) /\ q.conns[y].running = {}
                    /\ y # x /\ (y = t => Dead(q, y))
    BY <1>2 DEF Sound, ExclusiveAt, Dead
  <1>8. FirstSlot(q, t, x, y)
    BY <1>2 DEF Sound, FirstSlot
  <1>9. /\ \A i \in 1..Len(q.waiting) : q.waiting[i] # NoCallback => Plain(q.waiting[i])
        /\ h # NoCallback => Plain(h)
    <2>1. \A i \in 1..Len(p.waiting) : p.waiting[i] # NoCallback => Plain(p.waiting[i])
      BY DEF Sound
    <2>2. QED
      BY <1>2, <1>3, <2>1
  <1>10. Sound(q, t, x, y)
    <2>1. x # 0 => x \in 1..Len(q.conns)
      BY <1>2 DEF Sound
    <2>2. QED
      BY <2>1, <1>2, <1>4, <1>7, <1>8, <1>9 DEF Sound
  <1>11. QED
    BY <1>2, <1>3, <1>5, <1>6, <1>9, <1>10 DEF h

\* The connection in between is served to the first waiter or marked FREE.
LEMMA ServeSound ==
  ASSUME NEW p, NEW t, NEW x, NEW o, o # 0, Sound(p, t, x, o),
         NEW q, q = Serve(p, o)
  PROVE  /\ Sound(q, t, x, 0)
         /\ InPool(q) \subseteq InPool(p)
         /\ Callbacks(p) => Tended(q)
         /\ \A job \in q.conns[o].running : Plain(job)
         /\ Elsewhere(p, q, o)
  <1> DEFINE rest == [p EXCEPT !.waiting = Tail(@)]
  <1>1. o \in 1..Len(p.conns) /\ PoolOK(p)
    BY DEF Sound
  <1>2. CASE p.waiting = <<>>
    <2>1. q = Freed(p, o)
      BY <1>2 DEF Serve
    <2>2. /\ Sound(q, t, x, 0) /\ InPool(q) \subseteq InPool(p)
          /\ q.waiting = p.waiting /\ q.conns[o].running = {}
          /\ Elsewhere(p, q, o)
      BY <2>1, FreedSound
    <2>3. QED
      BY <1>2, <2>2 DEF Callbacks, Tended
  <1>3. ASSUME p.waiting # <<>>
        PROVE  /\ Sound(rest, t, x, o) /\ InPool(rest) \subseteq InPool(p)
               /\ rest.conns = p.conns /\ rest.slots = p.slots
    BY <1>3, DequeuedSound
  <1>4. ASSUME p.waiting # <<>>, Head(p.waiting) = NoCallback
        PROVE  /\ Sound(q, t, x, 0) /\ InPool(q) \subseteq InPool(p)
               /\ q.conns[o].running = {}
               /\ Elsewhere(rest, q, o)
               /\ \E i \in 1..Len(p.waiting) : p.waiting[i] = NoCallback
    <2>1. q = Freed(rest, o)
      BY <1>4 DEF Serve
    <2>2. Sound(rest, t, x, o) /\ InPool(rest) \subseteq InPool(p)
      BY <1>3, <1>4
    <2> HIDE DEF rest
    <2>3. /\ Len(p.waiting) \in Nat \ {0} /\ Head(p.waiting) = p.waiting[1]
      BY <1>1, <1>4, DequeuedChange
    <2>4. /\ Sound(q, t, x, 0) /\ InPool(q) \subseteq InPool(rest)
          /\ q.conns[o].running = {} /\ Elsewhere(rest, q, o)
      BY <2>1, <2>2, FreedSound
    <2>5. QED
      BY <1>4, <2>2, <2>3, <2>4
  <1>5. ASSUME p.waiting # <<>>, Head(p.waiting) # NoCallback
        PROVE  /\ Sound(q, t, x, 0) /\ InPool(q) \subseteq InPool(p) /\ Working(q)
               /\ q.waiting = rest.waiting
               /\ \A job \in q.conns[o].running : Plain(job)
               /\ Elsewhere(rest, q, o)
    <2> DEFINE h == Head(p.waiting)
    <2>1. q = Occupied(rest, o, h)
      BY <1>5 DEF Serve
    <2>2. /\ Sound(rest, t, x, o) /\ InPool(rest) \subseteq InPool(p)
          /\ rest.conns = p.conns /\ h \in Waiters /\ Plain(h)
          /\ h \in Jobs => h \in InPool(p) /\ Absent(rest, h.client)
      BY <1>5, DequeuedSound
    <2> HIDE DEF rest, h
    <2>3. h \in Jobs
      BY <1>5, <2>2 DEF Waiters, h
    <2>4. o \in 1..Len(rest.conns)
      BY <1>1, <2>2
    <2>5. /\ Sound(q, t, x, 0) /\ InPool(q) \subseteq InPool(rest) \union {h}
          /\ Working(q) /\ q.waiting = rest.waiting /\ q.conns[o].running = {h}
          /\ Elsewhere(rest, q, o)
      BY <2>1, <2>2, <2>3, <2>4, OccupiedSound
    <2>6. QED
      BY <2>2, <2>3, <2>5
  <1>6. p.waiting # <<>> => \A i \in 1..Len(rest.waiting) :
          \E j \in 1..Len(p.waiting) : rest.waiting[i] = p.waiting[j]
    BY DequeuedSound, SMTT(30)
  <1>7. p.waiting # <<>> => (Elsewhere(rest, q, o) => Elsewhere(p, q, o))
    BY <1>3 DEF Elsewhere
  <1> HIDE DEF rest
  <1>8. CASE p.waiting # <<>> /\ Head(p.waiting) = NoCallback
    BY <1>4, <1>7, <1>8 DEF Callbacks
  <1>9. CASE p.waiting # <<>> /\ Head(p.waiting) # NoCallback
    BY <1>5, <1>6, <1>7, <1>9 DEF Callbacks, Tended
  <1>10. QED
    BY <1>2, <1>8, <1>9

\* A request that has ended leaves its connection in between.
LEMMA CompletedSound ==
  ASSUME NEW p, NEW t, NEW x, Sound(p, t, x, 0), NEW o \in 1..Len(p.conns),
         o = t => Dead(p, o),
         NEW job \in p.conns[o].running, NEW q, q = Completed(p, o, job)
  PROVE  /\ o # 0 /\ Sound(q, t, x, o)
         /\ job \in InPool(p) /\ p.conns[o].running = {job}
         /\ InPool(q) \subseteq InPool(p)
         /\ Absent(q, job.client)
         /\ q.waiting = p.waiting
         /\ q.conns[o].status = p.conns[o].status
         /\ q.slots = p.slots
         /\ Elsewhere(p, q, o)
  <1>1. /\ PoolOK(p) /\ o # 0 /\ o # x /\ job \in Jobs
        /\ p.conns[o].running = {job} /\ p.conns[o].status \in Statuses
    <2>1. PoolOK(p) /\ ExclusiveAt(p, t, x, o) /\ o # 0
      BY DEF Sound
    <2>2. o # x /\ p.conns[o].running = {job}
      BY <2>1 DEF ExclusiveAt
    <2>3. QED
      BY <2>1, <2>2, PoolElements
  <1>2. q = Changed(p, o, p.conns[o].status, {})
    <2>1. p.conns[o].running \ {job} = {}
      BY <1>1
    <2>2. QED
      BY <1>1, <2>1 DEF Completed
  <1>3. /\ PoolOK(q) /\ q.slots = p.slots /\ q.waiting = p.waiting
        /\ Len(q.conns) = Len(p.conns)
        /\ q.conns[o].status = p.conns[o].status /\ q.conns[o].running = {}
        /\ q.conns[o].link = p.conns[o].link
        /\ \A u \in 1..Len(p.conns) : u # o => q.conns[u] = p.conns[u]
    <2>1. {} \in SUBSET Jobs
      OBVIOUS
    <2>2. QED
      BY <1>1, <1>2, <2>1, ConnStep
  <1>4. ASSUME NEW u \in 1..Len(q.conns), u # o PROVE ExclusiveAt(q, t, x, u)
    <2>1. ExclusiveAt(p, t, x, u)
      BY <1>1, <1>3, <1>4, PoolElements DEF Sound
    <2>2. QED
      BY <2>1, <1>3, <1>4 DEF ExclusiveAt, Dead
  <1>5. ASSUME NEW c \in Clients
        PROVE  OnePlace(q, c) /\ (c = job.client => Absent(q, c))
    <2>1. /\ \A u \in 1..Len(p.conns) : Holds(q, c, u) <=> u # o /\ Holds(p, c, u)
          /\ \A i \in 1..Len(p.waiting) : Awaits(q, c, i) <=> Awaits(p, c, i)
      BY <1>3 DEF Holds, Awaits
    <2>2. OnePlace(p, c)
      BY DEF Sound
    <2>3. OnePlace(q, c)
      BY <1>3, <2>1, <2>2 DEF OnePlace
    <2>4. ASSUME c = job.client PROVE Absent(q, c)
      <3>1. Holds(p, c, o)
        BY <1>1, <2>4 DEF Holds
      <3>2. /\ \A u \in 1..Len(p.conns) : ~Holds(q, c, u)
            /\ \A i \in 1..Len(p.waiting) : ~Awaits(q, c, i)
        BY <2>1, <2>2, <3>1 DEF OnePlace
      <3>3. QED
        BY <1>3, <3>2, AbsentPlaces
    <2>5. QED
      BY <2>3, <2>4
  <1>6. InPool(q) \subseteq InPool(p) /\ job \in InPool(p)
    BY <1>1, <1>3 DEF InPool
  <1>7. FirstSlot(q, t, x, o)
    <2>1. FirstSlot(p, t, x, 0)
      BY DEF Sound
    <2>2. p.slots[1] # Hole => o = 1
      <3>1. p.slots[1] # Hole => Len(p.conns) = 1
        BY <2>1 DEF FirstSlot
      <3>2. \A k \in 1..1 : k = 1
        OBVIOUS
      <3>3. QED
        BY <3>1, <3>2
    <2>3. QED
      BY <1>3, <2>1, <2>2 DEF FirstSlot
  <1>8. \A i \in 1..Len(q.waiting) : q.waiting[i] # NoCallback => Plain(q.waiting[i])
    BY <1>3 DEF Sound
  <1>9. Elsewhere(p, q, o)
    BY <1>1, <1>3, ChangedElsewhere
  <1>10. Sound(q, t, x, o)
    <2>1. x # 0 => x \in 1..Len(q.conns)
      BY <1>3 DEF Sound
    <2>2. o = t => Dead(q, o)
      BY <1>3 DEF Dead
    <2>3. QED
      BY <1>1, <1>3, <1>4, <1>5, <1>7, <1>8, <2>1, <2>2 DEF Sound
  <1>11. QED
    BY <1>1, <1>3, <1>5, <1>6, <1>9, <1>10, JobClients

\* A connection in between that stays BUSY until beginTransaction releases it.
LEMMA HeldSound ==
  ASSUME NEW p, NEW o, o # 0, Sound(p, 0, 0, o), p.conns[o].status = "BUSY"
  PROVE  Sound(p, 0, o, 0)
  <1>1. /\ o \in 1..Len(p.conns) /\ p.conns[o].running = {} /\ PoolOK(p)
    BY DEF Sound
  <1>2. ASSUME NEW u \in 1..Len(p.conns) PROVE ExclusiveAt(p, 0, o, u)
    <2>1. CASE u = o
      BY <1>1, <2>1, PoolElements DEF ExclusiveAt
    <2>2. CASE u # o
      <3>1. ExclusiveAt(p, 0, 0, u)
        BY <2>2 DEF Sound
      <3>2. QED
        BY <2>2, <3>1, <1>1 DEF ExclusiveAt
    <2>3. QED
      BY <2>1, <2>2
  <1>3. FirstSlot(p, 0, o, 0)
    <2>1. FirstSlot(p, 0, 0, o)
      BY DEF Sound
    <2>2. QED
      BY <2>1 DEF FirstSlot
  <1>4. QED
    BY <1>1, <1>2, <1>3 DEF Sound

\* beginTransaction goes on: its connection is in between again.
LEMMA UnheldSound ==
  ASSUME NEW p, NEW x, x # 0, Sound(p, 0, x, 0)
  PROVE  Sound(p, 0, 0, x)
  <1>1. x \in 1..Len(p.conns) /\ PoolOK(p)
    BY DEF Sound
  <1>2. ASSUME NEW u \in 1..Len(p.conns), u # x PROVE ExclusiveAt(p, 0, 0, u)
    <2>1. ExclusiveAt(p, 0, x, u) /\ u # 0
      BY <1>1, PoolElements DEF Sound
    <2>2. QED
      BY <2>1, <1>2 DEF ExclusiveAt
  <1>3. p.conns[x].running = {}
    <2>1. ExclusiveAt(p, 0, x, x)
      BY <1>1 DEF Sound
    <2>2. QED
      BY <2>1 DEF ExclusiveAt
  <1>4. FirstSlot(p, 0, 0, x)
    <2>1. FirstSlot(p, 0, x, 0)
      BY DEF Sound
    <2>2. QED
      BY <2>1 DEF FirstSlot
  <1>5. QED
    BY <1>1, <1>2, <1>3, <1>4 DEF Sound

\* release.
LEMMA ReleaseSound ==
  ASSUME NEW p, NEW t, NEW x, Sound(p, t, x, 0), NEW o \in 1..Len(p.conns),
         o = t => Dead(p, o),
         NEW job \in p.conns[o].running, NEW q, q = Release(p, o, job)
  PROVE  /\ Sound(q, t, x, 0)
         /\ job \in InPool(p)
         /\ InPool(q) \subseteq InPool(p)
         /\ Absent(q, job.client)
         /\ Callbacks(p) => Tended(q)
         /\ \A j \in q.conns[o].running : Plain(j)
         /\ Elsewhere(p, q, o)
  <1> DEFINE r == Completed(p, o, job)
  <1>1. /\ o # 0 /\ Sound(r, t, x, o) /\ job \in InPool(p)
        /\ InPool(r) \subseteq InPool(p) /\ Absent(r, job.client)
        /\ r.waiting = p.waiting /\ Elsewhere(p, r, o)
    BY CompletedSound
  <1>2. q = Serve(r, o)
    BY DEF Release
  <1> HIDE DEF r
  <1>3. /\ Sound(q, t, x, 0) /\ InPool(q) \subseteq InPool(r)
        /\ Callbacks(r) => Tended(q)
        /\ \A j \in q.conns[o].running : Plain(j)
        /\ Elsewhere(r, q, o)
    BY <1>1, <1>2, ServeSound
  <1>4. PoolOK(p) /\ PoolOK(q) /\ PoolOK(r)
    BY <1>1, <1>3 DEF Sound
  <1>5. Elsewhere(p, q, o)
    BY <1>1, <1>3, <1>4, ElsewhereTwice
  <1>6. QED
    BY <1>1, <1>3, <1>5 DEF Absent, Callbacks

\* getConnection goes on after its callback.
LEMMA MarkedSound ==
  ASSUME NEW p, NEW t, NEW x, Sound(p, t, x, 0), t \in 1..Len(p.conns),
         NEW q, q = Marked(p, t)
  PROVE  /\ Sound(q, 0, x, 0)
         /\ InPool(q) \subseteq InPool(p)
         /\ q.waiting = p.waiting
         /\ Working(p) => Working(q)
         /\ Elsewhere(p, q, 0)
  <1>1. PoolOK(p) /\ Len(p.conns) \in Nat /\ p.conns[t].running \in SUBSET Jobs
    BY PoolElements DEF Sound
  <1>2. "BUSY" \in Statuses /\ q = Changed(p, t, "BUSY", p.conns[t].running)
    BY DEF Statuses, Marked
  <1>3. /\ PoolOK(q) /\ q.slots = p.slots /\ q.waiting = p.waiting
        /\ Len(q.conns) = Len(p.conns)
        /\ q.conns[t].status = "BUSY" /\ q.conns[t].running = p.conns[t].running
        /\ q.conns[t].link = p.conns[t].link
        /\ \A u \in 1..Len(p.conns) : u # t => q.conns[u] = p.conns[u]
    BY <1>1, <1>2, ConnStep
  <1>4. ASSUME NEW u \in 1..Len(q.conns)
        PROVE  u # 0 /\ u \in 1..Len(p.conns) /\ ExclusiveAt(p, t, x, u)
    BY <1>1, <1>3 DEF Sound
  <1>5. ASSUME NEW u \in 1..Len(q.conns) PROVE ExclusiveAt(q, 0, x, u)
    <2>1. CASE u = t
      BY <2>1, <1>3, <1>4 DEF ExclusiveAt, Dead
    <2>2. CASE u # t
      BY <2>2, <1>3, <1>4 DEF ExclusiveAt, Dead
    <2>3. QED
      BY <2>1, <2>2
  <1>6. ASSUME NEW c \in Clients PROVE OnePlace(q, c)
    <2>1. /\ \A u \in 1..Len(p.conns) : Holds(q, c, u) <=> Holds(p, c, u)
          /\ \A i \in 1..Len(p.waiting) : Awaits(q, c, i) <=> Awaits(p, c, i)
      BY <1>3 DEF Holds, Awaits
    <2>2. OnePlace(p, c)
      BY DEF Sound
    <2>3. QED
      BY <1>3, <2>1, <2>2 DEF OnePlace
  <1>7. InPool(q) \subseteq InPool(p)
    BY <1>3 DEF InPool
  <1>8. FirstSlot(q, 0, x, 0)
    <2>1. FirstSlot(p, t, x, 0)
      BY DEF Sound
    <2>2. CASE p.slots[1] = Hole
      BY <1>3, <2>1, <2>2 DEF FirstSlot
    <2>3. CASE p.slots[1] # Hole
      <3>1. Len(p.conns) = 1 /\ p.conns[1].link # "closed"
        BY <2>1, <2>3 DEF FirstSlot
      <3>2. t = 1
        <4>1. \A k \in 1..1 : k = 1
          OBVIOUS
        <4>2. QED
          BY <3>1, <4>1
      <3>3. p.conns[1].running # {}
        <4>1. p.conns[1].link # "broken"
          BY <2>1, <2>3, <3>2 DEF FirstSlot
        <4>2. QED
          BY <1>3, <1>4, <3>1, <3>2, <4>1 DEF ExclusiveAt, Dead
      <3>4. QED
        BY <1>3, <2>1, <2>3, <3>2, <3>3 DEF FirstSlot
    <2>4. QED
      BY <2>2, <2>3
  <1>9. \A i \in 1..Len(q.waiting) : q.waiting[i] # NoCallback => Plain(q.waiting[i])
    BY <1>3 DEF Sound
  <1>10. Sound(q, 0, x, 0)
    <2>1. x # 0 => x \in 1..Len(q.conns)
      BY <1>3 DEF Sound
    <2>2. QED
      BY <1>3, <1>5, <1>6, <1>8, <1>9, <2>1 DEF Sound
  <1>11. Working(p) => Working(q)
    <2> SUFFICES ASSUME NEW u \in 1..Len(p.conns),
                        p.conns[u].status = "PEENDING" \/ p.conns[u].running # {}
                 PROVE  Working(q)
      BY DEF Working
    <2>1. CASE u = t
      BY <2>1, <1>3, <1>4 DEF Working, ExclusiveAt
    <2>2. CASE u # t
      BY <2>2, <1>3 DEF Working
    <2>3. QED
      BY <2>1, <2>2
  <1>12. Elsewhere(p, q, 0)
    BY <1>1, <1>3 DEF Elsewhere
  <1>13. QED
    BY <1>3, <1>7, <1>10, <1>11, <1>12

\* A change of links, or of the first slot, leaves every request where it is.
LEMMA LinksSound ==
  ASSUME NEW p, Sound(p, 0, 0, 0), NEW q, PoolOK(q), q.waiting = p.waiting,
         Len(q.conns) = Len(p.conns),
         \A o \in 1..Len(p.conns) :
           /\ q.conns[o].status = p.conns[o].status
           /\ q.conns[o].running = p.conns[o].running
           /\ p.conns[o].status = "BUSY" /\ Dead(p, o) => Dead(q, o),
         Len(q.slots) = Len(p.slots),
         \/ q.slots[1] = Hole
         \/ q.slots = p.slots /\ \A o \in 1..Len(p.conns) : q.conns[o].link # "closed"
         \/ q.slots = p.slots /\ q.conns = p.conns
  PROVE  Sound(q, 0, 0, 0) /\ InPool(q) = InPool(p) /\ (Working(p) => Working(q))
  <1>1. PoolOK(p) /\ Len(p.conns) \in Nat
    BY PoolElements DEF Sound
  <1>2. ASSUME NEW o \in 1..Len(q.conns) PROVE ExclusiveAt(q, 0, 0, o)
    <2>1. ExclusiveAt(p, 0, 0, o) /\ o # 0
      BY <1>1 DEF Sound
    <2>2. QED
      BY <2>1 DEF ExclusiveAt
  <1>3. ASSUME NEW c \in Clients PROVE OnePlace(q, c)
    <2>1. OnePlace(p, c)
      BY DEF Sound
    <2>2. /\ \A o \in 1..Len(p.conns) : Holds(q, c, o) <=> Holds(p, c, o)
          /\ \A i \in 1..Len(p.waiting) : Awaits(q, c, i) <=> Awaits(p, c, i)
      BY DEF Holds, Awaits
    <2>3. QED
      BY <2>1, <2>2 DEF OnePlace
  <1>4. InPool(q) = InPool(p)
    BY DEF InPool
  <1>5. FirstSlot(q, 0, 0, 0)
    <2>1. FirstSlot(p, 0, 0, 0)
      BY DEF Sound
    <2>2. QED
      BY <2>1 DEF FirstSlot
  <1>6. \A i \in 1..Len(q.waiting) : q.waiting[i] # NoCallback => Plain(q.waiting[i])
    BY DEF Sound
  <1>7. QED
    BY <1>2, <1>3, <1>4, <1>5, <1>6 DEF Sound, Working

\* getConnection(callback) with a request of a client not in the pool.
LEMMA GetSound ==
  ASSUME NEW p, NEW x, Sound(p, 0, x, 0), NEW job \in Jobs, Plain(job),
         Absent(p, job.client), taking = 0,
         FreeSlots(p) = {} \/ (p.slots[1] # Hole => p.conns[1].link # "broken"),
         Get(p, job)
  PROVE  /\ Sound(pool', taking', x, 0)
         /\ InPool(pool') \subseteq InPool(p) \union {job}
         /\ x = 0 => Working(pool')
         /\ Callbacks(p) => Callbacks(pool')
         /\ taking' \in 0..Len(pool'.conns)
         /\ Elsewhere(p, pool', taking')
         /\ taking' # 0 => taking' \in 1..Len(p.conns) /\ pool'.conns[taking'].running = {job}
  <1>1. PoolOK(p)
    BY DEF Sound
  <1>2. CASE FreeSlots(p) = {}
    <2>1. /\ job \in Waiters /\ job # NoCallback
          /\ pool' = Queued(p, job) /\ taking' = 0
      BY <1>2, JobClients DEF Waiters, Get
    <2>2. /\ Sound(pool', 0, x, 0)
          /\ InPool(pool') \subseteq InPool(p) \union {job}
          /\ x = 0 => Working(pool')
          /\ Callbacks(p) => Callbacks(pool')
          /\ Elsewhere(p, pool', 0)
      BY <1>2, <2>1, QueuedSound
    <2>3. 0 \in 0..Len(pool'.conns)
      BY <2>2, PoolElements DEF Sound
    <2>4. QED
      BY <2>1, <2>2, <2>3
  <1>3. CASE FreeSlots(p) # {}
    <2> DEFINE f == FirstFree(p)
    <2>1. f \in 1..Len(p.conns) /\ p.conns[f].status = "FREE"
      BY <1>1, <1>3, FirstFreeIsFree
    <2>2. pool' = Started(p, f, job) /\ taking' = f
      BY <1>3 DEF Get
    <2> HIDE DEF f
    <2>3. /\ Sound(pool', f, x, 0)
          /\ InPool(pool') \subseteq InPool(p) \union {job}
          /\ Working(pool') /\ pool'.waiting = p.waiting
          /\ pool'.conns[f].running = {job}
          /\ Elsewhere(p, pool', f)
      BY <1>3, <2>1, <2>2, StartedSound
    <2>4. f \in 0..Len(pool'.conns)
      BY <1>1, <2>1, <2>3, PoolElements DEF Sound, Elsewhere
    <2>5. QED
      BY <2>1, <2>2, <2>3, <2>4 DEF Callbacks
  <1>4. QED
    BY <1>2, <1>3

\* A transaction call gets connection f of the pool, which is then q, or none.
Gets(p, q, job, rest, f) ==
  /\ f \in 0..Len(p.conns) /\ Elsewhere(p, q, f)
  /\ \/ f = 0 /\ ready' = rest
     \/ /\ f # 0 /\ ready' = Append(rest, Continuation(job, TRUE))
        /\ q.conns[f].running = {job}

\* getConnection() of a transaction call.
LEMMA CallSound ==
  ASSUME NEW p, NEW x, Sound(p, 0, x, 0), NEW job \in Jobs,
         Absent(p, job.client), NEW rest, Call(p, job, rest)
  PROVE  /\ Sound(pool', 0, x, 0)
         /\ InPool(pool') \subseteq InPool(p) \union {job}
         /\ lost' \subseteq lost \union {job}
         /\ lost' = {} => /\ lost = {} /\ Working(pool')
                          /\ Callbacks(p) => Callbacks(pool')
         /\ \E f : Gets(p, pool', job, rest, f)
  <1>1. PoolOK(p) /\ Len(p.conns) \in Nat
    BY PoolElements DEF Sound
  <1>2. CASE FreeSlots(p) = {}
    <2>1. /\ NoCallback \in Waiters
          /\ pool' = Queued(p, NoCallback) /\ lost' = lost \union {job} /\ ready' = rest
      BY <1>2 DEF Waiters, Call
    <2>2. /\ Sound(pool', 0, x, 0) /\ InPool(pool') \subseteq InPool(p)
          /\ Elsewhere(p, pool', 0)
      BY <2>1, QueuedSound
    <2>3. lost' # {}
      BY <2>1
    <2>4. 0 \in 0..Len(p.conns)
      BY <1>1
    <2>5. Gets(p, pool', job, rest, 0)
      BY <2>1, <2>2, <2>4 DEF Gets
    <2>6. QED
      BY <2>1, <2>2, <2>3, <2>5
  <1>3. CASE FreeSlots(p) # {}
    <2> DEFINE f == FirstFree(p)
    <2>1. f \in 1..Len(p.conns) /\ p.conns[f].status = "FREE"
      BY <1>1, <1>3, FirstFreeIsFree
    <2>2. /\ pool' = Occupied(p, f, job) /\ lost' = lost
          /\ ready' = Append(rest, Continuation(job, TRUE))
      BY <1>3 DEF Call
    <2> HIDE DEF f
    <2>3. f # 0
      BY <1>1, <2>1
    <2>4. /\ Sound(pool', 0, x, 0)
          /\ InPool(pool') \subseteq InPool(p) \union {job}
          /\ Working(pool') /\ pool'.waiting = p.waiting
          /\ pool'.conns[f].running = {job}
          /\ Elsewhere(p, pool', f)
      BY <2>1, <2>2, <2>3, OccupiedSound
    <2>5. f \in 0..Len(p.conns)
      BY <1>1, <2>1
    <2>6. Callbacks(p) => Callbacks(pool')
      BY <2>4 DEF Callbacks
    <2>7. Gets(p, pool', job, rest, f)
      BY <2>2, <2>3, <2>4, <2>5 DEF Gets
    <2>8. QED
      BY <2>2, <2>4, <2>6, <2>7
  <1>4. QED
    BY <1>2, <1>3

-----------------------------------------------------------------------------
(* Continuations, clients and failing requests.                            *)

Continuations == [job : Jobs, ok : BOOLEAN]

\* A continuation is added at the end.
LEMMA SettledAppend ==
  ASSUME NEW r \in Seq(Continuations), NEW c \in Continuations, NEW b
  PROVE  /\ Settled(r, b) \subseteq Settled(Append(r, c), b)
         /\ Settled(Append(r, c), b) \subseteq Settled(r, b) \union {Len(r) + 1}
         /\ ~(c.job.op = "sql" /\ c.job.client = b) =>
              Settled(Append(r, c), b) = Settled(r, b)
  <1> DEFINE a == Append(r, c)
  <1>1. /\ Len(r) \in Nat /\ Len(a) = Len(r) + 1 /\ a[Len(r) + 1] = c
        /\ \A i \in 1..Len(r) : a[i] = r[i]
    BY AppendProperties, LenProperties
  <1> HIDE DEF a
  <1>2. \A i \in 1..Len(a) : i \in 1..Len(r) \/ i = Len(r) + 1
    BY <1>1
  <1>3. QED
    BY <1>1, <1>2 DEF Settled, a

\* The first continuation is taken off.
LEMMA SettledTail ==
  ASSUME NEW r \in Seq(Continuations), r # <<>>, NEW b,
         \A i, j \in Settled(r, b) : i = j
  PROVE  /\ \A i, j \in Settled(Tail(r), b) : i = j
         /\ Settled(Tail(r), b) # {} => Settled(r, b) # {}
         /\ Head(r).job.op = "sql" /\ Head(r).job.client = b =>
              /\ Settled(Tail(r), b) = {}
              /\ Settled(r, b) # {}
  <1> DEFINE q == Tail(r)
  <1>1. /\ Head(r) = r[1] /\ Len(r) \in Nat \ {0} /\ Len(q) = Len(r) - 1
        /\ \A i \in 1..Len(q) : q[i] = r[i + 1]
    BY HeadTailProperties, EmptySeq
  <1> HIDE DEF q
  <1>2. \A i \in Settled(q, b) : i \in Nat /\ i + 1 # 1 /\ i + 1 \in Settled(r, b)
    BY <1>1 DEF Settled
  <1>3. \A i, j \in Settled(q, b) : i = j
    <2> SUFFICES ASSUME NEW i \in Settled(q, b), NEW j \in Settled(q, b)
                 PROVE  i = j
      OBVIOUS
    <2>1. i + 1 = j + 1 /\ i \in Nat /\ j \in Nat
      BY <1>2
    <2>2. QED
      BY <2>1
  <1>4. ASSUME Head(r).job.op = "sql", Head(r).job.client = b
        PROVE  1 \in Settled(r, b)
    BY <1>1, <1>4 DEF Settled
  <1>5. QED
    BY <1>2, <1>3, <1>4 DEF q

\* What sends its request goes on doing so when a continuation is added.
LEMMA SendsKept ==
  ASSUME NEW r \in Seq(Continuations), NEW c \in Continuations, NEW job
  PROVE  /\ (\E i \in 1..Len(r) : r[i].job = job) =>
              \E i \in 1..Len(Append(r, c)) : Append(r, c)[i].job = job
         /\ \E i \in 1..Len(Append(r, c)) : Append(r, c)[i].job = c.job
  <1>1. /\ Len(r) \in Nat /\ Len(Append(r, c)) = Len(r) + 1
        /\ Append(r, c)[Len(r) + 1] = c
        /\ \A i \in 1..Len(r) : Append(r, c)[i] = r[i]
    BY AppendProperties, LenProperties
  <1>2. /\ (\E i \in 1..Len(r) : r[i].job = job) =>
              \E i \in 1..Len(Append(r, c)) : Append(r, c)[i].job = job
        /\ \E i \in 1..Len(Append(r, c)) : Append(r, c)[i].job = c.job
    BY <1>1
  <1>3. QED
    BY <1>2

\* A step of client c, or of none: where his requests are and what is left of
\* his statements fits, and nobody else's changes.
LEMMA ClientsKept ==
  ASSUME IInv, NEW c,
         \A e \in Clients : e # c => phase'[e] = phase[e],
         \A e \in Batches : e # c =>
           /\ left'[e] = left[e]
           /\ \A i, j \in Settled(ready', e) : i = j
           /\ Settled(ready', e) # {} => Settled(ready, e) # {},
         \A job \in InPool(pool') :
           \/ job \in InPool(pool) /\ job.client # c
           \/ /\ job.client = c /\ phase'[c] # "idle"
              /\ job.op = "sql" => left'[c] > 0
              /\ Settled(ready', c) = {},
         c \in Batches =>
           /\ \A i, j \in Settled(ready', c) : i = j
           /\ Settled(ready', c) # {} => phase'[c] # "idle" /\ left'[c] > 0
  PROVE  IdleAbsent' /\ StatementsLeft' /\ SettledOnce'
  <1>1. IdleAbsent'
    <2> SUFFICES ASSUME NEW e \in Clients, phase'[e] = "idle",
                        NEW job \in InPool(pool'), job.client = e
                 PROVE  FALSE
      BY DEF IdleAbsent, Absent
    <2>1. e # c /\ job \in InPool(pool)
      OBVIOUS
    <2>2. Absent(pool, e)
      BY <2>1 DEF IInv, IdleAbsent
    <2>3. QED
      BY <2>1, <2>2 DEF Absent
  <1>2. StatementsLeft'
    <2> SUFFICES ASSUME NEW job \in InPool(pool'), job.op = "sql"
                 PROVE  left'[job.client] > 0
      BY DEF StatementsLeft
    <2>1. job.client \in Batches
      BY DEF InPool, Jobs
    <2>2. QED
      BY <2>1 DEF IInv, StatementsLeft
  <1>3. SettledOnce'
    <2> SUFFICES ASSUME NEW b \in Batches
                 PROVE  /\ \A i, j \in Settled(ready', b) : i = j
                        /\ Settled(ready', b) # {} =>
                             Absent(pool', b) /\ left'[b] > 0 /\ phase'[b] # "idle"
      BY DEF SettledOnce
    <2>1. CASE b = c
      BY <2>1 DEF Absent
    <2>2. CASE b # c
      <3>1. b \in Clients
        BY DEF Clients
      <3>2. Settled(ready, b) # {} =>
              Absent(pool, b) /\ left[b] > 0 /\ phase[b] # "idle"
        BY DEF IInv, SettledOnce
      <3>3. QED
        BY <2>2, <3>1, <3>2 DEF Absent
    <2>3. QED
      BY <2>1, <2>2
  <1>4. QED
    BY <1>1, <1>2, <1>3

\* A step of no client moves nobody.
LEMMA NobodyMoves ==
  ASSUME IInv, UNCHANGED <<phase, left, ready>>, InPool(pool') \subseteq InPool(pool)
  PROVE  IdleAbsent' /\ StatementsLeft' /\ SettledOnce'
  <1>1. IdleAbsent'
    BY DEF IInv, IdleAbsent, Absent
  <1>2. StatementsLeft'
    BY DEF IInv, StatementsLeft
  <1>3. SettledOnce'
    BY DEF IInv, SettledOnce, Absent
  <1>4. QED
    BY <1>1, <1>2, <1>3

\* If no connection but o fails there is one at most.
LEMMA FailsAt ==
  ASSUME NEW o, \A u \in 1..Len(pool'.conns) : u # o => ~Failing(u)',
         taking' # None \/ releasing' # None =>
           (Failing(o)' => \A job \in pool'.conns[o].running : Plain(job))
  PROVE  OneFails'
  <1>1. \A u, v \in 1..Len(pool'.conns) : Failing(u)' /\ Failing(v)' => u = v
    OBVIOUS
  <1>2. ASSUME taking' # None \/ releasing' # None, NEW u \in 1..Len(pool'.conns),
               Failing(u)', NEW job \in pool'.conns[u].running
        PROVE  Plain(job)
    <2>1. u = o
      BY <1>2
    <2>2. QED
      BY <1>2, <2>1
  <1>3. (\A u, v \in 1..Len(pool.conns) : Failing(u) /\ Failing(v) => u = v)'
    BY <1>1
  <1>4. (taking # None \/ releasing # None =>
           \A u \in 1..Len(pool.conns) :
             Failing(u) => \A job \in pool.conns[u].running : Plain(job))'
    BY <1>2
  <1>5. QED
    BY <1>3, <1>4 DEF OneFails

\* A connection that changes neither link nor requests does not begin to fail.
LEMMA FailsNot ==
  ASSUME NEW u \in 1..Len(pool.conns), ~Failing(u),
         pool'.conns[u].link = pool.conns[u].link,
         pool'.conns[u].running = pool.conns[u].running,
         \A job \in pool.conns[u].running : Sends(job) => Sends(job)'
  PROVE  ~Failing(u)'
  BY DEF Failing, Dead

\* A step that changes what o runs lets no other request fail.
LEMMA FailsElsewhere ==
  ASSUME NEW o, Elsewhere(pool, pool', o),
         \A u \in 1..Len(pool.conns) : u # o => ~Failing(u),
         \A job : Sends(job) => Sends(job)'
  PROVE  \A u \in 1..Len(pool'.conns) : u # o => ~Failing(u)'
  <1> SUFFICES ASSUME NEW u \in 1..Len(pool'.conns), u # o PROVE ~Failing(u)'
    OBVIOUS
  <1>1. CASE u \in 1..Len(pool.conns)
    BY <1>1, FailsNot DEF Elsewhere
  <1>2. CASE u \notin 1..Len(pool.conns)
    <2>1. pool'.conns[u].running = {}
      BY <1>2 DEF Elsewhere
    <2>2. QED
      BY <2>1 DEF Failing
  <1>3. QED
    BY <1>1, <1>2

\* The first connection lives on in a step that is no failure.
LEMMA IntactKept ==
  ASSUME IInv, NEW o, Elsewhere(pool, pool', o),
         failures' = failures \/ failures' # 0
  PROVE  Intact'
  <1>1. FirstSlot(pool, taking, releasing, 0)
    BY DEF IInv, Sound
  <1>2. pool.slots[1] # Hole => 1 \in 1..Len(pool.conns)
    BY <1>1 DEF FirstSlot
  <1>3. QED
    BY <1>2 DEF IInv, Intact, Elsewhere

\* What is shown of every action.
Calm  == Callbacks(pool) /\ (releasing = None => Tended(pool))
Keeps == IInv' /\ ((lost = {} => Calm) => (lost' = {} => Calm'))

\* A count of failures that grows is not zero.
LEMMA Failed ==
  ASSUME TypeOK
  PROVE  /\ Fail => failures' \in 0..MaxFailures /\ failures' # 0
         /\ \A o, ok : Ends(o, ok) => /\ failures' \in 0..MaxFailures
                                      /\ failures' = failures \/ failures' # 0
  BY MssqlPoolAssumption DEF Fail, Ends, TypeOK

\* A request ends when the loop comes round, or on the connection that fails.
LEMMA EndsWhere ==
  ASSUME IInv, NEW o \in 1..Len(pool.conns), NEW ok, Ends(o, ok)
  PROVE  /\ o = taking => Dead(pool, o)
         /\ \A u \in 1..Len(pool.conns) : u # o => ~Failing(u)
         /\ taking # None \/ releasing # None =>
              \A job \in pool.conns[o].running : Plain(job)
  <1>1. CASE Failing(o)
    BY <1>1 DEF IInv, OneFails, Failing
  <1>2. CASE EventLoop
    <2>1. o # 0
      BY PoolElements DEF IInv, TypeOK
    <2>2. QED
      BY <1>2, <2>1 DEF EventLoop, Returned, NoneFails, None
  <1>3. QED
    BY <1>1, <1>2 DEF Ends

-----------------------------------------------------------------------------
(* The actions.                                                            *)

\* A continuation that is added, or none, takes nobody's place.
LEMMA ReadyAdded ==
  ASSUME NEW rest \in Seq(Continuations), NEW job \in Jobs, job.op \in Calls,
         ready' = rest \/ ready' = Append(rest, Continuation(job, TRUE))
  PROVE  /\ ready' \in Seq(Continuations)
         /\ \A b : Settled(ready', b) = Settled(rest, b)
  <1> DEFINE c == Continuation(job, TRUE)
  <1>1. c \in Continuations /\ c.job.op # "sql"
    BY DEF Continuation, Continuations, Calls
  <1> HIDE DEF c
  <1>2. Append(rest, c) \in Seq(Continuations)
    BY <1>1, AppendProperties
  <1>3. \A b : Settled(Append(rest, c), b) = Settled(rest, b)
    BY <1>1, SettledAppend
  <1>4. QED
    BY <1>2, <1>3 DEF c

\* Nor does it stop a transaction call that sends its request.
LEMMA SendsAdded ==
  ASSUME ready \in Seq(Continuations), NEW c \in Continuations,
         ready' = ready \/ ready' = Append(ready, c)
  PROVE  \A job : Sends(job) => Sends(job)'
  BY SendsKept DEF Sends

\* When no code is running nobody is in between, and in the first slot is no
\* connection that is dead.
LEMMA WhenReturned ==
  ASSUME IInv, Returned
  PROVE  /\ taking = 0 /\ releasing = 0 /\ Sound(pool, 0, 0, 0) /\ NoneFails
         /\ \A u \in 1..Len(pool.conns) : ~Failing(u)
         /\ Noticed => (pool.slots[1] # Hole => pool.conns[1].link # "broken")
  <1>1. taking = 0 /\ releasing = 0 /\ Sound(pool, 0, 0, 0)
    BY DEF IInv, Returned, None
  <1>2. pool.slots[1] # Hole => Len(pool.conns) = 1
    BY <1>1 DEF Sound, FirstSlot
  <1>3. QED
    BY <1>1, <1>2 DEF Returned, NoneFails, Noticed

\* The type invariant of what most steps leave alone.
LEMMA TypesKept ==
  ASSUME IInv, PoolOK(pool'), NEW o, Elsewhere(pool, pool', o),
         failures' \in 0..MaxFailures, UNCHANGED ended,
         taking' = taking \/ taking' \in 0..Len(pool'.conns),
         releasing' = releasing \/ releasing' \in 0..Len(pool'.conns),
         ready' = ready \/ ready' \in Seq(Continuations),
         left' = left \/ left' \in [Batches -> 0..BatchLength],
         lost' = lost \/ lost' \subseteq [client : Batches, op : Calls],
         \/ phase' = phase
         \/ \E c \in Clients, s \in {"idle", "asked", "answered", "succeeded", "failed"} :
              phase' = [phase EXCEPT ![c] = s]
  PROVE  TypeOK'
  <1>1. TypeOK /\ Len(pool.conns) \in Nat /\ Len(pool'.conns) \in Nat
    BY PoolElements DEF IInv, TypeOK
  <1>2. taking' \in 0..Len(pool'.conns) /\ releasing' \in 0..Len(pool'.conns)
    BY <1>1 DEF TypeOK, Elsewhere
  <1>3. ready' \in Seq([job : Jobs, ok : BOOLEAN])
    BY <1>1 DEF TypeOK, Continuations
  <1>4. phase' \in [Clients -> {"idle", "asked", "answered", "succeeded", "failed"}]
    BY <1>1 DEF TypeOK
  <1>5. QED
    BY <1>1, <1>2, <1>3, <1>4 DEF TypeOK

\* A query that is asked keeps the invariants.
LEMMA QueryKeeps == ASSUME IInv, NEW q \in Queries, Query(q) PROVE Keeps
  <1> DEFINE job == Job(q, "query")
  <1>1. /\ job \in Jobs /\ job.client = q /\ job.op = "query" /\ Plain(job)
        /\ q \in Clients /\ q \notin Batches
    BY MssqlPoolAssumption DEF Job, Jobs, Clients, Plain
  <1> HIDE DEF job
  <1>2. /\ taking = 0 /\ releasing = 0 /\ Sound(pool, 0, 0, 0)
        /\ \A u \in 1..Len(pool.conns) : ~Failing(u)
        /\ pool.slots[1] # Hole => pool.conns[1].link # "broken"
    BY WhenReturned DEF Query, EventLoop
  <1>3. Get(pool, job) /\ Absent(pool, job.client) /\ phase[q] = "idle"
    BY <1>1 DEF Query, job, IInv, IdleAbsent
  <1>4. /\ Sound(pool', taking', 0, 0)
        /\ InPool(pool') \subseteq InPool(pool) \union {job}
        /\ Working(pool')
        /\ Callbacks(pool) => Callbacks(pool')
        /\ taking' \in 0..Len(pool'.conns)
        /\ Elsewhere(pool, pool', taking')
        /\ taking' # 0 => taking' \in 1..Len(pool.conns) /\ pool'.conns[taking'].running = {job}
    BY <1>1, <1>2, <1>3, GetSound
  <1>5. /\ phase' = [phase EXCEPT ![q] = "asked"]
        /\ UNCHANGED <<releasing, ready, left, lost, failures, ended>>
    BY DEF Query
  <1>6. TypeOK'
    <2>1. PoolOK(pool') /\ failures' \in 0..MaxFailures
      BY <1>4, <1>5 DEF Sound, IInv, TypeOK
    <2>2. QED
      BY <1>1, <1>4, <1>5, <2>1, TypesKept
  <1>7. IdleAbsent' /\ StatementsLeft' /\ SettledOnce'
    <2>1. /\ phase'[q] # "idle"
          /\ \A e \in Clients : e # q => phase'[e] = phase[e]
      BY <1>1, <1>5 DEF IInv, TypeOK
    <2>2. \A b \in Batches : \A i, j \in Settled(ready', b) : i = j
      BY <1>5 DEF IInv, SettledOnce
    <2>3. \A j \in InPool(pool') : \/ j \in InPool(pool) /\ j.client # q
                                   \/ j.client = q /\ j.op # "sql"
      BY <1>1, <1>3, <1>4 DEF Absent
    <2>4. Settled(ready', q) = {}
      <3>1. ready = <<>> /\ Len(<<>>) = 0
        BY EmptySeq DEF Query, EventLoop
      <3>2. QED
        BY <1>5, <3>1 DEF Settled
    <2>5. QED
      BY <1>1, <1>5, <2>1, <2>2, <2>3, <2>4, ClientsKept
  <1>8. OneFails'
    <2>1. \A j : Sends(j) => Sends(j)'
      BY <1>5 DEF Sends
    <2>2. \A u \in 1..Len(pool'.conns) : u # taking' => ~Failing(u)'
      BY <1>2, <1>4, <2>1, FailsElsewhere
    <2>3. taking' # None \/ releasing' # None =>
            \A j \in pool'.conns[taking'].running : Plain(j)
      BY <1>1, <1>2, <1>4, <1>5 DEF None
    <2>4. QED
      BY <2>2, <2>3, FailsAt
  <1>9. Intact'
    BY <1>4, <1>5, IntactKept
  <1>10. Sound(pool', taking', releasing', 0)
    BY <1>2, <1>4, <1>5
  <1>11. QED
    BY <1>4, <1>5, <1>6, <1>7, <1>8, <1>9, <1>10 DEF Keeps, IInv, Calm, Tended

\* What getConnection() of a transaction call keeps, after p and the list of
\* continuations rest.
LEMMA CallKeeps ==
  ASSUME IInv, Returned, NEW rest \in Seq(Continuations), NEW job \in Jobs,
         job.op \in Calls, Absent(pool, job.client), Call(pool, job, rest),
         UNCHANGED <<taking, releasing, failures>>,
         \A j : Sends(j) => j.op \in Calls /\ \E i \in 1..Len(rest) : rest[i].job = j
  PROVE  /\ Sound(pool', taking', releasing', 0) /\ OneFails' /\ Intact'
         /\ InPool(pool') \subseteq InPool(pool) \union {job}
         /\ lost' \subseteq lost \union {job}
         /\ (lost = {} => Calm) => (lost' = {} => Calm')
         /\ ready' \in Seq(Continuations)
         /\ \A b : Settled(ready', b) = Settled(rest, b)
         /\ PoolOK(pool')
         /\ \E o : Elsewhere(pool, pool', o)
  <1>1. /\ taking = 0 /\ releasing = 0 /\ Sound(pool, 0, 0, 0)
        /\ \A u \in 1..Len(pool.conns) : ~Failing(u)
    BY WhenReturned
  <1>2. /\ Sound(pool', 0, 0, 0)
        /\ InPool(pool') \subseteq InPool(pool) \union {job}
        /\ lost' \subseteq lost \union {job}
        /\ lost' = {} => /\ lost = {} /\ Working(pool')
                         /\ Callbacks(pool) => Callbacks(pool')
        /\ \E f : Gets(pool, pool', job, rest, f)
    <2>1. Sound(pool, 0, 0, 0) /\ Absent(pool, job.client) /\ Call(pool, job, rest)
      BY <1>1
    <2>2. QED
      BY <2>1, CallSound
  <1>3. PICK f \in 0..Len(pool.conns) :
          /\ Elsewhere(pool, pool', f)
          /\ ready' = rest \/ ready' = Append(rest, Continuation(job, TRUE))
    BY <1>2 DEF Gets
  <1>4. /\ ready' \in Seq(Continuations)
        /\ \A b : Settled(ready', b) = Settled(rest, b)
    BY <1>3, ReadyAdded
  <1>5. \A j : Sends(j) => Sends(j)'
    <2>1. Continuation(job, TRUE) \in Continuations
      BY DEF Continuation, Continuations
    <2>2. \A j : (\E i \in 1..Len(rest) : rest[i].job = j) =>
                   \E i \in 1..Len(ready') : ready'[i].job = j
      <3>1. CASE ready' = rest
        BY <3>1
      <3>2. CASE ready' = Append(rest, Continuation(job, TRUE))
        <4> SUFFICES ASSUME NEW j, NEW i \in 1..Len(rest), rest[i].job = j
                     PROVE  \E k \in 1..Len(ready') : ready'[k].job = j
          OBVIOUS
        <4> DEFINE c == Continuation(job, TRUE)
        <4>1. c \in Continuations /\ ready' = Append(rest, c)
          BY <2>1, <3>2
        <4> HIDE DEF c
        <4>2. \E k \in 1..Len(Append(rest, c)) : Append(rest, c)[k].job = j
          BY <4>1, SendsKept
        <4>3. QED
          BY <4>1, <4>2
      <3>3. QED
        BY <1>3, <3>1, <3>2
    <2>3. QED
      BY <2>2 DEF Sends
  <1>6. OneFails'
    <2>1. \A u \in 1..Len(pool'.conns) : u # f => ~Failing(u)'
      BY <1>1, <1>3, <1>5, FailsElsewhere
    <2>2. QED
      BY <1>1, <2>1, FailsAt DEF None
  <1>7. Intact'
    BY <1>3, IntactKept
  <1>8. (lost = {} => Calm) => (lost' = {} => Calm')
    BY <1>2 DEF Calm, Tended
  <1>9. QED
    BY <1>1, <1>2, <1>3, <1>4, <1>6, <1>7, <1>8 DEF Sound

\* A batch that starts keeps the invariants: its begin runs at once or is lost.
LEMMA RunBatchKeeps == ASSUME IInv, NEW b \in Batches, RunBatch(b) PROVE Keeps
  <1> DEFINE job == Job(b, "begin")
  <1>1. /\ job \in Jobs /\ job.client = b /\ job.op = "begin" /\ b \in Clients
        /\ job \in [client : Batches, op : Calls] /\ job.op \in Calls
    BY DEF Job, Jobs, Clients, Calls
  <1>2. Call(pool, job, ready) /\ Returned
    BY DEF RunBatch, EventLoop
  <1> HIDE DEF job
  <1>3. Absent(pool, b) /\ Absent(pool, job.client) /\ ready \in Seq(Continuations)
    BY <1>1 DEF RunBatch, IInv, IdleAbsent, TypeOK, Continuations
  <1>4. UNCHANGED <<taking, releasing, failures, ended>>
    BY DEF RunBatch
  <1>5. /\ Sound(pool', taking', releasing', 0) /\ OneFails' /\ Intact'
        /\ InPool(pool') \subseteq InPool(pool) \union {job}
        /\ lost' \subseteq lost \union {job}
        /\ (lost = {} => Calm) => (lost' = {} => Calm')
        /\ ready' \in Seq(Continuations)
        /\ \A c : Settled(ready', c) = Settled(ready, c)
        /\ PoolOK(pool')
        /\ \E o : Elsewhere(pool, pool', o)
    BY <1>1, <1>2, <1>3, <1>4, CallKeeps DEF Sends
  <1>6. /\ phase' = [phase EXCEPT ![b] = "asked"]
        /\ \E n \in 0..BatchLength : left' = [left EXCEPT ![b] = n]
    BY DEF RunBatch
  <1>7. TypeOK'
    <2>1. /\ left' \in [Batches -> 0..BatchLength] /\ failures' \in 0..MaxFailures
          /\ lost' \subseteq [client : Batches, op : Calls]
      BY <1>1, <1>4, <1>5, <1>6 DEF IInv, TypeOK
    <2>2. QED
      BY <1>1, <1>4, <1>5, <1>6, <2>1, TypesKept
  <1>8. IdleAbsent' /\ StatementsLeft' /\ SettledOnce'
    <2>1. /\ phase'[b] # "idle"
          /\ \A e \in Clients : e # b => phase'[e] = phase[e]
          /\ \A e \in Batches : e # b => left'[e] = left[e]
      BY <1>1, <1>6 DEF IInv, TypeOK
    <2>2. \A e \in Batches : \A i, j \in Settled(ready', e) : i = j
      BY <1>5 DEF IInv, SettledOnce
    <2>3. \A j \in InPool(pool') : \/ j \in InPool(pool) /\ j.client # b
                                   \/ j.client = b /\ j.op # "sql"
      BY <1>1, <1>3, <1>5 DEF Absent
    <2>4. Settled(ready', b) = {}
      <3>1. ready = <<>> /\ Len(<<>>) = 0
        BY EmptySeq DEF RunBatch, EventLoop
      <3>2. Settled(ready, b) = {}
        BY <3>1 DEF Settled
      <3>3. QED
        BY <1>5, <3>2
    <2>5. QED
      BY <1>5, <2>1, <2>2, <2>3, <2>4, ClientsKept
  <1>9. QED
    BY <1>5, <1>7, <1>8 DEF Keeps, IInv

\* What release keeps at the end of a request's callback.
LEMMA ReleaseKeeps ==
  ASSUME IInv, NEW o \in 1..Len(pool.conns), NEW ok, Ends(o, ok),
         NEW job \in pool.conns[o].running, pool' = Release(pool, o, job),
         UNCHANGED <<taking, releasing, lost>>, \A j : Sends(j) => Sends(j)'
  PROVE  /\ Sound(pool', taking', releasing', 0) /\ OneFails' /\ Intact'
         /\ job \in InPool(pool) /\ job \in Jobs
         /\ InPool(pool') \subseteq InPool(pool)
         /\ Absent(pool', job.client)
         /\ (lost = {} => Calm) => (lost' = {} => Calm')
         /\ PoolOK(pool')
         /\ Elsewhere(pool, pool', o)
         /\ failures' \in 0..MaxFailures
  <1>1. Sound(pool, taking, releasing, 0)
    BY DEF IInv
  <1>2. /\ o = taking => Dead(pool, o)
        /\ \A u \in 1..Len(pool.conns) : u # o => ~Failing(u)
    BY EndsWhere
  <1>3. /\ Sound(pool', taking, releasing, 0)
        /\ job \in InPool(pool)
        /\ InPool(pool') \subseteq InPool(pool)
        /\ Absent(pool', job.client)
        /\ Callbacks(pool) => Tended(pool')
        /\ \A j \in pool'.conns[o].running : Plain(j)
        /\ Elsewhere(pool, pool', o)
    BY <1>1, <1>2, ReleaseSound
  <1>4. /\ failures' \in 0..MaxFailures
        /\ failures' = failures \/ failures' # 0
    BY Failed DEF IInv
  <1>5. OneFails'
    <2>1. \A u \in 1..Len(pool'.conns) : u # o => ~Failing(u)'
      BY <1>2, <1>3, FailsElsewhere
    <2>2. QED
      BY <1>3, <2>1, FailsAt
  <1>6. Intact'
    BY <1>3, <1>4, IntactKept
  <1>7. (lost = {} => Calm) => (lost' = {} => Calm')
    BY <1>3 DEF Calm, Tended
  <1>8. QED
    BY <1>3, <1>4, <1>5, <1>6, <1>7 DEF Sound, InPool

\* The answer of a query keeps the invariants: its connection is released.
LEMMA FinishQueryKeeps ==
  ASSUME IInv, NEW o \in 1..Len(pool.conns), NEW ok \in BOOLEAN, FinishQuery(o, ok)
  PROVE  Keeps
  <1> PICK job \in pool.conns[o].running :
        /\ job.op = "query"
        /\ phase' = [phase EXCEPT ![job.client] = "answered"]
        /\ pool' = Release(pool, o, job)
    BY DEF FinishQuery
  <1>1. /\ Ends(o, ok)
        /\ UNCHANGED <<taking, releasing, ready, left, lost, ended>>
        /\ \A j : Sends(j) => Sends(j)'
    BY DEF FinishQuery, Sends
  <1>2. /\ Sound(pool', taking', releasing', 0) /\ OneFails' /\ Intact'
        /\ job \in InPool(pool) /\ job \in Jobs
        /\ InPool(pool') \subseteq InPool(pool)
        /\ Absent(pool', job.client)
        /\ (lost = {} => Calm) => (lost' = {} => Calm')
        /\ PoolOK(pool')
        /\ Elsewhere(pool, pool', o)
        /\ failures' \in 0..MaxFailures
    BY <1>1, ReleaseKeeps
  <1>3. job.client \in Clients /\ job.client \in Queries /\ job.client \notin Batches
    BY <1>2, JobClients, MssqlPoolAssumption DEF Jobs, Calls
  <1>4. TypeOK'
    BY <1>1, <1>2, <1>3, TypesKept
  <1>5. IdleAbsent' /\ StatementsLeft' /\ SettledOnce'
    <2>1. \A e \in Clients : e # job.client => phase'[e] = phase[e]
      BY <1>3 DEF IInv, TypeOK
    <2>2. \A e \in Batches : \A i, j \in Settled(ready', e) : i = j
      BY <1>1 DEF IInv, SettledOnce
    <2>3. \A j \in InPool(pool') : j \in InPool(pool) /\ j.client # job.client
      BY <1>2 DEF Absent
    <2>4. PICK c \in Clients : c = job.client
      BY <1>3
    <2>5. \A e \in Batches : Settled(ready', e) = Settled(ready, e)
      BY <1>1
    <2>6. QED
      BY <1>1, <1>3, <2>1, <2>2, <2>3, <2>4, <2>5, ClientsKept
  <1>6. QED
    BY <1>2, <1>4, <1>5 DEF Keeps, IInv

\* The end of a commit or rollback keeps the invariants.
LEMMA FinishTransactionKeeps ==
  ASSUME IInv, NEW o \in 1..Len(pool.conns), NEW ok \in BOOLEAN,
         FinishTransaction(o, ok)
  PROVE  Keeps
  <1> PICK job \in pool.conns[o].running : pool' = Release(pool, o, job)
    BY DEF FinishTransaction
  <1>1. /\ Ends(o, ok)
        /\ UNCHANGED <<taking, releasing, ready, phase, left, lost, ended>>
        /\ \A j : Sends(j) => Sends(j)'
    BY DEF FinishTransaction, Sends
  <1>2. /\ Sound(pool', taking', releasing', 0) /\ OneFails' /\ Intact'
        /\ InPool(pool') \subseteq InPool(pool)
        /\ (lost = {} => Calm) => (lost' = {} => Calm')
        /\ PoolOK(pool')
        /\ Elsewhere(pool, pool', o)
        /\ failures' \in 0..MaxFailures
    BY <1>1, ReleaseKeeps
  <1>3. TypeOK'
    BY <1>1, <1>2, TypesKept
  <1>4. IdleAbsent' /\ StatementsLeft' /\ SettledOnce'
    BY <1>1, <1>2, NobodyMoves
  <1>5. QED
    BY <1>2, <1>3, <1>4 DEF Keeps, IInv

\* A statement of batch b has ended.
LEMMA StatementSettles ==
  ASSUME IInv, NEW b \in Batches, UNCHANGED <<phase, left>>,
         left[b] > 0, phase[b] # "idle",
         \A e \in Batches : e # b => Settled(ready', e) = Settled(ready, e),
         \A i, j \in Settled(ready', b) : i = j,
         InPool(pool') \subseteq InPool(pool), Absent(pool', b)
  PROVE  IdleAbsent' /\ StatementsLeft' /\ SettledOnce'
  <1>1. IdleAbsent'
    BY DEF IInv, IdleAbsent, Absent
  <1>2. StatementsLeft'
    BY DEF IInv, StatementsLeft
  <1>3. SettledOnce'
    BY DEF IInv, SettledOnce, Absent
  <1>4. QED
    BY <1>1, <1>2, <1>3

\* A statement's callback settles its promise and releases.
LEMMA FinishStatementKeeps ==
  ASSUME IInv, NEW o \in 1..Len(pool.conns), NEW ok \in BOOLEAN, FinishStatement(o, ok)
  PROVE  Keeps
  <1>0. PICK job \in pool.conns[o].running :
        /\ job.op = "sql"
        /\ pool' = Release(pool, o, job)
        /\ ready' = Append(ready, Continuation(job, ok))
    BY DEF FinishStatement
  <1> DEFINE settled == Continuation(job, ok)
  <1>1. ready \in Seq(Continuations) /\ job \in Jobs
    BY PoolElements DEF IInv, TypeOK, Continuations
  <1>2. /\ settled \in Continuations /\ settled.job = job
        /\ ready' = Append(ready, settled)
    BY <1>0, <1>1 DEF Continuation, Continuations
  <1> PICK b \in Batches : b = job.client /\ b \in Clients
    BY <1>0, <1>1 DEF Jobs, Clients
  <1> HIDE DEF settled
  <1>3. /\ Ends(o, ok)
        /\ UNCHANGED <<taking, releasing, phase, left, lost, ended>>
        /\ \A j : Sends(j) => Sends(j)'
    BY <1>1, <1>2, SendsAdded DEF FinishStatement
  <1>4. /\ Sound(pool', taking', releasing', 0) /\ OneFails' /\ Intact'
        /\ job \in InPool(pool)
        /\ InPool(pool') \subseteq InPool(pool)
        /\ Absent(pool', b)
        /\ (lost = {} => Calm) => (lost' = {} => Calm')
        /\ PoolOK(pool')
        /\ Elsewhere(pool, pool', o)
        /\ failures' \in 0..MaxFailures
    BY <1>0, <1>3, ReleaseKeeps
  <1>5. ready' \in Seq(Continuations)
    BY <1>1, <1>2, AppendProperties
  <1>6. TypeOK'
    BY <1>3, <1>4, <1>5, TypesKept
  <1>7. left[b] > 0 /\ phase[b] # "idle" /\ Settled(ready, b) = {}
    <2>1. ~Absent(pool, b)
      BY <1>4 DEF Absent
    <2>2. QED
      BY <1>0, <1>2, <1>4, <2>1 DEF IInv, StatementsLeft, IdleAbsent, SettledOnce
  <1>8. IdleAbsent' /\ StatementsLeft' /\ SettledOnce'
    <2>1. \A e \in Batches : e # b => Settled(ready', e) = Settled(ready, e)
      BY <1>1, <1>2, SettledAppend
    <2>2. \A i, j \in Settled(ready', b) : i = j
      <3>1. Settled(ready', b) \subseteq Settled(ready, b) \union {Len(ready) + 1}
        BY <1>1, <1>2, SettledAppend
      <3>2. QED
        BY <1>7, <3>1
    <2>3. UNCHANGED <<phase, left>>
      BY <1>3
    <2>4. QED
      BY <1>4, <1>7, <2>1, <2>2, <2>3, StatementSettles
  <1>9. QED
    BY <1>4, <1>6, <1>8 DEF Keeps, IInv

\* What the requests of a batch are.
LEMMA BatchJobs ==
  ASSUME NEW b \in Batches, NEW op \in Calls \union {"sql"}
  PROVE  /\ b \in Clients /\ Job(b, op) \in Jobs
         /\ Job(b, op).client = b /\ Job(b, op).op = op
         /\ op \in Calls => Job(b, op) \in [client : Batches, op : Calls]
         /\ op = "sql" => Plain(Job(b, op))
  BY DEF Jobs, Job, Clients, Plain

\* beginTransaction's callback sends the batch's next request, while its own
\* connection is in between.
LEMMA FinishBeginKeeps ==
  ASSUME IInv, NEW o \in 1..Len(pool.conns), NEW ok \in BOOLEAN, FinishBegin(o, ok)
  PROVE  Keeps
  <1> PICK job \in pool.conns[o].running :
        LET p == Completed(pool, o, job)
            b == job.client
        IN /\ job.op = "begin"
           /\ \/ /\ left[b] > 0
                 /\ Get(p, Job(b, "sql"))
                 /\ UNCHANGED <<ready, phase, lost>>
              \/ /\ left[b] = 0
                 /\ Call(p, Job(b, "commit"), ready)
                 /\ phase' = [phase EXCEPT ![b] = "succeeded"]
                 /\ UNCHANGED taking
    BY DEF FinishBegin
  <1> DEFINE p == Completed(pool, o, job)
             b == job.client
  <1>1. Ends(o, ok) /\ releasing' = o /\ UNCHANGED <<left, ended>>
    BY DEF FinishBegin
  <1>2. /\ taking = 0 /\ releasing = 0 /\ Sound(pool, 0, 0, 0) /\ PoolOK(pool)
        /\ \A u \in 1..Len(pool.conns) : u # o => ~Failing(u)
        /\ failures' \in 0..MaxFailures
        /\ failures' = failures \/ failures' # 0
    <2>1. ~Plain(job)
      BY DEF Plain
    <2>2. taking = None /\ releasing = None
      BY <1>1, <2>1, EndsWhere
    <2>3. QED
      BY <1>1, <2>2, EndsWhere, Failed DEF IInv, None, TypeOK
  <1>3. o # 0 /\ job \in Jobs /\ job.op = "begin" /\ p = Completed(pool, o, job)
    BY <1>2, PoolElements
  <1>4. b \in Batches
    BY <1>3 DEF Jobs
  <1> DEFINE sql    == Job(b, "sql")
             commit == Job(b, "commit")
  <1>5. /\ b \in Clients /\ sql \in Jobs /\ sql.client = b /\ sql.op = "sql"
        /\ Plain(sql)
        /\ commit \in Jobs /\ commit.client = b /\ commit.op = "commit"
        /\ commit \in [client : Batches, op : Calls] /\ commit.op \in Calls
    BY <1>4, BatchJobs DEF Calls
  <1>6. \/ left[b] > 0 /\ Get(p, sql) /\ UNCHANGED <<ready, phase, lost>>
        \/ /\ left[b] = 0 /\ Call(p, commit, ready) /\ UNCHANGED taking
           /\ phase' = [phase EXCEPT ![b] = "succeeded"]
    OBVIOUS
  <1>7. b = job.client
    OBVIOUS
  <1> HIDE DEF p, b, sql, commit
  <1>8. /\ Sound(p, 0, 0, o) /\ job \in InPool(pool)
        /\ pool.conns[o].running = {job}
        /\ InPool(p) \subseteq InPool(pool) /\ Absent(p, b)
        /\ p.waiting = pool.waiting /\ p.slots = pool.slots
        /\ p.conns[o].status = pool.conns[o].status
        /\ Elsewhere(pool, p, o)
    BY <1>2, <1>3, <1>7, CompletedSound
  <1>9. p.conns[o].status = "BUSY"
    <2>1. ExclusiveAt(pool, 0, 0, o)
      BY <1>2, <1>3 DEF Sound
    <2>2. pool.conns[o].status \in Statuses
      BY <1>2, PoolElements
    <2>3. QED
      BY <1>3, <1>8, <2>1, <2>2 DEF ExclusiveAt, Statuses
  <1>10. Sound(p, 0, o, 0) /\ PoolOK(p) /\ p.conns[o].running = {}
    BY <1>3, <1>8, <1>9, HeldSound DEF Sound
  <1>11. o \in 1..Len(p.conns) /\ Len(p.conns) = Len(pool.conns)
    <2>1. o \in 1..Len(p.conns)
      BY <1>8 DEF Sound
    <2>2. QED
      BY <2>1, <1>3 DEF Completed, Changed
  <1>12. FreeSlots(p) = {} \/ (p.slots[1] # Hole => p.conns[1].link # "broken")
    <2>1. FirstSlot(p, 0, o, 0)
      BY <1>10 DEF Sound
    <2>2. ASSUME p.slots[1] # Hole PROVE FreeSlots(p) = {}
      <3>1. Len(p.slots) = 1 /\ p.slots[1] = 1 /\ Len(p.conns) = 1
        BY <2>1, <2>2 DEF FirstSlot
      <3>2. \A k \in 1..1 : k = 1
        OBVIOUS
      <3>3. p.conns[1].status = "BUSY"
        BY <1>9, <1>11, <3>1, <3>2
      <3>4. QED
        BY <3>1, <3>2, <3>3 DEF FreeSlots
    <2>3. QED
      BY <2>2
  <1>13. phase[b] # "idle" /\ Settled(ready, b) = {} /\ ready \in Seq(Continuations)
    <2>1. ~Absent(pool, b)
      BY <1>7, <1>8 DEF Absent
    <2>2. QED
      BY <1>4, <1>5, <2>1 DEF IInv, IdleAbsent, SettledOnce, TypeOK, Continuations
  <1>14. \A j \in InPool(p) : j \in InPool(pool) /\ j.client # b
    BY <1>8 DEF Absent
  <1>15. Callbacks(pool) => Callbacks(p)
    BY <1>8 DEF Callbacks
  <1>16. \A e \in Batches : \A i, j \in Settled(ready, e) : i = j
    BY DEF IInv, SettledOnce
  <1>17. ASSUME NEW f, Elsewhere(p, pool', f), PoolOK(pool'),
                \A j : Sends(j) => Sends(j)'
         PROVE  /\ \A u \in 1..Len(pool'.conns) : u # f => ~Failing(u)'
                /\ Intact'
    <2>1. ASSUME NEW u \in 1..Len(pool'.conns), u # f PROVE ~Failing(u)'
      <3>1. CASE u \notin 1..Len(p.conns)
        <4>1. pool'.conns[u].running = {}
          BY <1>17, <3>1 DEF Elsewhere
        <4>2. QED
          BY <4>1 DEF Failing
      <3>2. CASE u = o
        <4>1. pool'.conns[u].running = {}
          BY <1>10, <1>11, <1>17, <2>1, <3>2 DEF Elsewhere
        <4>2. QED
          BY <4>1 DEF Failing
      <3>3. CASE u \in 1..Len(p.conns) /\ u # o
        <4>1. /\ u \in 1..Len(pool.conns) /\ ~Failing(u)
              /\ pool'.conns[u].link = pool.conns[u].link
              /\ pool'.conns[u].running = pool.conns[u].running
          BY <1>2, <1>8, <1>11, <1>17, <2>1, <3>3 DEF Elsewhere
        <4>2. QED
          BY <1>17, <4>1, FailsNot
      <3>4. QED
        BY <3>1, <3>2, <3>3
    <2>2. Intact'
      <3>1. FirstSlot(pool, 0, 0, 0)
        BY <1>2 DEF Sound
      <3>2. pool.slots[1] # Hole => 1 \in 1..Len(pool.conns)
        BY <3>1 DEF FirstSlot
      <3>3. pool'.slots[1] = pool.slots[1]
        BY <1>8, <1>17 DEF Elsewhere
      <3>4. 1 \in 1..Len(pool.conns) => pool'.conns[1].link = pool.conns[1].link
        BY <1>8, <1>11, <1>17 DEF Elsewhere
      <3>5. QED
        BY <1>2, <3>2, <3>3, <3>4 DEF IInv, Intact
    <2>3. QED
      BY <2>1, <2>2
  <1>18. ASSUME NEW f, Elsewhere(p, pool', f), PoolOK(pool'),
                taking' \in 0..Len(pool'.conns), ready' \in Seq(Continuations),
                lost' = lost \/ lost' \subseteq [client : Batches, op : Calls],
                phase' = phase \/ phase' = [phase EXCEPT ![b] = "succeeded"]
         PROVE  TypeOK'
    <2>1. TypeOK /\ Len(pool.conns) \in Nat /\ Len(pool'.conns) \in Nat
      BY <1>2, <1>18, PoolElements DEF IInv
    <2>2. releasing' \in 0..Len(pool'.conns)
      BY <1>1, <1>11, <1>18, <2>1 DEF Elsewhere
    <2>3. phase' \in [Clients -> {"idle", "asked", "answered", "succeeded", "failed"}]
      BY <1>5, <1>18, <2>1 DEF TypeOK
    <2>4. ready' \in Seq([job : Jobs, ok : BOOLEAN])
      BY <1>18 DEF Continuations
    <2>5. QED
      BY <1>1, <1>2, <1>18, <2>1, <2>2, <2>3, <2>4 DEF TypeOK
  <1>19. CASE left[b] > 0 /\ Get(p, sql) /\ UNCHANGED <<ready, phase, lost>>
    <2>1. /\ Sound(pool', taking', o, 0)
          /\ InPool(pool') \subseteq InPool(p) \union {sql}
          /\ Callbacks(p) => Callbacks(pool')
          /\ taking' \in 0..Len(pool'.conns)
          /\ Elsewhere(p, pool', taking')
          /\ taking' # 0 => taking' \in 1..Len(p.conns) /\ pool'.conns[taking'].running = {sql}
      BY <1>2, <1>5, <1>8, <1>10, <1>12, <1>19, GetSound
    <2>2. TypeOK'
      BY <1>13, <1>18, <1>19, <2>1 DEF Sound
    <2>3. \A j : Sends(j) => Sends(j)'
      BY <1>19 DEF Sends
    <2>4. PoolOK(pool')
      BY <2>1 DEF Sound
    <2>5. (\A u \in 1..Len(pool'.conns) : u # taking' => ~Failing(u)') /\ Intact'
      BY <1>17, <2>1, <2>3, <2>4
    <2>6. OneFails'
      <3>1. PICK f \in 0..Len(pool'.conns) : f = taking'
        BY <2>1
      <3>2. \A u \in 1..Len(pool'.conns) : u # f => ~Failing(u)'
        BY <2>5, <3>1
      <3>3. CASE f # 0
        <4>1. pool'.conns[f].running = {sql}
          BY <2>1, <3>1, <3>3
        <4>2. QED
          BY <1>5, <3>2, <4>1, FailsAt
      <3>4. CASE f = 0
        <4>1. \A u \in 1..Len(pool'.conns) : u # 0
          BY <2>4, PoolElements
        <4>2. \A u \in 1..Len(pool'.conns) : ~Failing(u)'
          BY <3>2, <3>4, <4>1
        <4>3. QED
          BY <4>2 DEF OneFails
      <3>5. QED
        BY <3>3, <3>4
    <2>7. IdleAbsent' /\ StatementsLeft' /\ SettledOnce'
      <3>1. \A j \in InPool(pool') : \/ j \in InPool(pool) /\ j.client # b
                                     \/ j.client = b
        BY <1>5, <1>14, <2>1
      <3>2. QED
        BY <1>1, <1>13, <1>16, <1>19, <3>1, ClientsKept
    <2>8. QED
      BY <1>1, <1>3, <1>15, <1>19, <2>1, <2>2, <2>5, <2>6, <2>7 DEF Keeps, IInv, Calm, None
  <1>20. CASE /\ left[b] = 0 /\ Call(p, commit, ready) /\ UNCHANGED taking
              /\ phase' = [phase EXCEPT ![b] = "succeeded"]
    <2>1. /\ Sound(pool', 0, o, 0)
          /\ InPool(pool') \subseteq InPool(p) \union {commit}
          /\ lost' \subseteq lost \union {commit}
          /\ lost' = {} => /\ lost = {}
                           /\ Callbacks(p) => Callbacks(pool')
          /\ \E f : Gets(p, pool', commit, ready, f)
      BY <1>5, <1>8, <1>10, <1>20, CallSound
    <2>2. PICK f : Gets(p, pool', commit, ready, f)
      BY <2>1
    <2>3. Elsewhere(p, pool', f) /\ PoolOK(pool')
      BY <2>1, <2>2 DEF Gets, Sound
    <2>4. /\ ready' \in Seq(Continuations)
          /\ \A e : Settled(ready', e) = Settled(ready, e)
          /\ \A j : Sends(j) => Sends(j)'
      <3>1. ready' = ready \/ ready' = Append(ready, Continuation(commit, TRUE))
        BY <2>2 DEF Gets
      <3>2. Continuation(commit, TRUE) \in Continuations
        BY <1>5 DEF Continuation, Continuations
      <3>3. QED
        BY <1>5, <1>13, <3>1, <3>2, ReadyAdded, SendsAdded
    <2>5. (\A u \in 1..Len(pool'.conns) : u # f => ~Failing(u)') /\ Intact'
      BY <1>17, <2>3, <2>4
    <2>6. OneFails'
      <3>1. ASSUME f # 0 PROVE ~Failing(f)'
        <4>1. /\ ready' = Append(ready, Continuation(commit, TRUE))
              /\ pool'.conns[f].running = {commit}
          BY <2>2, <3>1 DEF Gets
        <4> DEFINE c == Continuation(commit, TRUE)
        <4>2. c \in Continuations /\ c.job = commit
          BY <1>5 DEF Continuation, Continuations
        <4> HIDE DEF c
        <4>3. ready' = Append(ready, c)
          BY <4>1 DEF c
        <4>4. \E i \in 1..Len(ready') : ready'[i].job = commit
          BY <1>13, <4>2, <4>3, SendsKept
        <4>5. Sends(commit)'
          BY <1>5, <4>4 DEF Sends
        <4>6. QED
          BY <4>1, <4>5 DEF Failing
      <3>2. \A u \in 1..Len(pool'.conns) : ~Failing(u)'
        <4>1. \A u \in 1..Len(pool'.conns) : u # 0
          BY <2>3, PoolElements
        <4>2. QED
          BY <2>5, <3>1, <4>1
      <3>3. QED
        BY <3>2 DEF OneFails
    <2>7. TypeOK'
      <3>1. lost' \subseteq [client : Batches, op : Calls]
        BY <1>5, <2>1 DEF IInv, TypeOK
      <3>2. taking' \in 0..Len(pool'.conns)
        BY <1>2, <1>20, <2>3, PoolElements
      <3>3. QED
        BY <1>18, <1>20, <2>3, <2>4, <3>1, <3>2
    <2>8. IdleAbsent' /\ StatementsLeft' /\ SettledOnce'
      <3>1. /\ phase'[b] # "idle"
            /\ \A e \in Clients : e # b => phase'[e] = phase[e]
        BY <1>5, <1>20 DEF IInv, TypeOK
      <3>2. \A j \in InPool(pool') : \/ j \in InPool(pool) /\ j.client # b
                                     \/ j.client = b /\ j.op # "sql"
        BY <1>5, <1>14, <2>1
      <3>3. QED
        BY <1>1, <1>13, <1>16, <2>4, <3>1, <3>2, ClientsKept
    <2>9. QED
      BY <1>1, <1>2, <1>3, <1>15, <1>20, <2>1, <2>5, <2>6, <2>7, <2>8
         DEF Keeps, IInv, Calm, None
  <1>21. QED
    BY <1>6, <1>19, <1>20

\* beginTransaction releases its connection.
LEMMA ReleaseAfterBeginKeeps == ASSUME IInv, ReleaseAfterBegin PROVE Keeps
  <1>1. /\ NoneFails /\ taking = 0 /\ releasing # 0
        /\ pool' = Serve(pool, releasing)
        /\ releasing' = 0
        /\ UNCHANGED <<taking, ready, phase, left, lost, failures, ended>>
    BY DEF ReleaseAfterBegin, None
  <1>2. PICK x : x = releasing
    OBVIOUS
  <1>3. Sound(pool, 0, 0, x)
    <2>1. Sound(pool, 0, x, 0) /\ x # 0
      BY <1>1, <1>2 DEF IInv
    <2>2. QED
      BY <2>1, UnheldSound
  <1>4. /\ Sound(pool', 0, 0, 0)
        /\ InPool(pool') \subseteq InPool(pool)
        /\ Callbacks(pool) => Tended(pool')
        /\ Elsewhere(pool, pool', x)
    <2>1. pool' = Serve(pool, x) /\ x # 0
      BY <1>1, <1>2
    <2>2. QED
      BY <1>3, <2>1, ServeSound
  <1>5. TypeOK'
    <2>1. PoolOK(pool') /\ failures' \in 0..MaxFailures
      BY <1>1, <1>4 DEF Sound, IInv, TypeOK
    <2>2. releasing' \in 0..Len(pool'.conns)
      BY <1>1, <2>1, PoolElements
    <2>3. QED
      BY <1>1, <1>4, <2>1, <2>2, TypesKept
  <1>6. IdleAbsent' /\ StatementsLeft' /\ SettledOnce'
    BY <1>1, <1>4, NobodyMoves
  <1>7. OneFails'
    <2>1. \A u \in 1..Len(pool.conns) : ~Failing(u)
      BY <1>1 DEF NoneFails
    <2>2. \A j : Sends(j) => Sends(j)'
      BY <1>1 DEF Sends
    <2>3. \A u \in 1..Len(pool'.conns) : u # x => ~Failing(u)'
      BY <1>4, <2>1, <2>2, FailsElsewhere
    <2>4. QED
      BY <1>1, <2>3, FailsAt DEF None
  <1>8. Intact'
    BY <1>1, <1>4, IntactKept
  <1>9. QED
    BY <1>1, <1>4, <1>5, <1>6, <1>7, <1>8 DEF Keeps, IInv, Calm, Tended

\* The rest of getConnection.
LEMMA MarkBusyKeeps == ASSUME IInv, MarkBusy PROVE Keeps
  <1>1. /\ NoneFails /\ taking # 0
        /\ pool' = Marked(pool, taking)
        /\ taking' = 0
        /\ UNCHANGED <<releasing, ready, phase, left, lost, failures, ended>>
    BY DEF MarkBusy, None
  <1>2. PICK t, x : t = taking /\ x = releasing
    OBVIOUS
  <1>3. Sound(pool, t, x, 0) /\ t \in 1..Len(pool.conns) /\ PoolOK(pool)
    <2>1. Sound(pool, t, x, 0) /\ t # 0 /\ t \in 0..Len(pool.conns) /\ PoolOK(pool)
      BY <1>1, <1>2 DEF IInv, TypeOK
    <2>2. Len(pool.conns) \in Nat
      BY <2>1, PoolElements
    <2>3. QED
      BY <2>1, <2>2
  <1>4. /\ Sound(pool', 0, x, 0)
        /\ InPool(pool') \subseteq InPool(pool)
        /\ pool'.waiting = pool.waiting
        /\ Working(pool) => Working(pool')
        /\ Elsewhere(pool, pool', 0)
    <2>1. pool' = Marked(pool, t)
      BY <1>1, <1>2
    <2>2. QED
      BY <1>3, <2>1, MarkedSound
  <1>5. PoolOK(pool')
    BY <1>4 DEF Sound
  <1>6. TypeOK'
    <2>1. failures' \in 0..MaxFailures
      BY <1>1 DEF IInv, TypeOK
    <2>2. taking' \in 0..Len(pool'.conns)
      BY <1>1, <1>5, PoolElements
    <2>3. QED
      BY <1>1, <1>4, <1>5, <2>1, <2>2, TypesKept
  <1>7. IdleAbsent' /\ StatementsLeft' /\ SettledOnce'
    BY <1>1, <1>4, NobodyMoves
  <1>8. OneFails'
    <2>1. \A u \in 1..Len(pool.conns) : ~Failing(u)
      BY <1>1 DEF NoneFails
    <2>2. \A j : Sends(j) => Sends(j)'
      BY <1>1 DEF Sends
    <2>3. \A u \in 1..Len(pool'.conns) : u # 0 => ~Failing(u)'
      BY <1>4, <2>1, <2>2, FailsElsewhere
    <2>4. \A u \in 1..Len(pool'.conns) : u # 0
      BY <1>5, PoolElements
    <2>5. QED
      BY <2>3, <2>4 DEF OneFails
  <1>9. Intact'
    BY <1>1, <1>4, IntactKept
  <1>10. (lost = {} => Calm) => (lost' = {} => Calm')
    BY <1>1, <1>4 DEF Calm, Tended, Callbacks
  <1>11. Sound(pool', taking', releasing', 0)
    BY <1>1, <1>2, <1>4
  <1>12. QED
    BY <1>6, <1>7, <1>8, <1>9, <1>10, <1>11 DEF Keeps, IInv

-----------------------------------------------------------------------------
(* The continuations.                                                      *)

\* The first continuation.
LEMMA HeadReady ==
  ASSUME IInv, ready # <<>>
  PROVE  /\ ready \in Seq(Continuations)
         /\ Tail(ready) \in Seq(Continuations)
         /\ Head(ready).job \in Jobs /\ Head(ready).ok \in BOOLEAN
         /\ \A j : Sends(j) /\ j # Head(ready).job =>
              j.op \in Calls /\ \E i \in 1..Len(Tail(ready)) : Tail(ready)[i].job = j
         /\ \A e : (\A i, j \in Settled(ready, e) : i = j) =>
              /\ \A i, j \in Settled(Tail(ready), e) : i = j
              /\ Settled(Tail(ready), e) # {} => Settled(ready, e) # {}
         /\ Head(ready).job.op = "sql" =>
              LET b == Head(ready).job.client
              IN /\ b \in Batches /\ b \in Clients
                 /\ Settled(Tail(ready), b) = {}
                 /\ Absent(pool, b) /\ left[b] > 0 /\ phase[b] # "idle"
  <1>1. ready \in Seq(Continuations)
    BY DEF IInv, TypeOK, Continuations
  <1>2. Tail(ready) \in Seq(Continuations) /\ Head(ready) \in Continuations
    BY <1>1, HeadTailProperties
  <1>3. Head(ready).job \in Jobs /\ Head(ready).ok \in BOOLEAN
    BY <1>2 DEF Continuations
  <1>4. ASSUME NEW j, Sends(j), j # Head(ready).job
        PROVE  j.op \in Calls /\ \E i \in 1..Len(Tail(ready)) : Tail(ready)[i].job = j
    <2>1. j.op \in Calls /\ \E i \in 1..Len(ready) : ready[i].job = j
      BY <1>4 DEF Sends
    <2>2. PICK i \in 1..Len(ready) : ready[i].job = j
      BY <2>1
    <2>3. /\ ready[1] = Head(ready) /\ Len(ready) \in Nat
          /\ Len(Tail(ready)) = Len(ready) - 1
          /\ \A k \in 1..Len(Tail(ready)) : Tail(ready)[k] = ready[k + 1]
      BY <1>1, HeadTailProperties, LenProperties
    <2>4. i - 1 \in 1..Len(Tail(ready)) /\ Tail(ready)[i - 1].job = j
      BY <1>4, <2>2, <2>3
    <2>5. QED
      BY <2>1, <2>4
  <1>5. ASSUME NEW e, \A i, j \in Settled(ready, e) : i = j
        PROVE  /\ \A i, j \in Settled(Tail(ready), e) : i = j
               /\ Settled(Tail(ready), e) # {} => Settled(ready, e) # {}
               /\ Head(ready).job.op = "sql" /\ Head(ready).job.client = e =>
                    Settled(Tail(ready), e) = {} /\ Settled(ready, e) # {}
    BY <1>1, <1>5, SettledTail
  <1>6. ASSUME Head(ready).job.op = "sql", NEW b, b = Head(ready).job.client
        PROVE  /\ b \in Batches /\ b \in Clients
               /\ Settled(Tail(ready), b) = {}
               /\ Absent(pool, b) /\ left[b] > 0 /\ phase[b] # "idle"
    <2>1. b \in Batches /\ b \in Clients
      BY <1>3, <1>6 DEF Jobs, Clients
    <2>2. \A i, j \in Settled(ready, b) : i = j
      BY <2>1 DEF IInv, SettledOnce
    <2>3. Settled(Tail(ready), b) = {} /\ Settled(ready, b) # {}
      BY <1>5, <1>6, <2>2
    <2>4. QED
      BY <2>1, <2>3 DEF IInv, SettledOnce
  <1>7. QED
    BY <1>1, <1>2, <1>3, <1>4, <1>5, <1>6

\* A transaction call sends its request: what follows from its being in the
\* pool at one place.
LEMMA ContinueSends ==
  ASSUME IInv, Returned, ready # <<>>, Head(ready).job.op \in Calls,
         ready' = Tail(ready),
         UNCHANGED <<pool, taking, releasing, phase, left, lost, failures, ended>>
  PROVE  Keeps
  <1>1. /\ taking = 0 /\ releasing = 0 /\ Sound(pool, 0, 0, 0)
        /\ \A u \in 1..Len(pool.conns) : ~Failing(u)
    BY WhenReturned
  <1>2. PICK job \in Jobs : job = Head(ready).job
    BY HeadReady
  <1>3. \A j : Sends(j) /\ j # job => Sends(j)'
    BY <1>2, HeadReady DEF Sends
  <1>4. TypeOK'
    BY HeadReady DEF IInv, TypeOK, Continuations
  <1>5. IdleAbsent' /\ StatementsLeft' /\ SettledOnce'
    <2>1. NoClient \notin Batches /\ \A j \in InPool(pool) : j.client # NoClient
      BY JobClients DEF InPool, Clients
    <2>2. \A e \in Batches : /\ \A i, j \in Settled(ready', e) : i = j
                             /\ Settled(ready', e) # {} => Settled(ready, e) # {}
      BY HeadReady DEF IInv, SettledOnce
    <2>3. pool' = pool /\ phase' = phase /\ left' = left
      OBVIOUS
    <2>4. QED
      BY <2>1, <2>2, <2>3, ClientsKept
  <1>6. ASSUME NEW u \in 1..Len(pool.conns), Failing(u)'
        PROVE  job \in pool.conns[u].running
    <2>1. PICK j \in pool.conns[u].running : ~Sends(j)' /\ Dead(pool, u)
      BY <1>6 DEF Failing, Dead
    <2>2. Sends(j)
      BY <1>1, <2>1 DEF Failing
    <2>3. QED
      BY <1>3, <2>1, <2>2
  <1>7. OneFails'
    <2>1. \A o, u \in 1..Len(pool.conns) :
            job \in pool.conns[o].running /\ job \in pool.conns[u].running => o = u
      <3>1. OnePlace(pool, job.client)
        BY <1>1, JobClients DEF Sound
      <3>2. QED
        BY <3>1 DEF OnePlace, Holds
    <2>2. QED
      BY <1>1, <1>6, <2>1 DEF OneFails, None
  <1>8. Intact' /\ Sound(pool', taking', releasing', 0)
    BY DEF IInv, Intact
  <1>9. Calm' <=> Calm
    BY DEF Calm, Callbacks, Tended, Working
  <1>10. QED
    BY <1>4, <1>5, <1>7, <1>8, <1>9 DEF Keeps, IInv

\* The next statement of a batch.
LEMMA ContinueNext ==
  ASSUME IInv, Returned, Noticed, ready # <<>>, NEW b, b = Head(ready).job.client,
         Head(ready).job.op = "sql", left[b] > 1,
         left' = [left EXCEPT ![b] = @ - 1], Get(pool, Job(b, "sql")),
         ready' = Tail(ready), UNCHANGED <<releasing, phase, lost, failures, ended>>
  PROVE  Keeps
  <1>1. /\ taking = 0 /\ releasing = 0 /\ Sound(pool, 0, 0, 0)
        /\ \A u \in 1..Len(pool.conns) : ~Failing(u)
        /\ pool.slots[1] # Hole => pool.conns[1].link # "broken"
    BY WhenReturned
  <1>2. /\ b \in Batches /\ b \in Clients
        /\ Settled(Tail(ready), b) = {} /\ Tail(ready) \in Seq(Continuations)
        /\ Absent(pool, b) /\ left[b] > 0 /\ phase[b] # "idle"
    BY HeadReady
  <1>3. PICK sql \in Jobs :
          sql = Job(b, "sql") /\ sql.client = b /\ sql.op = "sql" /\ Plain(sql)
    BY <1>2, BatchJobs
  <1>4. /\ Sound(pool', taking', 0, 0)
        /\ InPool(pool') \subseteq InPool(pool) \union {sql}
        /\ Working(pool')
        /\ Callbacks(pool) => Callbacks(pool')
        /\ taking' \in 0..Len(pool'.conns)
        /\ Elsewhere(pool, pool', taking')
        /\ taking' # 0 => taking' \in 1..Len(pool.conns) /\ pool'.conns[taking'].running = {sql}
    <2>1. Get(pool, sql) /\ Absent(pool, sql.client)
      BY <1>2, <1>3
    <2>2. QED
      BY <1>1, <1>3, <2>1, GetSound
  <1>5. PoolOK(pool') /\ failures' \in 0..MaxFailures
    BY <1>4 DEF Sound, IInv, TypeOK
  <1>6. left[b] \in 0..BatchLength /\ left[b] - 1 \in 0..BatchLength /\ left[b] - 1 > 0
    BY <1>2, MssqlPoolAssumption DEF IInv, TypeOK
  <1>7. /\ left' \in [Batches -> 0..BatchLength] /\ left'[b] = left[b] - 1
        /\ \A e \in Batches : e # b => left'[e] = left[e]
    BY <1>2, <1>6 DEF IInv, TypeOK
  <1>8. TypeOK'
    <2>1. ready' \in Seq(Continuations)
      BY <1>2
    <2>2. phase' = phase /\ lost' = lost /\ ended' = ended /\ releasing' = releasing
      OBVIOUS
    <2>3. QED
      BY <1>4, <1>5, <1>7, <2>1, <2>2, TypesKept
  <1>9. IdleAbsent' /\ StatementsLeft' /\ SettledOnce'
    <2>1. \A e \in Batches : /\ \A i, j \in Settled(ready', e) : i = j
                             /\ Settled(ready', e) # {} => Settled(ready, e) # {}
      BY HeadReady DEF IInv, SettledOnce
    <2>2. \A j \in InPool(pool') : \/ j \in InPool(pool) /\ j.client # b
                                   \/ j.client = b
      BY <1>2, <1>3, <1>4 DEF Absent
    <2>3. phase' = phase /\ left'[b] > 0 /\ phase'[b] # "idle" /\ Settled(ready', b) = {}
      BY <1>2, <1>6, <1>7
    <2>4. \A e \in Batches : e # b => left'[e] = left[e]
      BY <1>7
    <2>5. QED
      BY <2>1, <2>2, <2>3, <2>4, ClientsKept
  <1>10. OneFails'
    <2>1. \A j : Sends(j) => Sends(j)'
      <3>1. Head(ready).job.op \notin Calls
        BY DEF Calls
      <3>2. QED
        BY <3>1, HeadReady DEF Sends
    <2>2. PICK f : f = taking'
      OBVIOUS
    <2>3. \A u \in 1..Len(pool'.conns) : u # f => ~Failing(u)'
      BY <1>1, <1>4, <2>1, <2>2, FailsElsewhere
    <2>4. taking' # None \/ releasing' # None =>
            \A j \in pool'.conns[f].running : Plain(j)
      BY <1>1, <1>3, <1>4, <2>2 DEF None
    <2>5. QED
      BY <2>3, <2>4, FailsAt
  <1>11. Intact'
    BY <1>4, IntactKept
  <1>12. Sound(pool', taking', releasing', 0)
    BY <1>1, <1>4
  <1>13. QED
    BY <1>4, <1>8, <1>9, <1>10, <1>11, <1>12 DEF Keeps, IInv, Calm, Tended

\* A batch goes on to its commit or rollback.
LEMMA ContinueCalls ==
  ASSUME IInv, Returned, ready # <<>>, NEW b, b = Head(ready).job.client,
         Head(ready).job.op = "sql", NEW op \in Calls,
         NEW s \in {"succeeded", "failed"},
         phase' = [phase EXCEPT ![b] = s],
         left' = left \/ left' = [left EXCEPT ![b] = 0],
         Call(pool, Job(b, op), Tail(ready)), UNCHANGED <<taking, releasing, failures, ended>>
  PROVE  Keeps
  <1>1. /\ b \in Batches /\ b \in Clients
        /\ Settled(Tail(ready), b) = {} /\ Tail(ready) \in Seq(Continuations)
        /\ Absent(pool, b) /\ left[b] > 0 /\ phase[b] # "idle"
    BY HeadReady
  <1>2. PICK job \in Jobs :
          /\ job = Job(b, op) /\ job.client = b /\ job.op = op
          /\ job \in [client : Batches, op : Calls]
    BY <1>1, BatchJobs
  <1>3. PICK rest \in Seq(Continuations) : rest = Tail(ready)
    BY <1>1
  <1>4. \A j : Sends(j) => j.op \in Calls /\ \E i \in 1..Len(rest) : rest[i].job = j
    <2>1. Head(ready).job.op \notin Calls
      BY DEF Calls
    <2>2. QED
      BY <1>3, <2>1, HeadReady DEF Sends
  <1>5. /\ Sound(pool', taking', releasing', 0) /\ OneFails' /\ Intact'
        /\ InPool(pool') \subseteq InPool(pool) \union {job}
        /\ lost' \subseteq lost \union {job}
        /\ (lost = {} => Calm) => (lost' = {} => Calm')
        /\ ready' \in Seq(Continuations)
        /\ \A e : Settled(ready', e) = Settled(rest, e)
        /\ PoolOK(pool')
        /\ \E o : Elsewhere(pool, pool', o)
    <2>1. Call(pool, job, rest) /\ Absent(pool, job.client) /\ job.op \in Calls
      BY <1>1, <1>2, <1>3
    <2>2. QED
      BY <1>4, <2>1, CallKeeps
  <1>6. TypeOK'
    <2>1. left' = left \/ left' \in [Batches -> 0..BatchLength]
      BY MssqlPoolAssumption DEF IInv, TypeOK
    <2>2. failures' \in 0..MaxFailures /\ lost' \subseteq [client : Batches, op : Calls]
      BY <1>2, <1>5 DEF IInv, TypeOK
    <2>3. \E c \in Clients, r \in {"idle", "asked", "answered", "succeeded", "failed"} :
            phase' = [phase EXCEPT ![c] = r]
      BY <1>1
    <2>4. QED
      BY <1>5, <2>1, <2>2, <2>3, TypesKept
  <1>7. IdleAbsent' /\ StatementsLeft' /\ SettledOnce'
    <2>1. \A e \in Batches : /\ \A i, j \in Settled(ready', e) : i = j
                             /\ Settled(ready', e) # {} => Settled(ready, e) # {}
      BY <1>3, <1>5, HeadReady, SMTT(30) DEF IInv, SettledOnce
    <2>2. \A j \in InPool(pool') : \/ j \in InPool(pool) /\ j.client # b
                                   \/ j.client = b /\ j.op # "sql"
      BY <1>1, <1>2, <1>5 DEF Absent, Calls
    <2>3. /\ phase'[b] # "idle" /\ Settled(ready', b) = {}
          /\ \A e \in Clients : e # b => phase'[e] = phase[e]
      BY <1>1, <1>3, <1>5 DEF IInv, TypeOK
    <2>4. \A e \in Batches : e # b => left'[e] = left[e]
      BY DEF IInv, TypeOK
    <2>5. QED
      BY <2>1, <2>2, <2>3, <2>4, ClientsKept, SMTT(30)
  <1>8. QED
    BY <1>5, <1>6, <1>7 DEF Keeps, IInv

\* The next continuation keeps the invariants.
LEMMA ContinueKeeps == ASSUME IInv, Continue PROVE Keeps
  <1> DEFINE job  == Head(ready).job
             ok   == Head(ready).ok
             b    == job.client
             rest == Tail(ready)
             Case1 == /\ job.op \in Calls
                      /\ ready' = rest
                      /\ UNCHANGED <<pool, taking, phase, left, lost>>
             Case2 == /\ job.op = "sql" /\ ok /\ left[b] > 1
                      /\ left' = [left EXCEPT ![b] = @ - 1]
                      /\ Get(pool, Job(b, "sql"))
                      /\ ready' = rest
                      /\ UNCHANGED <<phase, lost>>
             Case3 == /\ job.op = "sql" /\ ok /\ left[b] = 1
                      /\ left' = [left EXCEPT ![b] = 0]
                      /\ phase' = [phase EXCEPT ![b] = "succeeded"]
                      /\ Call(pool, Job(b, "commit"), rest)
                      /\ UNCHANGED taking
             Case4 == /\ job.op = "sql" /\ ~ok
                      /\ phase' = [phase EXCEPT ![b] = "failed"]
                      /\ Call(pool, Job(b, "rollback"), rest)
                      /\ UNCHANGED <<taking, left>>
  <1>1. /\ Returned /\ Noticed /\ ready # <<>>
        /\ UNCHANGED <<releasing, failures, ended>>
        /\ Case1 \/ Case2 \/ Case3 \/ Case4
    BY Zenon DEF Continue
  <1>2. PICK c : c = Head(ready).job.client
    OBVIOUS
  <1>3. CASE Case1
    BY <1>1, <1>3, ContinueSends
  <1>4. CASE Case2
    BY <1>1, <1>2, <1>4, ContinueNext
  <1>5. CASE Case3
    <2>1. /\ Head(ready).job.op = "sql" /\ phase' = [phase EXCEPT ![c] = "succeeded"]
          /\ left' = [left EXCEPT ![c] = 0] /\ UNCHANGED taking
          /\ Call(pool, Job(c, "commit"), Tail(ready)) /\ "commit" \in Calls
      BY <1>2, <1>5 DEF Calls
    <2>2. QED
      BY <1>1, <1>2, <2>1, ContinueCalls
  <1>6. CASE Case4
    <2>1. /\ Head(ready).job.op = "sql" /\ phase' = [phase EXCEPT ![c] = "failed"]
          /\ left' = left /\ UNCHANGED taking
          /\ Call(pool, Job(c, "rollback"), Tail(ready)) /\ "rollback" \in Calls
      BY <1>2, <1>6 DEF Calls
    <2>2. QED
      BY <1>1, <1>2, <2>1, ContinueCalls
  <1>7. QED
    BY <1>1, <1>3, <1>4, <1>5, <1>6

-----------------------------------------------------------------------------
(* The connections.                                                        *)

\* The pool with another link of a connection
WithLink(p, o, link) == [p EXCEPT !.conns[o].link = link]

\* A connection's link changes.
LEMMA LinkChanged ==
  ASSUME NEW p, PoolOK(p), NEW o \in 1..Len(p.conns), NEW link \in Links,
         NEW q, q = WithLink(p, o, link)
  PROVE  /\ PoolOK(q)
         /\ q.slots = p.slots /\ q.waiting = p.waiting
         /\ Len(q.conns) = Len(p.conns)
         /\ q.conns[o].link = link
         /\ q.conns[o].status = p.conns[o].status
         /\ q.conns[o].running = p.conns[o].running
         /\ \A u \in 1..Len(p.conns) : u # o => q.conns[u] = p.conns[u]
  <1>1. PICK conn : conn = [p.conns[o] EXCEPT !.link = link]
    OBVIOUS
  <1>2. p.conns[o] \in Conn
    BY ElementOfSeq DEF PoolOK, Pool
  <1>3. /\ conn \in Conn /\ conn.link = link
        /\ conn.status = p.conns[o].status /\ conn.running = p.conns[o].running
    BY <1>1, <1>2 DEF Conn
  <1>4. q = WithConn(p, o, conn)
    BY <1>1 DEF WithConn, WithLink
  <1>5. QED
    BY <1>3, <1>4, ConnChanged

\* A connection is closed and the first slot is deleted.
LEMMA ClosedChanged ==
  ASSUME NEW p, PoolOK(p), NEW o \in 1..Len(p.conns), Len(p.slots) > 0,
         NEW q, q = Closed(p, o)
  PROVE  /\ PoolOK(q)
         /\ q.slots[1] = Hole /\ Len(q.slots) = Len(p.slots) /\ q.waiting = p.waiting
         /\ Len(q.conns) = Len(p.conns)
         /\ q.conns[o].link = "closed"
         /\ q.conns[o].status = p.conns[o].status
         /\ q.conns[o].running = p.conns[o].running
         /\ \A u \in 1..Len(p.conns) : u # o => q.conns[u] = p.conns[u]
         /\ \A i \in 1..Len(p.slots) : q.slots[i] = p.slots[i] \/ q.slots[i] = Hole
  <1>1. PICK r : r = [p EXCEPT !.conns[o].link = "closed"]
    OBVIOUS
  <1>2. /\ PoolOK(r)
        /\ r.slots = p.slots /\ r.waiting = p.waiting
        /\ Len(r.conns) = Len(p.conns)
        /\ r.conns[o].link = "closed"
        /\ r.conns[o].status = p.conns[o].status
        /\ r.conns[o].running = p.conns[o].running
        /\ \A u \in 1..Len(p.conns) : u # o => r.conns[u] = p.conns[u]
    <2>1. "closed" \in Links /\ r = WithLink(p, o, "closed")
      BY <1>1 DEF Links, WithLink
    <2>2. QED
      BY <2>1, LinkChanged
  <1>3. q = [r EXCEPT !.slots[1] = Hole]
    BY <1>1 DEF Closed
  <1>4. PICK slots : slots = [r.slots EXCEPT ![1] = Hole]
    OBVIOUS
  <1>5. /\ Len(r.conns) \in Nat /\ Len(r.slots) \in Nat /\ 1 \in 1..Len(r.slots)
        /\ Hole \in 0..Len(r.conns)
    BY <1>2, PoolElements DEF Hole
  <1>6. r.slots \in Seq(0..Len(r.conns)) /\ r \in Pool
    BY <1>2 DEF PoolOK
  <1>7. /\ slots \in Seq(0..Len(r.conns)) /\ Len(slots) = Len(r.slots)
        /\ slots[1] = Hole
        /\ \A i \in 1..Len(r.slots) : slots[i] = r.slots[i] \/ slots[i] = Hole
    BY <1>4, <1>5, <1>6, ExceptSeq
  <1>8. slots \in Seq(Nat)
    BY <1>5, <1>7, SeqMonotonic
  <1>9. q = [r EXCEPT !.slots = slots]
    BY <1>3, <1>4
  <1>10. /\ q.slots = slots /\ q.conns = r.conns /\ q.waiting = r.waiting
         /\ q \in Pool
    BY <1>6, <1>8, <1>9 DEF Pool
  <1>11. PoolOK(q)
    BY <1>7, <1>10 DEF PoolOK
  <1>12. QED
    BY <1>2, <1>7, <1>10, <1>11

\* What a step that only changes the link of a connection keeps.
LEMMA LinkKeeps ==
  ASSUME IInv, Returned, NEW o \in 1..Len(pool.conns), PoolOK(pool'),
         pool'.waiting = pool.waiting, Len(pool'.conns) = Len(pool.conns),
         pool'.conns[o].status = pool.conns[o].status,
         pool'.conns[o].running = pool.conns[o].running,
         Dead(pool', o),
         \A u \in 1..Len(pool.conns) : u # o => pool'.conns[u] = pool.conns[u],
         Len(pool'.slots) = Len(pool.slots),
         \/ pool'.slots[1] = Hole
         \/ pool'.slots = pool.slots /\ pool'.conns[o].link # "closed",
         Intact', failures' \in 0..MaxFailures,
         UNCHANGED <<taking, releasing, ready, phase, left, lost, ended>>
  PROVE  Keeps
  <1>1. /\ taking = 0 /\ releasing = 0 /\ Sound(pool, 0, 0, 0)
        /\ \A u \in 1..Len(pool.conns) : ~Failing(u)
    BY WhenReturned
  <1>2. /\ Sound(pool', 0, 0, 0)
        /\ InPool(pool') = InPool(pool)
        /\ Working(pool) => Working(pool')
    <2>1. \A u \in 1..Len(pool.conns) :
            /\ pool'.conns[u].status = pool.conns[u].status
            /\ pool'.conns[u].running = pool.conns[u].running
            /\ Dead(pool, u) => Dead(pool', u)
      BY DEF Dead
    <2>2. pool'.slots[1] # Hole =>
            pool'.slots = pool.slots /\ \A u \in 1..Len(pool.conns) : pool'.conns[u].link # "closed"
      <3>1. FirstSlot(pool, 0, 0, 0)
        BY <1>1 DEF Sound
      <3>2. pool.slots[1] # Hole => Len(pool.conns) = 1
        BY <3>1 DEF FirstSlot
      <3>3. \A k \in 1..1 : k = 1
        OBVIOUS
      <3>4. QED
        BY <3>2, <3>3
    <2>3. QED
      BY <1>1, <2>1, <2>2, LinksSound
  <1>3. TypeOK'
    <2>1. TypeOK
      BY DEF IInv
    <2>2. taking' \in 0..Len(pool'.conns) /\ releasing' \in 0..Len(pool'.conns)
      BY <2>1 DEF TypeOK
    <2>3. QED
      BY <2>1, <2>2 DEF TypeOK
  <1>4. IdleAbsent' /\ StatementsLeft' /\ SettledOnce'
    BY <1>2, NobodyMoves
  <1>5. OneFails'
    <2>1. ASSUME NEW u \in 1..Len(pool'.conns), u # o PROVE ~Failing(u)'
      <3>1. /\ u \in 1..Len(pool.conns) /\ ~Failing(u)
            /\ pool'.conns[u].link = pool.conns[u].link
            /\ pool'.conns[u].running = pool.conns[u].running
        BY <1>1, <2>1
      <3>2. \A j : Sends(j) => Sends(j)'
        BY DEF Sends
      <3>3. QED
        BY <3>1, <3>2, FailsNot
    <2>2. QED
      BY <1>1, <2>1, FailsAt DEF None
  <1>6. (lost = {} => Calm) => (lost' = {} => Calm')
    BY <1>1, <1>2 DEF Calm, Tended, Callbacks, None
  <1>7. Sound(pool', taking', releasing', 0)
    BY <1>1, <1>2
  <1>8. QED
    BY <1>3, <1>4, <1>5, <1>6, <1>7 DEF Keeps, IInv

\* What is known of the connections when the pool's code has returned.
LEMMA Slots ==
  ASSUME IInv
  PROVE  /\ PoolOK(pool) /\ Len(pool.slots) > 0
         /\ pool.slots[1] # Hole =>
              /\ Len(pool.conns) = 1 /\ pool.conns[1].link # "closed"
              /\ \A o \in 1..Len(pool.conns) : o = 1
         /\ failures \in 0..MaxFailures
  <1>1. PoolOK(pool) /\ FirstSlot(pool, taking, releasing, 0) /\ failures \in 0..MaxFailures
    BY DEF IInv, Sound, TypeOK
  <1>2. \A k \in 1..1 : k = 1
    OBVIOUS
  <1>3. QED
    BY <1>1, <1>2 DEF FirstSlot

\* A lost connection keeps the invariants.
LEMMA LoseKeeps ==
  ASSUME IInv, NEW o \in 1..Len(pool.conns), Lose(o) PROVE Keeps
  <1>1. /\ Returned /\ Fail /\ pool' = Closed(pool, o)
        /\ UNCHANGED <<taking, releasing, ready, phase, left, lost, ended>>
    BY DEF Lose, EventLoop
  <1>2. /\ PoolOK(pool')
        /\ pool'.slots[1] = Hole /\ Len(pool'.slots) = Len(pool.slots)
        /\ pool'.waiting = pool.waiting
        /\ Len(pool'.conns) = Len(pool.conns)
        /\ pool'.conns[o].link = "closed"
        /\ pool'.conns[o].status = pool.conns[o].status
        /\ pool'.conns[o].running = pool.conns[o].running
        /\ \A u \in 1..Len(pool.conns) : u # o => pool'.conns[u] = pool.conns[u]
    <2>1. PoolOK(pool) /\ Len(pool.slots) > 0
      BY Slots
    <2>2. pool' = Closed(pool, o)
      BY <1>1
    <2>3. QED
      BY <2>1, <2>2, ClosedChanged, SMTT(30)
  <1>3. failures' \in 0..MaxFailures /\ failures' # 0
    BY <1>1, Failed DEF IInv
  <1>4. Dead(pool', o) /\ Intact'
    BY <1>2, <1>3 DEF Dead, Intact
  <1>5. QED
    BY <1>1, <1>2, <1>3, <1>4, LinkKeeps

\* A connection whose request could not be cancelled keeps the invariants.
LEMMA CancelTimeoutKeeps ==
  ASSUME IInv, NEW o \in 1..Len(pool.conns), CancelTimeout(o) PROVE Keeps
  <1>1. /\ Returned /\ Fail /\ pool' = [pool EXCEPT !.conns[o].link = "broken"]
        /\ UNCHANGED <<taking, releasing, ready, phase, left, lost, ended>>
    BY DEF CancelTimeout, EventLoop
  <1>2. /\ PoolOK(pool')
        /\ pool'.slots = pool.slots /\ pool'.waiting = pool.waiting
        /\ Len(pool'.conns) = Len(pool.conns)
        /\ pool'.conns[o].link = "broken"
        /\ pool'.conns[o].status = pool.conns[o].status
        /\ pool'.conns[o].running = pool.conns[o].running
        /\ \A u \in 1..Len(pool.conns) : u # o => pool'.conns[u] = pool.conns[u]
    <2>1. "broken" \in Links /\ pool' = WithLink(pool, o, "broken")
      BY <1>1 DEF Links, WithLink
    <2>2. PoolOK(pool)
      BY Slots
    <2>3. QED
      BY <2>1, <2>2, LinkChanged
  <1>3. failures' \in 0..MaxFailures /\ failures' # 0
    BY <1>1, Failed DEF IInv
  <1>4. Dead(pool', o) /\ Intact'
    BY <1>2, <1>3 DEF Dead, Intact
  <1>5. QED
    BY <1>1, <1>2, <1>3, <1>4, LinkKeeps

\* The "end" that follows keeps them too.
LEMMA NoticeKeeps ==
  ASSUME IInv, NEW o \in 1..Len(pool.conns), Notice(o) PROVE Keeps
  <1>1. /\ Returned /\ pool.conns[o].link = "broken" /\ pool' = Closed(pool, o)
        /\ UNCHANGED <<taking, releasing, ready, phase, left, lost, failures, ended>>
    BY DEF Notice
  <1>2. /\ PoolOK(pool')
        /\ pool'.slots[1] = Hole /\ Len(pool'.slots) = Len(pool.slots)
        /\ pool'.waiting = pool.waiting
        /\ Len(pool'.conns) = Len(pool.conns)
        /\ pool'.conns[o].link = "closed"
        /\ pool'.conns[o].status = pool.conns[o].status
        /\ pool'.conns[o].running = pool.conns[o].running
        /\ \A u \in 1..Len(pool.conns) : u # o => pool'.conns[u] = pool.conns[u]
    <2>1. PoolOK(pool) /\ Len(pool.slots) > 0
      BY Slots
    <2>2. pool' = Closed(pool, o)
      BY <1>1
    <2>3. QED
      BY <2>1, <2>2, ClosedChanged, SMTT(30)
  <1>3. failures' \in 0..MaxFailures /\ failures' # 0
    BY <1>1, Slots DEF IInv, Intact
  <1>4. Dead(pool', o) /\ Intact'
    BY <1>2, <1>3 DEF Dead, Intact
  <1>5. QED
    BY <1>1, <1>2, <1>3, <1>4, LinkKeeps

\* A connection that has connected keeps the invariants: it serves who waits.
LEMMA ConnectKeeps ==
  ASSUME IInv, NEW o \in 1..Len(pool.conns), Connect(o) PROVE Keeps
  <1>1. /\ Returned /\ pool.conns[o].status = "PEENDING"
        /\ pool' = Serve(Connected(pool, o), o)
        /\ UNCHANGED <<taking, releasing, ready, phase, left, lost, failures, ended>>
    BY DEF Connect, EventLoop
  <1>2. /\ taking = 0 /\ releasing = 0 /\ Sound(pool, 0, 0, 0) /\ PoolOK(pool)
        /\ \A u \in 1..Len(pool.conns) : ~Failing(u)
    BY <1>1, WhenReturned DEF Sound
  <1>3. PICK r : r = Connected(pool, o)
    OBVIOUS
  <1>4. /\ PoolOK(r)
        /\ r.slots = pool.slots /\ r.waiting = pool.waiting
        /\ Len(r.conns) = Len(pool.conns)
        /\ r.conns[o].link = "open"
        /\ r.conns[o].status = pool.conns[o].status
        /\ r.conns[o].running = pool.conns[o].running
        /\ \A u \in 1..Len(pool.conns) : u # o => r.conns[u] = pool.conns[u]
    <2>1. "open" \in Links /\ r = WithLink(pool, o, "open")
      BY <1>3 DEF Links, Connected, WithLink
    <2>2. QED
      BY <1>2, <2>1, LinkChanged
  <1>5. Sound(r, 0, 0, 0) /\ InPool(r) = InPool(pool)
    <2>1. \A u \in 1..Len(pool.conns) :
            /\ r.conns[u].status = pool.conns[u].status
            /\ r.conns[u].running = pool.conns[u].running
            /\ pool.conns[u].status = "BUSY" /\ Dead(pool, u) => Dead(r, u)
      BY <1>1, <1>4 DEF Dead
    <2>2. \/ r.slots[1] = Hole
          \/ r.slots = pool.slots /\ \A u \in 1..Len(pool.conns) : r.conns[u].link # "closed"
      BY <1>4, Slots
    <2>3. Len(r.slots) = Len(pool.slots)
      BY <1>4
    <2>4. QED
      BY <1>2, <1>4, <2>1, <2>2, <2>3, LinksSound
  <1>6. o # 0 /\ Sound(r, 0, 0, o)
    <2>1. ExclusiveAt(r, 0, 0, o) /\ o # 0
      BY <1>2, <1>4, <1>5, PoolElements DEF Sound
    <2>2. r.conns[o].running = {}
      BY <1>1, <1>4, <2>1 DEF ExclusiveAt
    <2>3. FirstSlot(r, 0, 0, o)
      BY <1>5 DEF Sound, FirstSlot
    <2>4. \A u \in 1..Len(r.conns) : ExclusiveAt(r, 0, 0, u)
      <3>1. \A u \in 1..Len(r.conns) : u # 0
        BY <1>4, PoolElements
      <3>2. QED
        BY <1>5, <3>1 DEF Sound
    <2>5. QED
      BY <1>4, <1>5, <2>1, <2>2, <2>3, <2>4 DEF Sound
  <1>7. /\ Sound(pool', 0, 0, 0)
        /\ InPool(pool') \subseteq InPool(r)
        /\ Callbacks(r) => Tended(pool')
        /\ Elsewhere(r, pool', o)
    <2>1. pool' = Serve(r, o)
      BY <1>1, <1>3
    <2>2. QED
      BY <1>6, <2>1, ServeSound
  <1>8. PoolOK(pool')
    BY <1>7 DEF Sound
  <1>9. TypeOK'
    <2>1. Len(pool'.conns) \in Nat
      BY <1>8, PoolElements
    <2>2. taking' \in 0..Len(pool'.conns) /\ releasing' \in 0..Len(pool'.conns)
      BY <1>1, <1>2, <2>1
    <2>3. QED
      BY <1>1, <1>8, <2>2 DEF IInv, TypeOK
  <1>10. IdleAbsent' /\ StatementsLeft' /\ SettledOnce'
    BY <1>1, <1>5, <1>7, NobodyMoves
  <1>11. OneFails'
    <2>1. ASSUME NEW u \in 1..Len(pool'.conns), u # o PROVE ~Failing(u)'
      <3>1. CASE u \in 1..Len(pool.conns)
        <4>1. /\ ~Failing(u)
              /\ pool'.conns[u].link = pool.conns[u].link
              /\ pool'.conns[u].running = pool.conns[u].running
          BY <1>2, <1>4, <1>7, <2>1, <3>1 DEF Elsewhere
        <4>2. \A j : Sends(j) => Sends(j)'
          BY <1>1 DEF Sends
        <4>3. QED
          BY <3>1, <4>1, <4>2, FailsNot
      <3>2. CASE u \notin 1..Len(pool.conns)
        <4>1. pool'.conns[u].running = {}
          BY <1>4, <1>7, <2>1, <3>2 DEF Elsewhere
        <4>2. QED
          BY <4>1 DEF Failing
      <3>3. QED
        BY <3>1, <3>2
    <2>2. QED
      BY <1>1, <1>2, <2>1, FailsAt DEF None
  <1>12. Intact'
    <2>1. ASSUME failures = 0 PROVE pool'.slots[1] # Hole /\ pool'.conns[1].link # "broken"
      <3>1. pool.slots[1] # Hole /\ o = 1
        BY <2>1, Slots DEF IInv, Intact
      <3>2. pool'.slots[1] = r.slots[1] /\ pool'.conns[o].link = r.conns[o].link
        BY <1>4, <1>7 DEF Elsewhere
      <3>3. QED
        BY <1>4, <3>1, <3>2
    <2>2. QED
      BY <1>1, <2>1 DEF Intact
  <1>13. (lost = {} => Calm) => (lost' = {} => Calm')
    <2>1. Callbacks(pool) => Callbacks(r)
      BY <1>4 DEF Callbacks
    <2>2. QED
      BY <1>1, <1>7, <2>1 DEF Calm, Tended
  <1>14. Sound(pool', taking', releasing', 0)
    BY <1>1, <1>2, <1>7
  <1>15. QED
    BY <1>9, <1>10, <1>11, <1>12, <1>13, <1>14 DEF Keeps, IInv

\* A step that changes neither the pool nor a client keeps the invariants.
LEMMA IdleKeeps ==
  ASSUME IInv, failures' = failures \/ failures' \in (0..MaxFailures) \ {0},
         ended' = ended \/ ended' \in BOOLEAN,
         UNCHANGED <<pool, taking, releasing, ready, phase, left, lost>>
  PROVE  Keeps
  <1>1. TypeOK'
    BY DEF IInv, TypeOK
  <1>2. IdleAbsent' /\ StatementsLeft' /\ SettledOnce'
    BY DEF IInv, IdleAbsent, StatementsLeft, SettledOnce
  <1>3. OneFails'
    <2>1. \A o \in 1..Len(pool.conns) : Failing(o)' <=> Failing(o)
      BY DEF Failing, Sends
    <2>2. QED
      BY <2>1 DEF IInv, OneFails
  <1>4. Intact'
    BY DEF IInv, Intact
  <1>5. Sound(pool', taking', releasing', 0)
    BY DEF IInv
  <1>6. (lost = {} => Calm) => (lost' = {} => Calm')
    BY DEF Calm, Tended, Callbacks, Working
  <1>7. QED
    BY <1>1, <1>2, <1>3, <1>4, <1>5, <1>6 DEF Keeps, IInv

-----------------------------------------------------------------------------
(* The specification.                                                      *)

\* The pool begins with one connection that is connecting.
LEMMA InitHolds ==
  ASSUME Init
  PROVE  IInv /\ Calm
  <1> DEFINE none == [slots |-> <<>>, conns |-> <<>>, waiting |-> <<>>]
             slots == Append(none.slots, Len(none.conns) + 1)
             conns == Append(none.conns, NewConn)
  <1>1. /\ none.slots = <<>> /\ none.conns = <<>> /\ none.waiting = <<>>
        /\ \A S : <<>> \in Seq(S)
        /\ Len(none.slots) = 0 /\ Len(none.conns) = 0 /\ Len(none.waiting) = 0
    BY EmptySeq
  <1>2. Len(slots) = 1 /\ slots[1] = 1 /\ Len(conns) = 1 /\ conns[1] = NewConn
    <2>1. NewConn \in Conn
      BY DEF NewConn, Conn, Statuses, Links
    <2>2. QED
      BY <1>1, <2>1, AppendProperties
  <1>3. pool.slots = slots /\ pool.conns = conns /\ pool.waiting = <<>>
    BY <1>1 DEF Init, Fill
  <1>4. PoolOK(pool)
    <2>1. PoolOK(none)
      BY <1>1 DEF PoolOK, Pool
    <2>2. pool = Fill(none)
      BY DEF Init
    <2> HIDE DEF none
    <2>3. QED
      BY <2>1, <2>2, FillChange
  <1> HIDE DEF slots, conns
  <1>5. /\ Len(pool.slots) = 1 /\ pool.slots[1] = 1 /\ Len(pool.conns) = 1
        /\ pool.conns[1] = NewConn /\ pool.waiting = <<>> /\ Len(pool.waiting) = 0
        /\ \A k \in 1..1 : k = 1
    BY <1>1, <1>2, <1>3
  <1>6. /\ NewConn.status = "PEENDING" /\ NewConn.running = {} /\ NewConn.link = "none"
    BY DEF NewConn
  <1>7. taking = 0 /\ releasing = 0 /\ ready = <<>> /\ failures = 0 /\ Len(ready) = 0
    BY EmptySeq DEF Init, None
  <1>8. InPool(pool) = {}
    BY <1>5, <1>6 DEF InPool
  <1>9. Sound(pool, 0, 0, 0)
    <2>1. \A o \in 1..Len(pool.conns) : o # 0 => ExclusiveAt(pool, 0, 0, o)
      BY <1>5, <1>6 DEF ExclusiveAt
    <2>2. FirstSlot(pool, 0, 0, 0)
      BY <1>5, <1>6 DEF FirstSlot, Hole
    <2>3. \A c \in Clients : OnePlace(pool, c)
      BY <1>5 DEF OnePlace
    <2>4. QED
      BY <1>4, <1>5, <2>1, <2>2, <2>3 DEF Sound
  <1>10. TypeOK
    <2>1. 0 \in 0..BatchLength /\ 0 \in 0..MaxFailures
      BY MssqlPoolAssumption
    <2>2. /\ phase \in [Clients -> {"idle", "asked", "answered", "succeeded", "failed"}]
          /\ left \in [Batches -> 0..BatchLength]
      BY <2>1 DEF Init
    <2>3. ready \in Seq([job : Jobs, ok : BOOLEAN])
      BY <1>1, <1>7
    <2>4. taking \in 0..Len(pool.conns) /\ releasing \in 0..Len(pool.conns)
      BY <1>5, <1>7
    <2>5. lost = {} /\ ended \in BOOLEAN
      BY DEF Init
    <2>6. QED
      BY <1>4, <1>7, <2>1, <2>2, <2>3, <2>4, <2>5 DEF TypeOK
  <1>11. SettledOnce /\ StatementsLeft /\ IdleAbsent
    BY <1>7, <1>8 DEF SettledOnce, Settled, StatementsLeft, IdleAbsent, Absent
  <1>12. OneFails /\ Intact
    BY <1>5, <1>6 DEF OneFails, Failing, Intact, Hole
  <1>13. Calm
    BY <1>5 DEF Calm, Callbacks, Tended
  <1>14. QED
    BY <1>7, <1>9, <1>10, <1>11, <1>12, <1>13 DEF IInv

\* Every step keeps the invariant.
LEMMA NextKeeps == IInv /\ [Next]_vars => Keeps
  <1> SUFFICES ASSUME IInv, [Next]_vars PROVE Keeps
    OBVIOUS
  <1>1. ASSUME NEW q \in Queries, Query(q) PROVE Keeps
    BY <1>1, QueryKeeps
  <1>2. ASSUME NEW b \in Batches, RunBatch(b) PROVE Keeps
    BY <1>2, RunBatchKeeps
  <1>3. ASSUME NEW o \in 1..Len(pool.conns), Finish(o) PROVE Keeps
    BY <1>3, FinishQueryKeeps, FinishBeginKeeps, FinishStatementKeeps,
       FinishTransactionKeeps DEF Finish
  <1>4. ASSUME NEW o \in 1..Len(pool.conns), Connect(o) PROVE Keeps
    BY <1>4, ConnectKeeps
  <1>5. ASSUME NEW o \in 1..Len(pool.conns), ConnectFails(o) PROVE Keeps
    <2>1. failures' \in (0..MaxFailures) \ {0}
      BY <1>5, Failed DEF ConnectFails, IInv
    <2>2. QED
      BY <1>5, <2>1, IdleKeeps DEF ConnectFails
  <1>6. ASSUME NEW o \in 1..Len(pool.conns), Lose(o) PROVE Keeps
    BY <1>6, LoseKeeps
  <1>7. ASSUME NEW o \in 1..Len(pool.conns), CancelTimeout(o) PROVE Keeps
    BY <1>7, CancelTimeoutKeeps
  <1>8. CASE Proceed
    <2>1. ASSUME NEW o \in 1..Len(pool.conns), Notice(o) PROVE Keeps
      BY <2>1, NoticeKeeps
    <2>2. QED
      BY <1>8, <2>1, MarkBusyKeeps, ReleaseAfterBeginKeeps, ContinueKeeps DEF Proceed
  <1>9. CASE End
    BY <1>9, IdleKeeps DEF End
  <1>10. CASE UNCHANGED vars
    BY <1>10, IdleKeeps DEF vars
  <1>11. QED
    BY <1>1, <1>2, <1>3, <1>4, <1>5, <1>6, <1>7, <1>8, <1>9, <1>10 DEF Next

\* The invariant holds in every state.
LEMMA Invariance == Spec => [](IInv /\ (lost = {} => Calm))
  <1>1. Init => IInv /\ (lost = {} => Calm)
    BY InitHolds
  <1>2. IInv /\ (lost = {} => Calm) /\ [Next]_vars => (IInv /\ (lost = {} => Calm))'
    BY NextKeeps DEF Keeps
  <1>3. QED
    BY <1>1, <1>2, PTL DEF Spec

\* The pool keeps its shape: a slot holds a connection the pool has made or
\* is a hole, whatever fails.
THEOREM TypeCorrect == Spec => []TypeOK
  <1>1. IInv => TypeOK
    BY DEF IInv
  <1>2. QED
    BY <1>1, Invariance, PTL

\* A pool connection never runs two requests, in any order of getConnection,
\* release, "connect" and connection loss, and between two runs of code one
\* that is BUSY and runs none is dead: getConnection has marked it after the
\* request had failed.
THEOREM RunsOneRequest == Spec => []OneRequest
  <1>1. IInv => OneRequest
    <2> SUFFICES ASSUME IInv PROVE OneRequest
      OBVIOUS
    <2>1. ASSUME NEW o \in 1..Len(pool.conns)
          PROVE  /\ o # 0 /\ ExclusiveAt(pool, taking, releasing, o)
                 /\ pool.conns[o].running \in SUBSET Jobs
                 /\ pool.conns[o].status \in Statuses
      <3>1. /\ PoolOK(pool) /\ o # 0
            /\ pool.conns[o].running \in SUBSET Jobs
            /\ pool.conns[o].status \in Statuses
        BY PoolElements DEF IInv, TypeOK
      <3>2. QED
        BY <3>1 DEF IInv, Sound
    <2>2. ASSUME NEW o \in 1..Len(pool.conns),
                 NEW job \in pool.conns[o].running, NEW other \in pool.conns[o].running
          PROVE  job = other
      BY <2>1 DEF ExclusiveAt
    <2>3. ASSUME taking = 0, releasing = 0, NEW o \in 1..Len(pool.conns)
          PROVE  IF pool.conns[o].status = "BUSY"
                 THEN \/ \E job \in Jobs : pool.conns[o].running = {job}
                      \/ pool.conns[o].running = {} /\ Dead(pool, o)
                 ELSE pool.conns[o].running = {}
      BY <2>1, <2>3 DEF ExclusiveAt, Statuses
    <2>4. QED
      BY <2>2, <2>3 DEF OneRequest, Exclusive, None
  <1>2. QED
    BY <1>1, Invariance, PTL

\* No client's request is in the pool twice: a query is sent once, and a
\* batch waits for each statement before it sends the next.
THEOREM SendsOnce == Spec => []SentOnce
  <1>1. IInv => SentOnce
    BY DEF IInv, Sound, SentOnce
  <1>2. QED
    BY <1>1, Invariance, PTL

\* No waiter is forgotten by a pool that has come to rest, as long as no
\* transaction call of a batch went without a connection.
THEOREM WaitersAttended == Spec => []AttendedUnlessLost
  <1>1. IInv /\ (lost = {} => Calm) => AttendedUnlessLost
    <2>1. ASSUME IInv, Calm PROVE Attended
      <3>1. pool.waiting = <<>> => Len(pool.waiting) = 0
        BY EmptySeq
      <3>2. QED
        BY <2>1, <3>1 DEF Calm, Tended, Attended
    <2>2. QED
      BY <2>1 DEF AttendedUnlessLost
  <1>2. QED
    BY <1>1, Invariance, PTL

\* Until something fails there is one connection, for any number of clients
\* that miss getConnection at once: a connection that is connecting holds its
\* slot, and fill looks at no other.
THEOREM OneConnection == Spec => []StaysSmall
  <1>1. IInv => StaysSmall
    BY Slots DEF IInv, Intact, StaysSmall
  <1>2. QED
    BY <1>1, Invariance, PTL

-----------------------------------------------------------------------------
(* The pool as a queue.  While no transaction call has been lost, nobody   *)
(* waits while a connection is free, so whoever finds one free is at the   *)
(* head of the line.                                                       *)

InLine(p) == p.waiting # <<>> => FreeSlots(p) = {}

\* A connection that is marked otherwise than FREE does not come free, and no
\* other one does.
LEMMA ChangedFree ==
  ASSUME NEW p, PoolOK(p), NEW o \in 1..Len(p.conns),
         NEW status \in Statuses, status # "FREE", NEW running \in SUBSET Jobs,
         NEW q, q = Changed(p, o, status, running)
  PROVE  FreeSlots(q) \subseteq FreeSlots(p)
  <1>1. /\ q.slots = p.slots
        /\ q.conns[o].status = status
        /\ \A u \in 1..Len(p.conns) : u # o => q.conns[u] = p.conns[u]
    BY ConnStep
  <1>2. /\ \A k \in 1..Len(p.slots) : p.slots[k] \in 0..Len(p.conns)
        /\ Len(p.conns) \in Nat
    BY PoolElements
  <1>3. ASSUME NEW i \in FreeSlots(q) PROVE i \in FreeSlots(p)
    <2>1. /\ i \in 1..Len(p.slots) /\ p.slots[i] # Hole
          /\ q.conns[p.slots[i]].status = "FREE"
      BY <1>1, <1>3 DEF FreeSlots
    <2>2. p.slots[i] \in 1..Len(p.conns) /\ p.slots[i] # o
      BY <1>1, <1>2, <2>1 DEF Hole
    <2>3. QED
      BY <1>1, <2>1, <2>2 DEF FreeSlots
  <1>4. QED
    BY <1>3

\* A connection takes a request from the pool.
LEMMA OccupiedLine ==
  ASSUME NEW p, PoolOK(p), NEW o \in 1..Len(p.conns), NEW job \in Jobs,
         NEW q, q = Occupied(p, o, job)
  PROVE  /\ q.waiting = p.waiting
         /\ Sent(q) = Sent(p) \union {job}
         /\ FreeSlots(p) = {} => FreeSlots(q) = {}
  <1> DEFINE running == p.conns[o].running \union {job}
  <1>1. running \in SUBSET Jobs /\ "BUSY" \in Statuses /\ "BUSY" # "FREE"
    BY PoolElements DEF Statuses
  <1>2. q = Changed(p, o, "BUSY", running)
    BY DEF Occupied
  <1> HIDE DEF running
  <1>3. /\ q.waiting = p.waiting /\ Len(q.conns) = Len(p.conns)
        /\ q.conns[o].running = running
        /\ \A u \in 1..Len(p.conns) : u # o => q.conns[u] = p.conns[u]
    BY <1>1, <1>2, ConnStep
  <1>4. Sent(q) = Sent(p) \union {job}
    BY <1>3 DEF Sent, running
  <1>5. FreeSlots(q) \subseteq FreeSlots(p)
    BY <1>1, <1>2, ChangedFree
  <1>6. QED
    BY <1>3, <1>4, <1>5

\* A connection takes a request from its callback.
LEMMA StartedLine ==
  ASSUME NEW p, PoolOK(p), NEW o \in 1..Len(p.conns), NEW job \in Jobs,
         NEW q, q = Started(p, o, job)
  PROVE  q.waiting = p.waiting /\ Sent(q) = Sent(p) \union {job}
  <1> DEFINE running == p.conns[o].running \union {job}
  <1>1. running \in SUBSET Jobs
    BY PoolElements
  <1>2. PICK status \in Statuses : status = p.conns[o].status
    BY PoolElements
  <1>3. q = Changed(p, o, status, running)
    BY <1>2 DEF Started
  <1> HIDE DEF running
  <1>4. /\ q.waiting = p.waiting /\ Len(q.conns) = Len(p.conns)
        /\ q.conns[o].running = running
        /\ \A u \in 1..Len(p.conns) : u # o => q.conns[u] = p.conns[u]
    BY <1>1, <1>3, ConnStep
  <1>5. QED
    BY <1>4 DEF Sent, running

\* A connection that is marked FREE changes neither queue nor requests.
LEMMA FreedLine ==
  ASSUME NEW p, PoolOK(p), NEW o \in 1..Len(p.conns), NEW q, q = Freed(p, o)
  PROVE  q.waiting = p.waiting /\ Sent(q) = Sent(p)
  <1>1. p.conns[o].running \in SUBSET Jobs /\ "FREE" \in Statuses
    BY PoolElements DEF Statuses
  <1>2. q = Changed(p, o, "FREE", p.conns[o].running)
    BY DEF Freed
  <1>3. /\ q.waiting = p.waiting /\ Len(q.conns) = Len(p.conns)
        /\ q.conns[o].running = p.conns[o].running
        /\ \A u \in 1..Len(p.conns) : u # o => q.conns[u] = p.conns[u]
    BY <1>1, <1>2, ConnStep
  <1>4. QED
    BY <1>3 DEF Sent

\* A connection that is marked BUSY does so too, and none comes free.
LEMMA MarkedLine ==
  ASSUME NEW p, PoolOK(p), NEW o \in 1..Len(p.conns), NEW q, q = Marked(p, o)
  PROVE  /\ q.waiting = p.waiting /\ Sent(q) = Sent(p)
         /\ FreeSlots(q) \subseteq FreeSlots(p)
  <1>1. /\ p.conns[o].running \in SUBSET Jobs
        /\ "BUSY" \in Statuses /\ "BUSY" # "FREE"
    BY PoolElements DEF Statuses
  <1>2. q = Changed(p, o, "BUSY", p.conns[o].running)
    BY DEF Marked
  <1>3. /\ q.waiting = p.waiting /\ Len(q.conns) = Len(p.conns)
        /\ q.conns[o].running = p.conns[o].running
        /\ \A u \in 1..Len(p.conns) : u # o => q.conns[u] = p.conns[u]
    BY <1>1, <1>2, ConnStep
  <1>4. FreeSlots(q) \subseteq FreeSlots(p)
    BY <1>1, <1>2, ChangedFree
  <1>5. Sent(q) = Sent(p)
    BY <1>3 DEF Sent
  <1>6. QED
    BY <1>3, <1>4, <1>5

\* A request that ends leaves the queue, and whoever is free is free.
LEMMA CompletedLine ==
  ASSUME NEW p, NEW t, NEW x, Sound(p, t, x, 0), NEW o \in 1..Len(p.conns),
         NEW job \in p.conns[o].running, NEW q, q = Completed(p, o, job)
  PROVE  /\ q.waiting = p.waiting
         /\ Sent(q) = Sent(p) \ {job}
         /\ FreeSlots(q) = FreeSlots(p)
  <1> DEFINE running == p.conns[o].running \ {job}
  <1>1. PoolOK(p) /\ job \in Jobs /\ job.client \in Clients
    BY PoolElements, JobClients DEF Sound
  <1>2. running \in SUBSET Jobs /\ p.conns[o].status \in Statuses
    BY <1>1, PoolElements
  <1>3. q = Changed(p, o, p.conns[o].status, running)
    BY DEF Completed
  <1> HIDE DEF running
  <1>4. /\ q.slots = p.slots /\ q.waiting = p.waiting
        /\ Len(q.conns) = Len(p.conns)
        /\ q.conns[o].status = p.conns[o].status /\ q.conns[o].running = running
        /\ \A u \in 1..Len(p.conns) : u # o => q.conns[u] = p.conns[u]
    BY <1>1, <1>2, <1>3, ConnStep
  <1>5. \A u \in 1..Len(p.conns) : u # o => job \notin p.conns[u].running
    <2>1. OnePlace(p, job.client)
      BY <1>1 DEF Sound
    <2>2. QED
      BY <2>1 DEF OnePlace, Holds
  <1>6. Sent(q) = Sent(p) \ {job}
    BY <1>4, <1>5 DEF Sent, running
  <1>7. FreeSlots(q) = FreeSlots(p)
    <2>1. \A u \in 1..Len(p.conns) : q.conns[u].status = p.conns[u].status
      BY <1>4
    <2>2. \A i \in 1..Len(p.slots) : p.slots[i] # Hole => p.slots[i] \in 1..Len(p.conns)
      BY <1>1, PoolElements DEF Hole
    <2>3. QED
      BY <1>4, <2>1, <2>2 DEF FreeSlots
  <1>8. QED
    BY <1>4, <1>6, <1>7

\* Whoever finds no free connection stands last in the queue, and a
\* connection that is opened for him is not free.
LEMMA QueuedLine ==
  ASSUME NEW p, PoolOK(p), NEW w \in Waiters, FreeSlots(p) = {},
         NEW q, q = Queued(p, w)
  PROVE  /\ q.waiting = Append(p.waiting, w)
         /\ Sent(q) = Sent(p)
         /\ FreeSlots(q) = {}
  <1> DEFINE n == Len(p.conns) + 1
             conns == Append(p.conns, NewConn)
             slots == Append(p.slots, n)
             a == Append(p.waiting, w)
  <1>1. /\ \A i \in 1..Len(p.slots) : p.slots[i] \in 0..Len(p.conns)
        /\ Len(p.conns) \in Nat /\ Len(p.slots) \in Nat
    BY PoolElements
  <1>2. CASE Len(p.slots) > 0 /\ p.slots[1] # Hole
    <2>1. q = [p EXCEPT !.waiting = a]
      BY <1>2 DEF Queued, Fill
    <2> HIDE DEF a
    <2>2. q.waiting = a /\ q.conns = p.conns /\ q.slots = p.slots
      BY <2>1 DEF PoolOK, Pool
    <2>3. QED
      BY <2>2 DEF Sent, FreeSlots, a
  <1>3. CASE ~(Len(p.slots) > 0 /\ p.slots[1] # Hole)
    <2>1. /\ Len(conns) = n /\ conns[n] = NewConn
          /\ \A u \in 1..Len(p.conns) : conns[u] = p.conns[u]
      <3>1. NewConn \in Conn
        BY DEF NewConn, Conn, Statuses, Links
      <3>2. QED
        BY <3>1, AppendProperties DEF PoolOK, Pool
    <2>2. /\ Len(slots) = Len(p.slots) + 1 /\ slots[Len(p.slots) + 1] = n
          /\ \A i \in 1..Len(p.slots) : slots[i] = p.slots[i]
      BY <1>1, AppendProperties DEF PoolOK, Pool
    <2>3. q = [p EXCEPT !.waiting = a, !.slots = slots, !.conns = conns]
      BY <1>3 DEF Queued, Fill
    <2> HIDE DEF a, slots, conns
    <2>4. q.waiting = a /\ q.conns = conns /\ q.slots = slots
      BY <2>3 DEF PoolOK, Pool
    <2>5. Sent(q) = Sent(p)
      <3>1. conns[n].running = {}
        BY <2>1 DEF NewConn
      <3>2. 1..Len(conns) = 1..Len(p.conns) \union {n}
        BY <1>1, <2>1
      <3> HIDE DEF n
      <3>3. QED
        BY <2>1, <2>4, <3>1, <3>2 DEF Sent
    <2>6. FreeSlots(q) = {}
      <3> SUFFICES ASSUME NEW i \in FreeSlots(q) PROVE FALSE
        OBVIOUS
      <3>1. /\ i \in 1..Len(slots) /\ slots[i] # Hole
            /\ conns[slots[i]].status = "FREE"
        BY <2>4 DEF FreeSlots
      <3>2. CASE i = Len(p.slots) + 1
        BY <2>1, <2>2, <3>1, <3>2 DEF NewConn
      <3>3. CASE i \in 1..Len(p.slots)
        <4>1. slots[i] = p.slots[i] /\ p.slots[i] \in 1..Len(p.conns)
          BY <1>1, <2>2, <3>1, <3>3 DEF Hole
        <4>2. p.conns[p.slots[i]].status = "FREE" /\ p.slots[i] # Hole
          BY <2>1, <3>1, <4>1
        <4>3. i \in FreeSlots(p)
          BY <3>3, <4>2 DEF FreeSlots
        <4>4. QED
          BY <4>3
      <3>4. QED
        BY <1>1, <2>2, <3>1, <3>2, <3>3
    <2>7. QED
      BY <2>4, <2>5, <2>6 DEF a
  <1>4. QED
    BY <1>2, <1>3

\* A caller of getConnection is queued, or takes a free connection while nobody
\* waits.
LEMMA GetLine ==
  ASSUME NEW p, PoolOK(p), InLine(p), NEW job \in Jobs, Get(p, job)
  PROVE  \/ /\ FreeSlots(pool') = {}
            /\ pool'.waiting = Append(p.waiting, job) /\ Sent(pool') = Sent(p)
         \/ /\ p.waiting = <<>> /\ pool'.waiting = <<>>
            /\ Sent(pool') = Sent(p) \union {job}
  <1>1. CASE FreeSlots(p) = {}
    <2>1. pool' = Queued(p, job) /\ job \in Waiters
      BY <1>1 DEF Get, Waiters
    <2>2. QED
      BY <1>1, <2>1, QueuedLine
  <1>2. CASE FreeSlots(p) # {}
    <2>1. PICK f : f = FirstFree(p)
      OBVIOUS
    <2>2. f \in 1..Len(p.conns) /\ pool' = Started(p, f, job)
      BY <1>2, <2>1, FirstFreeIsFree DEF Get
    <2>3. pool'.waiting = p.waiting /\ Sent(pool') = Sent(p) \union {job}
      BY <2>2, StartedLine
    <2>4. QED
      BY <1>2, <2>3 DEF InLine
  <1>3. QED
    BY <1>1, <1>2

\* A transaction call that is not lost takes a free connection while nobody
\* waits.
LEMMA CallLine ==
  ASSUME NEW p, PoolOK(p), lost = {} => InLine(p), NEW job \in Jobs, NEW rest,
         Call(p, job, rest), lost' = {}
  PROVE  /\ lost = {} /\ p.waiting = <<>> /\ pool'.waiting = <<>>
         /\ Sent(pool') = Sent(p) \union {job}
  <1>1. PICK f : f = FirstFree(p)
    OBVIOUS
  <1>2. FreeSlots(p) # {} /\ pool' = Occupied(p, f, job) /\ lost = {}
    BY <1>1 DEF Call
  <1>3. f \in 1..Len(p.conns)
    BY <1>1, <1>2, FirstFreeIsFree
  <1>4. pool'.waiting = p.waiting /\ Sent(pool') = Sent(p) \union {job}
    BY <1>2, <1>3, OccupiedLine
  <1>5. QED
    BY <1>2, <1>4 DEF InLine

\* A connection that comes free goes to the head of the line.
LEMMA ServeLine ==
  ASSUME NEW p, PoolOK(p), InLine(p), Callbacks(p), NEW o \in 1..Len(p.conns),
         NEW q, q = Serve(p, o)
  PROVE  /\ InLine(q)
         /\ \/ /\ p.waiting = <<>> /\ q.waiting = <<>> /\ Sent(q) = Sent(p)
            \/ /\ p.waiting # <<>> /\ q.waiting = Tail(p.waiting)
               /\ Sent(q) = Sent(p) \union {Head(p.waiting)}
               /\ FreeSlots(q) = {}
  <1> DEFINE rest == [p EXCEPT !.waiting = Tail(@)]
  <1>1. CASE p.waiting = <<>>
    <2>1. q = Freed(p, o)
      BY <1>1 DEF Serve
    <2>2. QED
      BY <1>1, <2>1, FreedLine DEF InLine
  <1>2. CASE p.waiting # <<>>
    <2>1. /\ PoolOK(rest) /\ rest.slots = p.slots /\ rest.conns = p.conns
          /\ Head(p.waiting) = p.waiting[1] /\ Len(p.waiting) \in Nat \ {0}
          /\ Head(p.waiting) \in Waiters
      BY <1>2, DequeuedChange
    <2>2. rest.waiting = Tail(p.waiting)
      BY DEF PoolOK, Pool
    <2>3. Head(p.waiting) # NoCallback
      BY <2>1 DEF Callbacks
    <2>4. Head(p.waiting) \in Jobs
      BY <2>1, <2>3 DEF Waiters
    <2>5. q = Occupied(rest, o, Head(p.waiting))
      BY <1>2, <2>3 DEF Serve
    <2>6. FreeSlots(rest) = {} /\ Sent(rest) = Sent(p)
      BY <1>2, <2>1 DEF InLine, FreeSlots, Sent
    <2> HIDE DEF rest
    <2>7. /\ q.waiting = rest.waiting
          /\ Sent(q) = Sent(rest) \union {Head(p.waiting)}
          /\ FreeSlots(q) = {}
      BY <2>1, <2>4, <2>5, <2>6, OccupiedLine
    <2>8. QED
      BY <1>2, <2>2, <2>6, <2>7 DEF InLine
  <1>3. QED
    BY <1>1, <1>2

\* What may end in a step.
Endings == {{}} \union {{job} : job \in Sent(pool)}

\* A step in which nobody comes.
LEMMA NobodyComes ==
  ASSUME PoolOK(pool), NEW done \in Endings,
         \/ /\ pool'.waiting = pool.waiting /\ Sent(pool)' = Sent(pool) \ done
         \/ /\ pool.waiting # <<>> /\ pool'.waiting = Tail(pool.waiting)
            /\ Sent(pool)' = (Sent(pool) \ done) \union {Head(pool.waiting)}
  PROVE  Line!Next
  <1>1. pool.waiting \o <<>> = pool.waiting
    BY ConcatEmptySeq DEF PoolOK, Pool
  <1>2. Len(<<>>) = 0
    BY EmptySeq
  <1>3. Line!Move(done, <<>>)
    BY <1>1, <1>2 DEF Line!Move
  <1>4. QED
    BY <1>3 DEF Line!Next, Endings

\* A step in which a request comes that is nowhere in the pool: it goes to the
\* end of the line, whose head may start, and it may itself be that head.
LEMMA OneComes ==
  ASSUME PoolOK(pool), NEW done \in Endings, NEW job \in Jobs,
         job \notin Sent(pool) \ done,
         \A i \in 1..Len(pool.waiting) : pool.waiting[i] # job,
         \/ /\ pool'.waiting = Append(pool.waiting, job)
            /\ Sent(pool)' = Sent(pool) \ done
         \/ /\ pool.waiting = <<>> /\ pool'.waiting = <<>>
            /\ Sent(pool)' = (Sent(pool) \ done) \union {job}
         \/ /\ pool.waiting # <<>>
            /\ pool'.waiting = Append(Tail(pool.waiting), job)
            /\ Sent(pool)' = (Sent(pool) \ done) \union {Head(pool.waiting)}
  PROVE  Line!Next
  <1> DEFINE l    == pool.waiting
             line == l \o <<job>>
  <1>1. l \in Seq(Waiters) /\ job \in Waiters
    BY DEF PoolOK, Pool, Waiters
  <1>2. line = Append(l, job)
    BY <1>1, AppendIsConcat
  <1>3. /\ Head(line) = IF l = <<>> THEN job ELSE Head(l)
        /\ Tail(line) = IF l = <<>> THEN <<>> ELSE Append(Tail(l), job)
    BY <1>1, <1>2, HeadTailAppend
  <1>4. line # <<>>
    BY <1>1, <1>2, AppendProperties, EmptySeq
  <1>5. /\ Len(<<job>>) = 1 /\ <<job>>[1] = job
    OBVIOUS
  <1> DEFINE new == <<job>>
             rest == Sent(pool) \ done
  <1>6. \A i \in 1..Len(new) : new[i] \notin rest \union Line!Waiting
    <2>1. job \notin Line!Waiting
      BY DEF Line!Waiting
    <2>2. QED
      BY <1>5, <2>1
  <1>7. \/ pool'.waiting = line /\ Sent(pool)' = rest
        \/ /\ line # <<>>
           /\ pool'.waiting = Tail(line)
           /\ Sent(pool)' = rest \union {Head(line)}
    <2> HIDE DEF line
    <2>1. QED
      BY <1>2, <1>3, <1>4
  <1>8. Line!Move(done, new)
    BY <1>6, <1>7 DEF Line!Move
  <1>9. QED
    BY <1>8 DEF Line!Next, Endings

\* What is shown of a step that loses no transaction call.
Orderly == InLine(pool') /\ [Line!Next]_<<pool.waiting, Sent(pool)>>

\* A request of the pool is sent or waits.
LEMMA InPoolPlaces ==
  ASSUME NEW p, PoolOK(p), NEW job \in Jobs, job \notin InPool(p)
  PROVE  job \notin Sent(p) /\ \A i \in 1..Len(p.waiting) : p.waiting[i] # job
  BY DEF InPool, Sent

\* A caller whose request is nowhere in the pool stands last, or is sent when
\* nobody waits.
LEMMA GetInLine ==
  ASSUME IInv, InLine(pool), NEW job \in Jobs, Absent(pool, job.client), Get(pool, job)
  PROVE  Orderly
  <1>1. PoolOK(pool) /\ job \notin InPool(pool)
    BY DEF IInv, TypeOK, Absent
  <1>2. job \notin Sent(pool) /\ \A i \in 1..Len(pool.waiting) : pool.waiting[i] # job
    BY <1>1, InPoolPlaces
  <1>3. \/ /\ FreeSlots(pool') = {}
           /\ pool'.waiting = Append(pool.waiting, job) /\ Sent(pool') = Sent(pool)
        \/ /\ pool.waiting = <<>> /\ pool'.waiting = <<>>
           /\ Sent(pool') = Sent(pool) \union {job}
    BY <1>1, GetLine
  <1>4. Sent(pool)' = Sent(pool')
    BY DEF Sent
  <1>5. {} \in Endings /\ Sent(pool) \ {} = Sent(pool)
    BY DEF Endings
  <1>6. Line!Next
    BY <1>1, <1>2, <1>3, <1>4, <1>5, OneComes
  <1>7. InLine(pool')
    BY <1>3 DEF InLine
  <1>8. QED
    BY <1>6, <1>7 DEF Orderly

\* A transaction call that is not lost is sent when nobody waits.
LEMMA CallInLine ==
  ASSUME IInv, lost = {} => InLine(pool), NEW job \in Jobs, Absent(pool, job.client),
         NEW rest, Call(pool, job, rest), lost' = {}
  PROVE  lost = {} /\ Orderly
  <1>1. PoolOK(pool) /\ job \notin InPool(pool)
    BY DEF IInv, TypeOK, Absent
  <1>2. job \notin Sent(pool) /\ \A i \in 1..Len(pool.waiting) : pool.waiting[i] # job
    BY <1>1, InPoolPlaces
  <1>3. /\ lost = {} /\ pool.waiting = <<>> /\ pool'.waiting = <<>>
        /\ Sent(pool') = Sent(pool) \union {job}
    BY <1>1, CallLine
  <1>4. Sent(pool)' = Sent(pool')
    BY DEF Sent
  <1>5. {} \in Endings /\ Sent(pool) \ {} = Sent(pool)
    BY DEF Endings
  <1>6. Line!Next
    BY <1>1, <1>2, <1>3, <1>4, <1>5, OneComes
  <1>7. QED
    BY <1>3, <1>6 DEF Orderly, InLine

\* A connection that comes free goes to the head of the line.
LEMMA ServeInLine ==
  ASSUME PoolOK(pool), NEW p, PoolOK(p), InLine(p), Callbacks(p),
         p.waiting = pool.waiting, NEW done \in Endings, Sent(p) = Sent(pool) \ done,
         NEW o \in 1..Len(p.conns), pool' = Serve(p, o)
  PROVE  Orderly
  <1>1. /\ InLine(pool')
        /\ \/ /\ p.waiting = <<>> /\ pool'.waiting = <<>> /\ Sent(pool') = Sent(p)
           \/ /\ p.waiting # <<>> /\ pool'.waiting = Tail(p.waiting)
              /\ Sent(pool') = Sent(p) \union {Head(p.waiting)}
    BY ServeLine
  <1>2. Sent(pool)' = Sent(pool')
    BY DEF Sent
  <1>3. Line!Next
    BY <1>1, <1>2, NobodyComes
  <1>4. QED
    BY <1>1, <1>3 DEF Orderly

\* A request that ends lets the head of the line start.
LEMMA ReleaseInLine ==
  ASSUME IInv, Callbacks(pool), InLine(pool), NEW o \in 1..Len(pool.conns),
         NEW ok, Ends(o, ok),
         NEW job \in pool.conns[o].running, pool' = Release(pool, o, job)
  PROVE  Orderly
  <1>1. PICK t, x : t = taking /\ x = releasing
    OBVIOUS
  <1>2. Sound(pool, t, x, 0) /\ PoolOK(pool) /\ (o = t => Dead(pool, o))
    BY <1>1, EndsWhere DEF IInv, TypeOK
  <1>3. PICK p : p = Completed(pool, o, job)
    OBVIOUS
  <1>4. Sound(p, t, x, o) /\ o # 0
    BY <1>2, <1>3, CompletedSound
  <1>5. /\ p.waiting = pool.waiting /\ Sent(p) = Sent(pool) \ {job}
        /\ FreeSlots(p) = FreeSlots(pool)
    BY <1>2, <1>3, CompletedLine
  <1>6. /\ PoolOK(p) /\ o \in 1..Len(p.conns) /\ InLine(p) /\ Callbacks(p)
        /\ pool' = Serve(p, o)
    BY <1>3, <1>4, <1>5 DEF Sound, InLine, Callbacks, Release
  <1>7. {job} \in Endings
    BY DEF Endings, Sent
  <1>8. QED
    BY <1>2, <1>5, <1>6, <1>7, ServeInLine

\* Begin ends and the batch's next request comes, before the connection is
\* released.
LEMMA FinishBeginInLine ==
  ASSUME IInv, lost = {} => Callbacks(pool) /\ InLine(pool),
         NEW o \in 1..Len(pool.conns), NEW ok \in BOOLEAN, FinishBegin(o, ok), lost' = {}
  PROVE  lost = {} /\ Orderly
  <1>1. PICK job \in pool.conns[o].running :
          /\ job.op = "begin"
          /\ \/ /\ Get(Completed(pool, o, job), Job(job.client, "sql"))
                /\ UNCHANGED lost
             \/ Call(Completed(pool, o, job), Job(job.client, "commit"), ready)
    BY DEF FinishBegin
  <1>2. PICK t, x : t = taking /\ x = releasing
    OBVIOUS
  <1>3. Sound(pool, t, x, 0) /\ PoolOK(pool) /\ (o = t => Dead(pool, o))
    <2>1. Ends(o, ok)
      BY DEF FinishBegin
    <2>2. QED
      BY <1>2, <2>1, EndsWhere DEF IInv, TypeOK
  <1>4. PICK p : p = Completed(pool, o, job)
    OBVIOUS
  <1>5. Sound(p, t, x, o) /\ job \in InPool(pool) /\ Absent(p, job.client)
    BY <1>3, <1>4, CompletedSound
  <1>6. /\ p.waiting = pool.waiting /\ Sent(p) = Sent(pool) \ {job}
        /\ FreeSlots(p) = FreeSlots(pool)
    BY <1>3, <1>4, CompletedLine
  <1>7. PoolOK(p) /\ job \in Jobs /\ job.client \in Batches
    BY <1>1, <1>5 DEF Sound, InPool, Jobs
  <1>8. lost = {} => InLine(p)
    BY <1>6 DEF InLine
  <1>9. PICK sql, commit \in Jobs :
          /\ sql = Job(job.client, "sql") /\ sql.client = job.client
          /\ commit = Job(job.client, "commit") /\ commit.client = job.client
    BY <1>7, BatchJobs DEF Calls
  <1>10. lost = {} /\ \E next \in {sql, commit} :
           \/ /\ FreeSlots(pool') = {}
              /\ pool'.waiting = Append(p.waiting, next) /\ Sent(pool') = Sent(p)
           \/ /\ p.waiting = <<>> /\ pool'.waiting = <<>>
              /\ Sent(pool') = Sent(p) \union {next}
    <2>1. CASE Get(p, sql) /\ UNCHANGED lost
      <3>1. lost = {} /\ InLine(p)
        BY <1>8, <2>1
      <3>2. QED
        BY <1>7, <2>1, <3>1, GetLine
    <2>2. CASE Call(p, commit, ready)
      BY <1>7, <1>8, <2>2, CallLine
    <2>3. QED
      BY <1>1, <1>4, <1>9, <2>1, <2>2
  <1>11. PICK next \in {sql, commit} :
           \/ /\ FreeSlots(pool') = {}
              /\ pool'.waiting = Append(p.waiting, next) /\ Sent(pool') = Sent(p)
           \/ /\ p.waiting = <<>> /\ pool'.waiting = <<>>
              /\ Sent(pool') = Sent(p) \union {next}
    BY <1>10
  <1>12. next \in Jobs /\ next \notin InPool(p)
    BY <1>5, <1>9 DEF Absent
  <1>13. next \notin Sent(p) /\ \A i \in 1..Len(p.waiting) : p.waiting[i] # next
    BY <1>7, <1>12, InPoolPlaces
  <1>14. Sent(pool)' = Sent(pool') /\ {job} \in Endings
    BY DEF Sent, Endings
  <1>15. Line!Next
    BY <1>3, <1>6, <1>11, <1>12, <1>13, <1>14, OneComes
  <1>16. InLine(pool')
    BY <1>11 DEF InLine
  <1>17. QED
    BY <1>10, <1>15, <1>16 DEF Orderly

\* beginTransaction's connection goes to the head of the line.
LEMMA ReleaseAfterBeginInLine ==
  ASSUME IInv, Callbacks(pool), InLine(pool), ReleaseAfterBegin
  PROVE  Orderly
  <1>1. PICK x : x = releasing /\ pool' = Serve(pool, x)
    BY DEF ReleaseAfterBegin
  <1>2. PoolOK(pool) /\ x \in 1..Len(pool.conns)
    BY <1>1 DEF IInv, TypeOK, Sound, ReleaseAfterBegin, None
  <1>3. {} \in Endings /\ Sent(pool) \ {} = Sent(pool)
    BY DEF Endings
  <1>4. QED
    BY <1>1, <1>2, <1>3, ServeInLine

\* A connection that has connected goes to the head of the line.
LEMMA ConnectInLine ==
  ASSUME IInv, Callbacks(pool), InLine(pool), NEW o \in 1..Len(pool.conns), Connect(o)
  PROVE  Orderly
  <1>1. PICK p : p = Connected(pool, o)
    OBVIOUS
  <1>2. PoolOK(pool) /\ pool' = Serve(p, o)
    BY <1>1 DEF IInv, TypeOK, Connect
  <1>3. /\ PoolOK(p) /\ p.slots = pool.slots /\ p.waiting = pool.waiting
        /\ Len(p.conns) = Len(pool.conns)
        /\ \A u \in 1..Len(pool.conns) :
             /\ p.conns[u].status = pool.conns[u].status
             /\ p.conns[u].running = pool.conns[u].running
    <2>1. "open" \in Links /\ p = WithLink(pool, o, "open")
      BY <1>1 DEF Links, Connected, WithLink
    <2>2. QED
      BY <1>2, <2>1, LinkChanged
  <1>4. Sent(p) = Sent(pool)
    BY <1>3 DEF Sent
  <1>5. FreeSlots(p) = FreeSlots(pool)
    <2>1. \A i \in 1..Len(pool.slots) :
            pool.slots[i] # Hole => pool.slots[i] \in 1..Len(pool.conns)
      BY <1>2, PoolElements DEF Hole
    <2>2. QED
      BY <1>3, <2>1 DEF FreeSlots
  <1>6. InLine(p) /\ Callbacks(p)
    BY <1>3, <1>5 DEF InLine, Callbacks
  <1>7. {} \in Endings /\ Sent(p) = Sent(pool) \ {}
    BY <1>4 DEF Endings
  <1>8. QED
    BY <1>2, <1>3, <1>6, <1>7, ServeInLine

\* Links and holes are not part of the line: it may only lose free places.
LEMMA LinksInLine ==
  ASSUME PoolOK(pool), InLine(pool),
         pool'.waiting = pool.waiting, Len(pool'.conns) = Len(pool.conns),
         \A u \in 1..Len(pool.conns) :
           /\ pool'.conns[u].status = pool.conns[u].status
           /\ pool'.conns[u].running = pool.conns[u].running,
         Len(pool'.slots) = Len(pool.slots),
         \A i \in 1..Len(pool.slots) :
           pool'.slots[i] = pool.slots[i] \/ pool'.slots[i] = Hole
  PROVE  Orderly
  <1>1. Sent(pool)' = Sent(pool)
    BY DEF Sent
  <1>2. \A i \in 1..Len(pool.slots) :
          pool.slots[i] # Hole => pool.slots[i] \in 1..Len(pool.conns)
    BY PoolElements DEF Hole
  <1>3. FreeSlots(pool') \subseteq FreeSlots(pool)
    BY <1>2 DEF FreeSlots
  <1>4. QED
    BY <1>1, <1>3 DEF Orderly, InLine

\* A connection that is closed leaves the line as it is.
LEMMA ClosedInLine ==
  ASSUME IInv, InLine(pool), NEW o \in 1..Len(pool.conns), pool' = Closed(pool, o)
  PROVE  Orderly
  <1>1. PoolOK(pool) /\ Len(pool.slots) > 0
    BY Slots
  <1>2. /\ Len(pool'.slots) = Len(pool.slots) /\ pool'.waiting = pool.waiting
        /\ Len(pool'.conns) = Len(pool.conns)
        /\ pool'.conns[o].status = pool.conns[o].status
        /\ pool'.conns[o].running = pool.conns[o].running
        /\ \A u \in 1..Len(pool.conns) : u # o => pool'.conns[u] = pool.conns[u]
        /\ \A i \in 1..Len(pool.slots) :
             pool'.slots[i] = pool.slots[i] \/ pool'.slots[i] = Hole
    BY <1>1, ClosedChanged
  <1>3. \A u \in 1..Len(pool.conns) :
          /\ pool'.conns[u].status = pool.conns[u].status
          /\ pool'.conns[u].running = pool.conns[u].running
    BY <1>2
  <1>4. QED
    BY <1>1, <1>2, <1>3, LinksInLine

\* So does one whose request could not be cancelled.
LEMMA CancelTimeoutInLine ==
  ASSUME IInv, InLine(pool), NEW o \in 1..Len(pool.conns), CancelTimeout(o)
  PROVE  Orderly
  <1>1. PoolOK(pool) /\ pool' = WithLink(pool, o, "broken")
        /\ "broken" \in Links
    BY DEF IInv, TypeOK, CancelTimeout, Links, WithLink
  <1>2. /\ pool'.slots = pool.slots /\ pool'.waiting = pool.waiting
        /\ Len(pool'.conns) = Len(pool.conns)
        /\ pool'.conns[o].status = pool.conns[o].status
        /\ pool'.conns[o].running = pool.conns[o].running
        /\ \A u \in 1..Len(pool.conns) : u # o => pool'.conns[u] = pool.conns[u]
    BY <1>1, LinkChanged
  <1>3. \A u \in 1..Len(pool.conns) :
          /\ pool'.conns[u].status = pool.conns[u].status
          /\ pool'.conns[u].running = pool.conns[u].running
    BY <1>2
  <1>4. QED
    BY <1>1, <1>2, <1>3, LinksInLine

\* What leaves the pool alone leaves the line alone.
LEMMA UnchangedInLine ==
  ASSUME InLine(pool), UNCHANGED pool
  PROVE  Orderly
  BY DEF Orderly, InLine, Sent, FreeSlots

\* A connection that getConnection marks is not free any longer.
LEMMA MarkBusyInLine ==
  ASSUME IInv, InLine(pool), MarkBusy
  PROVE  Orderly
  <1>1. PICK t : t = taking /\ pool' = Marked(pool, t)
    BY DEF MarkBusy
  <1>2. PoolOK(pool) /\ t \in 1..Len(pool.conns)
    <2>1. PoolOK(pool) /\ t \in 0..Len(pool.conns) /\ t # 0
      BY <1>1 DEF IInv, TypeOK, MarkBusy, None
    <2>2. QED
      BY <2>1, PoolElements
  <1>3. /\ pool'.waiting = pool.waiting /\ Sent(pool') = Sent(pool)
        /\ FreeSlots(pool') \subseteq FreeSlots(pool)
    BY <1>1, <1>2, MarkedLine
  <1>4. Sent(pool)' = Sent(pool')
    BY DEF Sent
  <1>5. QED
    BY <1>3, <1>4 DEF Orderly, InLine

\* A query comes, or a batch's begin.
LEMMA ClientsInLine ==
  ASSUME IInv, lost = {} => InLine(pool), lost' = {}
  PROVE  /\ \A q \in Queries : Query(q) => lost = {} /\ Orderly
         /\ \A b \in Batches : RunBatch(b) => lost = {} /\ Orderly
  <1>1. ASSUME NEW q \in Queries, Query(q) PROVE lost = {} /\ Orderly
    <2>1. PICK job \in Jobs : job = Job(q, "query") /\ job.client = q
      <3>1. Job(q, "query") \in Jobs /\ Job(q, "query").client = q
        BY DEF Job, Jobs
      <3>2. QED
        BY <3>1
    <2>2. q \in Clients /\ phase[q] = "idle" /\ UNCHANGED lost /\ Get(pool, job)
      BY <1>1, <2>1 DEF Query, Clients
    <2>3. Absent(pool, job.client)
      BY <2>1, <2>2 DEF IInv, IdleAbsent
    <2>4. QED
      BY <2>2, <2>3, GetInLine
  <1>2. ASSUME NEW b \in Batches, RunBatch(b) PROVE lost = {} /\ Orderly
    <2>1. PICK job \in Jobs : job = Job(b, "begin") /\ job.client = b
      BY BatchJobs DEF Calls
    <2>2. b \in Clients /\ phase[b] = "idle" /\ Call(pool, job, ready)
      BY <1>2, <2>1 DEF RunBatch, Clients
    <2>3. Absent(pool, job.client)
      BY <2>1, <2>2 DEF IInv, IdleAbsent
    <2>4. QED
      BY <2>2, <2>3, CallInLine
  <1>3. QED
    BY <1>1, <1>2

\* A batch goes on.
LEMMA ContinueInLine ==
  ASSUME IInv, lost = {} => InLine(pool), Continue, lost' = {}
  PROVE  lost = {} /\ Orderly
  <1>1. PICK c : c = Head(ready).job.client
    OBVIOUS
  <1>2. ready # <<>>
    BY DEF Continue
  <1>3. \/ UNCHANGED <<pool, lost>>
        \/ /\ Head(ready).job.op = "sql"
           /\ \/ Get(pool, Job(c, "sql")) /\ UNCHANGED lost
              \/ Call(pool, Job(c, "commit"), Tail(ready))
              \/ Call(pool, Job(c, "rollback"), Tail(ready))
    BY <1>1 DEF Continue
  <1>4. CASE UNCHANGED <<pool, lost>>
    BY <1>4, UnchangedInLine
  <1>5. CASE Head(ready).job.op = "sql"
    <2>1. c \in Batches /\ Absent(pool, c)
      BY <1>1, <1>2, <1>5, HeadReady
    <2>2. PICK sql, commit, rollback \in Jobs :
            /\ sql = Job(c, "sql") /\ sql.client = c
            /\ commit = Job(c, "commit") /\ commit.client = c
            /\ rollback = Job(c, "rollback") /\ rollback.client = c
      BY <2>1, BatchJobs DEF Calls
    <2>3. CASE Get(pool, sql) /\ UNCHANGED lost
      <3>1. lost = {} /\ InLine(pool)
        BY <2>3
      <3>2. Absent(pool, sql.client)
        BY <2>1, <2>2
      <3>3. QED
        BY <2>3, <3>1, <3>2, GetInLine
    <2>4. CASE Call(pool, commit, Tail(ready))
      <3>1. Absent(pool, commit.client)
        BY <2>1, <2>2
      <3>2. QED
        BY <2>4, <3>1, CallInLine
    <2>5. CASE Call(pool, rollback, Tail(ready))
      <3>1. Absent(pool, rollback.client)
        BY <2>1, <2>2
      <3>2. QED
        BY <2>5, <3>1, CallInLine
    <2>6. QED
      BY <1>3, <1>4, <2>2, <2>3, <2>4, <2>5
  <1>6. QED
    BY <1>3, <1>4, <1>5

\* A request ends.
LEMMA FinishInLine ==
  ASSUME IInv, lost = {} => Callbacks(pool) /\ InLine(pool),
         NEW o \in 1..Len(pool.conns), Finish(o), lost' = {}
  PROVE  lost = {} /\ Orderly
  <1>1. PICK ok \in BOOLEAN :
          \/ FinishQuery(o, ok) \/ FinishBegin(o, ok)
          \/ FinishStatement(o, ok) \/ FinishTransaction(o, ok)
    BY DEF Finish
  <1>2. CASE FinishBegin(o, ok)
    BY <1>2, FinishBeginInLine
  <1>3. CASE FinishQuery(o, ok) \/ FinishStatement(o, ok) \/ FinishTransaction(o, ok)
    <2>1. PICK job \in pool.conns[o].running : pool' = Release(pool, o, job)
      BY <1>3 DEF FinishQuery, FinishStatement, FinishTransaction
    <2>2. Ends(o, ok) /\ UNCHANGED lost
      BY <1>3 DEF FinishQuery, FinishStatement, FinishTransaction
    <2>3. lost = {} /\ Callbacks(pool) /\ InLine(pool)
      BY <2>2
    <2>4. QED
      BY <2>1, <2>2, <2>3, ReleaseInLine
  <1>4. QED
    BY <1>1, <1>2, <1>3

\* Every step keeps the line until a transaction call is lost.
LEMMA NextInLine ==
  ASSUME IInv, lost = {} => Calm /\ InLine(pool), [Next]_vars, lost' = {}
  PROVE  Orderly
  <1>1. lost = {} => Callbacks(pool) /\ InLine(pool)
    BY DEF Calm, Tended
  <1>2. ASSUME NEW o \in 1..Len(pool.conns), Finish(o) PROVE Orderly
    BY <1>1, <1>2, FinishInLine
  <1>3. CASE (\E q \in Queries : Query(q)) \/ (\E b \in Batches : RunBatch(b))
    BY <1>1, <1>3, ClientsInLine
  <1>4. CASE Continue
    BY <1>1, <1>4, ContinueInLine
  <1>5. ASSUME UNCHANGED lost PROVE InLine(pool) /\ Callbacks(pool)
    BY <1>1, <1>5
  <1>6. ASSUME NEW o \in 1..Len(pool.conns),
               \/ Connect(o) \/ ConnectFails(o) \/ Lose(o)
               \/ CancelTimeout(o) \/ Notice(o)
        PROVE  Orderly
    <2>1. UNCHANGED lost
      BY <1>6 DEF Connect, ConnectFails, Lose, CancelTimeout, Notice
    <2>2. InLine(pool) /\ Callbacks(pool)
      BY <1>5, <2>1
    <2>3. CASE Connect(o)
      BY <2>2, <2>3, ConnectInLine
    <2>4. CASE ConnectFails(o)
      BY <2>2, <2>4, UnchangedInLine DEF ConnectFails
    <2>5. CASE Lose(o)
      BY <2>2, <2>5, ClosedInLine DEF Lose
    <2>6. CASE CancelTimeout(o)
      BY <2>2, <2>6, CancelTimeoutInLine
    <2>7. CASE Notice(o)
      BY <2>2, <2>7, ClosedInLine DEF Notice
    <2>8. QED
      BY <1>6, <2>3, <2>4, <2>5, <2>6, <2>7
  <1>7. CASE MarkBusy \/ ReleaseAfterBegin \/ End \/ UNCHANGED vars
    <2>1. UNCHANGED lost
      BY <1>7 DEF MarkBusy, ReleaseAfterBegin, End, vars
    <2>2. InLine(pool) /\ Callbacks(pool)
      BY <1>5, <2>1
    <2>3. CASE MarkBusy
      BY <2>2, <2>3, MarkBusyInLine
    <2>4. CASE ReleaseAfterBegin
      BY <2>2, <2>4, ReleaseAfterBeginInLine
    <2>5. CASE End \/ UNCHANGED vars
      BY <2>2, <2>5, UnchangedInLine DEF End, vars
    <2>6. QED
      BY <1>7, <2>3, <2>4, <2>5
  <1>8. QED
    BY <1>2, <1>3, <1>4, <1>6, <1>7 DEF Next, Proceed

\* The pool begins with nobody in the line.
LEMMA InitInLine ==
  ASSUME Init
  PROVE  InLine(pool) /\ Line!Init
  <1>1. pool.waiting = <<>>
    BY DEF Init, Fill
  <1>2. Sent(pool) = {}
    <2>1. pool.conns = Append(<<>>, NewConn)
      <3>1. Len(<<>>) = 0
        BY EmptySeq
      <3>2. QED
        BY <3>1 DEF Init, Fill
    <2>2. /\ Len(pool.conns) = 1 /\ pool.conns[1] = NewConn
      BY <2>1
    <2>3. QED
      BY <2>2 DEF Sent, NewConn
  <1>3. QED
    BY <1>1, <1>2 DEF InLine, Line!Init

\* The line is kept in every state until a transaction call is lost.
LEMMA AlwaysInLine ==
  Spec => [](IInv /\ (lost = {} => Calm) /\ (lost = {} => InLine(pool)))
  <1>1. Init => (lost = {} => InLine(pool))
    BY InitInLine
  <1>2. /\ IInv /\ (lost = {} => Calm) /\ (lost = {} => InLine(pool))
        /\ [Next]_vars
        => (lost = {} => InLine(pool))'
    BY NextInLine DEF Orderly
  <1>3. QED
    BY <1>1, <1>2, Invariance, PTL DEF Spec

\* Connections are given out in the order in which callers ask for them, and
\* nobody who finds one free overtakes a waiter, whatever fails: every step is
\* one of a queue in front of exclusive servers, until a transaction call is
\* lost.
THEOREM ServesInOrder == Spec => ServedInOrder
  <1>1. Init => Line!Init
    BY InitInLine
  <1>2. /\ IInv /\ (lost = {} => Calm) /\ (lost = {} => InLine(pool))
        /\ [Next]_vars
        => [lost' = {} => [Line!Next]_<<pool.waiting, Sent(pool)>>]_vars
    BY NextInLine DEF Orderly
  <1>3. QED
    BY <1>1, <1>2, AlwaysInLine, PTL DEF Spec, ServedInOrder

\* Plain queries make no transaction call: for them alone the pool is that
\* queue, without exception.
THEOREM QueriesQueueUp ==
  ASSUME Batches = {}
  PROVE  Spec => Line!Spec
  <1>1. IInv => lost = {}
    BY DEF IInv, TypeOK
  <1>2. Init => Line!Init
    BY InitInLine
  <1>3. /\ IInv /\ (lost = {} => Calm) /\ (lost = {} => InLine(pool))
        /\ [Next]_vars /\ IInv'
        => [Line!Next]_<<pool.waiting, Sent(pool)>>
    <2>1. IInv' => lost' = {}
      BY DEF IInv, TypeOK
    <2>2. QED
      BY <2>1, NextInLine DEF Orderly
  <1>4. QED
    BY <1>2, <1>3, AlwaysInLine, PTL DEF Spec, Line!Spec
=============
