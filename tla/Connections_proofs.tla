------------------------- MODULE Connections_proofs -------------------------
(***************************************************************************)
(* Proofs about Connections, for every set of calls, sessions and schemas. *)
(***************************************************************************)
EXTENDS Connections, SequenceTheorems, TLAPS

-----------------------------------------------------------------------------
(* The inductive invariant, as a property of the manager's state.          *)

Managers ==
  [stored : [Keys -> Calls \union {None}], conns : [Calls -> Conn],
   calls : [Calls -> Call], tunnels : [Calls -> Tunnels],
   mark : Calls \union {None}]

\* A connection in the table was made under the key it is stored at, by a
\* call that has started, and is not ended.
Kept(m) ==
  \A k \in Keys :
    m.stored[k] # None =>
      /\ ~m.conns[m.stored[k]].ended
      /\ m.calls[m.stored[k]].key = k
      /\ m.calls[m.stored[k]].at # "idle"

\* Whoever has a ping in the queue of the connection that w has made asks for
\* the key w asked for.
Asks(cs, w, queue) ==
  \A i \in 1..Len(queue) :
    /\ cs[w].at # "idle"
    /\ cs[queue[i].call].key = cs[w].key
    /\ cs[queue[i].call].at # "idle"
SameKey(m) == \A w \in Calls : Asks(m.calls, w, m.conns[w].queue)

OK(m) == m \in Managers /\ Kept(m) /\ SameKey(m)

Ats == {"pinging", "port", "tunnel", "connecting", "firstPing", "done", "thrown"}

-----------------------------------------------------------------------------
(* What the manager's operators do.                                        *)

\* What is on its way to a connection comes from calls.
LEMMA PingsCalls ==
  ASSUME NEW m \in Managers, NEW w \in Calls, NEW i \in 1..Len(m.conns[w].queue)
  PROVE  m.conns[w].queue[i].call \in Calls
  <1>1. m.conns[w].queue \in Seq(Ping)
    <2>1. m.conns[w] \in Conn
      BY DEF Managers
    <2> QED
      BY <2>1 DEF Conn
  <1>2. m.conns[w].queue[i] \in Ping
    BY <1>1, ElementOfSeq
  <1> QED
    BY <1>2 DEF Ping

\* The invariant is kept when calls only move on and keep their keys, the
\* table and the queues are as they were, and connections are ended no more.
LEMMA SameConns ==
  ASSUME NEW m, OK(m), NEW n \in Managers,
         n.stored = m.stored, n.conns = m.conns,
         \A d \in Calls : /\ n.calls[d].key = m.calls[d].key
                          /\ m.calls[d].at # "idle" => n.calls[d].at # "idle"
  PROVE  OK(n)
  <1>1. Kept(n)
    <2> SUFFICES ASSUME NEW k \in Keys, n.stored[k] # None
                 PROVE  /\ ~n.conns[n.stored[k]].ended
                        /\ n.calls[n.stored[k]].key = k
                        /\ n.calls[n.stored[k]].at # "idle"
      BY DEF Kept
    <2>1. m.stored[k] \in Calls
      BY DEF OK, Managers
    <2> QED
      BY <2>1 DEF OK, Kept
  <1>2. SameKey(n)
    <2> SUFFICES ASSUME NEW w \in Calls
                 PROVE  Asks(n.calls, w, m.conns[w].queue)
      BY DEF SameKey
    <2> SUFFICES ASSUME NEW i \in 1..Len(m.conns[w].queue)
                 PROVE  /\ n.calls[w].at # "idle"
                        /\ n.calls[m.conns[w].queue[i].call].key = n.calls[w].key
                        /\ n.calls[m.conns[w].queue[i].call].at # "idle"
      BY DEF Asks
    <2>1. m.conns[w].queue[i].call \in Calls
      BY PingsCalls DEF OK
    <2>2. /\ m.calls[w].at # "idle"
          /\ m.calls[m.conns[w].queue[i].call].key = m.calls[w].key
          /\ m.calls[m.conns[w].queue[i].call].at # "idle"
      BY DEF OK, SameKey, Asks
    <2> QED
      BY <2>1, <2>2
  <1> QED
    BY <1>1, <1>2 DEF OK

\* Moving a call on keeps the invariant.
LEMMA GoesOK ==
  ASSUME NEW m, OK(m), NEW c \in Calls, NEW at \in Ats
  PROVE  /\ OK(Goes(m, c, at))
         /\ Goes(m, c, at).stored = m.stored
         /\ Goes(m, c, at).conns = m.conns
         /\ Goes(m, c, at).calls[c].at = at
         /\ \A d \in Calls : Goes(m, c, at).calls[d].key = m.calls[d].key
  <1> DEFINE call == [m.calls[c] EXCEPT !.at = at]
             new  == [m.calls EXCEPT ![c] = call]
             n    == Goes(m, c, at)
  <1>1. call \in Call /\ call.at = at /\ call.key = m.calls[c].key
    <2>1. m.calls[c] \in Call
      BY DEF OK, Managers
    <2> QED
      BY <2>1 DEF Call, Ats
  <1>2. /\ new \in [Calls -> Call] /\ new[c].at = at
        /\ \A d \in Calls : /\ new[d].key = m.calls[d].key
                            /\ m.calls[d].at # "idle" => new[d].at # "idle"
    <2>1. m.calls \in [Calls -> Call]
      BY DEF OK, Managers
    <2> HIDE DEF call
    <2> QED
      BY <1>1, <2>1 DEF Ats
  <1>3. n = [m EXCEPT !.calls = new]
    BY DEF Goes
  <1>4. n \in Managers /\ n.stored = m.stored /\ n.conns = m.conns /\ n.calls = new
    <2> HIDE DEF new, n
    <2> QED
      BY <1>2, <1>3 DEF OK, Managers
  <1> HIDE DEF new, n
  <1>5. OK(n)
    BY <1>2, <1>4, SameConns
  <1> QED
    BY <1>2, <1>4, <1>5 DEF n

\* Settling a promise keeps the invariant.
LEMMA SettleOK ==
  ASSUME NEW m, OK(m), NEW c \in Calls, NEW result \in {"resolved", "rejected"}
  PROVE  /\ OK(Settle(m, c, result))
         /\ Settle(m, c, result).stored = m.stored
         /\ Settle(m, c, result).conns = m.conns
         /\ \A d \in Calls : Settle(m, c, result).calls[d].key = m.calls[d].key
  <1> DEFINE got  == IF m.calls[c].result = "none" THEN result ELSE m.calls[c].result
             call == [m.calls[c] EXCEPT !.result = got]
             new  == [m.calls EXCEPT ![c] = call]
             n    == Settle(m, c, result)
  <1>1. call \in Call /\ call.at = m.calls[c].at /\ call.key = m.calls[c].key
    <2>1. m.calls[c] \in Call
      BY DEF OK, Managers
    <2>2. got \in {"none", "resolved", "rejected"}
      BY <2>1 DEF Call
    <2> HIDE DEF got
    <2> QED
      BY <2>1, <2>2 DEF Call
  <1>2. /\ new \in [Calls -> Call]
        /\ \A d \in Calls : new[d].key = m.calls[d].key /\ new[d].at = m.calls[d].at
    <2>1. m.calls \in [Calls -> Call]
      BY DEF OK, Managers
    <2> HIDE DEF call
    <2> QED
      BY <1>1, <2>1
  <1>3. n = [m EXCEPT !.calls = new]
    BY DEF Settle
  <1>4. n \in Managers /\ n.stored = m.stored /\ n.conns = m.conns /\ n.calls = new
    <2> HIDE DEF new, n
    <2> QED
      BY <1>2, <1>3 DEF OK, Managers
  <1> HIDE DEF new, n
  <1>5. OK(n)
    BY <1>2, <1>4, SameConns
  <1> QED
    BY <1>2, <1>4, <1>5 DEF n

\* Finishing a call keeps the invariant.
LEMMA FinishOK ==
  ASSUME NEW m, OK(m), NEW c \in Calls, NEW result \in {"resolved", "rejected"}
  PROVE  OK(Finish(m, c, result))
  <1> DEFINE s == Settle(m, c, result)
  <1>1. OK(s)
    BY SettleOK
  <1>2. "done" \in Ats
    BY DEF Ats
  <1> HIDE DEF s
  <1>3. OK(Goes(s, c, "done"))
    BY <1>1, <1>2, GoesOK
  <1> QED
    BY <1>3 DEF Finish, s

\* Ending a connection under the key of its maker keeps the invariant: the
\* key's entry is empty afterwards, and no other entry holds the connection.
LEMMA EndOK ==
  ASSUME NEW m, OK(m), NEW key \in Keys, NEW w \in Calls \union {None},
         w # None => m.calls[w].key = key
  PROVE  OK(End(m, key, w)) /\ End(m, key, w).calls = m.calls
  <1> DEFINE e == [m EXCEPT !.stored[key] = None]
             t == CloseTunnel(e, key)
             n == End(m, key, w)
  <1>1. /\ e \in Managers /\ e.conns = m.conns /\ e.calls = m.calls
        /\ e.stored[key] = None
        /\ \A k \in Keys : k # key => e.stored[k] = m.stored[k]
    BY DEF OK, Managers
  <1>2. t \in Managers /\ t.conns = m.conns /\ t.calls = m.calls /\ t.stored = e.stored
    <2> HIDE DEF e
    <2> QED
      BY <1>1 DEF CloseTunnel, Managers, Tunnels
  <1>3. /\ n \in Managers /\ n.calls = m.calls /\ n.stored = e.stored
        /\ \A d \in Calls : n.conns[d].queue = m.conns[d].queue
        /\ \A d \in Calls : d # w => n.conns[d].ended = m.conns[d].ended
    <2> HIDE DEF t, e
    <2>1. CASE w = None
      <3>1. n = t
        BY <2>1 DEF End, t, e
      <3> QED
        BY <3>1, <1>2
    <2>2. CASE w # None
      <3> DEFINE conn == [t.conns[w] EXCEPT !.ended = TRUE]
                 new  == [t.conns EXCEPT ![w] = conn]
      <3>1. n = [t EXCEPT !.conns = new]
        BY <2>2 DEF End, t, e
      <3>2. w \in Calls
        BY <2>2
      <3>3. conn \in Conn /\ conn.queue = t.conns[w].queue
        <4>1. t.conns[w] \in Conn
          BY <1>2, <3>2 DEF Managers
        <4> QED
          BY <4>1 DEF Conn
      <3>4. /\ new \in [Calls -> Conn]
            /\ \A d \in Calls : new[d].queue = t.conns[d].queue
            /\ \A d \in Calls : d # w => new[d].ended = t.conns[d].ended
        <4>1. t.conns \in [Calls -> Conn]
          BY <1>2 DEF Managers
        <4> HIDE DEF conn
        <4> QED
          BY <3>2, <3>3, <4>1
      <3> HIDE DEF new, n
      <3>5. n \in Managers /\ n.calls = t.calls /\ n.stored = t.stored /\ n.conns = new
        BY <3>1, <3>4, <1>2 DEF Managers
      <3> QED
        BY <3>4, <3>5, <1>2
    <2> HIDE DEF n
    <2> QED
      BY <2>1, <2>2
  <1> HIDE DEF n, t, e
  <1>4. Kept(n)
    BY <1>1, <1>3 DEF OK, Kept, Managers
  <1>5. SameKey(n)
    BY <1>3 DEF OK, SameKey
  <1> QED
    BY <1>3, <1>4, <1>5 DEF OK, n

\* The invariant is kept when entries only leave the table and nothing happens
\* to connections and calls.
LEMMA ForgetOK ==
  ASSUME NEW m, OK(m), NEW n \in Managers,
         n.conns = m.conns, n.calls = m.calls,
         \A k \in Keys : n.stored[k] \in {None, m.stored[k]}
  PROVE  OK(n)
  <1>1. Kept(n)
    BY DEF OK, Kept
  <1>2. SameKey(n)
    BY DEF OK, SameKey
  <1> QED
    BY <1>1, <1>2 DEF OK

\* Changing a connection keeps the invariant when it is ended no sooner and
\* only calls for the key of its maker wait in its queue.
LEMMA ConnOK ==
  ASSUME NEW m, OK(m), NEW w \in Calls, NEW conn \in Conn,
         conn.ended = m.conns[w].ended,
         Asks(m.calls, w, conn.queue),
         NEW n, n = [m EXCEPT !.conns = [m.conns EXCEPT ![w] = conn]]
  PROVE  OK(n) /\ n.calls = m.calls /\ n.stored = m.stored
  <1>1. m \in Managers /\ m.conns \in [Calls -> Conn]
    BY DEF OK, Managers
  <1> DEFINE new == [m.conns EXCEPT ![w] = conn]
  <1>2. /\ new \in [Calls -> Conn]
        /\ \A d \in Calls : new[d].ended = m.conns[d].ended
        /\ new[w] = conn
        /\ \A d \in Calls : d # w => new[d] = m.conns[d]
    BY <1>1
  <1> HIDE DEF new
  <1>3. /\ n \in Managers /\ n.calls = m.calls /\ n.stored = m.stored
        /\ n.conns = new
    BY <1>1, <1>2 DEF Managers, new
  <1>4. Kept(n)
    <2> SUFFICES ASSUME NEW k \in Keys, n.stored[k] # None
                 PROVE  /\ ~n.conns[n.stored[k]].ended
                        /\ n.calls[n.stored[k]].key = k
                        /\ n.calls[n.stored[k]].at # "idle"
      BY DEF Kept
    <2>1. m.stored[k] \in Calls
      BY <1>3 DEF OK, Managers
    <2> QED
      BY <2>1, <1>2, <1>3 DEF OK, Kept
  <1>5. SameKey(n)
    <2> SUFFICES ASSUME NEW d \in Calls
                 PROVE  Asks(m.calls, d, new[d].queue)
      BY <1>3 DEF SameKey
    <2>1. CASE d = w
      BY <2>1, <1>2
    <2>2. CASE d # w
      BY <2>2, <1>2 DEF OK, SameKey
    <2> QED
      BY <2>1, <2>2
  <1> QED
    BY <1>3, <1>4, <1>5 DEF OK

\* Sending a ping for a call under the key of the connection's maker keeps the
\* invariant.
LEMMA SendOK ==
  ASSUME NEW m, OK(m), NEW w \in Calls, NEW c \in Calls, NEW schema \in Named,
         m.calls[w].at # "idle", m.calls[c].at # "idle",
         m.calls[c].key = m.calls[w].key
  PROVE  OK([m EXCEPT !.conns[w].queue = Append(@, [call |-> c, schema |-> schema])])
  <1> DEFINE ping == [call |-> c, schema |-> schema]
             old  == m.conns[w].queue
             conn == [m.conns[w] EXCEPT !.queue = Append(old, ping)]
  <1>1. m.conns[w] \in Conn
    BY DEF OK, Managers
  <1>2. old \in Seq(Ping) /\ ping \in Ping /\ ping.call = c
    BY <1>1 DEF Conn, Ping
  <1>3. Asks(m.calls, w, old)
    BY DEF OK, SameKey
  <1> HIDE DEF ping, old
  <1>4. /\ Append(old, ping) \in Seq(Ping)
        /\ \A i \in 1..Len(Append(old, ping)) :
             \/ i \in 1..Len(old) /\ Append(old, ping)[i] = old[i]
             \/ Append(old, ping)[i] = ping
    BY <1>2, AppendProperties
  <1>5. /\ conn \in Conn /\ conn.ended = m.conns[w].ended
        /\ conn.queue = Append(old, ping)
    BY <1>1, <1>4 DEF Conn
  <1>6. Asks(m.calls, w, conn.queue)
    <2> SUFFICES ASSUME NEW i \in 1..Len(Append(old, ping))
                 PROVE  /\ m.calls[Append(old, ping)[i].call].key = m.calls[w].key
                        /\ m.calls[Append(old, ping)[i].call].at # "idle"
      BY <1>5 DEF Asks
    <2>1. CASE i \in 1..Len(old) /\ Append(old, ping)[i] = old[i]
      BY <2>1, <1>3 DEF Asks
    <2>2. CASE Append(old, ping)[i] = ping
      BY <2>2, <1>2
    <2> QED
      BY <2>1, <2>2, <1>4
  <1> HIDE DEF conn
  <1>7. OK([m EXCEPT !.conns = [m.conns EXCEPT ![w] = conn]])
    BY <1>5, <1>6, ConnOK
  <1> QED
    BY <1>7 DEF conn, old, ping

\* A connection that answers for its link, its schema or the schema the server
\* has selected keeps the invariant.
LEMMA FieldsOK ==
  ASSUME NEW m, OK(m), NEW w \in Calls, NEW conn \in Conn,
         conn.ended = m.conns[w].ended, conn.queue = m.conns[w].queue,
         NEW n, n = [m EXCEPT !.conns = [m.conns EXCEPT ![w] = conn]]
  PROVE  OK(n) /\ n.calls = m.calls /\ n.stored = m.stored
  <1>1. Asks(m.calls, w, conn.queue)
    BY DEF OK, SameKey
  <1> QED
    BY <1>1, ConnOK

\* Storing a new connection under the key of its call keeps the invariant.
LEMMA StoreOK ==
  ASSUME NEW m, OK(m), NEW c \in Calls, m.calls[c].at # "idle",
         NEW conn \in Conn, ~conn.ended, conn.queue = <<>>,
         NEW n, n = [m EXCEPT !.conns = [m.conns EXCEPT ![c] = conn],
                              !.stored = [m.stored EXCEPT ![m.calls[c].key] = c]]
  PROVE  OK(n)
  <1>1. /\ m \in Managers /\ m.conns \in [Calls -> Conn]
        /\ m.stored \in [Keys -> Calls \union {None}] /\ m.calls[c] \in Call
    BY DEF OK, Managers
  <1>2. m.calls[c].key \in Keys
    BY <1>1 DEF Call
  <1> DEFINE new   == [m.conns EXCEPT ![c] = conn]
             table == [m.stored EXCEPT ![m.calls[c].key] = c]
  <1>3. /\ new \in [Calls -> Conn] /\ new[c] = conn
        /\ \A d \in Calls : d # c => new[d] = m.conns[d]
    BY <1>1
  <1>4. /\ table \in [Keys -> Calls \union {None}]
        /\ table[m.calls[c].key] = c
        /\ \A k \in Keys : k # m.calls[c].key => table[k] = m.stored[k]
    BY <1>1, <1>2
  <1> HIDE DEF new, table
  <1>5. /\ n \in Managers /\ n.calls = m.calls /\ n.stored = table
        /\ n.conns = new
    BY <1>1, <1>3, <1>4 DEF Managers, new, table
  <1>6. Kept(n)
    <2> SUFFICES ASSUME NEW k \in Keys, table[k] # None
                 PROVE  /\ ~new[table[k]].ended
                        /\ m.calls[table[k]].key = k
                        /\ m.calls[table[k]].at # "idle"
      BY <1>5 DEF Kept
    <2>1. CASE k = m.calls[c].key
      BY <2>1, <1>3, <1>4
    <2>2. CASE k # m.calls[c].key
      <3>1. table[k] = m.stored[k] /\ m.stored[k] \in Calls
        BY <2>2, <1>1, <1>4
      <3>2. m.stored[k] # c => new[m.stored[k]] = m.conns[m.stored[k]]
        BY <3>1, <1>3
      <3> QED
        BY <3>1, <3>2, <1>3 DEF OK, Kept
    <2> QED
      BY <2>1, <2>2
  <1>7. SameKey(n)
    <2> SUFFICES ASSUME NEW d \in Calls
                 PROVE  Asks(m.calls, d, new[d].queue)
      BY <1>5 DEF SameKey
    <2>1. CASE d = c
      <3>1. new[d].queue = <<>> /\ Len(<<>>) = 0
        BY <2>1, <1>3
      <3> QED
        BY <3>1 DEF Asks
    <2>2. CASE d # c
      BY <2>2, <1>3 DEF OK, SameKey
    <2> QED
      BY <2>1, <2>2
  <1> QED
    BY <1>5, <1>6, <1>7 DEF OK

\* create and connect keep the invariant, whether the constructor throws or not.
LEMMA CreatedOK ==
  ASSUME NEW m, OK(m), NEW c \in Calls, NEW n \in Created(m, c)
  PROVE  OK(n)
  <1>1. "thrown" \in Ats /\ "connecting" \in Ats
    BY DEF Ats
  <1>2. CASE n = Goes(m, c, "thrown")
    BY <1>1, <1>2, GoesOK
  <1>3. CASE n = Goes([m EXCEPT !.conns[c] = NewConn(m, c),
                                !.stored[m.calls[c].key] = c], c, "connecting")
    <2> DEFINE g == Goes(m, c, "connecting")
    <2>1. /\ OK(g) /\ g.calls[c].at = "connecting" /\ g.calls[c].key = m.calls[c].key
          /\ g.conns = m.conns /\ g.stored = m.stored
      BY <1>1, GoesOK
    <2>2. NewConn(m, c) \in Conn /\ ~NewConn(m, c).ended /\ NewConn(m, c).queue = <<>>
      <3>1. <<>> \in Seq(Ping)
        OBVIOUS
      <3> QED
        BY <3>1 DEF NewConn, Fresh, Conn, Named
    <2>3. n = [g EXCEPT !.conns = [m.conns EXCEPT ![c] = NewConn(m, c)],
                        !.stored = [m.stored EXCEPT ![m.calls[c].key] = c]]
      BY <1>3 DEF Goes, OK, Managers
    <2> HIDE DEF g
    <2>4. n = [g EXCEPT !.conns = [g.conns EXCEPT ![c] = NewConn(m, c)],
                        !.stored = [g.stored EXCEPT ![g.calls[c].key] = c]]
      BY <2>1, <2>3
    <2> QED
      BY <2>1, <2>2, <2>4, StoreOK
  <1> QED
    BY <1>2, <1>3 DEF Created

\* So does the way there when a tunnel may have to be opened first.
LEMMA OpenedOK ==
  ASSUME NEW m, OK(m), NEW c \in Calls, NEW n \in Opened(m, c)
  PROVE  OK(n)
  <1>1. "port" \in Ats
    BY DEF Ats
  <1>2. n = Goes(m, c, "port") \/ n \in Created(m, c)
    BY DEF Opened
  <1> QED
    BY <1>1, <1>2, GoesOK, CreatedOK

\* getConnection up to its first await keeps the invariant.
LEMMA RequestedOK ==
  ASSUME NEW m, OK(m), NEW c \in Calls, NEW n \in Requested(m, c)
  PROVE  OK(n)
  <1> DEFINE call == m.calls[c]
             w    == m.stored[call.key]
  <1>1. call \in Call /\ call.key \in Keys /\ call.schema \in Named
    <2>1. call \in Call
      BY DEF OK, Managers
    <2> QED
      BY <2>1 DEF Call
  <1>2. CASE n \in Opened(m, c)
    BY <1>2, OpenedOK
  <1>3. CASE n = Finish(m, c, "resolved")
    BY <1>3, FinishOK
  <1>4. CASE /\ w # None
             /\ n = [Goes(m, c, "pinging") EXCEPT
                       !.conns[w].queue = Append(@, [call |-> c, schema |-> call.schema])]
    <2> DEFINE g == Goes(m, c, "pinging")
    <2>1. "pinging" \in Ats
      BY DEF Ats
    <2>2. /\ OK(g) /\ g.calls[c].at = "pinging" /\ g.stored = m.stored
          /\ \A d \in Calls : g.calls[d].key = m.calls[d].key
      BY <2>1, GoesOK
    <2> HIDE DEF g
    <2>3. w \in Calls /\ g.calls[w].key = call.key /\ g.calls[w].at # "idle"
      <3>1. w \in Calls
        BY <1>1, <1>4 DEF OK, Managers
      <3>2. g.stored[call.key] = w
        BY <2>2
      <3> QED
        BY <3>1, <3>2, <2>2, <1>1, <1>4 DEF OK, Kept
    <2>4. n = [g EXCEPT !.conns[w].queue =
                 Append(@, [call |-> c, schema |-> call.schema])]
      BY <1>4 DEF g
    <2>5. g.calls[c].key = g.calls[w].key /\ g.calls[c].at # "idle"
      BY <2>2, <2>3
    <2> HIDE DEF w, call
    <2> QED
      BY <2>2, <2>3, <2>4, <2>5, <1>1, SendOK
  <1> QED
    BY <1>2, <1>3, <1>4 DEF Requested

\* A call that has not started may be given its key and its schema.
LEMMA RekeyOK ==
  ASSUME NEW m, OK(m), NEW c \in Calls, m.calls[c].at = "idle",
         NEW key \in Keys, NEW schema \in Named,
         NEW n, n = [m EXCEPT !.calls[c].key = key, !.calls[c].schema = schema]
  PROVE  OK(n)
  <1> DEFINE call == [m.calls[c] EXCEPT !.key = key, !.schema = schema]
             new  == [m.calls EXCEPT ![c] = call]
  <1>1. call \in Call
    <2>1. m.calls[c] \in Call
      BY DEF OK, Managers
    <2> QED
      BY <2>1 DEF Call
  <1>2. /\ new \in [Calls -> Call]
        /\ \A d \in Calls : d # c => new[d] = m.calls[d]
    <2>1. m.calls \in [Calls -> Call]
      BY DEF OK, Managers
    <2> HIDE DEF call
    <2> QED
      BY <1>1, <2>1
  <1>3. n = [m EXCEPT !.calls = new]
    <2>1. m.calls \in [Calls -> Call] /\ m.calls[c] \in Call
      BY DEF OK, Managers
    <2> QED
      BY <2>1 DEF OK, Managers, Call
  <1> HIDE DEF new
  <1>4. n \in Managers /\ n.stored = m.stored /\ n.conns = m.conns /\ n.calls = new
    BY <1>2, <1>3 DEF OK, Managers
  <1>5. Kept(n)
    <2> SUFFICES ASSUME NEW k \in Keys, n.stored[k] # None
                 PROVE  /\ ~n.conns[n.stored[k]].ended
                        /\ n.calls[n.stored[k]].key = k
                        /\ n.calls[n.stored[k]].at # "idle"
      BY DEF Kept
    <2>1. m.stored[k] \in Calls /\ m.stored[k] # c
      BY <1>4 DEF OK, Managers, Kept
    <2> QED
      BY <2>1, <1>2, <1>4 DEF OK, Kept
  <1>6. SameKey(n)
    <2> SUFFICES ASSUME NEW w \in Calls, NEW i \in 1..Len(n.conns[w].queue)
                 PROVE  /\ n.calls[w].at # "idle"
                        /\ n.calls[n.conns[w].queue[i].call].key = n.calls[w].key
                        /\ n.calls[n.conns[w].queue[i].call].at # "idle"
      BY DEF SameKey, Asks
    <2>1. i \in 1..Len(m.conns[w].queue)
      BY <1>4
    <2>2. /\ m.calls[w].at # "idle"
          /\ m.calls[m.conns[w].queue[i].call].key = m.calls[w].key
          /\ m.calls[m.conns[w].queue[i].call].at # "idle"
      BY <2>1 DEF OK, SameKey, Asks
    <2>3. m.conns[w].queue[i].call \in Calls
      BY <2>1, PingsCalls DEF OK
    <2> QED
      BY <2>2, <2>3, <1>2, <1>4
  <1> QED
    BY <1>4, <1>5, <1>6 DEF OK

\* removeConnection keeps the invariant and starts no call.
LEMMA RemovedOK ==
  ASSUME NEW m, OK(m), NEW uid
  PROVE  OK(Removed(m, uid)) /\ Removed(m, uid).calls = m.calls
  <1>1. CASE uid \in Keys /\ m.stored[uid] # None
    <2>1. m.stored[uid] \in Calls /\ m.calls[m.stored[uid]].key = uid
      BY <1>1 DEF OK, Managers, Kept
    <2>2. OK(End(m, uid, m.stored[uid])) /\ End(m, uid, m.stored[uid]).calls = m.calls
      BY <2>1, <1>1, EndOK
    <2> QED
      BY <2>2, <1>1 DEF Removed
  <1>2. CASE ~(uid \in Keys /\ m.stored[uid] # None)
    BY <1>2 DEF Removed
  <1> QED
    BY <1>1, <1>2

\* The answer to the ping of a stored connection keeps the invariant.
LEMMA PingedOK ==
  ASSUME NEW m, OK(m), NEW w \in Calls, NEW ping \in Ping,
         m.calls[ping.call].key = m.calls[w].key,
         NEW works \in BOOLEAN, NEW n \in Pinged(m, w, ping, works)
  PROVE  OK(n)
  <1>1. ping.call \in Calls /\ ping.schema \in Named
    BY DEF Ping
  <1>2. CASE works
    <2> DEFINE selected == IF ping.schema = None THEN m.conns[w].selected ELSE ping.schema
               conn == [m.conns[w] EXCEPT !.schema = ping.schema, !.selected = selected]
               g    == [m EXCEPT !.conns = [m.conns EXCEPT ![w] = conn]]
    <2>1. m.conns \in [Calls -> Conn] /\ m.conns[w] \in Conn
      BY DEF OK, Managers
    <2>2. selected \in Named
      BY <1>1, <2>1 DEF Conn
    <2>3. conn \in Conn /\ conn.ended = m.conns[w].ended /\ conn.queue = m.conns[w].queue
      <3> HIDE DEF selected
      <3> QED
        BY <1>1, <2>1, <2>2 DEF Conn
    <2>4. g = [m EXCEPT !.conns[w].schema = ping.schema,
                        !.conns[w].selected = IF ping.schema = None THEN @ ELSE ping.schema]
      BY <2>1 DEF OK, Managers, Conn
    <2>5. n = Finish(g, ping.call, "resolved")
      BY <1>2, <2>4 DEF Pinged
    <2> HIDE DEF conn
    <2>6. OK(g)
      BY <2>3, FieldsOK
    <2> HIDE DEF g
    <2> QED
      BY <1>1, <2>5, <2>6, FinishOK
  <1>3. CASE ~works
    <2> DEFINE key == m.calls[ping.call].key
    <2>1. key \in Keys
      BY <1>1 DEF OK, Managers, Call
    <2>2. OK(End(m, key, w))
      BY <2>1, EndOK
    <2>3. n \in Opened(End(m, key, w), ping.call)
      BY <1>3 DEF Pinged
    <2> QED
      BY <1>1, <2>2, <2>3, OpenedOK
  <1> QED
    BY <1>2, <1>3

\* The answer to the first ping of a connection keeps the invariant.
LEMMA FirstPingedOK ==
  ASSUME NEW m, OK(m), NEW w \in Calls, NEW ping \in Ping,
         NEW works \in BOOLEAN, NEW n \in FirstPinged(m, w, ping, works)
  PROVE  OK(n)
  <1>1. ping.call \in Calls /\ ping.schema \in Named
    BY DEF Ping
  <1> DEFINE selected == IF works THEN ping.schema ELSE m.conns[w].selected
             conn == [m.conns[w] EXCEPT !.selected = selected]
             g    == [m EXCEPT !.conns = [m.conns EXCEPT ![w] = conn]]
  <1>2. m.conns[w] \in Conn
    BY DEF OK, Managers
  <1>3. selected \in Named
    BY <1>1, <1>2 DEF Conn
  <1>4. conn \in Conn /\ conn.ended = m.conns[w].ended /\ conn.queue = m.conns[w].queue
    <2> HIDE DEF selected
    <2> QED
      BY <1>2, <1>3 DEF Conn
  <1>5. n = Finish(g, ping.call, "resolved")
    BY DEF FirstPinged
  <1> HIDE DEF conn
  <1>6. OK(g)
    BY <1>4, FieldsOK
  <1> HIDE DEF g
  <1> QED
    BY <1>1, <1>5, <1>6, FinishOK

-----------------------------------------------------------------------------
(* The steps.                                                              *)

\* The part of the state that the manager's operators leave alone.
Rest ==
  /\ tunnelling \in {"no", "ssh2", "native"}
  /\ closes \in 0..MaxCloses
  /\ overlapped \subseteq Keys

IInv == Rest /\ OK(Manager)

\* The manager's record of the variables has them as its fields.
LEMMA Fields ==
  /\ Manager.stored = stored /\ Manager.conns = conns /\ Manager.calls = calls
  /\ Manager.tunnels = tunnels /\ Manager.mark = mark
  BY DEF Manager

\* Becoming a state that satisfies the invariant establishes it.
LEMMA BecomesOK ==
  ASSUME NEW n, OK(n), stored' = n.stored, conns' = n.conns, calls' = n.calls,
         tunnels' = n.tunnels, mark' = n.mark
  PROVE  OK(Manager)'
  <1>1. n \in Managers /\ Kept(n) /\ SameKey(n)
    BY DEF OK
  <1>2. (Manager \in Managers)'
    BY <1>1 DEF Manager, Managers
  <1>3. Kept(Manager)'
    BY <1>1 DEF Kept, Manager
  <1>4. SameKey(Manager)'
    BY <1>1 DEF SameKey, Manager
  <1> QED
    BY <1>2, <1>3, <1>4 DEF OK

\* getConnection keeps the invariant.
LEMMA GetConnectionInv ==
  ASSUME IInv, NEW c \in Calls, NEW key \in Keys, NEW schema \in Named,
         GetConnection(c, key, schema)
  PROVE  IInv'
  <1> DEFINE m == [Manager EXCEPT !.calls[c].key = key, !.calls[c].schema = schema]
  <1>1. PICK n \in Requested(m, c) : Becomes(n)
    BY DEF GetConnection
  <1>2. OK(m)
    BY RekeyOK, Fields DEF IInv, GetConnection
  <1> HIDE DEF m
  <1>3. OK(n)
    BY <1>1, <1>2, RequestedOK
  <1>4. OK(Manager)'
    BY <1>1, <1>3, BecomesOK DEF Becomes
  <1>5. Rest'
    BY <1>1 DEF IInv, Rest, Becomes, GetConnection, Noted
  <1> QED
    BY <1>4, <1>5 DEF IInv

\* ConnectService.connect keeps the invariant.
LEMMA ConnectInv ==
  ASSUME IInv, NEW c \in Calls, NEW schema \in Named, Connect(c, schema)
  PROVE  IInv'
  <1> DEFINE m == [Manager EXCEPT !.calls[c].key = Id, !.calls[c].schema = schema]
  <1>1. PICK n \in Requested(Removed(m, Id), c) : Becomes(n)
    BY DEF Connect
  <1>2. Id \in Keys
    BY DEF Keys
  <1>3. OK(m)
    BY <1>2, RekeyOK, Fields DEF IInv, Connect
  <1> HIDE DEF m
  <1>4. OK(Removed(m, Id))
    BY <1>3, RemovedOK
  <1>5. OK(n)
    BY <1>1, <1>4, RequestedOK
  <1>6. OK(Manager)'
    BY <1>1, <1>5, BecomesOK DEF Becomes
  <1>7. Rest'
    BY <1>1, <1>2 DEF IInv, Rest, Becomes, Connect, Noted
  <1> QED
    BY <1>6, <1>7 DEF IInv

\* Close Connection keeps the invariant.
LEMMA CloseInv ==
  ASSUME IInv, Close
  PROVE  IInv'
  <1> DEFINE m == Removed(Manager, NodeKey)
  <1>1. OK(m) /\ m.calls = calls
    BY RemovedOK, Fields DEF IInv
  <1>2. /\ stored' = m.stored /\ conns' = m.conns /\ tunnels' = m.tunnels
        /\ mark' = m.mark /\ calls' = calls
    BY DEF Close
  <1> HIDE DEF m
  <1>3. OK(Manager)'
    BY <1>1, <1>2, BecomesOK
  <1>4. Rest'
    BY ConnectionsAssumption DEF IInv, Rest, Close
  <1> QED
    BY <1>3, <1>4 DEF IInv

\* The answer to a ping keeps the invariant.
LEMMA AnswerPingInv ==
  ASSUME IInv, NEW w \in Calls, NEW works \in BOOLEAN, AnswerPing(w, works)
  PROVE  IInv'
  <1> DEFINE queue == conns[w].queue
             ping  == Head(queue)
             conn  == [conns[w] EXCEPT !.queue = Tail(queue)]
             m     == [Manager EXCEPT !.conns[w].queue = Tail(@)]
  <1>1. PICK n \in IF calls[ping.call].at = "firstPing"
                   THEN FirstPinged(m, w, ping, works)
                   ELSE Pinged(m, w, ping, works) : Becomes(n)
    BY DEF AnswerPing
  <1>2. conns \in [Calls -> Conn] /\ conns[w] \in Conn
    BY Fields DEF IInv, OK, Managers
  <1>3. queue \in Seq(Ping) /\ queue # <<>>
    BY <1>2 DEF Conn, AnswerPing
  <1>4. /\ ping \in Ping /\ ping = queue[1] /\ 1 \in 1..Len(queue)
        /\ Tail(queue) \in Seq(Ping)
        /\ \A i \in 1..Len(Tail(queue)) :
             i + 1 \in 1..Len(queue) /\ Tail(queue)[i] = queue[i + 1]
    <2> HIDE DEF queue
    <2> QED
      BY <1>3, HeadTailProperties, ElementOfSeq
  <1>5. Asks(calls, w, queue)
    BY Fields DEF IInv, OK, SameKey
  <1>6. conn \in Conn /\ conn.ended = conns[w].ended /\ conn.queue = Tail(queue)
    <2> HIDE DEF queue
    <2> QED
      BY <1>2, <1>4 DEF Conn
  <1>7. m = [Manager EXCEPT !.conns = [Manager.conns EXCEPT ![w] = conn]]
    BY Fields
  <1> HIDE DEF m, conn, ping, queue
  <1>8. Asks(calls, w, conn.queue)
    <2> SUFFICES ASSUME NEW i \in 1..Len(Tail(queue))
                 PROVE  /\ calls[w].at # "idle"
                        /\ calls[Tail(queue)[i].call].key = calls[w].key
                        /\ calls[Tail(queue)[i].call].at # "idle"
      BY <1>6 DEF Asks
    <2>1. i + 1 \in 1..Len(queue) /\ Tail(queue)[i] = queue[i + 1]
      BY <1>4
    <2> QED
      BY <2>1, <1>5 DEF Asks
  <1>9. OK(m) /\ m.calls = calls
    BY <1>6, <1>7, <1>8, ConnOK, Fields DEF IInv
  <1>10. m.calls[ping.call].key = m.calls[w].key
    BY <1>4, <1>5, <1>9 DEF Asks
  <1>11. OK(n)
    BY <1>1, <1>4, <1>9, <1>10, FirstPingedOK, PingedOK
  <1>12. OK(Manager)'
    BY <1>1, <1>11, BecomesOK DEF Becomes
  <1>13. Rest'
    BY <1>1 DEF IInv, Rest, Becomes, AnswerPing
  <1> QED
    BY <1>12, <1>13 DEF IInv

\* A new link of a connection keeps the invariant.
LEMMA LinkOK ==
  ASSUME OK(Manager), NEW w \in Calls,
         NEW link \in {"connecting", "open", "failed", "lost"}
  PROVE  LET m == [Manager EXCEPT !.conns[w].link = link]
         IN OK(m) /\ m.calls = calls /\ m.stored = stored
  <1> DEFINE conn == [conns[w] EXCEPT !.link = link]
             m    == [Manager EXCEPT !.conns[w].link = link]
  <1>1. conns[w] \in Conn
    BY Fields DEF OK, Managers
  <1>2. conn \in Conn /\ conn.ended = conns[w].ended /\ conn.queue = conns[w].queue
    BY <1>1 DEF Conn
  <1>3. m = [Manager EXCEPT !.conns = [Manager.conns EXCEPT ![w] = conn]]
    BY Fields
  <1> HIDE DEF conn, m
  <1>4. OK(m) /\ m.calls = calls /\ m.stored = stored
    BY <1>2, <1>3, FieldsOK, Fields
  <1> QED
    BY <1>4 DEF m

\* A connection that is reported keeps the invariant.
LEMMA ConnectedInv ==
  ASSUME IInv, NEW c \in Calls, Connected(c)
  PROVE  IInv'
  <1> DEFINE m == [Manager EXCEPT !.conns[c].link = "open"]
             schema == calls[c].schema
             n == IF schema = None \/ conns[c].ended THEN Finish(m, c, "resolved")
                  ELSE [Goes(m, c, "firstPing") EXCEPT
                    !.conns[c].queue = Append(@, [call |-> c, schema |-> schema])]
  <1>1. Becomes(n)
    BY DEF Connected
  <1>2. OK(m) /\ m.calls = calls
    BY LinkOK DEF IInv
  <1>3. schema \in Named
    BY Fields DEF IInv, OK, Managers, Call
  <1>4. OK(n)
    <2> DEFINE g == Goes(m, c, "firstPing")
    <2>1. OK(g) /\ g.calls[c].at = "firstPing"
      <3> HIDE DEF m
      <3>1. "firstPing" \in Ats
        BY DEF Ats
      <3> QED
        BY <3>1, <1>2, GoesOK
    <2>2. OK(Finish(m, c, "resolved"))
      <3> HIDE DEF m
      <3> QED
        BY <1>2, FinishOK
    <2>3. OK([g EXCEPT !.conns[c].queue = Append(@, [call |-> c, schema |-> schema])])
      <3> HIDE DEF g, schema
      <3> QED
        BY <2>1, <1>3, SendOK
    <2> QED
      BY <2>2, <2>3
  <1> HIDE DEF n
  <1>5. OK(Manager)'
    BY <1>1, <1>4, BecomesOK DEF Becomes
  <1>6. Rest'
    BY <1>1 DEF IInv, Rest, Becomes, Connected
  <1> QED
    BY <1>5, <1>6 DEF IInv

\* A connection that cannot be made keeps the invariant: what is stored under
\* the key of the call was made under that key.
LEMMA ConnectFailsInv ==
  ASSUME IInv, NEW c \in Calls, ConnectFails(c)
  PROVE  IInv'
  <1> DEFINE key == calls[c].key
             w   == stored[key]
             m   == [Manager EXCEPT !.conns[c].link = "failed"]
             n   == Finish(End(m, key, w), c, "rejected")
  <1>1. Becomes(n)
    BY DEF ConnectFails
  <1>2. OK(m) /\ m.calls = calls /\ m.stored = stored
    BY LinkOK DEF IInv
  <1>3. key \in Keys
    BY Fields DEF IInv, OK, Managers, Call
  <1> HIDE DEF m, key
  <1>4. w \in Calls \union {None} /\ (w # None => m.calls[w].key = key)
    BY <1>2, <1>3 DEF OK, Managers, Kept
  <1> HIDE DEF w
  <1>5. OK(End(m, key, w))
    BY <1>2, <1>3, <1>4, EndOK
  <1>6. OK(n)
    BY <1>5, FinishOK
  <1> HIDE DEF n
  <1>7. OK(Manager)'
    BY <1>1, <1>6, BecomesOK DEF Becomes
  <1>8. Rest'
    BY <1>1 DEF IInv, Rest, Becomes, ConnectFails
  <1> QED
    BY <1>7, <1>8 DEF IInv

\* A connection that breaks keeps the invariant.
LEMMA LoseInv ==
  ASSUME IInv, NEW w \in Calls, Lose(w)
  PROVE  IInv'
  <1> DEFINE m == [Manager EXCEPT !.conns[w].link = "lost"]
  <1>1. OK(m)
    BY LinkOK DEF IInv
  <1>2. /\ m.stored = stored /\ m.calls = calls /\ m.tunnels = tunnels /\ m.mark = mark
        /\ m.conns = [conns EXCEPT ![w].link = "lost"]
    BY DEF Manager
  <1> HIDE DEF m
  <1>3. OK(Manager)'
    BY <1>1, <1>2, BecomesOK DEF Lose
  <1>4. Rest'
    BY DEF IInv, Rest, Lose
  <1> QED
    BY <1>3, <1>4 DEF IInv

\* Changes of a tunnel and of the mark keep the invariant.
LEMMA TunnelOK ==
  ASSUME OK(Manager), NEW c \in Calls, NEW tunnel \in Tunnels,
         NEW to \in Calls \union {None}
  PROVE  /\ OK([Manager EXCEPT !.tunnels[c] = tunnel])
         /\ OK([Manager EXCEPT !.tunnels[c] = tunnel, !.mark = to])
  <1> DEFINE m == [Manager EXCEPT !.tunnels[c] = tunnel]
             n == [Manager EXCEPT !.tunnels[c] = tunnel, !.mark = to]
  <1>1. m \in Managers /\ m.stored = stored /\ m.conns = conns /\ m.calls = calls
    BY DEF OK, Managers, Manager
  <1>2. n \in Managers /\ n.stored = stored /\ n.conns = conns /\ n.calls = calls
    BY DEF OK, Managers, Manager
  <1> HIDE DEF m, n
  <1>3. OK(m)
    BY <1>1, SameConns, Fields
  <1>4. OK(n)
    BY <1>2, SameConns, Fields
  <1> QED
    BY <1>3, <1>4 DEF m, n

\* Opening a tunnel keeps the invariant.
LEMMA PortFoundInv ==
  ASSUME IInv, NEW c \in Calls, PortFound(c)
  PROVE  IInv'
  <1> DEFINE m == [Manager EXCEPT !.tunnels[c] = "starting"]
             n == Goes(m, c, "tunnel")
  <1>1. Becomes(n)
    BY DEF PortFound
  <1>2. OK(m)
    BY TunnelOK DEF IInv, Tunnels
  <1> HIDE DEF m
  <1>3. "tunnel" \in Ats
    BY DEF Ats
  <1>4. OK(n)
    BY <1>2, <1>3, GoesOK
  <1> HIDE DEF n
  <1>5. OK(Manager)'
    BY <1>1, <1>4, BecomesOK DEF Becomes
  <1>6. Rest'
    BY <1>1 DEF IInv, Rest, Becomes, PortFound
  <1> QED
    BY <1>5, <1>6 DEF IInv

\* A tunnel that is ready keeps the invariant.
LEMMA TunnelReadyInv ==
  ASSUME IInv, NEW c \in Calls, TunnelReady(c)
  PROVE  IInv'
  <1> DEFINE m == [Manager EXCEPT !.tunnels[c] = "listening"]
             g == IF tunnelling = "native" THEN m ELSE [m EXCEPT !.mark = c]
  <1>1. PICK n \in Created(g, c) : Becomes(n)
    BY DEF TunnelReady
  <1>2. OK(g)
    <2>1. OK(m)
      BY TunnelOK DEF IInv, Tunnels
    <2>2. OK([Manager EXCEPT !.tunnels[c] = "listening", !.mark = c])
      BY TunnelOK DEF IInv, Tunnels
    <2>3. [m EXCEPT !.mark = c]
            = [Manager EXCEPT !.tunnels[c] = "listening", !.mark = c]
      BY DEF Manager
    <2> QED
      BY <2>1, <2>2, <2>3
  <1> HIDE DEF g
  <1>3. OK(n)
    BY <1>1, <1>2, CreatedOK
  <1>4. OK(Manager)'
    BY <1>1, <1>3, BecomesOK DEF Becomes
  <1>5. Rest'
    BY <1>1 DEF IInv, Rest, Becomes, TunnelReady
  <1> QED
    BY <1>4, <1>5 DEF IInv

\* A tunnel that fails keeps the invariant.
LEMMA TunnelFailsInv ==
  ASSUME IInv, NEW c \in Calls, TunnelFails(c)
  PROVE  IInv'
  <1> DEFINE g == [Manager EXCEPT !.tunnels[c] = "closed", !.mark = None]
             m == [Manager EXCEPT !.tunnels[c] = "closed", !.mark = None,
                                  !.stored[calls[c].key] = None]
             n == IF calls[c].at = "tunnel" THEN Finish(m, c, "rejected")
                  ELSE Settle(m, c, "rejected")
  <1>1. Becomes(n)
    BY DEF TunnelFails
  <1>2. OK(g)
    BY TunnelOK DEF IInv, Tunnels
  <1>3. /\ m \in Managers /\ m.conns = g.conns /\ m.calls = g.calls
        /\ \A k \in Keys : m.stored[k] \in {None, g.stored[k]}
    <2>1. stored \in [Keys -> Calls \union {None}]
      BY Fields DEF IInv, OK, Managers
    <2>2. [stored EXCEPT ![calls[c].key] = None] \in [Keys -> Calls \union {None}]
      BY <2>1
    <2>3. m.stored = [stored EXCEPT ![calls[c].key] = None] /\ g.stored = stored
      BY DEF Manager
    <2>4. m = [g EXCEPT !.stored = [stored EXCEPT ![calls[c].key] = None]]
      BY DEF Manager
    <2> HIDE DEF g, m
    <2>5. m \in Managers /\ m.conns = g.conns /\ m.calls = g.calls
      BY <1>2, <2>2, <2>4 DEF OK, Managers
    <2> QED
      BY <2>1, <2>3, <2>5
  <1> HIDE DEF g, m
  <1>4. OK(m)
    BY <1>2, <1>3, ForgetOK
  <1>5. OK(n)
    BY <1>4, FinishOK, SettleOK
  <1> HIDE DEF n
  <1>6. OK(Manager)'
    BY <1>1, <1>5, BecomesOK DEF Becomes
  <1>7. Rest'
    BY <1>1 DEF IInv, Rest, Becomes, TunnelFails
  <1> QED
    BY <1>6, <1>7 DEF IInv

\* An error of the ssh stream keeps the invariant.
LEMMA StreamFailsInv ==
  ASSUME IInv, NEW c \in Calls, StreamFails(c)
  PROVE  IInv'
  <1> DEFINE m == [Manager EXCEPT !.tunnels[c] = "closed"]
  <1>1. OK(m)
    BY TunnelOK, ConnectionsAssumption DEF IInv, Tunnels
  <1>2. /\ m.stored = stored /\ m.conns = conns /\ m.calls = calls /\ m.mark = mark
        /\ m.tunnels = [tunnels EXCEPT ![c] = "closed"]
    BY DEF Manager
  <1> HIDE DEF m
  <1>3. OK(Manager)'
    BY <1>1, <1>2, BecomesOK DEF StreamFails
  <1>4. Rest'
    BY DEF IInv, Rest, StreamFails
  <1> QED
    BY <1>3, <1>4 DEF IInv

-----------------------------------------------------------------------------
(* The theorems.                                                           *)

\* The invariant holds initially.
LEMMA InitInv ==
  ASSUME Init
  PROVE  IInv
  <1>1. /\ <<>> \in Seq(Ping) /\ Len(<<>>) = 0
    OBVIOUS
  <1>2. Fresh \in Conn /\ Fresh.queue = <<>>
    BY <1>1 DEF Fresh, Conn, Named
  <1>3. conns \in [Calls -> Conn] /\ \A w \in Calls : conns[w].queue = <<>>
    BY <1>2 DEF Init
  <1>4. Manager \in Managers
    BY <1>3 DEF Init, Manager, Managers, Call, Named, Keys, Tunnels
  <1>5. Kept(Manager)
    BY DEF Kept, Manager, Init
  <1>6. SameKey(Manager)
    BY <1>1, <1>3 DEF SameKey, Asks, Manager
  <1>7. Rest
    BY ConnectionsAssumption DEF Init, Rest
  <1> QED
    BY <1>4, <1>5, <1>6, <1>7 DEF IInv, OK

\* Every step keeps the invariant.
LEMMA NextInv ==
  ASSUME IInv, [Next]_vars
  PROVE  IInv'
  <1>1. CASE Next
    BY <1>1, GetConnectionInv, ConnectInv, CloseInv, AnswerPingInv, ConnectedInv,
       ConnectFailsInv, LoseInv, PortFoundInv, TunnelReadyInv, TunnelFailsInv,
       StreamFailsInv DEF Next
  <1>2. CASE UNCHANGED vars
    <2>1. OK(Manager)'
      BY <1>2, BecomesOK, Fields DEF IInv, vars
    <2>2. Rest'
      BY <1>2 DEF IInv, Rest, vars
    <2> QED
      BY <2>1, <2>2 DEF IInv
  <1> QED
    BY <1>1, <1>2

\* Every state of ConnectionManager and its tunnels has its type.
THEOREM TypeCorrect == Spec => []TypeOK
  <1>1. Init => IInv
    BY InitInv
  <1>2. IInv /\ [Next]_vars => IInv'
    BY NextInv
  <1>3. IInv => TypeOK
    BY Fields DEF IInv, Rest, OK, Managers, TypeOK
  <1> QED
    BY <1>1, <1>2, <1>3, PTL DEF Spec

\* No connection that ConnectionManager.end has ended is in alivedConnection,
\* however calls, tunnels and failures interleave.
THEOREM StoredAreLive == Spec => []StoredNotEnded
  <1>1. Init => IInv
    BY InitInv
  <1>2. IInv /\ [Next]_vars => IInv'
    BY NextInv
  <1>3. IInv => StoredNotEnded
    BY Fields DEF IInv, OK, Kept, StoredNotEnded
  <1> QED
    BY <1>1, <1>2, <1>3, PTL DEF Spec

-----------------------------------------------------------------------------
(* What the operators change, of what the next two invariants read.        *)

\* A connection but for whether it is ended.
SameWire(m, n, d) ==
  /\ n.conns[d].queue = m.conns[d].queue
  /\ n.conns[d].link = m.conns[d].link
  /\ n.conns[d].schema = m.conns[d].schema
  /\ n.conns[d].selected = m.conns[d].selected

\* Only call c may have moved on; every call keeps its key.
OnlyMoves(m, n, c) ==
  /\ \A d \in Calls : d # c => n.calls[d].at = m.calls[d].at
  /\ \A d \in Calls : n.calls[d].key = m.calls[d].key

\* A call that moves on changes nothing else.
LEMMA GoesEffect ==
  ASSUME NEW m \in Managers, NEW c \in Calls, NEW at
  PROVE  LET n == Goes(m, c, at)
         IN /\ OnlyMoves(m, n, c) /\ n.calls[c].at = at
            /\ n.conns = m.conns /\ n.stored = m.stored /\ n.tunnels = m.tunnels
            /\ n.mark = m.mark
  <1> DEFINE call == [m.calls[c] EXCEPT !.at = at]
             new  == [m.calls EXCEPT ![c] = call]
             n    == Goes(m, c, at)
  <1>1. call.at = at /\ call.key = m.calls[c].key
    <2>1. m.calls[c] \in Call
      BY DEF Managers
    <2> QED
      BY <2>1 DEF Call
  <1>2. /\ new[c] = call
        /\ \A d \in Calls : d # c => new[d] = m.calls[d]
    <2>1. m.calls \in [Calls -> Call]
      BY DEF Managers
    <2> HIDE DEF call
    <2> QED
      BY <2>1
  <1>3. n = [m EXCEPT !.calls = new]
    BY DEF Goes
  <1>4. /\ n.calls = new /\ n.conns = m.conns /\ n.stored = m.stored
        /\ n.tunnels = m.tunnels /\ n.mark = m.mark
    <2> HIDE DEF new, n
    <2> QED
      BY <1>3 DEF Managers
  <1> HIDE DEF call, new, n
  <1>5. OnlyMoves(m, n, c) /\ n.calls[c].at = at
    BY <1>1, <1>2, <1>4 DEF OnlyMoves
  <1> QED
    BY <1>4, <1>5 DEF n

\* A promise that settles moves no call.
LEMMA SettleEffect ==
  ASSUME NEW m \in Managers, NEW c \in Calls, NEW result
  PROVE  LET n == Settle(m, c, result)
         IN /\ \A d \in Calls : /\ n.calls[d].at = m.calls[d].at
                                /\ n.calls[d].key = m.calls[d].key
            /\ n.conns = m.conns /\ n.stored = m.stored /\ n.tunnels = m.tunnels
            /\ n.mark = m.mark
  <1> DEFINE got  == IF m.calls[c].result = "none" THEN result ELSE m.calls[c].result
             call == [m.calls[c] EXCEPT !.result = got]
             new  == [m.calls EXCEPT ![c] = call]
             n    == Settle(m, c, result)
  <1>1. call.at = m.calls[c].at /\ call.key = m.calls[c].key
    <2>1. m.calls[c] \in Call
      BY DEF Managers
    <2> HIDE DEF got
    <2> QED
      BY <2>1 DEF Call
  <1>2. /\ new[c] = call
        /\ \A d \in Calls : d # c => new[d] = m.calls[d]
    <2>1. m.calls \in [Calls -> Call]
      BY DEF Managers
    <2> HIDE DEF call
    <2> QED
      BY <2>1
  <1>3. n = [m EXCEPT !.calls = new]
    BY DEF Settle
  <1>4. /\ n.calls = new /\ n.conns = m.conns /\ n.stored = m.stored
        /\ n.tunnels = m.tunnels /\ n.mark = m.mark
    <2> HIDE DEF new, n
    <2> QED
      BY <1>3 DEF Managers
  <1> HIDE DEF call, new, n
  <1>5. \A d \in Calls : /\ n.calls[d].at = m.calls[d].at
                         /\ n.calls[d].key = m.calls[d].key
    BY <1>1, <1>2, <1>4
  <1> QED
    BY <1>4, <1>5 DEF n

\* A call that is finished is done.
LEMMA FinishEffect ==
  ASSUME NEW m, OK(m), NEW c \in Calls, NEW result \in {"resolved", "rejected"}
  PROVE  LET n == Finish(m, c, result)
         IN /\ OnlyMoves(m, n, c) /\ n.calls[c].at = "done"
            /\ n.conns = m.conns /\ n.stored = m.stored /\ n.tunnels = m.tunnels
            /\ n.mark = m.mark
  <1> DEFINE s == Settle(m, c, result)
             n == Finish(m, c, result)
  <1>1. s \in Managers /\ m \in Managers
    BY SettleOK DEF OK
  <1>2. /\ \A d \in Calls : s.calls[d].at = m.calls[d].at /\ s.calls[d].key = m.calls[d].key
        /\ s.conns = m.conns /\ s.stored = m.stored /\ s.tunnels = m.tunnels
        /\ s.mark = m.mark
    BY <1>1, SettleEffect
  <1>3. n = Goes(s, c, "done")
    BY DEF Finish
  <1> HIDE DEF s, n
  <1>4. /\ OnlyMoves(s, n, c) /\ n.calls[c].at = "done"
        /\ n.conns = s.conns /\ n.stored = s.stored /\ n.tunnels = s.tunnels
        /\ n.mark = s.mark
    BY <1>1, <1>3, GoesEffect
  <1>5. OnlyMoves(m, n, c)
    BY <1>2, <1>4 DEF OnlyMoves
  <1> QED
    BY <1>2, <1>4, <1>5 DEF n

\* Ending a connection empties the entry of the key and ends w, no other.
LEMMA EndEffect ==
  ASSUME NEW m \in Managers, NEW key \in Keys, NEW w \in Calls \union {None}
  PROVE  LET n == End(m, key, w)
         IN /\ n.calls = m.calls
            /\ \A d \in Calls : SameWire(m, n, d)
            /\ \A d \in Calls : d # w => n.conns[d] = m.conns[d]
            /\ w # None => n.conns[w].ended
            /\ n.stored[key] = None
            /\ \A k \in Keys : k # key => n.stored[k] = m.stored[k]
            /\ m.mark = None => n.tunnels = m.tunnels /\ n.mark = None
  <1> DEFINE e == [m EXCEPT !.stored[key] = None]
             t == CloseTunnel(e, key)
             n == End(m, key, w)
  <1>1. /\ e \in Managers /\ e.conns = m.conns /\ e.calls = m.calls
        /\ e.tunnels = m.tunnels /\ e.mark = m.mark
        /\ e.stored[key] = None
        /\ \A k \in Keys : k # key => e.stored[k] = m.stored[k]
    BY DEF Managers
  <1>2. /\ t \in Managers /\ t.conns = m.conns /\ t.calls = m.calls
        /\ t.stored = e.stored
        /\ m.mark = None => t.tunnels = m.tunnels /\ t.mark = None
    <2> HIDE DEF e
    <2> QED
      BY <1>1 DEF CloseTunnel, Managers, Tunnels
  <1>3. n = IF w = None THEN t ELSE [t EXCEPT !.conns[w].ended = TRUE]
    BY DEF End
  <1> HIDE DEF t
  <1>4. CASE w = None
    BY <1>1, <1>2, <1>3, <1>4 DEF SameWire
  <1>5. CASE w # None
    <2> DEFINE conn == [m.conns[w] EXCEPT !.ended = TRUE]
               new  == [m.conns EXCEPT ![w] = conn]
    <2>1. w \in Calls /\ m.conns \in [Calls -> Conn] /\ m.conns[w] \in Conn
      BY <1>5 DEF Managers
    <2>2. /\ conn.ended /\ conn.queue = m.conns[w].queue /\ conn.link = m.conns[w].link
          /\ conn.schema = m.conns[w].schema /\ conn.selected = m.conns[w].selected
      BY <2>1 DEF Conn
    <2> HIDE DEF conn
    <2>3. new[w] = conn /\ \A d \in Calls : d # w => new[d] = m.conns[d]
      BY <2>1
    <2>4. n = [t EXCEPT !.conns = new]
      BY <1>2, <1>3, <1>5 DEF conn
    <2> HIDE DEF new, n
    <2>5. /\ n.conns = new /\ n.calls = m.calls /\ n.stored = e.stored
          /\ m.mark = None => n.tunnels = m.tunnels /\ n.mark = None
      BY <1>2, <2>4 DEF Managers
    <2>6. \A d \in Calls : SameWire(m, n, d)
      BY <2>2, <2>3, <2>5 DEF SameWire
    <2> QED
      BY <1>1, <1>5, <2>2, <2>3, <2>5, <2>6 DEF n
  <1> QED
    BY <1>4, <1>5

\* create either throws or stores a connection that is connecting.
LEMMA CreatedEffect ==
  ASSUME NEW m, OK(m), NEW c \in Calls, NEW n \in Created(m, c)
  PROVE  /\ OnlyMoves(m, n, c) /\ n.tunnels = m.tunnels /\ n.mark = m.mark
         /\ \/ n.calls[c].at = "thrown" /\ n.conns = m.conns /\ n.stored = m.stored
            \/ /\ n.calls[c].at = "connecting" /\ n.conns[c] = NewConn(m, c)
               /\ \A d \in Calls : d # c => n.conns[d] = m.conns[d]
               /\ n.stored[m.calls[c].key] = c
               /\ \A k \in Keys : k # m.calls[c].key => n.stored[k] = m.stored[k]
  <1>1. m \in Managers /\ m.calls[c].key \in Keys
    BY DEF OK, Managers, Call
  <1>2. CASE n = Goes(m, c, "thrown")
    BY <1>1, <1>2, GoesEffect
  <1>3. CASE n = Goes([m EXCEPT !.conns[c] = NewConn(m, c),
                                !.stored[m.calls[c].key] = c], c, "connecting")
    <2> DEFINE g     == Goes(m, c, "connecting")
               new   == [m.conns EXCEPT ![c] = NewConn(m, c)]
               table == [m.stored EXCEPT ![m.calls[c].key] = c]
    <2>1. /\ OnlyMoves(m, g, c) /\ g.calls[c].at = "connecting"
          /\ g.tunnels = m.tunnels /\ g.mark = m.mark
      BY <1>1, GoesEffect
    <2>2. /\ new[c] = NewConn(m, c)
          /\ \A d \in Calls : d # c => new[d] = m.conns[d]
          /\ table[m.calls[c].key] = c
          /\ \A k \in Keys : k # m.calls[c].key => table[k] = m.stored[k]
      <3>1. m.conns \in [Calls -> Conn] /\ m.stored \in [Keys -> Calls \union {None}]
        BY <1>1 DEF Managers
      <3> QED
        BY <1>1, <3>1
    <2>3. n = [g EXCEPT !.conns = new, !.stored = table]
      BY <1>1, <1>3 DEF Goes, Managers
    <2>4. "connecting" \in Ats
      BY DEF Ats
    <2>5. g \in Managers
      BY <2>4, GoesOK DEF OK
    <2> HIDE DEF g, new, table
    <2>6. /\ n.conns = new /\ n.stored = table /\ n.calls = g.calls
          /\ n.tunnels = g.tunnels /\ n.mark = g.mark
      BY <2>3, <2>5 DEF Managers
    <2> QED
      BY <2>1, <2>2, <2>6 DEF OnlyMoves
  <1> QED
    BY <1>2, <1>3 DEF Created

-----------------------------------------------------------------------------
(* The schema a connection is noted with.  A call is about to make its     *)
(* connection, then waits for the first ping of it, and then is done: only *)
(* then may another call's ping note a schema.                             *)

\* The call has not got its connection yet.
Early == {"idle", "pinging", "port", "tunnel", "connecting"}

\* What is not usable yet takes no pings, and nothing is noted for it before
\* its first ping is answered.
Unused(m) ==
  \A c \in Calls :
    /\ m.calls[c].at \in Early => m.conns[c].queue = <<>> /\ m.conns[c].link # "open"
    /\ m.calls[c].at \in Early \union {"firstPing"} => m.conns[c].schema = None

\* The first ping of a connection is ahead of all others.  The ping of call x
\* has just been taken off its queue.
FirstAhead(m, x) ==
  \A c \in Calls :
    c # x /\ m.calls[c].at = "firstPing" =>
      m.conns[c].queue # <<>> /\ m.conns[c].queue[1].call = c

\* Whose ping is on its way, and how far its call is.
Waits(cs, w, c, x) ==
  /\ c # x
  /\ c = w => cs[c].at = "firstPing"
  /\ c # w => cs[c].at = "pinging"
Queued(cs, w, q, x) == \A i \in 1..Len(q) : Waits(cs, w, q[i].call, x)
Waiting(m, x) == \A w \in Calls : Queued(m.calls, w, m.conns[w].queue, x)

\* A call has one ping on its way at most.
Apart(q, r, same) ==
  \A i \in 1..Len(q), j \in 1..Len(r) : q[i].call = r[j].call => same /\ i = j
OnePing(m) ==
  \A w, u \in Calls : Apart(m.conns[w].queue, m.conns[u].queue, w = u)

\* What is noted has been selected.
NotedSelected(m) ==
  \A w \in Calls :
    m.conns[w].schema # None => m.conns[w].selected = m.conns[w].schema

Track(m, x) ==
  Unused(m) /\ FirstAhead(m, x) /\ Waiting(m, x) /\ OnePing(m) /\ NotedSelected(m)

\* Links that break and connections that are ended keep the invariant.
LEMMA TrackSame ==
  ASSUME NEW m, OK(m), NEW n, NEW x, Track(m, x),
         \A d \in Calls : /\ n.calls[d].at = m.calls[d].at
                          /\ n.conns[d].queue = m.conns[d].queue
                          /\ n.conns[d].schema = m.conns[d].schema
                          /\ n.conns[d].selected = m.conns[d].selected
                          /\ n.conns[d].link = m.conns[d].link \/ n.conns[d].link # "open"
  PROVE  Track(n, x)
  <1>1. Unused(n)
    BY DEF Track, Unused
  <1>2. FirstAhead(n, x)
    BY DEF Track, FirstAhead
  <1>3. Waiting(n, x)
    <2> SUFFICES ASSUME NEW w \in Calls, NEW i \in 1..Len(m.conns[w].queue)
                 PROVE  Waits(n.calls, w, m.conns[w].queue[i].call, x)
      BY DEF Waiting, Queued
    <2>1. /\ m.conns[w].queue[i].call \in Calls
          /\ Waits(m.calls, w, m.conns[w].queue[i].call, x)
      BY PingsCalls DEF OK, Track, Waiting, Queued
    <2> QED
      BY <2>1 DEF Waits
  <1>4. OnePing(n)
    BY DEF Track, OnePing
  <1>5. NotedSelected(n)
    BY DEF Track, NotedSelected
  <1> QED
    BY <1>1, <1>2, <1>3, <1>4, <1>5 DEF Track

\* A call none of whose pings is on its way is like one whose ping is taken.
LEMMA TrackIdle ==
  ASSUME NEW m, Track(m, None), NEW x \in Calls,
         m.calls[x].at \notin {"pinging", "firstPing"}
  PROVE  Track(m, x)
  <1>1. FirstAhead(m, x)
    BY ConnectionsAssumption DEF Track, FirstAhead
  <1>2. Waiting(m, x)
    BY DEF Track, Waiting, Queued, Waits
  <1> QED
    BY <1>1, <1>2 DEF Track

\* Call x moves on without a ping: to making its connection, or to its end.
LEMMA TrackMove ==
  ASSUME NEW m, OK(m), NEW n, NEW x \in Calls, Track(m, x), OnlyMoves(m, n, x),
         \A d \in Calls : d # x => SameWire(m, n, d),
         \/ /\ n.calls[x].at \in {"done", "thrown"}
            /\ n.conns[x].queue = m.conns[x].queue
            /\ n.conns[x].schema = m.conns[x].schema
            /\ n.conns[x].selected = m.conns[x].selected
         \/ /\ n.calls[x].at \in {"port", "tunnel", "connecting"}
            /\ m.calls[x].at \in Early
            /\ \/ SameWire(m, n, x)
               \/ /\ n.conns[x].queue = <<>> /\ n.conns[x].link # "open"
                  /\ n.conns[x].schema = None
  PROVE  Track(n, None)
  <1> USE DEF OnlyMoves, SameWire
  <1>1. Unused(n)
    BY DEF Track, Unused, Early
  <1>2. FirstAhead(n, None)
    BY DEF Track, FirstAhead
  <1>3. \A w \in Calls : n.conns[w].queue = m.conns[w].queue
    BY DEF Track, Unused
  <1>4. Waiting(n, None)
    <2> SUFFICES ASSUME NEW w \in Calls, NEW i \in 1..Len(m.conns[w].queue)
                 PROVE  Waits(n.calls, w, m.conns[w].queue[i].call, None)
      BY <1>3 DEF Waiting, Queued
    <2>1. /\ m.conns[w].queue[i].call \in Calls
          /\ Waits(m.calls, w, m.conns[w].queue[i].call, x)
      BY PingsCalls DEF OK, Track, Waiting, Queued
    <2> QED
      BY <2>1, ConnectionsAssumption DEF Waits
  <1>5. OnePing(n)
    BY <1>3 DEF Track, OnePing
  <1>6. NotedSelected(n)
    BY DEF Track, NotedSelected
  <1> QED
    BY <1>1, <1>2, <1>4, <1>5, <1>6 DEF Track

\* Call x sends a ping to a connection that is open, or the first one to its
\* own.
LEMMA TrackSend ==
  ASSUME NEW m, OK(m), NEW n, NEW x \in Calls, NEW w \in Calls, Track(m, x),
         OnlyMoves(m, n, x),
         NEW ping \in Ping, ping.call = x,
         \A d \in Calls : d # w => SameWire(m, n, d),
         n.conns[w].queue = Append(m.conns[w].queue, ping),
         n.conns[w].schema = m.conns[w].schema,
         n.conns[w].selected = m.conns[w].selected,
         \/ /\ n.calls[x].at = "pinging" /\ m.calls[x].at \in Early
            /\ m.calls[w].at \notin Early
         \/ /\ n.calls[x].at = "firstPing" /\ m.calls[x].at \in Early
            /\ w = x
  PROVE  Track(n, None)
  <1> DEFINE q == m.conns[w].queue
             r == Append(q, ping)
             k == Len(q)
  <1>1. q \in Seq(Ping)
    <2>1. m.conns[w] \in Conn
      BY DEF OK, Managers
    <2> QED
      BY <2>1 DEF Conn
  <1> HIDE DEF q
  <1>2. /\ k \in Nat /\ Len(r) = k + 1 /\ r[k + 1] = ping
        /\ \A i \in 1..k : r[i] = q[i]
        /\ \A i \in 1..Len(r) : i \in 1..k \/ i = k + 1
        /\ r # <<>>
    BY <1>1, AppendProperties, LenProperties
  <1> HIDE DEF r, k
  <1>3. n.conns[w].queue = r
    BY DEF r, q
  <1>4. \A i \in 1..k : q[i].call \in Calls /\ q[i].call # x
    BY <1>1, PingsCalls DEF OK, Track, Waiting, Queued, Waits, q, k
  <1>5. Unused(n)
    <2> SUFFICES ASSUME NEW c \in Calls
                 PROVE  /\ n.calls[c].at \in Early
                             => n.conns[c].queue = <<>> /\ n.conns[c].link # "open"
                        /\ n.calls[c].at \in Early \union {"firstPing"}
                             => n.conns[c].schema = None
      BY DEF Unused
    <2>1. CASE c # w /\ c # x
      BY <2>1 DEF OnlyMoves, SameWire, Track, Unused
    <2>2. CASE c = w /\ c # x
      BY <2>2 DEF OnlyMoves, Track, Unused
    <2>3. CASE c = x /\ c # w
      BY <2>3 DEF SameWire, Track, Unused, Early
    <2>4. CASE c = x /\ c = w
      BY <2>4 DEF Track, Unused, Early
    <2> QED
      BY <2>1, <2>2, <2>3, <2>4
  <1>6. FirstAhead(n, None)
    <2> SUFFICES ASSUME NEW c \in Calls, n.calls[c].at = "firstPing"
                 PROVE  n.conns[c].queue # <<>> /\ n.conns[c].queue[1].call = c
      BY DEF FirstAhead
    <2>1. CASE c # x /\ c # w
      BY <2>1 DEF OnlyMoves, SameWire, Track, FirstAhead
    <2>2. CASE c # x /\ c = w
      <3>1. q # <<>> /\ q[1].call = c
        BY <2>2 DEF OnlyMoves, Track, FirstAhead, q
      <3>2. k > 0
        BY <3>1, <1>1, <1>2, EmptySeq DEF k
      <3> QED
        BY <1>2, <1>3, <2>2, <3>1, <3>2
    <2>3. CASE c = x
      <3>1. w = x /\ q = <<>>
        BY <2>3 DEF Track, Unused, q
      <3>2. k = 0
        BY <3>1, EmptySeq DEF k
      <3> QED
        BY <1>2, <1>3, <2>3, <3>1, <3>2
    <2> QED
      BY <2>1, <2>2, <2>3
  <1>7. Waiting(n, None)
    <2> SUFFICES ASSUME NEW u \in Calls, NEW i \in 1..Len(n.conns[u].queue)
                 PROVE  Waits(n.calls, u, n.conns[u].queue[i].call, None)
      BY DEF Waiting, Queued
    <2>1. CASE u # w
      <3>1. n.conns[u].queue = m.conns[u].queue
        BY <2>1 DEF SameWire
      <3>2. /\ m.conns[u].queue[i].call \in Calls
            /\ Waits(m.calls, u, m.conns[u].queue[i].call, x)
        BY <3>1, PingsCalls DEF OK, Track, Waiting, Queued
      <3> QED
        BY <3>1, <3>2, ConnectionsAssumption DEF Waits, OnlyMoves
    <2>2. CASE u = w /\ i \in 1..k
      <3>1. n.conns[u].queue[i] = q[i]
        BY <1>2, <1>3, <2>2
      <3>2. Waits(m.calls, u, q[i].call, x) /\ q[i].call \in Calls
        BY <1>4, <2>2 DEF Track, Waiting, Queued, q, k
      <3> QED
        BY <3>1, <3>2, ConnectionsAssumption DEF Waits, OnlyMoves
    <2>3. CASE u = w /\ i = k + 1
      <3>1. n.conns[u].queue[i].call = x
        BY <1>2, <1>3, <2>3
      <3>2. w = x \/ n.calls[x].at = "pinging"
        OBVIOUS
      <3>3. n.calls[x].at = "pinging" => w # x
        BY DEF Early
      <3> QED
        BY <2>3, <3>1, <3>2, <3>3, ConnectionsAssumption DEF Waits
    <2> QED
      BY <1>2, <1>3, <2>1, <2>2, <2>3
  <1>8. OnePing(n)
    <2> SUFFICES ASSUME NEW u \in Calls, NEW v \in Calls,
                        NEW i \in 1..Len(n.conns[u].queue),
                        NEW j \in 1..Len(n.conns[v].queue),
                        n.conns[u].queue[i].call = n.conns[v].queue[j].call
                 PROVE  u = v /\ i = j
      BY DEF OnePing, Apart
    <2>1. ASSUME NEW a \in Calls, NEW h \in 1..Len(n.conns[a].queue)
          PROVE  \/ /\ h \in 1..Len(m.conns[a].queue)
                    /\ n.conns[a].queue[h] = m.conns[a].queue[h]
                    /\ n.conns[a].queue[h].call # x
                 \/ a = w /\ h = k + 1 /\ n.conns[a].queue[h].call = x
      <3>1. CASE a # w
        BY <3>1 DEF SameWire, Track, Waiting, Queued, Waits
      <3>2. CASE a = w
        BY <1>2, <1>3, <1>4, <3>2 DEF q, k
      <3> QED
        BY <3>1, <3>2
    <2> DEFINE Old(a, h) == /\ h \in 1..Len(m.conns[a].queue)
                            /\ n.conns[a].queue[h] = m.conns[a].queue[h]
                            /\ n.conns[a].queue[h].call # x
               New(a, h) == a = w /\ h = k + 1 /\ n.conns[a].queue[h].call = x
    <2>2. (Old(u, i) \/ New(u, i)) /\ (Old(v, j) \/ New(v, j))
      BY <2>1
    <2>3. CASE Old(u, i) /\ Old(v, j)
      <3>1. Apart(m.conns[u].queue, m.conns[v].queue, u = v)
        BY DEF Track, OnePing
      <3> QED
        BY <2>3, <3>1 DEF Apart
    <2> QED
      BY <2>2, <2>3
  <1>9. NotedSelected(n)
    BY DEF Track, NotedSelected, SameWire
  <1> QED
    BY <1>5, <1>6, <1>7, <1>8, <1>9 DEF Track

\* The oldest ping of a connection is taken: it is the first one of the call
\* that made the connection, or that call is done.
LEMMA TrackTake ==
  ASSUME NEW m, OK(m), NEW n, NEW w \in Calls, Track(m, None),
         m.conns[w].queue # <<>>, n.calls = m.calls,
         \A d \in Calls : d # w => SameWire(m, n, d),
         n.conns[w].queue = Tail(m.conns[w].queue),
         n.conns[w].link = m.conns[w].link,
         n.conns[w].schema = m.conns[w].schema,
         n.conns[w].selected = m.conns[w].selected
  PROVE  LET x == Head(m.conns[w].queue).call
         IN /\ x \in Calls /\ Track(n, x)
            /\ n.calls[x].at = "firstPing" => x = w /\ n.conns[w].schema = None
            /\ n.calls[x].at # "firstPing" =>
                 /\ n.calls[x].at = "pinging"
                 /\ m.calls[w].at \notin Early \union {"firstPing"}
  <1> DEFINE q == m.conns[w].queue
             r == Tail(q)
             k == Len(q)
             x == Head(q).call
  <1>1. q \in Seq(Ping)
    <2>1. m.conns[w] \in Conn
      BY DEF OK, Managers
    <2> QED
      BY <2>1 DEF Conn
  <1>2. q # <<>>
    OBVIOUS
  <1> HIDE DEF q
  <1>3. /\ k \in Nat \ {0} /\ Len(r) = k - 1 /\ Head(q) = q[1] /\ 1 \in 1..k
        /\ \A i \in 1..(k - 1) : r[i] = q[i + 1] /\ i + 1 \in 1..k /\ i + 1 # 1
    BY <1>1, <1>2, HeadTailProperties, EmptySeq
  <1> HIDE DEF r, k
  <1>4. x \in Calls /\ \A i \in 1..k : q[i].call \in Calls
    BY <1>3, PingsCalls DEF OK, q, k
  <1>5. \A i \in 1..(k - 1) : r[i].call # x
    <2>1. Apart(q, q, TRUE)
      BY DEF Track, OnePing, Apart, q
    <2> QED
      BY <1>3, <2>1 DEF Apart, k
  <1>6. n.conns[w].queue = r /\ x = q[1].call
    BY <1>3 DEF r, q
  <1>7. /\ x = w => m.calls[x].at = "firstPing"
        /\ x # w => m.calls[x].at = "pinging"
    BY <1>3 DEF Track, Waiting, Queued, Waits, q, k
  <1> HIDE DEF x
  <1>8. Unused(n)
    BY <1>2 DEF Track, Unused, SameWire, q
  <1>9. FirstAhead(n, x)
    <2> SUFFICES ASSUME NEW c \in Calls, c # x, n.calls[c].at = "firstPing"
                 PROVE  n.conns[c].queue # <<>> /\ n.conns[c].queue[1].call = c
      BY DEF FirstAhead
    <2>1. m.conns[c].queue # <<>> /\ m.conns[c].queue[1].call = c
      BY ConnectionsAssumption DEF Track, FirstAhead
    <2>2. c # w
      BY <1>6, <2>1 DEF q
    <2> QED
      BY <2>1, <2>2 DEF SameWire
  <1>10. Waiting(n, x)
    <2> SUFFICES ASSUME NEW u \in Calls, NEW i \in 1..Len(n.conns[u].queue)
                 PROVE  Waits(n.calls, u, n.conns[u].queue[i].call, x)
      BY DEF Waiting, Queued
    <2>1. CASE u # w
      <3>1. n.conns[u].queue = m.conns[u].queue
        BY <2>1 DEF SameWire
      <3>2. Apart(q, m.conns[u].queue, w = u)
        BY DEF Track, OnePing, q
      <3>3. m.conns[u].queue[i].call # x
        BY <1>3, <1>6, <2>1, <3>1, <3>2 DEF Apart, k
      <3>4. Waits(m.calls, u, m.conns[u].queue[i].call, None)
        BY <3>1 DEF Track, Waiting, Queued
      <3> QED
        BY <3>1, <3>3, <3>4 DEF Waits
    <2>2. CASE u = w
      <3>1. /\ i \in 1..(k - 1) /\ n.conns[u].queue[i] = q[i + 1]
            /\ i + 1 \in 1..k /\ r[i] = q[i + 1]
        BY <1>3, <1>6, <2>2
      <3>2. q[i + 1].call # x
        BY <1>5, <3>1
      <3>3. Waits(m.calls, w, q[i + 1].call, None)
        BY <3>1 DEF Track, Waiting, Queued, q, k
      <3> QED
        BY <2>2, <3>1, <3>2, <3>3 DEF Waits
    <2> QED
      BY <2>1, <2>2
  <1>11. OnePing(n)
    <2> SUFFICES ASSUME NEW u \in Calls, NEW v \in Calls,
                        NEW i \in 1..Len(n.conns[u].queue),
                        NEW j \in 1..Len(n.conns[v].queue),
                        n.conns[u].queue[i].call = n.conns[v].queue[j].call
                 PROVE  u = v /\ i = j
      BY DEF OnePing, Apart
    <2> DEFINE old(a, h) == IF a = w THEN h + 1 ELSE h
    <2>1. ASSUME NEW a \in Calls, NEW h \in 1..Len(n.conns[a].queue)
          PROVE  /\ old(a, h) \in 1..Len(m.conns[a].queue)
                 /\ n.conns[a].queue[h] = m.conns[a].queue[old(a, h)]
      BY <1>3, <1>6 DEF SameWire, q, k
    <2>2. i \in Nat /\ j \in Nat
      <3>1. \A s \in Nat : \A h \in 1..s : h \in Nat
        OBVIOUS
      <3>2. Len(n.conns[u].queue) \in Nat /\ Len(n.conns[v].queue) \in Nat
        <4>1. \A a \in Calls : m.conns[a].queue \in Seq(Ping)
          BY DEF OK, Managers, Conn
        <4>2. r \in Seq(Ping)
          BY <1>1, <1>2, HeadTailProperties DEF r
        <4>3. \A a \in Calls : n.conns[a].queue \in Seq(Ping)
          BY <1>6, <4>1, <4>2 DEF SameWire
        <4> QED
          BY <4>3, LenProperties
      <3> QED
        BY <3>1, <3>2
    <2>3. Apart(m.conns[u].queue, m.conns[v].queue, u = v)
      BY DEF Track, OnePing
    <2>4. /\ old(u, i) \in 1..Len(m.conns[u].queue)
          /\ old(v, j) \in 1..Len(m.conns[v].queue)
          /\ m.conns[u].queue[old(u, i)].call = m.conns[v].queue[old(v, j)].call
      BY <2>1
    <2>5. u = v /\ old(u, i) = old(v, j)
      <3> HIDE DEF old
      <3> QED
        BY <2>3, <2>4 DEF Apart
    <2> QED
      BY <2>2, <2>5
  <1>12. NotedSelected(n)
    BY DEF Track, NotedSelected, SameWire
  <1>13. m.calls[w].at = "firstPing" => x = w
    BY <1>6, ConnectionsAssumption DEF Track, FirstAhead, q
  <1>14. m.calls[w].at \notin Early
    BY <1>2 DEF Track, Unused, q
  <1>15. m.calls[w].at = "firstPing" => m.conns[w].schema = None
    BY DEF Track, Unused
  <1>16. Track(n, x)
    BY <1>8, <1>9, <1>10, <1>11, <1>12 DEF Track
  <1> QED
    BY <1>4, <1>7, <1>13, <1>14, <1>15, <1>16 DEF x, q

\* A ping that is answered notes its schema and selects it.
LEMMA TrackNote ==
  ASSUME NEW m, NEW n, NEW x, NEW w \in Calls, Track(m, x),
         n.calls = m.calls,
         \A d \in Calls : d # w => SameWire(m, n, d),
         n.conns[w].queue = m.conns[w].queue,
         n.conns[w].link = m.conns[w].link,
         \/ n.conns[w].schema = m.conns[w].schema /\ m.conns[w].schema = None
         \/ /\ m.calls[w].at \notin Early \union {"firstPing"}
            /\ n.conns[w].schema # None => n.conns[w].selected = n.conns[w].schema
  PROVE  Track(n, x)
  <1> USE DEF SameWire
  <1>1. Unused(n)
    BY DEF Track, Unused, Early
  <1>2. FirstAhead(n, x)
    BY DEF Track, FirstAhead
  <1>3. \A d \in Calls : n.conns[d].queue = m.conns[d].queue
    OBVIOUS
  <1>4. Waiting(n, x) /\ OnePing(n)
    BY <1>3 DEF Track, Waiting, OnePing
  <1>5. NotedSelected(n)
    BY DEF Track, NotedSelected
  <1> QED
    BY <1>1, <1>2, <1>4, <1>5 DEF Track

\* Making the connection, or failing to, keeps the invariant.
LEMMA TrackCreated ==
  ASSUME NEW m, OK(m), NEW c \in Calls, Track(m, c), m.calls[c].at \in Early,
         NEW n \in Created(m, c)
  PROVE  Track(n, None)
  <1>1. /\ OnlyMoves(m, n, c)
        /\ \/ n.calls[c].at = "thrown" /\ n.conns = m.conns
           \/ /\ n.calls[c].at = "connecting" /\ n.conns[c] = NewConn(m, c)
              /\ \A d \in Calls : d # c => n.conns[d] = m.conns[d]
    BY CreatedEffect
  <1>2. /\ NewConn(m, c).queue = <<>> /\ NewConn(m, c).link # "open"
        /\ NewConn(m, c).schema = None
    BY DEF NewConn, Fresh
  <1>3. \A d \in Calls : d # c => SameWire(m, n, d)
    BY <1>1 DEF SameWire
  <1> QED
    BY <1>1, <1>2, <1>3, TrackMove

\* So does waiting for a port first.
LEMMA TrackOpened ==
  ASSUME NEW m, OK(m), NEW c \in Calls, Track(m, c), m.calls[c].at \in Early,
         NEW n \in Opened(m, c)
  PROVE  Track(n, None)
  <1>1. CASE n \in Created(m, c)
    BY <1>1, TrackCreated
  <1>2. CASE n = Goes(m, c, "port")
    <2>1. OnlyMoves(m, n, c) /\ n.calls[c].at = "port" /\ n.conns = m.conns
      BY <1>2, GoesEffect DEF OK
    <2>2. \A d \in Calls : SameWire(m, n, d)
      BY <2>1 DEF SameWire
    <2> QED
      BY <2>1, <2>2, TrackMove
  <1> QED
    BY <1>1, <1>2 DEF Opened

\* getConnection up to its first await: a connection it pings is open, so its
\* own call has it.
LEMMA TrackRequested ==
  ASSUME NEW m, OK(m), NEW c \in Calls, Track(m, None), m.calls[c].at = "idle",
         NEW n \in Requested(m, c)
  PROVE  Track(n, None)
  <1> DEFINE call == m.calls[c]
             w    == m.stored[call.key]
  <1>1. /\ call.key \in Keys /\ call.schema \in Named /\ w \in Calls \union {None}
        /\ m \in Managers
    <2>1. call \in Call /\ m \in Managers
      BY DEF OK, Managers
    <2> QED
      BY <2>1 DEF Call, Managers
  <1>2. Track(m, c) /\ m.calls[c].at \in Early
    BY TrackIdle DEF Early
  <1>3. CASE n \in Opened(m, c)
    BY <1>2, <1>3, TrackOpened
  <1>4. CASE n = Finish(m, c, "resolved")
    <2>1. OnlyMoves(m, n, c) /\ n.calls[c].at = "done" /\ n.conns = m.conns
      BY <1>4, FinishEffect
    <2> QED
      BY <1>2, <2>1, TrackMove DEF SameWire
  <1>5. CASE /\ w # None /\ Alive(m, w)
             /\ n = [Goes(m, c, "pinging") EXCEPT
                       !.conns[w].queue = Append(@, [call |-> c, schema |-> call.schema])]
    <2> DEFINE g    == Goes(m, c, "pinging")
               ping == [call |-> c, schema |-> call.schema]
               q    == Append(m.conns[w].queue, ping)
               conn == [m.conns[w] EXCEPT !.queue = q]
    <2>1. /\ OnlyMoves(m, g, c) /\ g.calls[c].at = "pinging" /\ g.conns = m.conns
      BY <1>1, GoesEffect
    <2>2. ping \in Ping /\ ping.call = c /\ w \in Calls
      BY <1>1, <1>5 DEF Ping
    <2>3. m.conns \in [Calls -> Conn] /\ m.conns[w] \in Conn
      BY <1>1, <2>2 DEF Managers
    <2>4. /\ conn.queue = q /\ conn.link = m.conns[w].link
          /\ conn.schema = m.conns[w].schema /\ conn.selected = m.conns[w].selected
      <3> HIDE DEF q
      <3> QED
        BY <2>3 DEF Conn
    <2>5. g \in Managers
      <3>1. "pinging" \in Ats
        BY DEF Ats
      <3> QED
        BY <3>1, GoesOK DEF OK
    <2>6. n = [g EXCEPT !.conns = [m.conns EXCEPT ![w] = conn]]
      BY <1>5, <2>1
    <2> HIDE DEF g, conn, ping, w
    <2>7. /\ n.calls = g.calls /\ n.conns[w] = conn
          /\ \A d \in Calls : d # w => n.conns[d] = m.conns[d]
      BY <2>2, <2>3, <2>5, <2>6 DEF Managers
    <2>8. OnlyMoves(m, n, c) /\ \A d \in Calls : d # w => SameWire(m, n, d)
      BY <2>1, <2>7 DEF OnlyMoves, SameWire
    <2>9. m.calls[w].at \notin Early
      BY <1>5, <2>2 DEF Track, Unused, Alive, w
    <2>10. /\ n.conns[w].queue = Append(m.conns[w].queue, ping)
           /\ n.conns[w].schema = m.conns[w].schema
           /\ n.conns[w].selected = m.conns[w].selected
           /\ n.calls[c].at = "pinging"
      BY <2>1, <2>4, <2>7 DEF q
    <2> QED
      BY <1>2, <2>2, <2>8, <2>9, <2>10, TrackSend
  <1> QED
    BY <1>3, <1>4, <1>5 DEF Requested

\* Removing a connection moves no ping.
LEMMA TrackRemoved ==
  ASSUME NEW m, OK(m), NEW x, Track(m, x), NEW uid
  PROVE  Track(Removed(m, uid), x)
  <1>1. CASE uid \in Keys /\ m.stored[uid] # None
    <2> DEFINE n == End(m, uid, m.stored[uid])
    <2>1. m.stored[uid] \in Calls \union {None} /\ m \in Managers
      BY <1>1 DEF OK, Managers
    <2>2. n.calls = m.calls /\ \A d \in Calls : SameWire(m, n, d)
      BY <1>1, <2>1, EndEffect
    <2>3. Removed(m, uid) = n
      BY <1>1 DEF Removed
    <2> HIDE DEF n
    <2> QED
      BY <2>2, <2>3, TrackSame DEF SameWire
  <1>2. CASE ~(uid \in Keys /\ m.stored[uid] # None)
    BY <1>2 DEF Removed
  <1> QED
    BY <1>1, <1>2

\* The answer to the ping of a stored connection.
LEMMA TrackPinged ==
  ASSUME NEW m, OK(m), NEW w \in Calls, NEW ping \in Ping,
         m.calls[ping.call].key = m.calls[w].key,
         Track(m, ping.call), m.calls[ping.call].at = "pinging",
         m.calls[w].at \notin Early \union {"firstPing"},
         NEW works \in BOOLEAN, NEW n \in Pinged(m, w, ping, works)
  PROVE  Track(n, None)
  <1>1. ping.call \in Calls /\ ping.schema \in Named
    BY DEF Ping
  <1>2. CASE works
    <2> DEFINE selected == IF ping.schema = None THEN m.conns[w].selected ELSE ping.schema
               conn == [m.conns[w] EXCEPT !.schema = ping.schema, !.selected = selected]
               g    == [m EXCEPT !.conns = [m.conns EXCEPT ![w] = conn]]
    <2>1. m \in Managers /\ m.conns \in [Calls -> Conn] /\ m.conns[w] \in Conn
      BY DEF OK, Managers
    <2>2. selected \in Named /\ (ping.schema # None => selected = ping.schema)
      BY <1>1, <2>1 DEF Conn
    <2>3. /\ conn \in Conn /\ conn.ended = m.conns[w].ended
          /\ conn.queue = m.conns[w].queue /\ conn.link = m.conns[w].link
          /\ conn.schema = ping.schema /\ conn.selected = selected
      <3> HIDE DEF selected
      <3> QED
        BY <1>1, <2>1, <2>2 DEF Conn
    <2>4. g = [m EXCEPT !.conns[w].schema = ping.schema,
                        !.conns[w].selected = IF ping.schema = None THEN @ ELSE ping.schema]
      BY <2>1 DEF OK, Managers, Conn
    <2>5. n = Finish(g, ping.call, "resolved")
      BY <1>2, <2>4 DEF Pinged
    <2> HIDE DEF conn, selected
    <2>6. OK(g) /\ g.calls = m.calls
      BY <2>3, FieldsOK
    <2>7. g.conns[w] = conn /\ \A d \in Calls : d # w => g.conns[d] = m.conns[d]
      BY <2>1 DEF Managers
    <2> HIDE DEF g
    <2>8. \A d \in Calls : d # w => SameWire(m, g, d)
      BY <2>7 DEF SameWire
    <2>9. Track(g, ping.call)
      BY <2>2, <2>3, <2>6, <2>7, <2>8, TrackNote
    <2>10. OnlyMoves(g, n, ping.call) /\ n.calls[ping.call].at = "done" /\ n.conns = g.conns
      BY <1>1, <2>5, <2>6, FinishEffect
    <2> QED
      BY <1>1, <2>6, <2>9, <2>10, TrackMove DEF SameWire
  <1>3. CASE ~works
    <2> DEFINE key == m.calls[ping.call].key
               e   == End(m, key, w)
    <2>1. key \in Keys /\ m \in Managers
      BY <1>1 DEF OK, Managers, Call
    <2>2. OK(e) /\ e.calls = m.calls
      BY <2>1, EndOK
    <2>3. \A d \in Calls : SameWire(m, e, d)
      BY <2>1, EndEffect
    <2>4. n \in Opened(e, ping.call)
      BY <1>3 DEF Pinged
    <2> HIDE DEF e, key
    <2>5. Track(e, ping.call)
      BY <2>2, <2>3, TrackSame DEF SameWire
    <2>6. e.calls[ping.call].at \in Early
      BY <2>2 DEF Early
    <2> QED
      BY <1>1, <2>2, <2>4, <2>5, <2>6, TrackOpened
  <1> QED
    BY <1>2, <1>3

\* The answer to the first ping of a connection.
LEMMA TrackFirstPinged ==
  ASSUME NEW m, OK(m), NEW w \in Calls, NEW ping \in Ping,
         Track(m, ping.call), m.conns[w].schema = None,
         NEW works \in BOOLEAN, NEW n \in FirstPinged(m, w, ping, works)
  PROVE  Track(n, None)
  <1>1. ping.call \in Calls /\ ping.schema \in Named
    BY DEF Ping
  <1> DEFINE selected == IF works THEN ping.schema ELSE m.conns[w].selected
             conn == [m.conns[w] EXCEPT !.selected = selected]
             g    == [m EXCEPT !.conns = [m.conns EXCEPT ![w] = conn]]
  <1>2. m \in Managers /\ m.conns \in [Calls -> Conn] /\ m.conns[w] \in Conn
    BY DEF OK, Managers
  <1>3. selected \in Named
    BY <1>1, <1>2 DEF Conn
  <1>4. /\ conn \in Conn /\ conn.ended = m.conns[w].ended
        /\ conn.queue = m.conns[w].queue /\ conn.link = m.conns[w].link
        /\ conn.schema = m.conns[w].schema
    <2> HIDE DEF selected
    <2> QED
      BY <1>2, <1>3 DEF Conn
  <1>5. n = Finish(g, ping.call, "resolved")
    BY DEF FirstPinged
  <1> HIDE DEF conn
  <1>6. OK(g) /\ g.calls = m.calls
    BY <1>4, FieldsOK
  <1>7. g.conns[w] = conn /\ \A d \in Calls : d # w => g.conns[d] = m.conns[d]
    BY <1>2 DEF Managers
  <1> HIDE DEF g
  <1>8. \A d \in Calls : d # w => SameWire(m, g, d)
    BY <1>7 DEF SameWire
  <1>9. Track(g, ping.call)
    BY <1>4, <1>6, <1>7, <1>8, TrackNote
  <1>10. OnlyMoves(g, n, ping.call) /\ n.calls[ping.call].at = "done" /\ n.conns = g.conns
    BY <1>1, <1>5, <1>6, FinishEffect
  <1> QED
    BY <1>1, <1>6, <1>9, <1>10, TrackMove DEF SameWire

-----------------------------------------------------------------------------
(* The steps keep the invariant.                                           *)

Tracked == Track(Manager, None)

\* Becoming a state with the invariant establishes it.
LEMMA TrackBecomes ==
  ASSUME NEW n, Track(n, None), conns' = n.conns, calls' = n.calls
  PROVE  Tracked'
  <1>1. Manager'.conns = n.conns /\ Manager'.calls = n.calls
    BY DEF Manager
  <1>2. Unused(Manager') /\ FirstAhead(Manager', None) /\ Waiting(Manager', None)
    BY <1>1 DEF Track, Unused, FirstAhead, Waiting
  <1>3. OnePing(Manager') /\ NotedSelected(Manager')
    BY <1>1 DEF Track, OnePing, NotedSelected
  <1> QED
    BY <1>2, <1>3 DEF Tracked, Track

\* What getConnection is called with.
Rekeyed(c, key, schema) ==
  [Manager EXCEPT !.calls[c].key = key, !.calls[c].schema = schema]

\* What a call that has not started is asked for is not read by the invariant.
LEMMA TrackRekey ==
  ASSUME IInv, Tracked, NEW c \in Calls, calls[c].at = "idle",
         NEW key \in Keys, NEW schema \in Named,
         NEW m, m = Rekeyed(c, key, schema)
  PROVE  /\ OK(m) /\ Track(m, None) /\ m.calls[c].at = "idle"
         /\ m.calls[c].key = key
         /\ \A d \in Calls : m.calls[d].at = calls[d].at
         /\ \A d \in Calls : d # c => m.calls[d] = calls[d]
         /\ m.conns = conns /\ m.stored = stored
         /\ m.tunnels = tunnels /\ m.mark = mark
  <1> DEFINE call == [calls[c] EXCEPT !.key = key, !.schema = schema]
             new  == [calls EXCEPT ![c] = call]
  <1>1. OK(m)
    BY RekeyOK, Fields DEF IInv, Rekeyed
  <1>2. calls \in [Calls -> Call] /\ calls[c] \in Call
    BY Fields DEF IInv, OK, Managers
  <1>3. call.at = calls[c].at /\ call.key = key
    BY <1>2 DEF Call
  <1>4. m.calls = new
    BY <1>2 DEF Manager, Rekeyed
  <1>5. m.conns = conns /\ m.stored = stored /\ m.tunnels = tunnels /\ m.mark = mark
    BY DEF Manager, Rekeyed
  <1> HIDE DEF call
  <1>6. /\ \A d \in Calls : d # c => m.calls[d] = calls[d]
        /\ m.calls[c] = call
    BY <1>2, <1>4
  <1>7. \A d \in Calls : m.calls[d].at = calls[d].at
    BY <1>3, <1>6
  <1>8. Track(m, None)
    BY <1>5, <1>7, TrackSame, Fields DEF IInv, Tracked
  <1> QED
    BY <1>1, <1>3, <1>5, <1>6, <1>7, <1>8

\* getConnection keeps track.
LEMMA GetConnectionTracks ==
  ASSUME IInv, Tracked, NEW c \in Calls, NEW key \in Keys, NEW schema \in Named,
         GetConnection(c, key, schema)
  PROVE  Tracked'
  <1> DEFINE m == Rekeyed(c, key, schema)
  <1>1. PICK n \in Requested(m, c) : Becomes(n)
    BY DEF GetConnection, Rekeyed
  <1>2. calls[c].at = "idle"
    BY DEF GetConnection
  <1>3. OK(m) /\ Track(m, None) /\ m.calls[c].at = "idle"
    BY <1>2, TrackRekey
  <1> HIDE DEF m
  <1>4. Track(n, None)
    BY <1>1, <1>3, TrackRequested
  <1> QED
    BY <1>1, <1>4, TrackBecomes DEF Becomes

\* ConnectService.connect keeps track.
LEMMA ConnectTracks ==
  ASSUME IInv, Tracked, NEW c \in Calls, NEW schema \in Named, Connect(c, schema)
  PROVE  Tracked'
  <1> DEFINE m == Rekeyed(c, Id, schema)
  <1>1. PICK n \in Requested(Removed(m, Id), c) : Becomes(n)
    BY DEF Connect, Rekeyed
  <1>2. calls[c].at = "idle" /\ Id \in Keys
    BY DEF Connect, Keys
  <1>3. OK(m) /\ Track(m, None) /\ m.calls[c].at = "idle"
    BY <1>2, TrackRekey
  <1> HIDE DEF m
  <1>4. /\ OK(Removed(m, Id)) /\ Removed(m, Id).calls = m.calls
        /\ Track(Removed(m, Id), None)
    BY <1>3, RemovedOK, TrackRemoved
  <1>5. Track(n, None)
    BY <1>1, <1>3, <1>4, TrackRequested
  <1> QED
    BY <1>1, <1>5, TrackBecomes DEF Becomes

\* What AnswerPing takes off the queue leaves the call without a ping.
LEMMA TakenPing ==
  ASSUME IInv, Tracked, NEW w \in Calls, conns[w].queue # <<>>
  PROVE  LET ping == Head(conns[w].queue)
             m    == [Manager EXCEPT !.conns[w].queue = Tail(@)]
             x    == ping.call
         IN /\ OK(m) /\ Track(m, x) /\ ping \in Ping /\ x \in Calls
            /\ m.calls = calls /\ m.stored = stored
            /\ m.tunnels = tunnels /\ m.mark = mark
            /\ m.calls[x].key = m.calls[w].key
            /\ \A d \in Calls : d # w => m.conns[d] = conns[d]
            /\ m.conns[w].link = conns[w].link /\ m.conns[w].ended = conns[w].ended
            /\ m.conns[w].queue = Tail(conns[w].queue)
            /\ calls[x].at = "firstPing" => x = w /\ m.conns[w].schema = None
            /\ calls[x].at # "firstPing" =>
                 calls[x].at = "pinging" /\ calls[w].at \notin Early \union {"firstPing"}
  <1> DEFINE queue == conns[w].queue
             ping  == Head(queue)
             conn  == [conns[w] EXCEPT !.queue = Tail(queue)]
             m     == [Manager EXCEPT !.conns[w].queue = Tail(@)]
  <1>1. OK(Manager) /\ conns \in [Calls -> Conn] /\ conns[w] \in Conn
    BY Fields DEF IInv, OK, Managers
  <1>2. queue \in Seq(Ping) /\ queue # <<>>
    BY <1>1 DEF Conn
  <1>3. /\ ping \in Ping /\ ping = queue[1] /\ 1 \in 1..Len(queue)
        /\ Tail(queue) \in Seq(Ping)
        /\ \A i \in 1..Len(Tail(queue)) :
             i + 1 \in 1..Len(queue) /\ Tail(queue)[i] = queue[i + 1]
    <2> HIDE DEF queue
    <2> QED
      BY <1>2, HeadTailProperties, ElementOfSeq
  <1>4. Asks(calls, w, queue)
    BY Fields DEF IInv, OK, SameKey
  <1>5. /\ conn \in Conn /\ conn.ended = conns[w].ended /\ conn.queue = Tail(queue)
        /\ conn.link = conns[w].link /\ conn.schema = conns[w].schema
        /\ conn.selected = conns[w].selected
    <2> HIDE DEF queue
    <2> QED
      BY <1>1, <1>3 DEF Conn
  <1>6. m = [Manager EXCEPT !.conns = [Manager.conns EXCEPT ![w] = conn]]
    BY Fields
  <1>7. m.tunnels = tunnels /\ m.mark = mark /\ m.conns = [conns EXCEPT ![w] = conn]
    BY DEF Manager
  <1> HIDE DEF m, conn, ping, queue
  <1>8. Asks(calls, w, conn.queue)
    <2> SUFFICES ASSUME NEW i \in 1..Len(Tail(queue))
                 PROVE  /\ calls[w].at # "idle"
                        /\ calls[Tail(queue)[i].call].key = calls[w].key
                        /\ calls[Tail(queue)[i].call].at # "idle"
      BY <1>5 DEF Asks
    <2>1. i + 1 \in 1..Len(queue) /\ Tail(queue)[i] = queue[i + 1]
      BY <1>3
    <2> QED
      BY <2>1, <1>4 DEF Asks
  <1>9. OK(m) /\ m.calls = calls /\ m.stored = stored
    BY <1>5, <1>6, <1>8, ConnOK, Fields DEF IInv
  <1>10. m.calls[ping.call].key = m.calls[w].key
    BY <1>3, <1>4, <1>9 DEF Asks
  <1>11. /\ m.conns[w] = conn
         /\ \A d \in Calls : d # w => m.conns[d] = conns[d]
    BY <1>1, <1>7
  <1>12. \A d \in Calls : d # w => SameWire(Manager, m, d)
    BY <1>11, Fields DEF SameWire
  <1>13. LET x == Head(Manager.conns[w].queue).call
         IN /\ x \in Calls /\ Track(m, x)
            /\ m.calls[x].at = "firstPing" => x = w /\ m.conns[w].schema = None
            /\ m.calls[x].at # "firstPing" =>
                 /\ m.calls[x].at = "pinging"
                 /\ Manager.calls[w].at \notin Early \union {"firstPing"}
    <2>1. /\ Track(Manager, None) /\ Manager.conns[w].queue # <<>>
          /\ m.calls = Manager.calls
          /\ m.conns[w].queue = Tail(Manager.conns[w].queue)
          /\ m.conns[w].link = Manager.conns[w].link
          /\ m.conns[w].schema = Manager.conns[w].schema
          /\ m.conns[w].selected = Manager.conns[w].selected
      BY <1>5, <1>9, <1>11, Fields DEF Tracked, queue
    <2> QED
      BY <1>1, <1>12, <2>1, TrackTake
  <1> QED
    BY <1>3, <1>5, <1>7, <1>9, <1>10, <1>11, <1>13, Fields DEF m, ping, queue

\* The answer to a ping keeps track.
LEMMA AnswerPingTracks ==
  ASSUME IInv, Tracked, NEW w \in Calls, NEW works \in BOOLEAN, AnswerPing(w, works)
  PROVE  Tracked'
  <1> DEFINE ping == Head(conns[w].queue)
             m    == [Manager EXCEPT !.conns[w].queue = Tail(@)]
  <1>1. PICK n \in IF calls[ping.call].at = "firstPing"
                   THEN FirstPinged(m, w, ping, works)
                   ELSE Pinged(m, w, ping, works) : Becomes(n)
    BY DEF AnswerPing
  <1>2. /\ OK(m) /\ Track(m, ping.call) /\ ping \in Ping /\ ping.call \in Calls
        /\ m.calls = calls /\ m.calls[ping.call].key = m.calls[w].key
        /\ calls[ping.call].at = "firstPing" => m.conns[w].schema = None
        /\ calls[ping.call].at # "firstPing" =>
             /\ calls[ping.call].at = "pinging"
             /\ calls[w].at \notin Early \union {"firstPing"}
    BY TakenPing DEF AnswerPing
  <1> HIDE DEF m, ping
  <1>3. Track(n, None)
    <2>1. CASE calls[ping.call].at = "firstPing"
      BY <1>1, <1>2, <2>1, TrackFirstPinged
    <2>2. CASE calls[ping.call].at # "firstPing"
      BY <1>1, <1>2, <2>2, TrackPinged
    <2> QED
      BY <2>1, <2>2
  <1> QED
    BY <1>1, <1>3, TrackBecomes DEF Becomes

\* A connection whose link has changed.
Linked(w, link) == [Manager EXCEPT !.conns[w].link = link]

\* A new link changes nothing else of a connection, and no other connection.
LEMMA LinkEffect ==
  ASSUME IInv, NEW w \in Calls, NEW link \in {"connecting", "open", "failed", "lost"},
         NEW m, m = Linked(w, link)
  PROVE  /\ OK(m) /\ m.calls = calls /\ m.stored = stored
         /\ m.tunnels = tunnels /\ m.mark = mark
         /\ \A d \in Calls : d # w => m.conns[d] = conns[d]
         /\ m.conns[w].link = link /\ m.conns[w].ended = conns[w].ended
         /\ m.conns[w].queue = conns[w].queue
         /\ m.conns[w].schema = conns[w].schema
         /\ m.conns[w].selected = conns[w].selected
  <1> DEFINE conn == [conns[w] EXCEPT !.link = link]
  <1>1. conns \in [Calls -> Conn] /\ conns[w] \in Conn
    BY Fields DEF IInv, OK, Managers
  <1>2. /\ conn.link = link /\ conn.ended = conns[w].ended
        /\ conn.queue = conns[w].queue /\ conn.schema = conns[w].schema
        /\ conn.selected = conns[w].selected
    BY <1>1 DEF Conn
  <1>3. m.conns = [conns EXCEPT ![w] = conn] /\ m.tunnels = tunnels /\ m.mark = mark
    BY DEF Manager, Linked
  <1>4. OK(m) /\ m.calls = calls /\ m.stored = stored
    BY LinkOK DEF IInv, Linked
  <1> HIDE DEF conn
  <1>5. m.conns[w] = conn /\ \A d \in Calls : d # w => m.conns[d] = conns[d]
    BY <1>1, <1>3
  <1> QED
    BY <1>2, <1>3, <1>4, <1>5

\* A connection that is reported keeps track: its first ping is the first in
\* its queue.
LEMMA ConnectedTracks ==
  ASSUME IInv, Tracked, NEW c \in Calls, Connected(c)
  PROVE  Tracked'
  <1> DEFINE m == Linked(c, "open")
             schema == calls[c].schema
             ping == [call |-> c, schema |-> schema]
             g == Goes(m, c, "firstPing")
             f == Finish(m, c, "resolved")
             s == [g EXCEPT !.conns[c].queue = Append(@, ping)]
  <1>1. Becomes(f) \/ Becomes(s)
    BY DEF Connected, Linked
  <1>2. /\ OK(m) /\ m.calls = calls
        /\ \A d \in Calls : d # c => m.conns[d] = conns[d]
        /\ m.conns[c].queue = conns[c].queue
        /\ m.conns[c].schema = conns[c].schema
        /\ m.conns[c].selected = conns[c].selected
    BY LinkEffect
  <1>3. ping \in Ping /\ ping.call = c
    BY Fields DEF IInv, OK, Managers, Call, Ping
  <1>4. calls[c].at = "connecting"
    BY DEF Connected
  <1> HIDE DEF m, ping
  <1>5. Track(Manager, c) /\ OK(Manager)
    BY <1>4, TrackIdle, Fields DEF Tracked, IInv
  <1>6. OnlyMoves(m, f, c) /\ f.calls[c].at = "done" /\ f.conns = m.conns
    BY <1>2, FinishEffect
  <1>7. Track(f, None)
    <2> HIDE DEF f
    <2>1. OnlyMoves(Manager, f, c)
      BY <1>2, <1>6, Fields DEF OnlyMoves
    <2>2. \A d \in Calls : d # c => SameWire(Manager, f, d)
      BY <1>2, <1>6, Fields DEF SameWire
    <2> QED
      BY <1>2, <1>5, <1>6, <2>1, <2>2, TrackMove, Fields
  <1>8. /\ OnlyMoves(m, g, c) /\ g.calls[c].at = "firstPing" /\ g.conns = m.conns
        /\ g \in Managers
    BY <1>2, GoesEffect, GoesOK DEF OK, Ats
  <1>9. Track(s, None)
    <2> HIDE DEF g
    <2> DEFINE conn == [m.conns[c] EXCEPT !.queue = Append(@, ping)]
               new  == [m.conns EXCEPT ![c] = conn]
    <2>1. m.conns \in [Calls -> Conn] /\ m.conns[c] \in Conn
      BY <1>2 DEF OK, Managers
    <2>2. /\ conn.queue = Append(m.conns[c].queue, ping)
          /\ conn.schema = m.conns[c].schema /\ conn.selected = m.conns[c].selected
      BY <2>1 DEF Conn
    <2>3. s = [g EXCEPT !.conns = new]
      BY <1>8
    <2> HIDE DEF s, conn
    <2>4. new[c] = conn /\ \A d \in Calls : d # c => new[d] = m.conns[d]
      BY <2>1
    <2> HIDE DEF new
    <2>5. s.conns = new /\ s.calls = g.calls
      BY <1>8, <2>3 DEF Managers
    <2>6. OnlyMoves(Manager, s, c) /\ s.calls[c].at = "firstPing"
      BY <1>2, <1>8, <2>5, Fields DEF OnlyMoves
    <2>7. \A d \in Calls : d # c => SameWire(Manager, s, d)
      BY <1>2, <2>4, <2>5, Fields DEF SameWire
    <2>8. /\ s.conns[c].queue = Append(Manager.conns[c].queue, ping)
          /\ s.conns[c].schema = Manager.conns[c].schema
          /\ s.conns[c].selected = Manager.conns[c].selected
          /\ Manager.calls[c].at \in Early
      BY <1>2, <1>4, <2>2, <2>4, <2>5, Fields DEF Early
    <2> QED
      BY <1>3, <1>5, <2>6, <2>7, <2>8, TrackSend
  <1> HIDE DEF f, s
  <1> QED
    BY <1>1, <1>7, <1>9, TrackBecomes DEF Becomes

\* A connection that cannot be made keeps track.
LEMMA ConnectFailsTracks ==
  ASSUME IInv, Tracked, NEW c \in Calls, ConnectFails(c)
  PROVE  Tracked'
  <1> DEFINE key == calls[c].key
             w   == stored[key]
             m   == Linked(c, "failed")
             e   == End(m, key, w)
             n   == Finish(e, c, "rejected")
  <1>1. Becomes(n) /\ calls[c].at = "connecting"
    BY DEF ConnectFails, Linked
  <1>2. /\ OK(m) /\ m.calls = calls /\ m.stored = stored
        /\ \A d \in Calls : d # c => m.conns[d] = conns[d]
        /\ m.conns[c].queue = conns[c].queue
        /\ m.conns[c].schema = conns[c].schema
        /\ m.conns[c].selected = conns[c].selected
    BY LinkEffect
  <1>3. key \in Keys
    BY Fields DEF IInv, OK, Managers, Call
  <1> HIDE DEF m, key
  <1>4. w \in Calls \union {None} /\ (w # None => m.calls[w].key = key)
    BY <1>2, <1>3 DEF OK, Managers, Kept
  <1> HIDE DEF w
  <1>5. OK(e) /\ e.calls = m.calls /\ \A d \in Calls : SameWire(m, e, d)
    BY <1>2, <1>3, <1>4, EndOK, EndEffect DEF OK
  <1> HIDE DEF e
  <1>6. OnlyMoves(e, n, c) /\ n.calls[c].at = "done" /\ n.conns = e.conns
    BY <1>5, FinishEffect
  <1> HIDE DEF n
  <1>7. Track(Manager, c) /\ OK(Manager)
    BY <1>1, TrackIdle, Fields DEF Tracked, IInv
  <1>8. OnlyMoves(Manager, n, c)
    BY <1>2, <1>5, <1>6, Fields DEF OnlyMoves
  <1>9. \A d \in Calls : d # c => SameWire(Manager, n, d)
    BY <1>2, <1>5, <1>6, Fields DEF SameWire
  <1>10. /\ n.conns[c].queue = Manager.conns[c].queue
         /\ n.conns[c].schema = Manager.conns[c].schema
         /\ n.conns[c].selected = Manager.conns[c].selected
    BY <1>2, <1>5, <1>6, Fields DEF SameWire
  <1>11. Track(n, None)
    BY <1>6, <1>7, <1>8, <1>9, <1>10, TrackMove
  <1> QED
    BY <1>1, <1>11, TrackBecomes DEF Becomes

\* A connection that breaks keeps track, and so does Close Connection.
LEMMA LoseTracks ==
  ASSUME IInv, Tracked, NEW w \in Calls, Lose(w)
  PROVE  Tracked'
  <1> DEFINE m == Linked(w, "lost")
  <1>1. /\ OK(m) /\ m.calls = calls
        /\ \A d \in Calls : d # w => m.conns[d] = conns[d]
        /\ m.conns[w].link = "lost"
        /\ m.conns[w].queue = conns[w].queue
        /\ m.conns[w].schema = conns[w].schema
        /\ m.conns[w].selected = conns[w].selected
    BY LinkEffect
  <1>2. conns' = m.conns /\ calls' = m.calls
    BY <1>1 DEF Lose, Linked, Manager
  <1> HIDE DEF m
  <1>3. Track(m, None)
    BY <1>1, TrackSame, Fields DEF IInv, Tracked
  <1> QED
    BY <1>2, <1>3, TrackBecomes

\* removeConnection and closing take a key out of the table and leave the schemas right.
LEMMA CloseTracks ==
  ASSUME IInv, Tracked, Close
  PROVE  Tracked'
  <1> DEFINE m == Removed(Manager, NodeKey)
  <1>1. Track(m, None) /\ m.calls = calls
    BY TrackRemoved, RemovedOK, Fields DEF IInv, Tracked
  <1>2. conns' = m.conns /\ calls' = m.calls
    BY <1>1 DEF Close
  <1> HIDE DEF m
  <1> QED
    BY <1>1, <1>2, TrackBecomes

\* Opening a tunnel keeps track.
LEMMA PortFoundTracks ==
  ASSUME IInv, Tracked, NEW c \in Calls, PortFound(c)
  PROVE  Tracked'
  <1> DEFINE m == [Manager EXCEPT !.tunnels[c] = "starting"]
             n == Goes(m, c, "tunnel")
  <1>1. Becomes(n) /\ calls[c].at = "port"
    BY DEF PortFound
  <1>2. OK(m) /\ m.calls = calls /\ m.conns = conns
    BY TunnelOK DEF IInv, Tunnels, Manager
  <1> HIDE DEF m
  <1>3. OnlyMoves(m, n, c) /\ n.calls[c].at = "tunnel" /\ n.conns = m.conns
    BY <1>2, GoesEffect DEF OK
  <1> HIDE DEF n
  <1>4. Track(Manager, c) /\ OK(Manager)
    BY <1>1, TrackIdle, Fields DEF Tracked, IInv
  <1>5. OnlyMoves(Manager, n, c) /\ \A d \in Calls : SameWire(Manager, n, d)
    BY <1>2, <1>3, Fields DEF OnlyMoves, SameWire
  <1>6. Manager.calls[c].at \in Early
    BY <1>1, Fields DEF Early
  <1>7. Track(n, None)
    BY <1>3, <1>4, <1>5, <1>6, TrackMove
  <1> QED
    BY <1>1, <1>7, TrackBecomes DEF Becomes

\* So does a tunnel that is ready.
LEMMA TunnelReadyTracks ==
  ASSUME IInv, Tracked, NEW c \in Calls, TunnelReady(c)
  PROVE  Tracked'
  <1> DEFINE m == [Manager EXCEPT !.tunnels[c] = "listening"]
             g == IF tunnelling = "native" THEN m ELSE [m EXCEPT !.mark = c]
  <1>1. PICK n \in Created(g, c) : Becomes(n)
    BY DEF TunnelReady
  <1>2. OK(g) /\ g.calls = calls /\ g.conns = conns
    <2>1. OK(m)
      BY TunnelOK DEF IInv, Tunnels
    <2>2. OK([Manager EXCEPT !.tunnels[c] = "listening", !.mark = c])
      BY TunnelOK DEF IInv, Tunnels
    <2>3. [m EXCEPT !.mark = c]
            = [Manager EXCEPT !.tunnels[c] = "listening", !.mark = c]
      BY DEF Manager
    <2>4. g.calls = calls /\ g.conns = conns
      BY DEF Manager
    <2> QED
      BY <2>1, <2>2, <2>3, <2>4
  <1>3. calls[c].at = "tunnel"
    BY DEF TunnelReady
  <1> HIDE DEF g
  <1>4. Track(Manager, c) /\ OK(Manager)
    BY <1>3, TrackIdle, Fields DEF Tracked, IInv
  <1>5. Track(g, c)
    BY <1>2, <1>4, TrackSame, Fields
  <1>6. g.calls[c].at \in Early
    BY <1>2, <1>3 DEF Early
  <1>7. Track(n, None)
    BY <1>1, <1>2, <1>5, <1>6, TrackCreated
  <1> QED
    BY <1>1, <1>7, TrackBecomes DEF Becomes

\* What the failure of a tunnel does to the manager, but for its call.
LEMMA ForgottenTunnel ==
  ASSUME IInv, NEW c \in Calls,
         NEW m, m = [Manager EXCEPT !.tunnels[c] = "closed", !.mark = None,
                                    !.stored[calls[c].key] = None]
  PROVE  OK(m) /\ m.calls = calls /\ m.conns = conns
  <1> DEFINE g == [Manager EXCEPT !.tunnels[c] = "closed", !.mark = None]
             table == [stored EXCEPT ![calls[c].key] = None]
  <1>1. OK(g)
    BY TunnelOK DEF IInv, Tunnels
  <1>2. stored \in [Keys -> Calls \union {None}]
    BY Fields DEF IInv, OK, Managers
  <1>3. g.conns = conns /\ g.calls = calls /\ g.stored = stored
    BY DEF Manager
  <1>4. m = [g EXCEPT !.stored = table]
    BY DEF Manager
  <1>5. /\ table \in [Keys -> Calls \union {None}]
        /\ \A k \in Keys : table[k] \in {None, stored[k]}
    BY <1>2
  <1> HIDE DEF g, table
  <1>6. /\ m \in Managers /\ m.conns = g.conns /\ m.calls = g.calls
        /\ m.stored = table
    BY <1>1, <1>4, <1>5 DEF OK, Managers
  <1>7. OK(m)
    BY <1>1, <1>3, <1>5, <1>6, ForgetOK
  <1> QED
    BY <1>3, <1>6, <1>7

\* A tunnel that fails keeps track.
LEMMA TunnelFailsTracks ==
  ASSUME IInv, Tracked, NEW c \in Calls, TunnelFails(c)
  PROVE  Tracked'
  <1> DEFINE m == [Manager EXCEPT !.tunnels[c] = "closed", !.mark = None,
                                  !.stored[calls[c].key] = None]
             f == Finish(m, c, "rejected")
             s == Settle(m, c, "rejected")
  <1>1. Becomes(IF calls[c].at = "tunnel" THEN f ELSE s)
    BY DEF TunnelFails
  <1>2. OK(m) /\ m.calls = calls /\ m.conns = conns
    BY ForgottenTunnel
  <1> HIDE DEF m
  <1>3. CASE calls[c].at = "tunnel"
    <2>1. OnlyMoves(m, f, c) /\ f.calls[c].at = "done" /\ f.conns = m.conns
      BY <1>2, FinishEffect
    <2> HIDE DEF f
    <2>2. Track(Manager, c) /\ OK(Manager)
      BY <1>3, TrackIdle, Fields DEF Tracked, IInv
    <2>3. OnlyMoves(Manager, f, c) /\ \A d \in Calls : SameWire(Manager, f, d)
      BY <1>2, <2>1, Fields DEF OnlyMoves, SameWire
    <2>4. Track(f, None)
      BY <2>1, <2>2, <2>3, TrackMove DEF SameWire
    <2> QED
      BY <1>1, <1>3, <2>4, TrackBecomes DEF Becomes
  <1>4. CASE calls[c].at # "tunnel"
    <2>1. /\ \A d \in Calls : s.calls[d].at = m.calls[d].at
          /\ s.conns = m.conns
      BY <1>2, SettleEffect DEF OK
    <2> HIDE DEF s
    <2>2. Track(s, None)
      BY <1>2, <2>1, TrackSame, Fields DEF IInv, Tracked
    <2> QED
      BY <1>1, <1>4, <2>2, TrackBecomes DEF Becomes
  <1> QED
    BY <1>3, <1>4

\* Nothing is on its way and nothing is noted initially.
LEMMA InitTracks ==
  ASSUME Init
  PROVE  Tracked
  <1>1. \A d \in Calls : /\ Manager.calls[d].at = "idle"
                         /\ Manager.conns[d].queue = <<>>
                         /\ Manager.conns[d].schema = None
                         /\ Manager.conns[d].link = "none"
    BY DEF Init, Manager, Fresh
  <1>2. Unused(Manager) /\ FirstAhead(Manager, None) /\ NotedSelected(Manager)
    BY <1>1 DEF Unused, FirstAhead, NotedSelected
  <1>3. Len(<<>>) = 0
    OBVIOUS
  <1>4. Waiting(Manager, None) /\ OnePing(Manager)
    BY <1>1, <1>3 DEF Waiting, Queued, OnePing, Apart
  <1> QED
    BY <1>2, <1>4 DEF Tracked, Track

\* Every step keeps track.
LEMMA NextTracks ==
  ASSUME IInv, Tracked, [Next]_vars
  PROVE  Tracked'
  <1>1. CASE Next
    <2>1. ASSUME NEW c \in Calls, StreamFails(c)
          PROVE  Tracked'
      BY <2>1, TrackBecomes, Fields DEF StreamFails, Tracked
    <2> QED
      BY <1>1, <2>1, GetConnectionTracks, ConnectTracks, CloseTracks, AnswerPingTracks,
         ConnectedTracks, ConnectFailsTracks, LoseTracks, PortFoundTracks,
         TunnelReadyTracks, TunnelFailsTracks DEF Next
  <1>2. CASE UNCHANGED vars
    BY <1>2, TrackBecomes, Fields DEF vars, Tracked
  <1> QED
    BY <1>1, <1>2

\* The schema the manager notes for a connection that can be used and has no
\* ping on its way is the one its server has selected, however the pings of
\* calls for different schemas, failures and new connections interleave.  So a
\* call that skips the ping because its schema is noted runs its query there.
THEOREM SchemasAgree == Spec => []SchemaTracked
  <1>1. Init => IInv /\ Tracked
    BY InitInv, InitTracks
  <1>2. IInv /\ Tracked /\ [Next]_vars => IInv' /\ Tracked'
    BY NextInv, NextTracks
  <1>3. Tracked => SchemaTracked
    BY Fields DEF Tracked, Track, NotedSelected, SchemaTracked
  <1> QED
    BY <1>1, <1>2, <1>3, PTL DEF Spec

-----------------------------------------------------------------------------
(* Where connections are kept when there are no tunnels: O is the set of   *)
(* the keys for which calls have overlapped.                               *)

Live(m, w) == ~m.conns[w].ended /\ m.conns[w].link \in {"connecting", "open"}
Runs(m, c) == m.calls[c].at \notin {"idle", "done", "thrown"}

\* No call opens a tunnel.
Bare(m) ==
  /\ m.mark = None
  /\ \A c \in Calls : m.tunnels[c] = "none" /\ m.calls[c].at \notin {"port", "tunnel"}

\* Who has asked for no connection yet has none, and whose driver has not
\* reported waits for it.
Links(m) ==
  \A c \in Calls :
    /\ m.calls[c].at \in {"idle", "pinging"} => m.conns[c].link = "none"
    /\ m.conns[c].link = "connecting" <=> m.calls[c].at = "connecting"

\* Calls for a key that has seen no overlap run one at a time.
Single(m, O) ==
  \A c, d \in Calls :
    Runs(m, c) /\ Runs(m, d) /\ m.calls[c].key = m.calls[d].key =>
      m.calls[c].key \in O \/ c = d

\* The connection of such a key is in the table, ...
LiveKept(m, O) ==
  \A w \in Calls :
    Live(m, w) /\ m.calls[w].key \notin O => m.stored[m.calls[w].key] = w

\* ... and a connection that waits for an answer has not been replaced there.
AskedKept(m, O) ==
  \A w \in Calls :
    m.conns[w].queue # <<>> /\ m.calls[w].key \notin O
      => m.stored[m.calls[w].key] \in {w, None}

InPlace(m, O) ==
  Bare(m) /\ Links(m) /\ Single(m, O) /\ LiveKept(m, O) /\ AskedKept(m, O)

\* No call but c runs for the key of c, unless calls have overlapped there.
Alone(m, O, c) ==
  m.calls[c].key \notin O =>
    \A d \in Calls : d # c /\ Runs(m, d) => m.calls[d].key # m.calls[c].key

\* Nor is there a connection for that key that could be used.
Vacant(m, O, c) ==
  m.calls[c].key \notin O =>
    \A w \in Calls : m.calls[w].key = m.calls[c].key => ~Live(m, w)

\* More overlaps claim less.
LEMMA InPlaceGrows ==
  ASSUME NEW m, NEW O, NEW P, O \subseteq P, InPlace(m, O)
  PROVE  InPlace(m, P)
  BY DEF InPlace, Single, LiveKept, AskedKept

\* A call that runs is alone.
LEMMA RunsAlone ==
  ASSUME NEW m, NEW O, Single(m, O), NEW c \in Calls, Runs(m, c)
  PROVE  Alone(m, O, c)
  BY DEF Single, Alone

\* Whatever a call that is alone does next, calls run one at a time.
LEMMA SingleMove ==
  ASSUME NEW m, NEW O, Single(m, O), NEW c \in Calls, Alone(m, O, c),
         NEW n, OnlyMoves(m, n, c)
  PROVE  Single(n, O)
  <1> SUFFICES ASSUME NEW a \in Calls, NEW b \in Calls, Runs(n, a), Runs(n, b),
                      n.calls[a].key = n.calls[b].key, n.calls[a].key \notin O,
                      a # b
               PROVE  FALSE
    BY DEF Single
  <1>1. m.calls[a].key = m.calls[b].key /\ m.calls[a].key \notin O
    BY DEF OnlyMoves
  <1>2. /\ a # c => Runs(m, a)
        /\ b # c => Runs(m, b)
    BY DEF OnlyMoves, Runs
  <1>3. CASE a # c /\ b # c
    BY <1>1, <1>2, <1>3 DEF Single
  <1>4. CASE a = c \/ b = c
    BY <1>1, <1>2, <1>4 DEF Alone
  <1> QED
    BY <1>3, <1>4

\* A call that moves on leaves its connection where it is, also when the driver
\* has just reported.
LEMMA InPlaceMove ==
  ASSUME NEW m, NEW O, InPlace(m, O), NEW c \in Calls, Alone(m, O, c),
         NEW n, OnlyMoves(m, n, c), n.mark = m.mark, n.tunnels = m.tunnels,
         n.stored = m.stored,
         \A d \in Calls : /\ \/ n.conns[d].link = m.conns[d].link
                             \/ d = c /\ m.conns[d].link = "connecting"
                          /\ n.conns[d].ended = m.conns[d].ended
                          /\ \/ n.conns[d].queue = m.conns[d].queue
                             \/ m.calls[d].key \in O
                             \/ m.stored[m.calls[d].key] \in {d, None},
         \/ n.calls[c].at = "pinging" /\ m.conns[c].link = "none"
         \/ /\ n.calls[c].at \in {"done", "thrown", "firstPing"}
            /\ n.conns[c].link # "connecting"
  PROVE  InPlace(n, O)
  <1> USE DEF OnlyMoves
  <1>1. Bare(n)
    BY DEF InPlace, Bare
  <1>2. Links(n)
    BY DEF InPlace, Links
  <1>3. Single(n, O)
    BY SingleMove DEF InPlace
  <1>4. LiveKept(n, O)
    BY DEF InPlace, LiveKept, Live
  <1>5. AskedKept(n, O)
    BY DEF InPlace, AskedKept
  <1> QED
    BY <1>1, <1>2, <1>3, <1>4, <1>5 DEF InPlace

\* Ending what may be in the table leaves nothing that could be used.
LEMMA InPlaceEnd ==
  ASSUME NEW m, OK(m), NEW O, InPlace(m, O), NEW c \in Calls,
         NEW key, key = m.calls[c].key, NEW w \in Calls \union {None},
         key \notin O => m.stored[key] \in {w, None}
  PROVE  InPlace(End(m, key, w), O) /\ Vacant(End(m, key, w), O, c)
  <1> DEFINE n == End(m, key, w)
  <1>1. m \in Managers /\ key \in Keys
    BY DEF OK, Managers, Call
  <1>2. /\ n.calls = m.calls
        /\ \A d \in Calls : n.conns[d].link = m.conns[d].link
        /\ \A d \in Calls : n.conns[d].queue = m.conns[d].queue
        /\ \A d \in Calls : d # w => n.conns[d] = m.conns[d]
        /\ w # None => n.conns[w].ended
        /\ n.stored[key] = None
        /\ \A k \in Keys : k # key => n.stored[k] = m.stored[k]
        /\ m.mark = None => n.mark = None /\ n.tunnels = m.tunnels
    BY <1>1, EndEffect DEF SameWire
  <1> HIDE DEF n
  <1>3. \A d \in Calls : m.calls[d].key \in Keys
    BY <1>1 DEF Managers, Call
  <1>4. \A d \in Calls : Live(n, d) => d # w /\ Live(m, d)
    <2> SUFFICES ASSUME NEW d \in Calls, Live(n, d)
                 PROVE  d # w /\ Live(m, d)
      OBVIOUS
    <2>1. d # w
      BY <1>2, ConnectionsAssumption DEF Live
    <2> QED
      BY <1>2, <2>1 DEF Live
  <1>5. key \notin O => \A d \in Calls : m.calls[d].key = key => ~Live(n, d)
    <2> SUFFICES ASSUME key \notin O, NEW d \in Calls, m.calls[d].key = key, Live(n, d)
                 PROVE  FALSE
      OBVIOUS
    <2>1. d # w /\ m.stored[key] = d
      BY <1>4 DEF InPlace, LiveKept
    <2> QED
      BY <2>1, ConnectionsAssumption
  <1>6. Vacant(n, O, c)
    BY <1>2, <1>5 DEF Vacant
  <1>7. Bare(n) /\ Links(n)
    BY <1>2 DEF InPlace, Bare, Links
  <1>8. Single(n, O)
    BY <1>2 DEF InPlace, Single, Runs
  <1>9. LiveKept(n, O)
    BY <1>2, <1>3, <1>4, <1>5 DEF InPlace, LiveKept
  <1>10. AskedKept(n, O)
    BY <1>2, <1>3 DEF InPlace, AskedKept
  <1> QED
    BY <1>6, <1>7, <1>8, <1>9, <1>10 DEF InPlace, n

\* Who waits for an answer is running.
LEMMA AskerRuns ==
  ASSUME NEW m, OK(m), NEW x, Track(m, x), NEW w \in Calls, m.conns[w].queue # <<>>
  PROVE  \E d \in Calls : d # x /\ Runs(m, d) /\ m.calls[d].key = m.calls[w].key
  <1> DEFINE q == m.conns[w].queue
             d == q[1].call
  <1>1. q \in Seq(Ping)
    <2>1. m.conns[w] \in Conn
      BY DEF OK, Managers
    <2> QED
      BY <2>1 DEF Conn
  <1>2. 1 \in 1..Len(q)
    <2> HIDE DEF q
    <2>1. q # <<>>
      BY DEF q
    <2> QED
      BY <1>1, <2>1, EmptySeq, LenProperties
  <1>3. d \in Calls /\ Waits(m.calls, w, d, x)
    BY <1>2, PingsCalls DEF OK, Track, Waiting, Queued
  <1>4. m.calls[d].key = m.calls[w].key
    BY <1>2 DEF OK, SameKey, Asks
  <1>5. d # x /\ Runs(m, d)
    BY <1>3 DEF Waits, Runs
  <1> HIDE DEF d
  <1> QED
    BY <1>3, <1>4, <1>5

\* A call that is alone and finds nothing it could use makes a connection, or
\* fails to.
LEMMA InPlaceCreated ==
  ASSUME NEW m, OK(m), NEW O, InPlace(m, O), NEW c \in Calls, Track(m, c),
         m.calls[c].at \in {"idle", "pinging"},
         Alone(m, O, c), Vacant(m, O, c), NEW n \in Created(m, c)
  PROVE  InPlace(n, O)
  <1> DEFINE key == m.calls[c].key
  <1>1. /\ OnlyMoves(m, n, c) /\ n.mark = m.mark /\ n.tunnels = m.tunnels
        /\ \/ n.calls[c].at = "thrown" /\ n.conns = m.conns /\ n.stored = m.stored
           \/ /\ n.calls[c].at = "connecting" /\ n.conns[c] = NewConn(m, c)
              /\ \A d \in Calls : d # c => n.conns[d] = m.conns[d]
              /\ n.stored[m.calls[c].key] = c
              /\ \A k \in Keys : k # m.calls[c].key => n.stored[k] = m.stored[k]
    BY CreatedEffect
  <1>2. m.conns[c].link = "none"
    BY DEF InPlace, Links
  <1>3. CASE n.calls[c].at = "thrown" /\ n.conns = m.conns /\ n.stored = m.stored
    <2>1. \A d \in Calls : /\ n.conns[d].link = m.conns[d].link
                           /\ n.conns[d].ended = m.conns[d].ended
                           /\ n.conns[d].queue = m.conns[d].queue
      BY <1>3
    <2> QED
      BY <1>1, <1>2, <1>3, <2>1, InPlaceMove
  <1>4. CASE n.calls[c].at = "connecting"
    <2>1. /\ n.conns[c].link = "connecting" /\ n.conns[c].queue = <<>>
          /\ \A d \in Calls : d # c => n.conns[d] = m.conns[d]
          /\ n.stored[key] = c
          /\ \A k \in Keys : k # key => n.stored[k] = m.stored[k]
      BY <1>1, <1>4 DEF NewConn, Fresh
    <2>2. /\ \A d \in Calls : n.calls[d].key = m.calls[d].key
          /\ \A d \in Calls : d # c => n.calls[d].at = m.calls[d].at
          /\ \A d \in Calls : m.calls[d].key \in Keys
          /\ n.calls[c].key = key
      BY <1>1 DEF OnlyMoves, OK, Managers, Call
    <2>3. \A d \in Calls : d # c /\ m.calls[d].key = key /\ key \notin O =>
            m.conns[d].queue = <<>>
      BY AskerRuns DEF Alone
    <2> HIDE DEF key
    <2>4. Bare(n)
      BY <1>1, <1>4, <2>2 DEF InPlace, Bare
    <2>5. Links(n)
      BY <1>4, <2>1, <2>2 DEF InPlace, Links
    <2>6. Single(n, O)
      BY <1>1, SingleMove DEF InPlace
    <2>7. LiveKept(n, O)
      BY <2>1, <2>2 DEF InPlace, LiveKept, Live, Vacant, key
    <2>8. AskedKept(n, O)
      BY <2>1, <2>2, <2>3 DEF InPlace, AskedKept
    <2> QED
      BY <2>4, <2>5, <2>6, <2>7, <2>8 DEF InPlace
  <1> QED
    BY <1>1, <1>3, <1>4

\* getConnection up to its first await: what it finds in the table is all that
\* could be used.
LEMMA InPlaceRequested ==
  ASSUME tunnelling = "no", NEW m, OK(m), NEW O, InPlace(m, O), NEW c \in Calls,
         Track(m, None), m.calls[c].at = "idle", Alone(m, O, c),
         NEW n \in Requested(m, c)
  PROVE  InPlace(n, O)
  <1> DEFINE call == m.calls[c]
             w    == m.stored[call.key]
  <1>1. Track(m, c) /\ m.conns[c].link = "none"
    BY TrackIdle DEF InPlace, Links
  <1>2. call.key \in Keys /\ w \in Calls \union {None} /\ m \in Managers
    BY DEF OK, Managers, Call
  <1>3. CASE (w = None \/ ~Alive(m, w)) /\ n \in Opened(m, c)
    <2>1. n \in Created(m, c)
      BY <1>3 DEF Opened
    <2>2. Vacant(m, O, c)
      <3> SUFFICES ASSUME call.key \notin O, NEW d \in Calls,
                          m.calls[d].key = call.key, Live(m, d)
                   PROVE  FALSE
        BY DEF Vacant
      <3>1. w = d
        BY DEF InPlace, LiveKept
      <3>2. m.conns[d].link = "connecting"
        BY <1>3, <3>1, ConnectionsAssumption DEF Live, Alive
      <3>3. m.calls[d].at = "connecting" /\ d # c
        BY <1>1, <3>2 DEF InPlace, Links
      <3> QED
        BY <3>3 DEF Alone, Runs
    <2> QED
      BY <1>1, <2>1, <2>2, InPlaceCreated
  <1>4. CASE n = Finish(m, c, "resolved")
    <2>1. /\ OnlyMoves(m, n, c) /\ n.calls[c].at = "done"
          /\ n.conns = m.conns /\ n.stored = m.stored /\ n.mark = m.mark
          /\ n.tunnels = m.tunnels
      BY <1>4, FinishEffect
    <2> QED
      BY <1>1, <2>1, InPlaceMove
  <1>5. CASE /\ w # None
             /\ n = [Goes(m, c, "pinging") EXCEPT
                       !.conns[w].queue = Append(@, [call |-> c, schema |-> call.schema])]
    <2> DEFINE g    == Goes(m, c, "pinging")
               q    == Append(m.conns[w].queue, [call |-> c, schema |-> call.schema])
               conn == [m.conns[w] EXCEPT !.queue = q]
               new  == [m.conns EXCEPT ![w] = conn]
    <2>1. /\ OnlyMoves(m, g, c) /\ g.calls[c].at = "pinging" /\ g.conns = m.conns
          /\ g.stored = m.stored /\ g.mark = m.mark /\ g.tunnels = m.tunnels
      BY <1>2, GoesEffect
    <2>2. w \in Calls /\ m.calls[w].key = call.key
      BY <1>2, <1>5 DEF OK, Kept
    <2>3. m.conns \in [Calls -> Conn] /\ m.conns[w] \in Conn
      BY <1>2, <2>2 DEF Managers
    <2>4. g \in Managers
      <3>1. "pinging" \in Ats
        BY DEF Ats
      <3> QED
        BY <3>1, GoesOK DEF OK
    <2>5. n = [g EXCEPT !.conns = new]
      BY <1>5, <2>1
    <2>6. conn.link = m.conns[w].link /\ conn.ended = m.conns[w].ended
      <3> HIDE DEF q
      <3> QED
        BY <2>3 DEF Conn
    <2> HIDE DEF g, conn
    <2>7. /\ \A d \in Calls : new[d].link = m.conns[d].link /\ new[d].ended = m.conns[d].ended
          /\ \A d \in Calls : d # w => new[d].queue = m.conns[d].queue
      <3> HIDE DEF w
      <3> QED
        BY <2>2, <2>3, <2>6
    <2> HIDE DEF new
    <2>8. /\ n.calls = g.calls /\ n.conns = new /\ n.stored = g.stored
          /\ n.mark = g.mark /\ n.tunnels = g.tunnels
      BY <2>4, <2>5 DEF Managers
    <2>9. OnlyMoves(m, n, c) /\ n.calls[c].at = "pinging"
      BY <2>1, <2>8 DEF OnlyMoves
    <2>10. m.stored[m.calls[w].key] = w
      BY <2>2
    <2> HIDE DEF w
    <2> QED
      BY <1>1, <2>1, <2>7, <2>8, <2>9, <2>10, InPlaceMove
  <1> QED
    BY <1>3, <1>4, <1>5 DEF Requested

Placed == tunnelling = "no" => InPlace(Manager, overlapped)

\* Becoming a state with the invariant establishes it.
LEMMA PlacedBecomes ==
  ASSUME NEW n, InPlace(n, overlapped'), stored' = n.stored, conns' = n.conns,
         calls' = n.calls, tunnels' = n.tunnels, mark' = n.mark
  PROVE  Placed'
  <1>1. /\ Manager'.conns = n.conns /\ Manager'.calls = n.calls
        /\ Manager'.stored = n.stored /\ Manager'.mark = n.mark
        /\ Manager'.tunnels = n.tunnels
    BY DEF Manager
  <1>2. Bare(Manager') /\ Links(Manager')
    BY <1>1 DEF InPlace, Bare, Links
  <1>3. Single(Manager', overlapped')
    BY <1>1 DEF InPlace, Single, Runs
  <1>4. LiveKept(Manager', overlapped') /\ AskedKept(Manager', overlapped')
    BY <1>1 DEF InPlace, LiveKept, AskedKept, Live
  <1> QED
    BY <1>2, <1>3, <1>4 DEF Placed, InPlace

\* A call that begins is alone, or its key is noted.
LEMMA BeginsAlone ==
  ASSUME IInv, Tracked, Placed, tunnelling = "no", NEW c \in Calls,
         calls[c].at = "idle", NEW key \in Keys, NEW schema \in Named, Noted(c, key),
         NEW m, m = Rekeyed(c, key, schema)
  PROVE  InPlace(m, overlapped') /\ Alone(m, overlapped', c)
  <1>1. /\ m.calls[c].at = "idle" /\ m.calls[c].key = key
        /\ \A d \in Calls : m.calls[d].at = calls[d].at
        /\ \A d \in Calls : d # c => m.calls[d] = calls[d]
        /\ m.conns = conns /\ m.stored = stored
        /\ m.tunnels = tunnels /\ m.mark = mark
    BY TrackRekey
  <1>2. InPlace(Manager, overlapped)
    BY DEF Placed
  <1>3. Bare(m) /\ Links(m)
    BY <1>1, <1>2, Fields DEF InPlace, Bare, Links
  <1>4. Single(m, overlapped)
    BY <1>1, <1>2, Fields DEF InPlace, Single, Runs
  <1>5. conns[c].link = "none" /\ conns[c].queue = <<>>
    <2>1. conns[c].link = "none"
      BY <1>2, Fields DEF InPlace, Links
    <2>2. conns[c].queue = <<>>
      BY Fields DEF Tracked, Track, Unused, Early
    <2> QED
      BY <2>1, <2>2
  <1>6. LiveKept(m, overlapped)
    <2> SUFFICES ASSUME NEW w \in Calls, Live(m, w), m.calls[w].key \notin overlapped
                 PROVE  m.stored[m.calls[w].key] = w
      BY DEF LiveKept
    <2>1. w # c
      BY <1>1, <1>5 DEF Live
    <2> QED
      BY <1>1, <1>2, <2>1, Fields DEF InPlace, LiveKept, Live
  <1>7. AskedKept(m, overlapped)
    <2> SUFFICES ASSUME NEW w \in Calls, m.conns[w].queue # <<>>,
                        m.calls[w].key \notin overlapped
                 PROVE  m.stored[m.calls[w].key] \in {w, None}
      BY DEF AskedKept
    <2>1. w # c
      BY <1>1, <1>5
    <2> QED
      BY <1>1, <1>2, <2>1, Fields DEF InPlace, AskedKept
  <1>8. InPlace(m, overlapped')
    <2>1. InPlace(m, overlapped)
      BY <1>3, <1>4, <1>6, <1>7 DEF InPlace
    <2>2. overlapped \subseteq overlapped'
      BY DEF Noted
    <2> QED
      BY <2>1, <2>2, InPlaceGrows
  <1>9. Alone(m, overlapped', c)
    <2> SUFFICES ASSUME key \notin overlapped', NEW d \in Calls, d # c, Runs(m, d)
                 PROVE  m.calls[d].key # key
      BY <1>1 DEF Alone
    <2>1. Running(d)
      BY <1>1 DEF Runs, Running
    <2>2. calls[d].key # key
      BY <2>1 DEF Noted
    <2> QED
      BY <1>1, <2>2
  <1> QED
    BY <1>8, <1>9

\* getConnection leaves connections in their places.
LEMMA GetConnectionPlaces ==
  ASSUME IInv, Tracked, Placed, NEW c \in Calls, NEW key \in Keys, NEW schema \in Named,
         GetConnection(c, key, schema)
  PROVE  Placed'
  <1> SUFFICES ASSUME tunnelling = "no"
               PROVE  Placed'
    BY DEF Placed, GetConnection, Becomes
  <1> DEFINE m == Rekeyed(c, key, schema)
  <1>1. PICK n \in Requested(m, c) : Becomes(n)
    BY DEF GetConnection, Rekeyed
  <1>2. calls[c].at = "idle" /\ Noted(c, key)
    BY DEF GetConnection
  <1>3. OK(m) /\ Track(m, None) /\ m.calls[c].at = "idle"
    BY <1>2, TrackRekey
  <1>4. InPlace(m, overlapped') /\ Alone(m, overlapped', c)
    BY <1>2, BeginsAlone
  <1> HIDE DEF m
  <1>5. InPlace(n, overlapped')
    BY <1>1, <1>3, <1>4, InPlaceRequested
  <1> QED
    BY <1>1, <1>5, PlacedBecomes DEF Becomes

\* So does ConnectService.connect, which removes what is in the table first.
LEMMA ConnectPlaces ==
  ASSUME IInv, Tracked, Placed, NEW c \in Calls, NEW schema \in Named, Connect(c, schema)
  PROVE  Placed'
  <1> SUFFICES ASSUME tunnelling = "no"
               PROVE  Placed'
    BY DEF Placed, Connect, Becomes
  <1> DEFINE m == Rekeyed(c, Id, schema)
             r == Removed(m, Id)
  <1>1. PICK n \in Requested(r, c) : Becomes(n)
    BY DEF Connect, Rekeyed
  <1>2. calls[c].at = "idle" /\ Noted(c, Id) /\ Id \in Keys
    BY DEF Connect, Keys
  <1>3. OK(m) /\ Track(m, None) /\ m.calls[c].at = "idle" /\ m.calls[c].key = Id
    BY <1>2, TrackRekey
  <1>4. InPlace(m, overlapped') /\ Alone(m, overlapped', c)
    BY <1>2, BeginsAlone
  <1> HIDE DEF m
  <1>5. OK(r) /\ r.calls = m.calls /\ Track(r, None)
    BY <1>3, RemovedOK, TrackRemoved
  <1>6. InPlace(r, overlapped')
    <2>1. m.stored[Id] \in Calls \union {None}
      BY <1>2, <1>3 DEF OK, Managers
    <2> QED
      BY <1>3, <1>4, <2>1, InPlaceEnd DEF Removed
  <1> HIDE DEF r
  <1>7. Alone(r, overlapped', c)
    BY <1>4, <1>5 DEF Alone, Runs
  <1>8. InPlace(n, overlapped')
    BY <1>1, <1>3, <1>5, <1>6, <1>7, InPlaceRequested
  <1> QED
    BY <1>1, <1>8, PlacedBecomes DEF Becomes

\* A ping that is answered leaves connections in their places: when it fails,
\* nothing but its connection can be in the table.
LEMMA AnswerPingPlaces ==
  ASSUME IInv, Tracked, Placed, NEW w \in Calls, NEW works \in BOOLEAN,
         AnswerPing(w, works)
  PROVE  Placed'
  <1> SUFFICES ASSUME tunnelling = "no"
               PROVE  Placed'
    BY DEF Placed, AnswerPing, Becomes
  <1> DEFINE ping == Head(conns[w].queue)
             x    == ping.call
             m    == [Manager EXCEPT !.conns[w].queue = Tail(@)]
  <1>1. PICK n \in IF calls[x].at = "firstPing"
                   THEN FirstPinged(m, w, ping, works)
                   ELSE Pinged(m, w, ping, works) : Becomes(n)
    BY DEF AnswerPing
  <1>2. /\ OK(m) /\ Track(m, x) /\ ping \in Ping /\ x \in Calls
        /\ m.calls = calls /\ m.stored = stored
        /\ m.tunnels = tunnels /\ m.mark = mark
        /\ m.calls[x].key = m.calls[w].key
        /\ \A d \in Calls : d # w => m.conns[d] = conns[d]
        /\ m.conns[w].link = conns[w].link /\ m.conns[w].ended = conns[w].ended
        /\ calls[x].at # "firstPing" => calls[x].at = "pinging"
    BY TakenPing DEF AnswerPing
  <1>3. conns[w].queue # <<>> /\ overlapped' = overlapped
    BY DEF AnswerPing
  <1>4. InPlace(Manager, overlapped)
    BY DEF Placed
  <1> HIDE DEF m, ping
  <1>5. /\ \A d \in Calls : Live(m, d) => Live(Manager, d)
        /\ \A d \in Calls : m.conns[d].link = conns[d].link
        /\ \A d \in Calls : m.conns[d].queue # <<>> => conns[d].queue # <<>>
    BY <1>2, <1>3, Fields DEF Live
  <1>6. Bare(m) /\ Links(m) /\ Single(m, overlapped)
    BY <1>2, <1>4, <1>5, Fields DEF InPlace, Bare, Links, Single, Runs
  <1>7. LiveKept(m, overlapped) /\ AskedKept(m, overlapped)
    BY <1>2, <1>4, <1>5, Fields DEF InPlace, LiveKept, AskedKept
  <1>8. InPlace(m, overlapped)
    BY <1>6, <1>7 DEF InPlace
  <1>9. Alone(m, overlapped, x)
    <2>1. Runs(m, x)
      BY <1>2 DEF Runs
    <2> QED
      BY <1>2, <1>6, <2>1, RunsAlone
  <1>10. m.conns[x].link # "connecting"
    BY <1>2, <1>6 DEF Links
  <1>11. ASSUME NEW conn, conn.link = m.conns[w].link, conn.ended = m.conns[w].ended,
                conn.queue = m.conns[w].queue, conn \in Conn,
                n = Finish([m EXCEPT !.conns = [m.conns EXCEPT ![w] = conn]], x, "resolved")
         PROVE  InPlace(n, overlapped)
    <2> DEFINE g == [m EXCEPT !.conns = [m.conns EXCEPT ![w] = conn]]
    <2>1. m \in Managers /\ m.conns \in [Calls -> Conn]
      BY <1>2 DEF OK, Managers
    <2>2. OK(g) /\ g.calls = m.calls /\ g.stored = m.stored
      BY <1>2, <1>11, FieldsOK
    <2>3. /\ g.conns[w] = conn /\ \A d \in Calls : d # w => g.conns[d] = m.conns[d]
          /\ g.tunnels = m.tunnels /\ g.mark = m.mark
      BY <2>1 DEF Managers
    <2> HIDE DEF g
    <2>4. /\ OnlyMoves(g, n, x) /\ n.calls[x].at = "done" /\ n.conns = g.conns
          /\ n.stored = g.stored /\ n.tunnels = g.tunnels /\ n.mark = g.mark
      BY <1>2, <1>11, <2>2, FinishEffect DEF g
    <2>5. OnlyMoves(m, n, x)
      BY <2>2, <2>4 DEF OnlyMoves
    <2>6. \A d \in Calls : /\ n.conns[d].link = m.conns[d].link
                           /\ n.conns[d].ended = m.conns[d].ended
                           /\ n.conns[d].queue = m.conns[d].queue
      BY <1>11, <2>3, <2>4
    <2> QED
      BY <1>2, <1>8, <1>9, <1>10, <2>2, <2>3, <2>4, <2>5, <2>6, InPlaceMove
  <1>12. m.conns[w] \in Conn /\ ping.schema \in Named
    BY <1>2 DEF OK, Managers, Ping
  <1>13. CASE calls[x].at = "firstPing"
    <2> DEFINE selected == IF works THEN ping.schema ELSE m.conns[w].selected
               conn == [m.conns[w] EXCEPT !.selected = selected]
    <2>1. selected \in Named
      BY <1>12 DEF Conn
    <2>2. n = Finish([m EXCEPT !.conns = [m.conns EXCEPT ![w] = conn]], x, "resolved")
      BY <1>1, <1>13 DEF FirstPinged
    <2>3. /\ conn.link = m.conns[w].link /\ conn.ended = m.conns[w].ended
          /\ conn.queue = m.conns[w].queue /\ conn \in Conn
      <3> HIDE DEF selected
      <3> QED
        BY <1>12, <2>1 DEF Conn
    <2> HIDE DEF conn
    <2>4. InPlace(n, overlapped)
      BY <1>11, <2>2, <2>3
    <2> QED
      BY <1>1, <1>3, <2>4, PlacedBecomes DEF Becomes
  <1>14. CASE calls[x].at = "pinging" /\ works
    <2> DEFINE selected == IF ping.schema = None THEN m.conns[w].selected ELSE ping.schema
               conn == [m.conns[w] EXCEPT !.schema = ping.schema, !.selected = selected]
    <2>1. selected \in Named
      BY <1>12 DEF Conn
    <2>2. n = Finish([m EXCEPT !.conns = [m.conns EXCEPT ![w] = conn]], x, "resolved")
      <3>1. n = Finish([m EXCEPT !.conns[w].schema = ping.schema,
                                 !.conns[w].selected = IF ping.schema = None THEN @
                                                       ELSE ping.schema], x, "resolved")
        BY <1>1, <1>14 DEF Pinged
      <3>2. [m EXCEPT !.conns[w].schema = ping.schema,
                      !.conns[w].selected = IF ping.schema = None THEN @ ELSE ping.schema]
              = [m EXCEPT !.conns = [m.conns EXCEPT ![w] = conn]]
        BY <1>2 DEF OK, Managers, Conn
      <3> QED
        BY <3>1, <3>2
    <2>3. /\ conn.link = m.conns[w].link /\ conn.ended = m.conns[w].ended
          /\ conn.queue = m.conns[w].queue /\ conn \in Conn
      <3> HIDE DEF selected
      <3> QED
        BY <1>12, <2>1 DEF Conn
    <2> HIDE DEF conn
    <2>4. InPlace(n, overlapped)
      BY <1>11, <2>2, <2>3
    <2> QED
      BY <1>1, <1>3, <2>4, PlacedBecomes DEF Becomes
  <1>15. CASE calls[x].at = "pinging" /\ ~works
    <2> DEFINE key == m.calls[x].key
               e   == End(m, key, w)
    <2>1. n \in Created(e, x)
      BY <1>1, <1>15 DEF Pinged, Opened
    <2>2. key \in Keys
      BY <1>2 DEF OK, Managers, Call
    <2>3. key \notin overlapped => m.stored[key] \in {w, None}
      BY <1>2, <1>3, <1>4, Fields DEF InPlace, AskedKept
    <2>4. InPlace(e, overlapped) /\ Vacant(e, overlapped, x)
      BY <1>2, <1>8, <2>3, InPlaceEnd
    <2>5. OK(e) /\ e.calls = m.calls
      BY <1>2, <2>2, EndOK
    <2>6. Track(e, x)
      <3>1. \A d \in Calls : SameWire(m, e, d)
        BY <1>2, <2>2, EndEffect DEF OK
      <3> QED
        BY <1>2, <2>5, <3>1, TrackSame DEF SameWire
    <2> HIDE DEF e, key
    <2>7. Alone(e, overlapped, x) /\ e.calls[x].at = "pinging"
      BY <1>2, <1>9, <1>15, <2>5 DEF Alone, Runs
    <2>8. InPlace(n, overlapped)
      BY <1>2, <2>1, <2>4, <2>5, <2>6, <2>7, InPlaceCreated
    <2> QED
      BY <1>1, <1>3, <2>8, PlacedBecomes DEF Becomes
  <1> QED
    BY <1>2, <1>13, <1>14, <1>15


\* A connection that is reported is in its place.
LEMMA ConnectedPlaces ==
  ASSUME IInv, Tracked, Placed, NEW c \in Calls, Connected(c)
  PROVE  Placed'
  <1> SUFFICES ASSUME tunnelling = "no"
               PROVE  Placed'
    BY DEF Placed, Connected, Becomes
  <1> DEFINE m == Linked(c, "open")
             ping == [call |-> c, schema |-> calls[c].schema]
             g == Goes(m, c, "firstPing")
             f == Finish(m, c, "resolved")
             s == [g EXCEPT !.conns[c].queue = Append(@, ping)]
  <1>1. Becomes(f) \/ (~conns[c].ended /\ Becomes(s))
    BY DEF Connected, Linked
  <1>2. /\ OK(m) /\ m.calls = calls /\ m.stored = stored
        /\ m.tunnels = tunnels /\ m.mark = mark
        /\ \A d \in Calls : d # c => m.conns[d] = conns[d]
        /\ m.conns[c].link = "open" /\ m.conns[c].ended = conns[c].ended
        /\ m.conns[c].queue = conns[c].queue
    BY LinkEffect
  <1>3. calls[c].at = "connecting" /\ overlapped' = overlapped
    BY DEF Connected
  <1>4. InPlace(Manager, overlapped) /\ conns[c].link = "connecting"
    BY <1>3, Fields DEF Placed, InPlace, Links
  <1>5. Alone(Manager, overlapped, c)
    BY <1>3, <1>4, RunsAlone, Fields DEF Runs, InPlace
  <1> HIDE DEF m
  <1>6. InPlace(f, overlapped)
    <2>1. /\ OnlyMoves(m, f, c) /\ f.calls[c].at = "done" /\ f.conns = m.conns
          /\ f.stored = m.stored /\ f.tunnels = m.tunnels /\ f.mark = m.mark
      BY <1>2, FinishEffect
    <2> HIDE DEF f
    <2>2. OnlyMoves(Manager, f, c)
      BY <1>2, <2>1, Fields DEF OnlyMoves
    <2>3. \A d \in Calls : /\ \/ f.conns[d].link = Manager.conns[d].link
                              \/ d = c /\ Manager.conns[d].link = "connecting"
                           /\ f.conns[d].ended = Manager.conns[d].ended
                           /\ f.conns[d].queue = Manager.conns[d].queue
      BY <1>2, <1>4, <2>1, Fields
    <2>4. /\ f.stored = Manager.stored /\ f.tunnels = Manager.tunnels
          /\ f.mark = Manager.mark /\ f.conns[c].link # "connecting"
      BY <1>2, <2>1, Fields
    <2> QED
      BY <1>4, <1>5, <2>1, <2>2, <2>3, <2>4, InPlaceMove
  <1>7. ASSUME ~conns[c].ended
        PROVE  InPlace(s, overlapped)
    <2>1. /\ OnlyMoves(m, g, c) /\ g.calls[c].at = "firstPing" /\ g.conns = m.conns
          /\ g.stored = m.stored /\ g.tunnels = m.tunnels /\ g.mark = m.mark
          /\ g \in Managers
      <3>1. "firstPing" \in Ats /\ m \in Managers
        BY <1>2 DEF Ats, OK
      <3> QED
        BY <1>2, <3>1, GoesEffect, GoesOK DEF OK
    <2> HIDE DEF g, ping
    <2> DEFINE conn == [m.conns[c] EXCEPT !.queue = Append(@, ping)]
               new  == [m.conns EXCEPT ![c] = conn]
    <2>2. m.conns \in [Calls -> Conn] /\ m.conns[c] \in Conn
      BY <1>2 DEF OK, Managers
    <2>3. conn.link = m.conns[c].link /\ conn.ended = m.conns[c].ended
      BY <2>2 DEF Conn
    <2>4. s = [g EXCEPT !.conns = new]
      BY <2>1
    <2> HIDE DEF s, conn
    <2>5. new[c] = conn /\ \A d \in Calls : d # c => new[d] = m.conns[d]
      BY <2>2
    <2> HIDE DEF new
    <2>6. /\ s.conns = new /\ s.calls = g.calls /\ s.stored = g.stored
          /\ s.tunnels = g.tunnels /\ s.mark = g.mark
      BY <2>1, <2>4 DEF Managers
    <2>7. OnlyMoves(Manager, s, c) /\ s.calls[c].at = "firstPing"
      BY <1>2, <2>1, <2>6, Fields DEF OnlyMoves
    <2>8. \/ Manager.calls[c].key \in overlapped
          \/ Manager.stored[Manager.calls[c].key] \in {c, None}
      BY <1>4, <1>7, Fields DEF InPlace, LiveKept, Live
    <2>9. \A d \in Calls : /\ \/ s.conns[d].link = Manager.conns[d].link
                              \/ d = c /\ Manager.conns[d].link = "connecting"
                           /\ s.conns[d].ended = Manager.conns[d].ended
                           /\ \/ s.conns[d].queue = Manager.conns[d].queue
                              \/ d = c
      BY <1>2, <1>4, <2>3, <2>5, <2>6, Fields
    <2>10. /\ s.stored = Manager.stored /\ s.tunnels = Manager.tunnels
           /\ s.mark = Manager.mark /\ s.conns[c].link # "connecting"
      BY <1>2, <2>1, <2>3, <2>5, <2>6, Fields
    <2> QED
      BY <1>4, <1>5, <2>7, <2>8, <2>9, <2>10, InPlaceMove
  <1> HIDE DEF f, s
  <1> QED
    BY <1>1, <1>3, <1>6, <1>7, PlacedBecomes DEF Becomes

\* A connection that cannot be made leaves the others in their places: nothing
\* else was in the table for its key.
LEMMA ConnectFailsPlaces ==
  ASSUME IInv, Tracked, Placed, NEW c \in Calls, ConnectFails(c)
  PROVE  Placed'
  <1> SUFFICES ASSUME tunnelling = "no"
               PROVE  Placed'
    BY DEF Placed, ConnectFails, Becomes
  <1> DEFINE key == calls[c].key
             w   == stored[key]
             m   == Linked(c, "failed")
             e   == End(m, key, w)
             h   == End(Manager, key, w)
             n   == Finish(e, c, "rejected")
  <1>1. Becomes(n) /\ calls[c].at = "connecting" /\ overlapped' = overlapped
    BY DEF ConnectFails, Linked
  <1>2. /\ OK(m) /\ m.calls = calls /\ m.stored = stored
        /\ m.tunnels = tunnels /\ m.mark = mark
        /\ \A d \in Calls : d # c => m.conns[d] = conns[d]
        /\ m.conns[c].link = "failed" /\ m.conns[c].ended = conns[c].ended
        /\ m.conns[c].queue = conns[c].queue
    BY LinkEffect
  <1>3. key \in Keys /\ OK(Manager)
    BY Fields DEF IInv, OK, Managers, Call
  <1>4. InPlace(Manager, overlapped) /\ conns[c].link = "connecting" /\ mark = None
    BY <1>1, Fields DEF Placed, InPlace, Links, Bare
  <1> HIDE DEF m
  <1>5. w \in Calls \union {None} /\ (w # None => calls[w].key = key)
    BY <1>3, Fields DEF OK, Managers, Kept
  <1>6. InPlace(h, overlapped)
    <2>1. key = Manager.calls[c].key /\ Manager.stored[key] \in {w, None}
      BY Fields
    <2> HIDE DEF key, w
    <2> QED
      BY <1>3, <1>4, <1>5, <2>1, InPlaceEnd
  <1> HIDE DEF key, w
  <1>7. /\ OK(e) /\ e.calls = calls
        /\ \A d \in Calls : SameWire(m, e, d)
        /\ \A d \in Calls : d # w => e.conns[d] = m.conns[d]
        /\ w # None => e.conns[w].ended
        /\ e.stored[key] = None
        /\ \A k \in Keys : k # key => e.stored[k] = stored[k]
        /\ e.tunnels = tunnels /\ e.mark = None
    BY <1>2, <1>3, <1>4, <1>5, EndOK, EndEffect DEF OK
  <1>8. /\ OK(h) /\ h.calls = calls
        /\ \A d \in Calls : SameWire(Manager, h, d)
        /\ \A d \in Calls : d # w => h.conns[d] = conns[d]
        /\ w # None => h.conns[w].ended
        /\ h.stored[key] = None
        /\ \A k \in Keys : k # key => h.stored[k] = stored[k]
        /\ h.tunnels = tunnels /\ h.mark = None
    BY <1>3, <1>4, <1>5, EndOK, EndEffect, Fields DEF OK
  <1> HIDE DEF e, h
  <1>9. e.stored = h.stored
    BY <1>3, <1>7, <1>8 DEF OK, Managers
  <1>10. \A d \in Calls : e.conns[d].ended = h.conns[d].ended
    <2> SUFFICES ASSUME NEW d \in Calls
                 PROVE  e.conns[d].ended = h.conns[d].ended
      OBVIOUS
    <2>1. CASE d # w
      BY <1>2, <1>7, <1>8, <2>1
    <2>2. CASE d = w
      <3>1. e.conns[d].ended /\ h.conns[d].ended
        BY <1>7, <1>8, <2>2, ConnectionsAssumption
      <3>2. e.conns[d] \in Conn /\ h.conns[d] \in Conn
        BY <1>7, <1>8 DEF OK, Managers
      <3>3. e.conns[d].ended \in BOOLEAN /\ h.conns[d].ended \in BOOLEAN
        BY <3>2 DEF Conn
      <3> QED
        BY <3>1, <3>3
    <2> QED
      BY <2>1, <2>2
  <1>11. \A d \in Calls : /\ \/ e.conns[d].link = h.conns[d].link
                             \/ d = c /\ h.conns[d].link = "connecting"
                          /\ e.conns[d].queue = h.conns[d].queue
    BY <1>2, <1>4, <1>7, <1>8, Fields DEF SameWire
  <1>12. e.conns[c].link # "connecting"
    BY <1>2, <1>7 DEF SameWire
  <1>13. /\ OnlyMoves(e, n, c) /\ n.calls[c].at = "done" /\ n.conns = e.conns
         /\ n.stored = e.stored /\ n.tunnels = e.tunnels /\ n.mark = e.mark
    BY <1>7, FinishEffect
  <1> HIDE DEF n
  <1>14. OnlyMoves(h, n, c)
    BY <1>7, <1>8, <1>13 DEF OnlyMoves
  <1>15. Alone(h, overlapped, c)
    BY <1>1, <1>6, <1>8, RunsAlone DEF Runs, InPlace
  <1>16. InPlace(n, overlapped)
    BY <1>6, <1>7, <1>8, <1>9, <1>10, <1>11, <1>12, <1>13, <1>14, <1>15, InPlaceMove
  <1> QED
    BY <1>1, <1>16, PlacedBecomes DEF Becomes

\* A connection that breaks cannot be used.
LEMMA LosePlaces ==
  ASSUME IInv, Placed, NEW w \in Calls, Lose(w)
  PROVE  Placed'
  <1> SUFFICES ASSUME tunnelling = "no"
               PROVE  Placed'
    BY DEF Placed, Lose
  <1> DEFINE m == Linked(w, "lost")
  <1>1. /\ m.calls = calls /\ m.stored = stored
        /\ m.tunnels = tunnels /\ m.mark = mark
        /\ \A d \in Calls : d # w => m.conns[d] = conns[d]
        /\ m.conns[w].link = "lost"
        /\ m.conns[w].queue = conns[w].queue
    BY LinkEffect
  <1>2. /\ stored' = m.stored /\ conns' = m.conns /\ calls' = m.calls
        /\ tunnels' = m.tunnels /\ mark' = m.mark /\ overlapped' = overlapped
        /\ conns[w].link = "open"
    BY <1>1 DEF Lose, Linked, Manager
  <1> HIDE DEF m
  <1>3. InPlace(Manager, overlapped)
    BY DEF Placed
  <1>4. /\ \A d \in Calls : Live(m, d) => Live(Manager, d)
        /\ \A d \in Calls : m.conns[d].queue = conns[d].queue
    BY <1>1, Fields DEF Live
  <1>5. Bare(m) /\ Links(m) /\ Single(m, overlapped)
    BY <1>1, <1>2, <1>3, Fields DEF InPlace, Bare, Links, Single, Runs
  <1>6. LiveKept(m, overlapped) /\ AskedKept(m, overlapped)
    BY <1>1, <1>3, <1>4, Fields DEF InPlace, LiveKept, AskedKept
  <1>7. InPlace(m, overlapped)
    BY <1>5, <1>6 DEF InPlace
  <1> QED
    BY <1>2, <1>7, PlacedBecomes

\* Every step leaves connections in their places.  The key that Close Connection
\* passes is none of the table's, and no tunnel reports anything.
LEMMA NextPlaces ==
  ASSUME IInv, Tracked, Placed, [Next]_vars
  PROVE  Placed'
  <1>1. CASE Next
    <2>1. ASSUME Close
          PROVE  Placed'
      <3>1. Removed(Manager, NodeKey) = Manager
        BY ConnectionsAssumption DEF Removed, Keys
      <3>2. /\ stored' = stored /\ conns' = conns /\ calls' = calls
            /\ tunnels' = tunnels /\ mark' = mark /\ overlapped' = overlapped
            /\ tunnelling' = tunnelling
        BY <2>1, <3>1, Fields DEF Close
      <3> QED
        BY <3>2, PlacedBecomes, Fields DEF Placed
    <2>2. ASSUME NEW c \in Calls,
                 PortFound(c) \/ TunnelReady(c) \/ TunnelFails(c) \/ StreamFails(c)
          PROVE  Placed'
      <3>1. tunnelling # "no"
        BY <2>2, Fields DEF PortFound, TunnelReady, TunnelFails, StreamFails,
                            Placed, InPlace, Bare
      <3>2. tunnelling' = tunnelling
        BY <2>2 DEF PortFound, TunnelReady, TunnelFails, StreamFails, Becomes
      <3> QED
        BY <3>1, <3>2 DEF Placed
    <2> QED
      BY <1>1, <2>1, <2>2, GetConnectionPlaces, ConnectPlaces, AnswerPingPlaces,
         ConnectedPlaces, ConnectFailsPlaces, LosePlaces DEF Next
  <1>2. CASE UNCHANGED vars
    BY <1>2, PlacedBecomes, Fields DEF vars, Placed
  <1> QED
    BY <1>1, <1>2

\* There are no connections initially.
LEMMA InitPlaces ==
  ASSUME Init
  PROVE  Placed
  <1>1. /\ \A d \in Calls : /\ Manager.calls[d].at = "idle"
                            /\ Manager.conns[d].queue = <<>>
                            /\ Manager.conns[d].link = "none"
                            /\ Manager.tunnels[d] = "none"
        /\ Manager.mark = None
    BY DEF Init, Manager, Fresh
  <1>2. Bare(Manager) /\ Links(Manager) /\ Single(Manager, overlapped)
    BY <1>1 DEF Bare, Links, Single, Runs
  <1>3. LiveKept(Manager, overlapped) /\ AskedKept(Manager, overlapped)
    BY <1>1 DEF LiveKept, AskedKept, Live
  <1> QED
    BY <1>2, <1>3 DEF Placed, InPlace

\* Without a tunnel, a connection that can be used is the one in the table for
\* its key, unless two calls for that key have been in progress at once: so
\* whatever drivers report and whenever they do, getConnection leaks nothing
\* when its callers wait for each other.
THEOREM SequentialCallsLeakNothing == Spec => []LeaksNeedOverlap
  <1>1. Init => IInv /\ Tracked /\ Placed
    BY InitInv, InitTracks, InitPlaces
  <1>2. IInv /\ Tracked /\ Placed /\ [Next]_vars => IInv' /\ Tracked' /\ Placed'
    BY NextInv, NextTracks, NextPlaces
  <1>3. Placed => LeaksNeedOverlap
    BY Fields DEF Placed, InPlace, LiveKept, Live, Alive, LeaksNeedOverlap
  <1> QED
    BY <1>1, <1>2, <1>3, PTL DEF Spec
=============================================================================
