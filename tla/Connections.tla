---------------------------- MODULE Connections ----------------------------
(***************************************************************************)
(* ConnectionManager.getConnection and the SSH tunnels under it.  Calls    *)
(* share one table of connections, keyed by connection id or by session,   *)
(* and await drivers and tunnels between reading the table and writing it. *)
(*                                                                         *)
(* One server is modelled: the calls for one connection id and for the     *)
(* sessions opened on it.  A call makes at most one connection and one     *)
(* tunnel, which carry its name.  The driver is MysqlConnection: dead once *)
(* it has failed, been lost or been ended, and answering in order.         *)
(***************************************************************************)
EXTENDS Naturals, Sequences, FiniteSets

CONSTANTS
  Calls,     \* the calls of getConnection
  Id,        \* getConnectId() of the node
  Sessions,  \* session ids, the other keys
  NodeKey,   \* the key of the node; getConnectId() is NodeKey@@host@port
  Schemas,   \* the schemas a node may name
  None,
  MaxCloses  \* bound on the uses of Close Connection

ASSUME ConnectionsAssumption ==
  /\ Id \notin Sessions
  /\ NodeKey \notin {Id} \union Sessions
  /\ None \notin Calls \union Schemas
  /\ MaxCloses \in Nat

VARIABLES
  tunnelling,  \* no SSH, or the ssh2 or native kind of tunnel; never changes
  stored,      \* alivedConnection
  conns,       \* the connection each call has made
  calls,       \* the calls: how far the executor is and how the promise settled
  tunnels,     \* the tunnel each call has opened
  mark,        \* tunelMark[Id]: the call whose tunnel is marked
  closes,      \* how often the connection was closed by command
  overlapped   \* keys for which a call was made during another

vars == <<tunnelling, stored, conns, calls, tunnels, mark, closes, overlapped>>

-----------------------------------------------------------------------------
Keys  == {Id} \union Sessions
Named == Schemas \union {None}
Ping  == [call : Calls, schema : Named]

\* A driver's connection with what the manager notes of it (its schema) and
\* what the server has selected; queue is the pings on their way.
Conn == [link : {"none", "connecting", "open", "failed", "lost"}, ended : BOOLEAN,
         schema : Named, selected : Named, queue : Seq(Ping)]
Call == [at : {"idle", "pinging", "port", "tunnel", "connecting", "firstPing",
               "done", "thrown"},
         key : Keys, schema : Named, result : {"none", "resolved", "rejected"}]
Tunnels == {"none", "starting", "listening", "closed"}

\* What the code changes in one step.
Manager == [stored |-> stored, conns |-> conns, calls |-> calls,
            tunnels |-> tunnels, mark |-> mark]
Becomes(m) ==
  /\ stored' = m.stored
  /\ conns' = m.conns
  /\ calls' = m.calls
  /\ tunnels' = m.tunnels
  /\ mark' = m.mark
  /\ UNCHANGED <<tunnelling, closes>>

Fresh == [link |-> "none", ended |-> FALSE, schema |-> None, selected |-> None,
          queue |-> <<>>]

Init ==
  /\ tunnelling \in {"no", "ssh2", "native"}
  /\ stored = [k \in Keys |-> None]
  /\ conns = [c \in Calls |-> Fresh]
  /\ calls = [c \in Calls |-> [at |-> "idle", key |-> Id, schema |-> None,
                               result |-> "none"]]
  /\ tunnels = [c \in Calls |-> "none"]
  /\ mark = None
  /\ closes = 0
  /\ overlapped = {}

\* isAlive
Alive(m, w) == m.conns[w].link = "open" /\ ~m.conns[w].ended

Goes(m, c, at) == [m EXCEPT !.calls[c].at = at]

\* resolve and reject: a promise settles once.
Settle(m, c, result) ==
  [m EXCEPT !.calls[c].result = IF @ = "none" THEN result ELSE @]
Finish(m, c, result) == Goes(Settle(m, c, result), c, "done")

\* closeTunnel: the marks are keyed by connection id, the argument is a key of
\* the manager.
CloseTunnel(m, key) ==
  IF key # Id \/ m.mark = None THEN m
  ELSE [m EXCEPT !.mark = None, !.tunnels[m.mark] = "closed"]

\* Mutant: the connection stays in the table.
EndKeeping(m, key, w) ==
  LET closed == CloseTunnel(m, key)
  IN IF w = None THEN closed ELSE [closed EXCEPT !.conns[w].ended = TRUE]

\* Mutant: the connection leaves the table and is not ended.
EndForgetting(m, key, w) == CloseTunnel([m EXCEPT !.stored[key] = None], key)

\* end: whatever is stored under the key goes, also when it is not the
\* connection that is ended.
End(m, key, w) ==
  LET closed == CloseTunnel([m EXCEPT !.stored[key] = None], key)
  IN IF w = None THEN closed ELSE [closed EXCEPT !.conns[w].ended = TRUE]

\* Mutant: the wrapper is made with the schema of the node.
NewConnNamed(m, c) ==
  [Fresh EXCEPT !.link = "connecting", !.schema = m.calls[c].schema]

NewConn(m, c) == [Fresh EXCEPT !.link = "connecting"]

\* create and connect.  A driver's constructor may throw: the executor is an
\* async function, so the promise then never settles.
Created(m, c) ==
  {Goes(m, c, "thrown"),
   Goes([m EXCEPT !.conns[c] = NewConn(m, c), !.stored[m.calls[c].key] = c],
        c, "connecting")}

\* From the place where no connection can be used: a tunnel that is marked is
\* used as it is.
Opened(m, c) ==
  IF tunnelling # "no" /\ m.mark = None THEN {Goes(m, c, "port")} ELSE Created(m, c)

-----------------------------------------------------------------------------
Running(c) == calls[c].at \notin {"idle", "done", "thrown"}

\* getConnection up to its first await.
Requested(m, c) ==
  LET call == m.calls[c]
      w    == m.stored[call.key]
  IN IF w = None \/ ~Alive(m, w) THEN Opened(m, c)
     ELSE IF m.conns[w].schema = call.schema THEN {Finish(m, c, "resolved")}
     ELSE {[Goes(m, c, "pinging") EXCEPT
              !.conns[w].queue = Append(@, [call |-> c, schema |-> call.schema])]}

Noted(c, key) ==
  overlapped' = overlapped \union
    {k \in {key} : \E d \in Calls \ {c} : Running(d) /\ calls[d].key = key}

GetConnection(c, key, schema) ==
  /\ calls[c].at = "idle"
  /\ LET m == [Manager EXCEPT !.calls[c].key = key, !.calls[c].schema = schema]
     IN \E next \in Requested(m, c) : Becomes(next)
  /\ Noted(c, key)

\* removeConnection(uid)
Removed(m, uid) ==
  IF uid \in Keys /\ m.stored[uid] # None THEN End(m, uid, m.stored[uid]) ELSE m

\* ConnectService.connect: removeConnection and getConnection in one go.
Connect(c, schema) ==
  /\ calls[c].at = "idle"
  /\ LET m == [Manager EXCEPT !.calls[c].key = Id, !.calls[c].schema = schema]
     IN \E next \in Requested(Removed(m, Id), c) : Becomes(next)
  /\ Noted(c, Id)

\* Close Connection: disableConnection updates the node, and Node.indent
\* removes the connection under the key of the node.
Close ==
  /\ closes < MaxCloses
  /\ closes' = closes + 1
  /\ LET m == Removed(Manager, NodeKey)
     IN /\ stored' = m.stored
        /\ conns' = m.conns
        /\ tunnels' = m.tunnels
        /\ mark' = m.mark
  /\ UNCHANGED <<tunnelling, calls, overlapped>>

\* The answer to the ping of a connection that was stored: a failure ends the
\* connection and the call goes on as if there had been none.
Pinged(m, w, ping, works) ==
  IF works
  THEN {Finish([m EXCEPT !.conns[w].schema = ping.schema,
                         !.conns[w].selected = IF ping.schema = None THEN @ ELSE ping.schema],
               ping.call, "resolved")}
  ELSE Opened(End(m, m.calls[ping.call].key, w), ping.call)

\* The answer to the first ping of a new connection: an error is swallowed and
\* the manager does not note the schema.
FirstPinged(m, w, ping, works) ==
  {Finish([m EXCEPT !.conns[w].selected = IF works THEN ping.schema ELSE @],
          ping.call, "resolved")}

\* The oldest ping of a connection is answered; one that is lost answers with
\* errors.
AnswerPing(w, works) ==
  /\ conns[w].queue # <<>>
  /\ works => conns[w].link = "open"
  /\ LET ping == Head(conns[w].queue)
         m    == [Manager EXCEPT !.conns[w].queue = Tail(@)]
     IN \E next \in IF calls[ping.call].at = "firstPing"
                    THEN FirstPinged(m, w, ping, works)
                    ELSE Pinged(m, w, ping, works) : Becomes(next)
  /\ UNCHANGED overlapped

\* connect reports success.  The first ping needs a schema; a connection that
\* has been ended in the meantime refuses it.
Connected(c) ==
  /\ calls[c].at = "connecting"
  /\ LET m == [Manager EXCEPT !.conns[c].link = "open"]
         schema == calls[c].schema
     IN Becomes(IF schema = None \/ conns[c].ended THEN Finish(m, c, "resolved")
                ELSE [Goes(m, c, "firstPing") EXCEPT
                  !.conns[c].queue = Append(@, [call |-> c, schema |-> schema])])
  /\ UNCHANGED overlapped

\* Mutant: the caller is not told.
ConnectFailsSilently(c) ==
  /\ calls[c].at = "connecting"
  /\ LET key == calls[c].key
         m   == [Manager EXCEPT !.conns[c].link = "failed"]
     IN Becomes(Goes(End(m, key, stored[key]), c, "done"))
  /\ UNCHANGED overlapped

\* connect reports an error: what is stored under the key NOW is ended.
ConnectFails(c) ==
  /\ calls[c].at = "connecting"
  /\ LET key == calls[c].key
         m   == [Manager EXCEPT !.conns[c].link = "failed"]
     IN Becomes(Finish(End(m, key, stored[key]), c, "rejected"))
  /\ UNCHANGED overlapped

\* A connection breaks.
Lose(w) ==
  /\ conns[w].link = "open"
  /\ conns' = [conns EXCEPT ![w].link = "lost"]
  /\ UNCHANGED <<tunnelling, stored, calls, tunnels, mark, closes, overlapped>>

-----------------------------------------------------------------------------
\* portfinder has a port: the tunnel is opened, although another call may have
\* marked one in the meantime.
PortFound(c) ==
  /\ calls[c].at = "port"
  /\ Becomes(Goes([Manager EXCEPT !.tunnels[c] = "starting"], c, "tunnel"))
  /\ UNCHANGED overlapped

\* The local server listens (ssh2), or the waiting time is over (native,
\* which marks nothing).
TunnelReady(c) ==
  /\ calls[c].at = "tunnel" /\ tunnels[c] = "starting"
  /\ LET m == [Manager EXCEPT !.tunnels[c] = "listening"]
     IN \E next \in Created(IF tunnelling = "native" THEN m ELSE [m EXCEPT !.mark = c], c) :
          Becomes(next)
  /\ UNCHANGED overlapped

\* The tunnel reports an error, at any time: the mark goes, whose ever it is,
\* and so does what is stored under the key of the call (an errno is a number,
\* so the test for EADDRINUSE never holds).  The executor of a call that was
\* waiting for the tunnel goes no further.
TunnelFails(c) ==
  /\ tunnels[c] \in {"starting", "listening"}
  /\ LET m == [Manager EXCEPT !.tunnels[c] = "closed", !.mark = None,
                              !.stored[calls[c].key] = None]
     IN Becomes(IF calls[c].at = "tunnel" THEN Finish(m, c, "rejected")
                ELSE Settle(m, c, "rejected"))
  /\ UNCHANGED overlapped

\* An error of the ssh stream makes tunnel-ssh close its server; the mark
\* stays.
StreamFails(c) ==
  /\ tunnelling = "ssh2" /\ tunnels[c] = "listening"
  /\ tunnels' = [tunnels EXCEPT ![c] = "closed"]
  /\ UNCHANGED <<tunnelling, stored, conns, calls, mark, closes, overlapped>>

-----------------------------------------------------------------------------
Next ==
  \/ \E c \in Calls, key \in Keys, schema \in Named : GetConnection(c, key, schema)
  \/ \E c \in Calls, schema \in Named : Connect(c, schema)
  \/ Close
  \/ \E w \in Calls, works \in BOOLEAN : AnswerPing(w, works)
  \/ \E c \in Calls :
       \/ Connected(c) \/ ConnectFails(c) \/ Lose(c)
       \/ PortFound(c) \/ TunnelReady(c) \/ TunnelFails(c) \/ StreamFails(c)

Spec == Init /\ [][Next]_vars

\* Drivers answer, connect or give up (connectTimeout), a port is found, and
\* a tunnel gets ready or fails.  No caller has to come and nothing has to
\* work.
Fairness ==
  \A c \in Calls :
    /\ WF_vars(\E works \in BOOLEAN : AnswerPing(c, works))
    /\ WF_vars(Connected(c) \/ ConnectFails(c))
    /\ WF_vars(PortFound(c))
    /\ WF_vars(TunnelReady(c) \/ TunnelFails(c))

FairSpec == Spec /\ Fairness

-----------------------------------------------------------------------------
TypeOK ==
  /\ tunnelling \in {"no", "ssh2", "native"}
  /\ stored \in [Keys -> Calls \union {None}]
  /\ conns \in [Calls -> Conn]
  /\ calls \in [Calls -> Call]
  /\ tunnels \in [Calls -> Tunnels]
  /\ mark \in Calls \union {None}
  /\ closes \in 0..MaxCloses
  /\ overlapped \subseteq Keys

\* A connection the manager has ended is never in its table, whichever call
\* ended it while others held it across an await.
StoredNotEnded ==
  \A key \in Keys : stored[key] # None => ~conns[stored[key]].ended

\* The schema the manager notes for a connection is the one its server has
\* selected whenever no ping is on its way: a call that finds its schema
\* noted skips the ping and runs its query there.
SchemaTracked ==
  \A w \in Calls :
    (Alive(Manager, w) /\ conns[w].queue = <<>> /\ conns[w].schema # None) =>
      conns[w].selected = conns[w].schema

\* Without a tunnel a usable connection can fall out of the table only when
\* two calls for its key were in progress at once.
LeaksNeedOverlap ==
  (tunnelling = "no") =>
    \A w \in Calls :
      Alive(Manager, w) /\ calls[w].key \notin overlapped => stored[calls[w].key] = w

\* A call gets a connection or an error, unless a driver's constructor threw.
CallsSettle ==
  \A c \in Calls :
    calls[c].at # "idle" ~> calls[c].result # "none" \/ calls[c].at = "thrown"

\* Close Connection (package.nls.json) leaves no connection of the node in the
\* manager's table.
CloseEnds == [][closes' # closes => stored'[Id] = None]_vars
=============================================================================
