------------------------------ MODULE FtpClient ------------------------------
(***************************************************************************)
(* The FTP client (model/ftp/lib/connection.js) as the FTP nodes use it:   *)
(* after the login, listings, downloads, uploads and plain commands        *)
(* (delete, mkdir, rmdir), each called once, at any time, on one cached    *)
(* connection.                                                             *)
(*                                                                         *)
(* Requests are queued; one, curReq, is at the server.  A listing or       *)
(* transfer begins with PASV, whose reply names a port; the command that   *)
(* uses the port is sent when the data connection is made.  The server     *)
(* answers in order, has one data port, which a PASV replaces, and closes  *)
(* the data connection of the port it gives up.  Compression, TLS and the  *)
(* commands the extension does not use are left out.                       *)
(***************************************************************************)
EXTENDS Naturals, Sequences

CONSTANTS
  FtpOps,     \* the operations called
  MaxNoops,   \* bound on the keepalive's NOOPs
  Login,      \* stands for the login, where an operation is named
  NoOp        \* no operation

ASSUME FtpAssumption == /\ Login \notin FtpOps /\ NoOp \notin FtpOps \union {Login}
                        /\ MaxNoops \in Nat

VARIABLES
  conn,        \* "login", "ready", "refused" (never handed out), "lost"
  curReq,      \* _curReq
  queue,       \* _queue
  wire,        \* commands written and not taken by the server
  answers,     \* replies written and not read by the client
  op,          \* of each operation: its kind, what its caller was told, its data
               \* connection, the replies its command has had, whose data it has
  pasvSocket,  \* _pasvSocket
  aborting,    \* operations whose data connection is marked
  retried,     \* operations that have tried the address of the control connection
  noops,       \* NOOPs so far
  port,        \* the operation whose data port the server has open
  held,        \* operations whose data connection the server holds
  busy,        \* the transfer the server is at: its operation and its port
  interleaved      \* another operation's command was sent while a data connection
               \* was made, or a request at the server was forgotten

ftpVars == <<conn, curReq, queue, wire, answers, op, pasvSocket, aborting, retried,
             noops, port, held, busy, interleaved>>
serverVars == <<port, held, busy>>

-----------------------------------------------------------------------------
OpKinds   == {"list", "get", "put", "plain"}
LoginCmds == {"greeting", "USER", "PASS", "FEAT", "TYPE"}
\* "DATA" is LIST, RETR or STOR; "PLAIN" is DELE, MKD or RMD.
Cmds      == LoginCmds \union {"PASV", "DATA", "ABOR", "MODE", "PLAIN", "NOOP"}
Req(o, c) == [op |-> o, cmd |-> c]
NoReq     == Req(NoOp, "NOOP")
Noop      == Req(Login, "NOOP")
NoTransfer == [op |-> NoOp, port |-> NoOp]
Requests  == [op : FtpOps \union {Login}, cmd : Cmds]
\* 1yz; 226; another 2yz or 3yz; a 227 that cannot be read; 4yz or 5yz
Codes     == {"prelim", "done", "ok", "odd", "err"}

FtpInit ==
  /\ conn = "login" /\ curReq = Req(Login, "greeting") /\ queue = <<>>
  /\ wire = <<curReq>> /\ answers = <<>>
  /\ \E kind \in [FtpOps -> OpKinds] :
       op = [o \in FtpOps |-> [kind |-> kind[o], outcome |-> "idle", sock |-> "none",
                               seen |-> "none", got |-> NoOp]]
  /\ pasvSocket = NoOp /\ aborting = {} /\ retried = {} /\ noops = 0
  /\ port = NoOp /\ held = {} /\ busy = NoTransfer
  /\ interleaved = FALSE

Connecting(o) == op[o].sock \in {"connecting", "accepted"}
\* The callback's first call is what the caller goes by.
Ended(o, how) == [op[o] EXCEPT !.outcome = IF @ = "called" THEN how ELSE @]
With(o, r)    == op' = [op EXCEPT ![o] = r]
DataClosed(s)     == s \in {"ended", "broken", "gone"}

-----------------------------------------------------------------------------
(* The request queue.                                                      *)

\* mutant: a command is written although one is at the server
MaySendAlways(cur, q) == q # <<>>

MaySend(cur, q) == cur = NoReq /\ q # <<>>

\* _send: with cur the current request and q the queue, the head of the queue
\* is written if nothing is current.  An ABOR marks the data connection.
Send(cur, q) ==
  IF MaySend(cur, q) /\ conn \in {"login", "ready"}
  THEN /\ curReq' = Head(q) /\ queue' = Tail(q) /\ wire' = Append(wire, Head(q))
       /\ aborting' = IF Head(q).cmd = "ABOR" /\ pasvSocket # NoOp
                      THEN aborting \union {pasvSocket} ELSE aborting
       /\ interleaved' = (interleaved \/ \E o \in FtpOps \ {Head(q).op} :
                                    Connecting(o) /\ Head(q) # Noop)
  ELSE /\ curReq' = cur /\ queue' = q
       /\ UNCHANGED <<wire, aborting, interleaved>>

Promoted(o, c) == <<Req(o, c)>> \o queue

\* An operation is called: a plain command or the PASV of a transfer is queued.
CallFtp(o) ==
  /\ conn \in {"ready", "lost"} /\ op[o].outcome = "idle"
  /\ With(o, [op[o] EXCEPT !.outcome = "called"])
  /\ Send(curReq, Append(queue, Req(o, IF op[o].kind = "plain" THEN "PLAIN" ELSE "PASV")))
  /\ UNCHANGED <<conn, answers, pasvSocket, retried, noops, serverVars>>

\* donoop
KeepAlive ==
  /\ conn = "ready" /\ curReq = NoReq /\ queue = <<>> /\ noops < MaxNoops
  /\ noops' = noops + 1
  /\ curReq' = Noop /\ wire' = Append(wire, Noop)
  /\ UNCHANGED <<conn, queue, answers, op, pasvSocket, aborting, retried, serverVars, interleaved>>

-----------------------------------------------------------------------------
(* The replies.  Every reply but a 1yz ends the current request.           *)

Reads(cmds) == answers # <<>> /\ curReq # NoReq /\ curReq.cmd \in cmds /\ answers' = Tail(answers)
Code        == Head(answers).code
Owner       == curReq.op
SendNext    == Send(NoReq, queue)

\* reentry of connect.  FEAT may fail; a USER that needs no password skips PASS.
LoginReply ==
  /\ Reads(LoginCmds)
  /\ \/ /\ Code = "err" /\ curReq.cmd # "FEAT"
        /\ conn' = "refused" /\ curReq' = NoReq
        /\ UNCHANGED <<queue, wire, aborting, interleaved>>
     \/ /\ Code # "err" /\ curReq.cmd = "TYPE"
        /\ conn' = "ready" /\ SendNext
     \/ \E next \in CASE curReq.cmd = "greeting" -> {"USER"}
                      [] curReq.cmd = "USER"     -> {"PASS", "FEAT"}
                      [] curReq.cmd = "PASS"     -> {"FEAT"}
                      [] curReq.cmd = "FEAT"     -> {"TYPE"}
                      [] OTHER                   -> {} :
          /\ Code # "err" \/ curReq.cmd = "FEAT"
          /\ Send(NoReq, Promoted(Login, next))
          /\ UNCHANGED conn
  /\ UNCHANGED <<op, pasvSocket, retried, noops, serverVars>>

\* The plain commands, the ABOR after a data connection that could not be made,
\* and the MODE S that ends a download
SimpleReply ==
  /\ Reads({"PLAIN", "ABOR", "MODE", "NOOP"})
  /\ IF curReq.cmd = "NOOP" THEN UNCHANGED op
     ELSE With(Owner, Ended(Owner, IF curReq.cmd = "ABOR" \/ (curReq.cmd = "PLAIN" /\ Code = "err")
                                   THEN "err" ELSE "ok"))
  /\ SendNext
  /\ UNCHANGED <<conn, pasvSocket, retried, noops, serverVars>>

\* reentry of _pasv.  It clears curReq, so nothing is sent after it.
PasvReply ==
  /\ Reads({"PASV"})
  /\ IF Code = "err"
     THEN With(Owner, Ended(Owner, "err")) /\ SendNext
     ELSE /\ With(Owner, IF Code = "odd" THEN Ended(Owner, "err")
                         ELSE [op[Owner] EXCEPT !.sock = "connecting"])
          /\ curReq' = NoReq
          /\ UNCHANGED <<queue, wire, aborting, interleaved>>
  /\ UNCHANGED <<conn, pasvSocket, retried, noops, serverVars>>

\* What a transfer tells its caller once it has all replies and its data
\* connection is closed
Final(o, sock) == IF op[o].kind = "list" /\ sock = "broken" /\ o \notin aborting
                  THEN "err" ELSE "ok"

\* A reply to a transfer command: whether it reports an error, and whether the
\* transfer is told it was the last one.  A 2yz that is no 226 counts as the
\* first of the two replies to LIST.
Fails(o)   == Code = "err" \/ (op[o].kind # "list" /\ op[o].sock = "broken")
IsFirst(o) == IF op[o].kind = "list" THEN op[o].seen = "none" /\ Code # "done"
              ELSE Code = "prelim"
\* The data connection after it: closed by a failure, and by a 226 that comes
\* first.
SockAfter(o) ==
  IF \/ Fails(o) /\ op[o].kind # "put"
     \/ op[o].kind = "list" /\ op[o].seen = "none" /\ Code = "done"
  THEN IF DataClosed(op[o].sock) THEN op[o].sock ELSE "gone"
  ELSE op[o].sock

TransferReply ==
  LET o == Owner
      s == SockAfter(o)
      after == [op[o] EXCEPT !.sock = s, !.seen = IF IsFirst(o) THEN "first" ELSE "last"]
      \* a download ends with MODE S once its data connection is closed
      ends == ~Fails(o) /\ ~IsFirst(o)
      queue1 == IF ends /\ op[o].kind = "get" /\ DataClosed(s)
                THEN Promoted(o, "MODE") ELSE queue
  IN /\ Reads({"DATA"})
     /\ With(o, IF Fails(o) THEN [Ended(o, "err") EXCEPT !.sock = s]
                ELSE IF \/ ends /\ op[o].kind = "put"
                        \/ ends /\ op[o].kind = "list" /\ DataClosed(s)
                     THEN [Ended(o, Final(o, s)) EXCEPT !.sock = s, !.seen = "last"]
                     ELSE after)
     /\ pasvSocket' = IF s # op[o].sock THEN NoOp ELSE pasvSocket
     /\ IF Code = "prelim"
        THEN UNCHANGED <<curReq, queue, wire, aborting, interleaved>>
        ELSE Send(NoReq, queue1)
     /\ UNCHANGED <<conn, retried, noops, serverVars>>

\* A reply that no request waits for
StrayReply ==
  /\ answers # <<>> /\ curReq = NoReq /\ conn = "ready"
  /\ answers' = Tail(answers)
  /\ UNCHANGED <<conn, curReq, queue, wire, op, pasvSocket, aborting, retried, noops,
                 serverVars, interleaved>>

-----------------------------------------------------------------------------
(* The data connections.                                                   *)

\* The server's side of the handshake
Accept(o) ==
  /\ op[o].sock = "connecting" /\ port = o
  /\ With(o, [op[o] EXCEPT !.sock = "accepted"])
  /\ held' = held \union {o}
  /\ UNCHANGED <<conn, curReq, queue, wire, answers, pasvSocket, aborting, retried, noops,
                 port, busy, interleaved>>

\* _pasvConnect's "connect": the transfer command goes first in the queue,
\* unless an ABOR is there.
Connected(o) ==
  LET aborted == queue # <<>> /\ Head(queue).cmd = "ABOR"
  IN /\ op[o].sock = "accepted"
     /\ With(o, IF aborted THEN [Ended(o, "ok") EXCEPT !.sock = "gone"]
                ELSE [op[o] EXCEPT !.sock = "open"])
     /\ Send(curReq, IF aborted THEN queue ELSE Promoted(o, "DATA"))
     /\ pasvSocket' = IF aborted THEN NoOp ELSE o
     /\ UNCHANGED <<conn, answers, retried, noops, serverVars>>

\* _pasv is told of a failure: it tries another address, with curReq cleared,
\* or sends ABOR.
PasvFails(o) ==
  \/ /\ o \notin retried
     /\ retried' = retried \union {o}
     /\ With(o, [op[o] EXCEPT !.sock = "connecting"])
     /\ curReq' = NoReq
     /\ interleaved' = (interleaved \/ curReq # NoReq)
     /\ UNCHANGED <<queue, wire, aborting>>
  \/ /\ With(o, [op[o] EXCEPT !.sock = "gone"])
     /\ Send(curReq, Promoted(o, "ABOR"))
     /\ UNCHANGED retried

\* "close" before "connect".  If the socket of another transfer is noted,
\* nobody is told.
DataConnectFails(o) ==
  /\ Connecting(o)
  /\ pasvSocket' = NoOp
  /\ held' = held \ {o}
  /\ IF pasvSocket = NoOp THEN PasvFails(o)
     ELSE /\ With(o, [op[o] EXCEPT !.sock = "gone"])
          /\ UNCHANGED <<curReq, queue, wire, aborting, retried, interleaved>>
  /\ UNCHANGED <<conn, answers, noops, port, busy>>

\* pasvTimeout
ConnectTimesOut(o) ==
  /\ op[o].sock = "connecting"
  /\ pasvSocket' = NoOp
  /\ PasvFails(o)
  /\ UNCHANGED <<conn, answers, noops, serverVars>>

\* The data connection ends ("ended", the server has closed it) or fails, with
\* what it carried.  A download does not look at it before its first reply.
DataCloses(o, how) ==
  LET k == op[o].kind
      all == op[o].seen = "last"
  IN /\ op[o].sock \in {"open", "sent"}
     /\ how = "ended" => o \notin held /\ (k = "get" => op[o].seen # "none")
     /\ With(o, [(IF k = "list" /\ all THEN Ended(o, Final(o, how)) ELSE op[o])
                 EXCEPT !.sock = how,
                        !.got = IF how = "broken" /\ k # "put" THEN NoOp ELSE @])
     /\ held' = held \ {o}
     /\ pasvSocket' = NoOp
     /\ Send(curReq, IF k = "get" /\ all THEN Promoted(o, "MODE") ELSE queue)
     /\ UNCHANGED <<conn, answers, retried, noops, port, busy>>

\* An upload has been written to its data connection.
InputEnds(o) ==
  /\ op[o].kind = "put" /\ op[o].sock = "open" /\ op[o].seen = "first"
  /\ With(o, [op[o] EXCEPT !.sock = "sent"])
  /\ UNCHANGED <<conn, curReq, queue, wire, answers, pasvSocket, aborting, retried, noops,
                 serverVars, interleaved>>

\* "end" or "close" of the control connection, or connTimeout: _reset.  No
\* callback is called; the connection stays in its cache and takes calls.
Lost ==
  /\ conn \in {"login", "ready"}
  /\ conn' = IF conn = "login" THEN "refused" ELSE "lost"
  /\ curReq' = NoReq /\ queue' = <<>> /\ wire' = <<>> /\ answers' = <<>>
  /\ port' = NoOp /\ held' = {} /\ busy' = NoTransfer
  /\ UNCHANGED <<op, pasvSocket, aborting, retried, noops, interleaved>>

-----------------------------------------------------------------------------
(* The server (external).                                                  *)

Answer(code) == answers' = Append(answers, [to |-> Head(wire), code |-> code])
ClientVars   == <<conn, curReq, queue, pasvSocket, aborting, retried, noops, interleaved>>

ServerAnswers ==
  /\ wire # <<>> /\ busy = NoTransfer /\ Head(wire).cmd # "DATA"
  /\ \/ /\ Head(wire).cmd = "PASV"
        /\ \E code \in {"ok", "odd"} : Answer(code)
        /\ port' = Head(wire).op
        /\ held' = held \ {port}
     \/ /\ Head(wire).cmd = "ABOR"
        /\ Answer("ok")
        /\ port' = NoOp /\ held' = held \ {port}
     \/ /\ Head(wire).cmd \notin {"PASV", "ABOR"}
        /\ Answer("ok")
        /\ UNCHANGED <<port, held>>
     \/ /\ Head(wire).cmd \notin {"ABOR", "NOOP", "MODE"}
        /\ Answer("err")
        /\ UNCHANGED <<port, held>>
  /\ wire' = Tail(wire)
  /\ UNCHANGED <<ClientVars, op, busy>>

\* A transfer begins on the port there is, or is refused; an empty listing may
\* be answered at once.
ServerBegins ==
  /\ wire # <<>> /\ busy = NoTransfer /\ Head(wire).cmd = "DATA"
  /\ \/ /\ port # NoOp
        /\ Answer("prelim")
        /\ busy' = [op |-> Head(wire).op, port |-> port]
        /\ UNCHANGED <<op, wire, port, held>>
     \/ /\ Answer("err")
        /\ wire' = Tail(wire) /\ port' = NoOp /\ held' = held \ {port}
        /\ UNCHANGED <<op, busy>>
     \/ /\ op[Head(wire).op].kind = "list" /\ port # NoOp
        /\ Answer("done")
        /\ With(Head(wire).op, [op[Head(wire).op] EXCEPT !.got = Head(wire).op])
        /\ wire' = Tail(wire) /\ port' = NoOp /\ held' = held \ {port}
        /\ UNCHANGED busy
  /\ UNCHANGED ClientVars

\* The transfer is done over the data connection of the port, or fails.  A
\* client's data is what the connection carried when it was closed.
ServerEnds ==
  LET o == busy.op
      p == busy.port
  IN /\ busy # NoTransfer
     /\ \/ /\ op[o].kind # "put" /\ p \in held /\ ~DataClosed(op[p].sock)
           /\ With(p, [op[p] EXCEPT !.got = o])
           /\ Answer("done")
        \/ /\ op[o].kind = "put" /\ p \in held /\ op[p].sock \in {"sent", "gone"}
           /\ With(o, [op[o] EXCEPT !.got = IF op[p].sock = "sent" THEN p ELSE NoOp])
           /\ Answer("done")
        \/ Answer("err") /\ UNCHANGED op
     /\ wire' = Tail(wire)
     /\ busy' = NoTransfer /\ port' = NoOp /\ held' = held \ {p}
     /\ UNCHANGED ClientVars

FtpNext ==
  \/ KeepAlive \/ Lost
  \/ LoginReply \/ SimpleReply \/ PasvReply \/ TransferReply \/ StrayReply
  \/ ServerAnswers \/ ServerBegins \/ ServerEnds
  \/ \E o \in FtpOps :
       \/ CallFtp(o) \/ Accept(o) \/ Connected(o) \/ DataConnectFails(o) \/ ConnectTimesOut(o)
       \/ InputEnds(o)
       \/ \E how \in {"ended", "broken"} : DataCloses(o, how)

FtpSpec == FtpInit /\ [][FtpNext]_ftpVars

-----------------------------------------------------------------------------
FtpTypeOK ==
  /\ conn \in {"login", "ready", "refused", "lost"}
  /\ curReq \in Requests \union {NoReq}
  /\ queue \in Seq(Requests) /\ wire \in Seq(Requests)
  /\ \A n \in DOMAIN answers : answers[n].to \in Requests /\ answers[n].code \in Codes
  /\ op \in [FtpOps -> [kind : OpKinds, outcome : {"idle", "called", "ok", "err"},
                        sock : {"none", "connecting", "accepted", "open", "sent",
                                "ended", "broken", "gone"},
                        seen : {"none", "first", "last"}, got : FtpOps \union {NoOp}]]
  /\ pasvSocket \in FtpOps \union {NoOp}
  /\ aborting \subseteq FtpOps /\ retried \subseteq FtpOps /\ noops \in 0..MaxNoops
  /\ port \in FtpOps \union {NoOp} /\ held \subseteq FtpOps
  /\ interleaved \in BOOLEAN

\* A listing or transfer that reports success has moved its own data, whole,
\* whatever replies, data connections and keepalives come in between.  Three
\* things break this: a command that crosses the making of a data connection, a
\* download's connection that fails after its last reply, and another
\* operation's ABOR that marks the connection (_send, _pasv, list, get, _store).
OwnData ==
  \A o \in FtpOps :
    op[o].kind # "plain" /\ op[o].outcome = "ok" /\ ~interleaved
      /\ ~(op[o].kind = "get" /\ op[o].sock = "broken")
      /\ o \notin aborting => op[o].got = o

\* What the comment in the reply handler says: while the data connection of a
\* PASV is made, no queued request is executed.
PasvHoldsQueue ==
  [][ \A o \in FtpOps, p \in FtpOps, c \in Cmds :
        Connecting(o) /\ Connecting(o)' /\ p # o => wire' # Append(wire, Req(p, c)) ]_ftpVars
=============================================================================
