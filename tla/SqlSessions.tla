----------------------------- MODULE SqlSessions -----------------------------
(***************************************************************************)
(* Statements and batches on one connection.  The connection manager gives *)
(* the same connection to every caller, so what QueryUnit.runBatch sends   *)
(* between begin and commit is mixed with what others query, and each      *)
(* driver has its own idea of begin, commit, an error and an end.  (SQL    *)
(* Server, whose driver is a pool, is in MssqlPool.)                       *)
(*                                                                         *)
(* The libraries and the servers under the drivers are the environment: a  *)
(* request is answered or lost with the connection.  A statement is one    *)
(* that writes; a schema statement is CREATE, DROP, ALTER or TRUNCATE.     *)
(***************************************************************************)
EXTENDS Naturals, Sequences, SequencesExt

CONSTANTS
  Singles,      \* statements sent by themselves, with queryPromise
  Batches,      \* calls of runBatch
  BatchLength   \* the statements of a batch

ASSUME SqlSessionsAssumption ==
  /\ BatchLength \in Nat \ {0}
  /\ Singles \cap (Batches \union (Batches \X (1..BatchLength))) = {}

VARIABLES
  driver,   \* the name of the driver's class; never changes
  session,  \* the connection and who waits for it
  history   \* what the properties remember of the calls

sessionVars == <<driver, session, history>>

-----------------------------------------------------------------------------
(* The drivers.  begin: what beginTransaction does: a request to the       *)
(* server, a flag that turns autoCommit off, nothing but the callback,     *)
(* not even that, or an exception.  inOrder: the library has one request   *)
(* at the server at a time.  onError: what a failed query does to the      *)
(* connection.  onEnd: what end() does to it: what was asked before is     *)
(* still answered, or nothing is, or nothing happens.  sql: whether query  *)
(* takes SQL at all.                                                       *)
DriverOf(begin, inOrder, onError, onEnd) ==
  [begin |-> begin, inOrder |-> inOrder, onError |-> onError, onEnd |-> onEnd, sql |-> TRUE]
Refusing(begin, onEnd) == [DriverOf(begin, TRUE, "stays", onEnd) EXCEPT !.sql = FALSE]

MysqlConnection      == DriverOf("request", TRUE, "stays", "drains")
PostgreSqlConnection == DriverOf("request", TRUE, "ends", "cuts")
KingbaseConnection   == DriverOf("request", TRUE, "ends", "cuts")
SnowflakeConnection  == DriverOf("request", FALSE, "stays", "drains")
OracleConnection     == DriverOf("flag", TRUE, "stays", "drains")
DamengConnection     == DriverOf("flag", TRUE, "stays", "drains")
DuckDBConnection     == DriverOf("callback", TRUE, "stays", "drains")
SqliteConnection     == DriverOf("callback", FALSE, "stays", "nothing")
TDengineConnection   == DriverOf("callback", FALSE, "stays", "drains")
Neo4jConnection      == DriverOf("callback", FALSE, "stays", "drains")
ClickHouseConnection == DriverOf("callback", FALSE, "stays", "drains")
EsConnection         == DriverOf("nothing", FALSE, "stays", "nothing")
MongoConnection      == DriverOf("nothing", FALSE, "stays", "nothing")
RedisConnection      == DriverOf("nothing", TRUE, "stays", "nothing")
KafkaConnection      == Refusing("callback", "drains")
RabbitMQConnection   == Refusing("callback", "drains")
S3Connection         == Refusing("callback", "drains")
ZooKeeperConnection  == Refusing("callback", "drains")
FTPConnection        == Refusing("throws", "nothing")

\* ConnectionManager.create; Doris and Redshift are MySQL and PostgreSQL.
Driver ==
  [mysql |-> MysqlConnection, postgres |-> PostgreSqlConnection,
   kingbase |-> KingbaseConnection, snowflake |-> SnowflakeConnection,
   oracle |-> OracleConnection, dameng |-> DamengConnection, duckdb |-> DuckDBConnection,
   sqlite |-> SqliteConnection, tdengine |-> TDengineConnection, neo4j |-> Neo4jConnection,
   clickhouse |-> ClickHouseConnection, es |-> EsConnection, mongo |-> MongoConnection,
   redis |-> RedisConnection, kafka |-> KafkaConnection, rabbitmq |-> RabbitMQConnection,
   s3 |-> S3Connection, zookeeper |-> ZooKeeperConnection, ftp |-> FTPConnection]

D == Driver[driver]
Transactional == D.begin \in {"request", "flag"}

\* The servers: BEGIN inside a transaction commits it or is ignored; a schema
\* statement commits what is open, or is part of it.
BeginCommits  == driver = "mysql"
SchemaCommits == driver \in {"mysql", "oracle", "dameng", "snowflake"}

-----------------------------------------------------------------------------
SessionStatements == Singles \union (Batches \X (1..BatchLength))
SessionRequest(by, kind, auto) == [by |-> by, kind |-> kind, auto |-> auto]
StatementIn(c, r) == IF r.by \in Singles THEN r.by ELSE <<r.by, c.batch[r.by].next>>

SqlSessionsInit ==
  /\ driver \in DOMAIN Driver
  /\ session =
       [link   |-> "open", inTransaction |-> FALSE,
        onWay  |-> <<>>,                                   \* requests without an answer
        open   |-> FALSE, work |-> {}, kept |-> {},        \* the session at the server
        single |-> [q \in Singles |-> "idle"],
        batch  |-> [b \in Batches |-> [at |-> "idle", next |-> 1]]]
  /\ history =
       [amid   |-> {},   \* singles that may have become part of a batch's transaction
        mixed  |-> {},   \* batches whose transaction another one, or a schema statement, ended
        schema |-> {},   \* calls whose statements are schema statements
        cut    |-> {}]   \* batches whose commit was lost with the connection, or never sent

\* Until when a batch can take up what others send: the requests of a
\* connection that keeps their order are behind its commit as soon as that is
\* sent; the flag, and the order where there is none, last until the answer.
Underway(b) ==
  \/ session.batch[b].at \in {"begin", "running"}
  \/ /\ ~(D.begin = "request" /\ D.inOrder)
     /\ \E i \in DOMAIN session.onWay : session.onWay[i].by = b

-----------------------------------------------------------------------------
(* What the drivers do, as functions from connection to connection.        *)

\* Mutant: autoCommit is left to the library, which has it off.
AutoCommitOff(c) == D.begin # "flag"

\* autoCommit: !this.inTransaction.  (The drivers without a flag leave it to
\* the server.)
AutoCommit(c) == ~c.inTransaction

SendOn(c, by, kind) ==
  [c EXCEPT !.onWay = Append(@, SessionRequest(by, kind, AutoCommit(c)))]

\* Mutant: a failed batch is committed.
RollbackCommits(c, b) ==
  IF c.link # "open" THEN [c EXCEPT !.inTransaction = FALSE]
  ELSE IF Transactional THEN SendOn(c, b, "commit") ELSE c

\* rollback.  Without a connection only the flag is cleared.
Rollback(c, b) ==
  IF c.link # "open" THEN [c EXCEPT !.inTransaction = FALSE]
  ELSE IF Transactional THEN SendOn(c, b, "rollback") ELSE c

Commit(c, b) ==
  IF c.link # "open" THEN [c EXCEPT !.inTransaction = FALSE]
  ELSE IF Transactional THEN SendOn(c, b, "commit") ELSE c

\* The catch of runBatch: nobody waits for the rollback.
Rejected(c, b) == Rollback([c EXCEPT !.batch[b].at = "rejected"], b)

\* queryPromise of a batch's next statement, or the commit, which nobody waits for
NextOfBatch(c, b) ==
  IF c.batch[b].next > BatchLength
    THEN Commit([c EXCEPT !.batch[b].at = "resolved"], b)
  ELSE IF ~D.sql \/ c.link # "open" THEN Rejected(c, b)
  ELSE SendOn(c, b, "statement")

\* The callback of beginTransaction, which does not look at its error
Begun(c, b) == NextOfBatch([c EXCEPT !.batch[b].at = "running"], b)

\* A failed query of PostgreSQL or Kingbase ends the connection, for everybody.
AfterError(c) ==
  IF D.onError = "ends" /\ c.link = "open" THEN [c EXCEPT !.link = "ending"] ELSE c

\* The answer to a request, after the callbacks it makes ready.  The callback
\* of a failed statement comes before the end of the connection, but the catch
\* of runBatch after it.
RequestAnswered(c, r, ok) ==
  CASE r.kind = "begin" -> Begun(c, r.by)
    [] r.kind \in {"commit", "rollback"} ->
         [c EXCEPT !.inTransaction = @ /\ D.begin # "flag"]
    [] r.kind = "statement" /\ r.by \in Singles ->
         IF ok THEN [c EXCEPT !.single[r.by] = "ok"]
         ELSE AfterError([c EXCEPT !.single[r.by] = "failed"])
    [] r.kind = "statement" /\ r.by \in Batches ->
         IF ok THEN NextOfBatch([c EXCEPT !.batch[r.by].next = @ + 1], r.by)
         ELSE Rejected(AfterError(c), r.by)

-----------------------------------------------------------------------------
(* The server, and the actions.                                            *)

Committed(c, and) ==
  [c EXCEPT !.kept = @ \union c.work \union and, !.work = {}]

\* What a request does at the server if it succeeds
Processed(c, r, isSchema) ==
  CASE r.kind = "begin" ->
         [(IF BeginCommits THEN Committed(c, {}) ELSE c) EXCEPT !.open = TRUE]
    [] r.kind = "commit"   -> [Committed(c, {}) EXCEPT !.open = FALSE]
    [] r.kind = "rollback" -> [c EXCEPT !.work = {}, !.open = FALSE]
    [] r.kind = "statement" /\ isSchema /\ SchemaCommits ->
         [Committed(c, {StatementIn(c, r)}) EXCEPT !.open = FALSE]
    [] r.kind = "statement" /\ ~(isSchema /\ SchemaCommits) ->
         IF c.open \/ ~r.auto THEN [c EXCEPT !.work = @ \union {StatementIn(c, r)}]
         ELSE Committed(c, {StatementIn(c, r)})

InSchema(by) == by \in history.schema

\* The batches whose transaction a schema statement ends
EndedBy(r) ==
  IF r.kind = "statement" /\ InSchema(r.by) /\ SchemaCommits
  THEN {b \in Batches : Underway(b) \/ \E i \in 1..BatchLength : <<b, i>> \in session.work}
  ELSE {}

\* Which requests the server may take next
Takeable == IF D.inOrder THEN DOMAIN session.onWay \cap {1} ELSE DOMAIN session.onWay
Taken(c, i) == [c EXCEPT !.onWay = RemoveAt(@, i)]

CanBeAnswered == session.link = "open" \/ (session.link = "ending" /\ D.onEnd = "drains")

\* queryPromise by itself
SendSingle(q, isSchema) ==
  /\ session.single[q] = "idle"
  /\ session' =
       IF ~D.sql \/ session.link # "open" THEN [session EXCEPT !.single[q] = "failed"]
       ELSE SendOn([session EXCEPT !.single[q] = "sent"], q, "statement")
  /\ history' = [history EXCEPT
       !.amid   = @ \union {s \in {q} : \E b \in Batches : Underway(b)},
       !.schema = @ \union {s \in {q} : isSchema}]
  /\ UNCHANGED driver

\* beginTransaction.  On a connection that is gone, or was ended, BEGIN fails,
\* which is no different for runBatch.
Begin(c, b) ==
  CASE D.begin = "request" /\ c.link = "open" -> SendOn(c, b, "begin")
    [] D.begin = "flag"    -> Begun([c EXCEPT !.inTransaction = TRUE], b)
    [] D.begin = "throws"  -> [c EXCEPT !.batch[b].at = "rejected"]
    [] D.begin = "nothing" -> c
    [] OTHER               -> Begun(c, b)

\* runBatch
RunBatch(b, isSchema) ==
  /\ session.batch[b].at = "idle"
  /\ session' = Begin([session EXCEPT !.batch[b].at = "begin"], b)
  /\ LET others == {o \in Batches : Underway(o)}
     IN history' = [history EXCEPT
          !.mixed  = IF others = {} THEN @ ELSE @ \union others \union {b},
          !.amid   = IF D.inOrder THEN @
                     ELSE @ \union {q \in Singles : session.single[q] = "sent"},
          !.schema = @ \union {s \in {b} : isSchema}]
  /\ UNCHANGED driver

Resolved(c) == {b \in Batches : c.batch[b].at = "resolved"}

\* The server does what was asked, and the library hears of it.
RequestSucceeds(i) ==
  /\ CanBeAnswered
  /\ LET r == session.onWay[i]
     IN /\ session' = RequestAnswered(Processed(Taken(session, i), r, InSchema(r.by)), r, TRUE)
        /\ history' = [history EXCEPT
             !.mixed = @ \union EndedBy(r),
             !.cut   = @ \union (IF session.link = "open" THEN {}
                               ELSE Resolved(session') \ Resolved(session))]
  /\ UNCHANGED driver

\* The server refuses a statement.
StatementRefused(i) ==
  /\ CanBeAnswered
  /\ session.onWay[i].kind = "statement"
  /\ session' = RequestAnswered(Taken(session, i), session.onWay[i], FALSE)
  /\ UNCHANGED <<driver, history>>

\* The connection is gone: the server may have done what was asked of it last,
\* and undoes what is not committed.  Everybody who waits gets an error.
ConnectionLost(last) ==
  /\ session.link # "gone"
  /\ LET c == IF last = 0 THEN session
              ELSE Processed(session, session.onWay[last], InSchema(session.onWay[last].by))
     IN session' = [c EXCEPT
          !.link = "gone", !.inTransaction = FALSE, !.onWay = <<>>,
          !.open = FALSE, !.work = {},
          !.single = [q \in Singles |-> IF @[q] = "sent" THEN "failed" ELSE @[q]],
          !.batch  = [b \in Batches |->
            IF @[b].at = "running" \/ (@[b].at = "begin" /\ D.begin # "nothing")
            THEN [@[b] EXCEPT !.at = "rejected"] ELSE @[b]]]
  /\ history' = [history EXCEPT
       !.cut   = @ \union {b \in Batches : \E i \in DOMAIN session.onWay :
                           session.onWay[i].by = b /\ session.onWay[i].kind = "commit"},
       !.mixed = @ \union (IF last = 0 THEN {} ELSE EndedBy(session.onWay[last]))]
  /\ UNCHANGED driver

\* end, by the manager or by whoever closes a session
End ==
  /\ session.link = "open" /\ D.onEnd # "nothing"
  /\ session' = [session EXCEPT !.link = "ending"]
  /\ UNCHANGED <<driver, history>>

SqlSessionsNext ==
  \/ \E isSchema \in BOOLEAN :
       \/ \E q \in Singles : SendSingle(q, isSchema)
       \/ \E b \in Batches : RunBatch(b, isSchema)
  \/ \E i \in Takeable : RequestSucceeds(i) \/ StatementRefused(i)
  \/ \E last \in Takeable \union {0} : ConnectionLost(last)
  \/ End

SqlSessionsSpec == SqlSessionsInit /\ [][SqlSessionsNext]_sessionVars

-----------------------------------------------------------------------------
Callers == Singles \union Batches
SqlSessionsTypeOK ==
  /\ driver \in DOMAIN Driver
  /\ session \in
       [link : {"open", "ending", "gone"}, inTransaction : BOOLEAN,
        onWay : Seq([by : Callers, kind : {"begin", "statement", "commit", "rollback"},
                     auto : BOOLEAN]),
        open : BOOLEAN, work : SUBSET SessionStatements, kept : SUBSET SessionStatements,
        single : [Singles -> {"idle", "sent", "ok", "failed"}],
        batch : [Batches -> [at : {"idle", "begin", "running", "resolved", "rejected"},
                             next : 1..BatchLength + 1]]]
  /\ history \in [amid : SUBSET Singles, mixed : SUBSET Batches, schema : SUBSET Callers,
                  cut : SUBSET Batches]

\* What a caller was told was done stays done, whatever batches run, fail or
\* are lost on the same connection (QueryUnit.queryPromise).  Excepted is a
\* statement that the connection took up into a batch of somebody else.
AckedIsKept ==
  \A q \in Singles :
    session.single[q] = "ok" =>
      q \in session.kept \/ (Transactional /\ q \in history.amid)

\* A batch is done as a whole or not at all (QueryUnit.runBatch), on the
\* drivers that have transactions: nothing of one that was rejected stays, and
\* of one that was resolved everything does, once its commit is answered.
\* Excepted are batches that ran at the same time, batches with a schema
\* statement in the middle on servers that commit there, and commits that were
\* lost with the connection or could not be sent on it, which nobody is told.
BatchesAreAtomic ==
  Transactional =>
    \A b \in Batches \ history.mixed :
      LET all == {b} \X (1..BatchLength)
      IN /\ session.batch[b].at = "rejected" => all \cap session.kept = {}
         /\ session.batch[b].at = "resolved" /\ b \notin history.cut =>
              \/ all \subseteq session.kept
              \/ \E i \in DOMAIN session.onWay : session.onWay[i].by = b
=============================================================================
