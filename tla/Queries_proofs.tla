---------------------------- MODULE Queries_proofs ----------------------------
(***************************************************************************)
(* Proofs about what is sent to a database: statements and batches that    *)
(* share a connection (SqlSessions), the page that shows results           *)
(* (QueryPage) and the statements a script is split into (SqlBatches).     *)
(***************************************************************************)
EXTENDS SqlSessions, QueryPage, SqlBatches, SequenceTheorems, FiniteSetTheorems,
        WellFoundedInduction, TLAPS

-----------------------------------------------------------------------------
(* Statements and batches on one connection.  The invariant is stated of a *)
(* driver d, a connection c and a history h, so that what the driver does  *)
(* in one step can be followed through the connections in between.         *)

SessionType ==
  [link : {"open", "ending", "gone"}, inTransaction : BOOLEAN,
   onWay : Seq([by : Callers, kind : {"begin", "statement", "commit", "rollback"},
                auto : BOOLEAN]),
   open : BOOLEAN, work : SUBSET SessionStatements, kept : SUBSET SessionStatements,
   single : [Singles -> {"idle", "sent", "ok", "failed"}],
   batch : [Batches -> [at : {"idle", "begin", "running", "resolved", "rejected"},
                        next : 1..BatchLength + 1]]]
HistoryType ==
  [amid : SUBSET Singles, mixed : SUBSET Batches, schema : SUBSET Callers,
   cut : SUBSET Batches]

Transacts(d) == d.begin \in {"request", "flag"}
Runs(c, b)   == c.batch[b].at \in {"begin", "running"}
Waits(c, by) == \E i \in DOMAIN c.onWay : c.onWay[i].by = by
IsEnd(r)     == r.kind \in {"commit", "rollback"}
IsFence(r)   == r.kind # "statement"

\* Underway
Held(d, c, b) == Runs(c, b) \/ (~(d.begin = "request" /\ d.inOrder) /\ Waits(c, b))

\* A request that is on its way says how far its caller is.
RequestRight(d, c, r) ==
  /\ r.kind = "begin" => d.begin = "request" /\ r.by \in Batches /\ c.batch[r.by].at = "begin"
  /\ IsEnd(r) => Transacts(d) /\ r.by \in Batches
  /\ r.kind = "commit" => c.batch[r.by].at = "resolved"
  /\ r.kind = "rollback" => c.batch[r.by].at = "rejected"
  /\ r.kind = "statement" /\ r.by \in Singles => c.single[r.by] = "sent"
  /\ r.kind = "statement" /\ r.by \in Batches =>
       c.batch[r.by].at = "running" /\ c.batch[r.by].next <= BatchLength
QueueRight(d, c) == \A i \in DOMAIN c.onWay : RequestRight(d, c, c.onWay[i])

\* Nobody has two requests on their way.
AskedOnce(c) == \A i, j \in DOMAIN c.onWay : c.onWay[i].by = c.onWay[j].by => i = j

\* Who has not begun has its first statement ahead.
NextRight(c) ==
  \A b \in Batches : c.batch[b].at \in {"idle", "begin"} => c.batch[b].next = 1

\* The flag is up only for somebody; only a BEGIN opens a transaction.
FlagRight(d, c) == c.inTransaction => d.begin = "flag" /\ \E b \in Batches : Held(d, c, b)
OpenRight(d, c) == c.open => d.begin = "request"

\* A request by one whom no batch can take up
Outside(h, r) == r.by \in Singles \ h.amid

\* An open transaction will be closed by what is on its way, or is somebody's.
SomeonesOpen(d, c) ==
  c.link = "open" /\ c.open =>
    \/ \E b \in Batches : Held(d, c, b)
    \/ d.inOrder /\ \E i \in DOMAIN c.onWay : IsEnd(c.onWay[i])

\* What nobody can take up commits by itself: it is not sent with the flag up,
\* no BEGIN is before it, and the end of an open transaction is.
AutoRight(d, c, h) ==
  \A i \in DOMAIN c.onWay :
    c.onWay[i].auto \/ (d.begin = "flag" /\ ~Outside(h, c.onWay[i]))
TakenUp(d, c, h) ==
  /\ d.inOrder => \A i \in DOMAIN c.onWay : Outside(h, c.onWay[i]) =>
       /\ \A k \in 1..i - 1 : c.onWay[k].kind # "begin"
       /\ c.open => \E m \in 1..i - 1 : IsEnd(c.onWay[m])
  /\ ~d.inOrder /\ (c.open \/ \E b \in Batches : Held(d, c, b)) =>
       \A i \in DOMAIN c.onWay : ~Outside(h, c.onWay[i])

Acked(d, c, h) ==
  \A q \in Singles : c.single[q] = "ok" => q \in c.kept \/ (Transacts(d) /\ q \in h.amid)

\* Without the flag there is work only in a transaction.
WorkOpen(d, c) == d.begin = "request" /\ c.work # {} => c.open

SharedInv(d, c, h) ==
  /\ QueueRight(d, c) /\ AskedOnce(c) /\ NextRight(c)
  /\ FlagRight(d, c) /\ OpenRight(d, c) /\ SomeonesOpen(d, c)
  /\ AutoRight(d, c, h) /\ TakenUp(d, c, h) /\ Acked(d, c, h) /\ WorkOpen(d, c)

\* Of a batch that ran by itself:
All(b)        == {b} \X (1..BatchLength)
DoneOf(c, b)  == {b} \X (1..c.batch[b].next - 1)
AtStake(c, b) == All(b) \cap c.work # {}

\* nobody else is under way while it is;
Alone(d, c, b) == Held(d, c, b) => \A o \in Batches \ {b} : ~Held(d, c, o)

\* what begins or ends the transactions of others comes before its BEGIN, and
\* behind its end;
BegunLast(d, c, b) ==
  c.batch[b].at = "begin" =>
    \A i \in DOMAIN c.onWay : IsFence(c.onWay[i]) /\ c.onWay[i].by # b =>
      d.inOrder /\ \E p \in DOMAIN c.onWay : i < p /\ c.onWay[p].by = b
NoneElse(c, b) == c.batch[b].at = "running" => \A i \in DOMAIN c.onWay : ~IsFence(c.onWay[i])
Fenced(d, c, b) ==
  AtStake(c, b) =>
    \A i \in DOMAIN c.onWay : IsFence(c.onWay[i]) /\ c.onWay[i].by # b =>
      d.inOrder /\ \E p \in DOMAIN c.onWay : p < i /\ c.onWay[p].by = b

\* its work is not forgotten, and its transaction or the flag stays;
StakeHeld(c, b) ==
  AtStake(c, b) /\ c.link = "open" => c.batch[b].at = "running" \/ Waits(c, b)
OpenWhile(d, c, b) == d.begin = "request" /\ c.batch[b].at = "running" => c.open
FlagWhile(d, c, b) == d.begin = "flag" /\ Held(d, c, b) => c.inTransaction

\* what could commit its work comes before its first statement;
NotAuto(d, c, b) ==
  d.begin = "flag" =>
    \A i \in DOMAIN c.onWay :
      c.onWay[i].kind = "statement" /\
      (AtStake(c, b) \/ \E p \in DOMAIN c.onWay : p <= i /\ c.onWay[p].by = b) =>
        ~c.onWay[i].auto

\* and its statements are work until it has ended, and then are kept.
NotBegun(c, b) == c.batch[b].at \in {"idle", "begin"} => ~AtStake(c, b)
Progress(c, b) == c.batch[b].at = "running" => DoneOf(c, b) \subseteq c.work
NotKept(c, b)  == c.batch[b].at # "resolved" => All(b) \cap c.kept = {}
AllKept(c, h, b) ==
  c.batch[b].at = "resolved" /\ b \notin h.cut =>
    All(b) \subseteq c.kept \/ (All(b) \subseteq c.work /\ Waits(c, b))

BatchInv(d, c, h, b) ==
  /\ Alone(d, c, b) /\ BegunLast(d, c, b) /\ NoneElse(c, b) /\ Fenced(d, c, b)
  /\ StakeHeld(c, b) /\ OpenWhile(d, c, b) /\ FlagWhile(d, c, b) /\ NotAuto(d, c, b)
  /\ NotBegun(c, b) /\ Progress(c, b) /\ NotKept(c, b) /\ AllKept(c, h, b)

ConnectionInv(d, c, h) ==
  /\ c \in SessionType /\ h \in HistoryType
  /\ SharedInv(d, c, h)
  /\ Transacts(d) => \A b \in Batches \ h.mixed : BatchInv(d, c, h, b)

SessionsInv == driver \in DOMAIN Driver /\ ConnectionInv(D, session, history)

-----------------------------------------------------------------------------
(* Facts about drivers, connections and queues.                            *)

DriverRight(d) ==
  /\ d.begin \in {"request", "flag", "callback", "nothing", "throws"}
  /\ d.inOrder \in BOOLEAN /\ d.sql \in BOOLEAN
  /\ d.begin = "flag" => d.inOrder

\* What ConnectionManager.create can make: a driver that only sets a flag
\* keeps its requests in order, and so does MySQL, whose BEGIN commits.
LEMMA DriversRight ==
  ASSUME driver \in DOMAIN Driver
  PROVE  /\ DriverRight(D)
         /\ BeginCommits => D.begin = "request" /\ D.inOrder
         /\ Transactional <=> Transacts(D)
<1>1. driver \in {"mysql", "postgres", "kingbase", "snowflake", "oracle", "dameng", "duckdb",
                  "sqlite", "tdengine", "neo4j", "clickhouse", "es", "mongo", "redis", "kafka",
                  "rabbitmq", "s3", "zookeeper", "ftp"}
  BY DEF Driver
<1>2. D \in {MysqlConnection, PostgreSqlConnection, KingbaseConnection, SnowflakeConnection,
             OracleConnection, DamengConnection, DuckDBConnection, SqliteConnection,
             TDengineConnection, Neo4jConnection, ClickHouseConnection, EsConnection,
             MongoConnection, RedisConnection, KafkaConnection, RabbitMQConnection,
             S3Connection, ZooKeeperConnection, FTPConnection}
  BY <1>1 DEF D, Driver
<1> DEFINE Begins3 == {"request", "flag", "callback", "nothing", "throws"}
<1>a. ASSUME NEW begin \in Begins3, NEW inOrder \in BOOLEAN, NEW onError, NEW onEnd,
             begin = "flag" => inOrder
      PROVE  DriverRight(DriverOf(begin, inOrder, onError, onEnd))
  BY <1>a DEF DriverRight, DriverOf
<1>b. ASSUME NEW begin \in Begins3, NEW onEnd
      PROVE  DriverRight(Refusing(begin, onEnd))
  BY DEF DriverRight, Refusing, DriverOf
<1>c. /\ DriverRight(MysqlConnection) /\ DriverRight(PostgreSqlConnection)
      /\ DriverRight(KingbaseConnection) /\ DriverRight(SnowflakeConnection)
      /\ DriverRight(OracleConnection) /\ DriverRight(DamengConnection)
      /\ DriverRight(DuckDBConnection) /\ DriverRight(SqliteConnection)
      /\ DriverRight(TDengineConnection) /\ DriverRight(Neo4jConnection)
      /\ DriverRight(ClickHouseConnection) /\ DriverRight(EsConnection)
      /\ DriverRight(MongoConnection) /\ DriverRight(RedisConnection)
  BY <1>a DEF MysqlConnection, PostgreSqlConnection, KingbaseConnection,
       SnowflakeConnection, OracleConnection, DamengConnection, DuckDBConnection,
       SqliteConnection, TDengineConnection, Neo4jConnection, ClickHouseConnection,
       EsConnection, MongoConnection, RedisConnection
<1>d. /\ DriverRight(KafkaConnection) /\ DriverRight(RabbitMQConnection)
      /\ DriverRight(S3Connection) /\ DriverRight(ZooKeeperConnection)
      /\ DriverRight(FTPConnection)
  BY <1>b DEF KafkaConnection, RabbitMQConnection, S3Connection, ZooKeeperConnection,
       FTPConnection
<1>3. DriverRight(D)
  BY <1>2, <1>c, <1>d
<1>4. driver = "mysql" => D = MysqlConnection
  BY DEF D, Driver
<1> QED
  BY <1>3, <1>4 DEF BeginCommits, MysqlConnection, DriverOf, Transactional, Transacts

\* The queue t is s without its i-th request.
Shorter(s, t, i) ==
  /\ Len(s) \in Nat /\ DOMAIN s = 1..Len(s) /\ i \in 1..Len(s)
  /\ DOMAIN t = 1..Len(s) - 1
  /\ \A j \in 1..Len(s) - 1 : t[j] = IF j < i THEN s[j] ELSE s[j + 1]

\* The queue t is s and r behind it.
Longer(s, t, r) ==
  /\ Len(s) \in Nat /\ DOMAIN s = 1..Len(s)
  /\ DOMAIN t = 1..Len(s) + 1
  /\ \A j \in 1..Len(s) : t[j] = s[j]
  /\ t[Len(s) + 1] = r

\* A request that is answered is off the queue.
LEMMA RemovedShorter ==
  ASSUME NEW S, NEW s \in Seq(S), NEW i \in 1..Len(s)
  PROVE  RemoveAt(s, i) \in Seq(S) /\ Shorter(s, RemoveAt(s, i), i)
<1>1. Len(s) \in Nat /\ i \in Nat
  OBVIOUS
<1>2. /\ SubSeq(s, 1, i - 1) \in Seq(S) /\ Len(SubSeq(s, 1, i - 1)) = i - 1
      /\ \A j \in 1..i - 1 : SubSeq(s, 1, i - 1)[j] = s[j]
  <2>1. CASE i = 1
    BY <1>1, <2>1
  <2>2. CASE i # 1
    BY <1>1, <2>2, SubSeqProperties
  <2> QED
    BY <2>1, <2>2
<1>3. /\ SubSeq(s, i + 1, Len(s)) \in Seq(S) /\ Len(SubSeq(s, i + 1, Len(s))) = Len(s) - i
      /\ \A j \in 1..Len(s) - i : SubSeq(s, i + 1, Len(s))[j] = s[i + j]
  <2>1. CASE i = Len(s)
    BY <1>1, <2>1
  <2>2. CASE i # Len(s)
    BY <1>1, <2>2
  <2> QED
    BY <2>1, <2>2
<1>4. PICK a \in Seq(S) : a = SubSeq(s, 1, i - 1)
  BY <1>2
<1>5. PICK b \in Seq(S) : b = SubSeq(s, i + 1, Len(s))
  BY <1>3
<1>6. RemoveAt(s, i) = a \o b
  BY <1>4, <1>5 DEF RemoveAt
<1>7. Len(a) = i - 1 /\ Len(b) = Len(s) - i
  BY <1>2, <1>3, <1>4, <1>5
<1>c. PICK t : t = a \o b
  OBVIOUS
<1>8. /\ t \in Seq(S) /\ Len(t) = Len(s) - 1
      /\ \A j \in 1..Len(s) - 1 : t[j] = IF j < i THEN a[j] ELSE b[j - (i - 1)]
  <2>1. /\ t \in Seq(S) /\ Len(t) = Len(a) + Len(b)
        /\ \A j \in 1..Len(a) + Len(b) : t[j] = IF j <= Len(a) THEN a[j] ELSE b[j - Len(a)]
    BY <1>c, ConcatProperties
  <2>2. Len(a) + Len(b) = Len(s) - 1
    BY <1>1, <1>7
  <2>3. \A j \in 1..Len(s) - 1 : j <= i - 1 <=> j < i
    BY <1>1
  <2> QED
    BY <1>7, <2>1, <2>2, <2>3
<1>9. ASSUME NEW j \in 1..Len(s) - 1
      PROVE  t[j] = IF j < i THEN s[j] ELSE s[j + 1]
  <2>1. CASE j < i
    BY <1>1, <1>2, <1>4, <1>8, <2>1
  <2>2. CASE ~(j < i)
    <3>1. j - (i - 1) \in 1..Len(s) - i /\ i + (j - (i - 1)) = j + 1
      BY <1>1, <2>2
    <3> QED
      BY <1>1, <1>3, <1>5, <1>8, <2>2, <3>1
  <2> QED
    BY <2>1, <2>2
<1>10. Len(t) = Len(s) - 1 /\ DOMAIN t = 1..Len(s) - 1
  BY <1>8
<1> QED
  BY <1>1, <1>6, <1>c, <1>8, <1>9, <1>10 DEF Shorter

\* A request that is sent is behind all others.
LEMMA AppendedLonger ==
  ASSUME NEW S, NEW s \in Seq(S), NEW r \in S
  PROVE  Append(s, r) \in Seq(S) /\ Longer(s, Append(s, r), r)
BY DEF Longer

\* The requests that stay on a queue stay in their order.
LEMMA Stay ==
  ASSUME NEW s, NEW t, NEW i, Shorter(s, t, i)
  PROVE  /\ \A j \in DOMAIN t : \E m \in DOMAIN s : m # i /\ t[j] = s[m]
         /\ \A m \in DOMAIN s : m # i => \E j \in DOMAIN t : t[j] = s[m]
         /\ i = 1 => \A j \in DOMAIN t : j \in Nat /\ j + 1 \in DOMAIN s /\ t[j] = s[j + 1]
         /\ i = 1 => \A m \in DOMAIN s : m # 1 => m - 1 \in DOMAIN t /\ t[m - 1] = s[m]
<1>1. ASSUME NEW j \in DOMAIN t
      PROVE  \E m \in DOMAIN s : m # i /\ t[j] = s[m]
  <2>1. CASE j < i
    BY <2>1 DEF Shorter
  <2>2. CASE ~(j < i)
    BY <2>2 DEF Shorter
  <2> QED
    BY <2>1, <2>2
<1>2. ASSUME NEW m \in DOMAIN s, m # i
      PROVE  \E j \in DOMAIN t : t[j] = s[m]
  <2>1. CASE m < i
    BY <2>1 DEF Shorter
  <2>2. CASE ~(m < i)
    <3>1. m - 1 \in DOMAIN t /\ ~(m - 1 < i) /\ (m - 1) + 1 = m
      BY <1>2, <2>2 DEF Shorter
    <3> QED
      BY <3>1 DEF Shorter
  <2> QED
    BY <2>1, <2>2
<1>3. ASSUME i = 1
      PROVE  \A j \in DOMAIN t : j \in Nat /\ j + 1 \in DOMAIN s /\ t[j] = s[j + 1]
  BY <1>3 DEF Shorter
<1>4. ASSUME i = 1, NEW m \in DOMAIN s, m # 1
      PROVE  m - 1 \in DOMAIN t /\ t[m - 1] = s[m]
  <2>1. m - 1 \in DOMAIN t /\ ~(m - 1 < i) /\ (m - 1) + 1 = m
    BY <1>4 DEF Shorter
  <2> QED
    BY <2>1 DEF Shorter
<1> QED
  BY <1>1, <1>2, <1>3, <1>4

\* Nobody comes twice in what stays.
LEMMA StayOnce ==
  ASSUME NEW c, NEW e, NEW i, Shorter(c.onWay, e.onWay, i), AskedOnce(c)
  PROVE  AskedOnce(e) /\ ~Waits(e, c.onWay[i].by)
<1> DEFINE Old(j) == IF j < i THEN j ELSE j + 1
<1>1. ASSUME NEW j \in DOMAIN e.onWay
      PROVE  Old(j) \in DOMAIN c.onWay /\ Old(j) # i /\ e.onWay[j] = c.onWay[Old(j)]
  <2>1. CASE j < i
    BY <2>1 DEF Shorter
  <2>2. CASE ~(j < i)
    BY <2>2 DEF Shorter
  <2> QED
    BY <2>1, <2>2
<1>2. ASSUME NEW j \in DOMAIN e.onWay, NEW m \in DOMAIN e.onWay, Old(j) = Old(m)
      PROVE  j = m
  <2>1. j \in Int /\ m \in Int /\ i \in Int
    BY DEF Shorter
  <2> QED
    BY <1>2, <2>1
<1>3. i \in DOMAIN c.onWay
  BY DEF Shorter
<1> HIDE DEF Old
<1> QED
  BY <1>1, <1>2, <1>3 DEF AskedOnce, Waits

RequestType == [by : Callers, kind : {"begin", "statement", "commit", "rollback"}, auto : BOOLEAN]

\* What the type says of the requests.
LEMMA RequestsTyped ==
  ASSUME NEW c \in SessionType
  PROVE  /\ c.onWay \in Seq(RequestType)
         /\ Len(c.onWay) \in Nat /\ DOMAIN c.onWay = 1..Len(c.onWay)
         /\ \A i \in DOMAIN c.onWay :
              /\ c.onWay[i].by \in Callers /\ c.onWay[i].auto \in BOOLEAN
              /\ c.onWay[i].kind \in {"begin", "statement", "commit", "rollback"}
<1>1. c.onWay \in Seq(RequestType)
  BY DEF SessionType, RequestType
<1>2. PICK s \in Seq(RequestType) : s = c.onWay
  BY <1>1
<1>3. Len(s) \in Nat /\ DOMAIN s = 1..Len(s) /\ \A i \in DOMAIN s : s[i] \in RequestType
  BY <1>2
<1> QED
  BY <1>1, <1>2, <1>3 DEF RequestType

\* The exceptions only grow, and so the invariant asks for less.
LEMMA HistoryGrows ==
  ASSUME NEW d, NEW c, NEW h, NEW k \in HistoryType, ConnectionInv(d, c, h),
         h.amid \subseteq k.amid, h.mixed \subseteq k.mixed, h.cut \subseteq k.cut
  PROVE  ConnectionInv(d, c, k)
<1>1. SharedInv(d, c, k)
  <2>1. AutoRight(d, c, k)
    BY DEF ConnectionInv, SharedInv, AutoRight, Outside
  <2>2. TakenUp(d, c, k)
    BY DEF ConnectionInv, SharedInv, TakenUp, Outside
  <2>3. Acked(d, c, k)
    BY DEF ConnectionInv, SharedInv, Acked
  <2> QED
    BY <2>1, <2>2, <2>3 DEF ConnectionInv, SharedInv
<1>2. ASSUME NEW b, BatchInv(d, c, h, b)
      PROVE  BatchInv(d, c, k, b)
  BY <1>2 DEF BatchInv, AllKept
<1> QED
  BY <1>1, <1>2 DEF ConnectionInv

\* A connection that is ended, or that a failed query ends, owes nothing more.
LEMMA LinkEnds ==
  ASSUME NEW d, NEW c, NEW h, NEW e \in SessionType, ConnectionInv(d, c, h),
         e.link # "open",
         e.inTransaction = c.inTransaction, e.onWay = c.onWay, e.open = c.open,
         e.work = c.work, e.kept = c.kept, e.single = c.single, e.batch = c.batch
  PROVE  ConnectionInv(d, e, h)
<1>1. \A b : Held(d, e, b) = Held(d, c, b)
  BY DEF Held, Runs, Waits
<1>2. SharedInv(d, e, h)
  BY <1>1 DEF ConnectionInv, SharedInv, QueueRight, RequestRight, AskedOnce, FlagRight,
       OpenRight, NextRight,
       SomeonesOpen, AutoRight, TakenUp, Acked, WorkOpen
<1>3. ASSUME NEW b, BatchInv(d, c, h, b)
      PROVE  BatchInv(d, e, h, b)
  BY <1>1, <1>3 DEF BatchInv, Alone, BegunLast, NoneElse, Fenced, StakeHeld, OpenWhile, FlagWhile,
       NotAuto, NotBegun, Progress, NotKept, AllKept, AtStake, DoneOf, Waits
<1> QED
  BY <1>2, <1>3 DEF ConnectionInv

\* Which request a server may have taken: the first, where order is kept.
Next(d, c, i) == i \in DOMAIN c.onWay /\ (d.inOrder => i = 1)

\* A statement is off the queue.
LEMMA StatementTaken ==
  ASSUME NEW d, DriverRight(d), NEW c, NEW h, NEW e \in SessionType, ConnectionInv(d, c, h),
         NEW i, Next(d, c, i), c.onWay[i].kind = "statement",
         Shorter(c.onWay, e.onWay, i), e.link = c.link,
         e.inTransaction = c.inTransaction, e.open = c.open,
         e.work = c.work, e.kept = c.kept, e.single = c.single, e.batch = c.batch
  PROVE  ConnectionInv(d, e, h)
<1> DEFINE r == c.onWay[i]
<1>a. /\ \A j \in DOMAIN e.onWay : \E m \in DOMAIN c.onWay : m # i /\ e.onWay[j] = c.onWay[m]
      /\ \A m \in DOMAIN c.onWay : m # i => \E j \in DOMAIN e.onWay : e.onWay[j] = c.onWay[m]
      /\ d.inOrder => \A j \in DOMAIN e.onWay :
           j \in Nat /\ j + 1 \in DOMAIN c.onWay /\ e.onWay[j] = c.onWay[j + 1]
      /\ d.inOrder => \A m \in DOMAIN c.onWay :
           m # 1 => m - 1 \in DOMAIN e.onWay /\ e.onWay[m - 1] = c.onWay[m]
  BY Stay DEF Next
<1>b. i \in DOMAIN c.onWay /\ (d.inOrder => i = 1) /\ \A m \in DOMAIN c.onWay : m \in Nat
  BY DEF Next, Shorter
<1>c. RequestRight(d, c, r)
  BY <1>b DEF ConnectionInv, SharedInv, QueueRight
<1>d. r.by \in Batches => Runs(c, r.by)
  BY <1>c DEF RequestRight, Runs
<1>1. \A b \in Batches : Held(d, e, b) = Held(d, c, b)
  BY <1>a, <1>d DEF Held, Runs, Waits
<1>2. SharedInv(d, e, h)
  <2>1. QueueRight(d, e)
    BY <1>a DEF ConnectionInv, SharedInv, QueueRight, RequestRight
  <2>2. AskedOnce(e)
    BY StayOnce DEF ConnectionInv, SharedInv
  <2>3. FlagRight(d, e) /\ OpenRight(d, e) /\ NextRight(e) /\ Acked(d, e, h) /\ WorkOpen(d, e)
    BY <1>1 DEF ConnectionInv, SharedInv, FlagRight, OpenRight, NextRight, Acked, WorkOpen
  <2>4. SomeonesOpen(d, e)
    BY <1>1, <1>a DEF ConnectionInv, SharedInv, SomeonesOpen, IsEnd
  <2>5. AutoRight(d, e, h)
    BY <1>a DEF ConnectionInv, SharedInv, AutoRight
  <2>6. ASSUME d.inOrder, NEW j \in DOMAIN e.onWay, Outside(h, e.onWay[j])
        PROVE  /\ \A m \in 1..j - 1 : e.onWay[m].kind # "begin"
               /\ e.open => \E m \in 1..j - 1 : IsEnd(e.onWay[m])
    <3>1. j \in Nat /\ j + 1 \in DOMAIN c.onWay /\ Outside(h, c.onWay[j + 1])
      BY <1>a, <2>6
    <3>2. /\ \A m \in 1..j : c.onWay[m].kind # "begin"
          /\ c.open => \E m \in 1..j : IsEnd(c.onWay[m])
      BY <2>6, <3>1 DEF ConnectionInv, SharedInv, TakenUp
    <3>3. ~IsEnd(c.onWay[1])
      BY <1>b, <2>6 DEF IsEnd
    <3>4. \A m \in 1..j - 1 : m \in DOMAIN e.onWay /\ m + 1 \in 1..j
      BY <3>1 DEF Shorter
    <3>5. \A m \in 1..j : m # 1 => m - 1 \in 1..j - 1 /\ m \in DOMAIN c.onWay
      BY <3>1 DEF Shorter
    <3>6. \A m \in 1..j - 1 : e.onWay[m].kind # "begin"
      BY <1>a, <2>6, <3>2, <3>4
    <3>7. e.open => \E m \in 1..j - 1 : IsEnd(e.onWay[m])
      BY <1>a, <2>6, <3>2, <3>3, <3>5
    <3> QED
      BY <3>6, <3>7
  <2>7. TakenUp(d, e, h)
    <3>1. ~d.inOrder /\ (e.open \/ \E b \in Batches : Held(d, e, b)) =>
            \A j \in DOMAIN e.onWay : ~Outside(h, e.onWay[j])
      BY <1>1, <1>a DEF ConnectionInv, SharedInv, TakenUp
    <3> QED
      BY <2>6, <3>1 DEF TakenUp
  <2> QED
    BY <2>1, <2>2, <2>3, <2>4, <2>5, <2>7 DEF SharedInv
<1>3. ASSUME NEW b \in Batches, BatchInv(d, c, h, b)
      PROVE  BatchInv(d, e, h, b)
  <2>1. Alone(d, e, b)
    BY <1>1, <1>3 DEF BatchInv, Alone
  <2>2. BegunLast(d, e, b)
    <3> SUFFICES ASSUME e.batch[b].at = "begin", NEW j \in DOMAIN e.onWay,
                        IsFence(e.onWay[j]), e.onWay[j].by # b
                 PROVE  d.inOrder /\ \E p \in DOMAIN e.onWay : j < p /\ e.onWay[p].by = b
      BY DEF BegunLast
    <3>1. PICK m \in DOMAIN c.onWay : e.onWay[j] = c.onWay[m]
      BY <1>a
    <3>2. d.inOrder
      BY <1>3, <3>1 DEF BatchInv, BegunLast
    <3>3. PICK p \in DOMAIN c.onWay : j + 1 < p /\ c.onWay[p].by = b
      BY <1>3, <1>a, <3>2 DEF BatchInv, BegunLast
    <3>4. p # 1 /\ j < p - 1
      BY <1>a, <1>b, <3>2, <3>3
    <3> QED
      BY <1>a, <3>2, <3>3, <3>4
  <2>3. NoneElse(e, b)
    BY <1>3, <1>a DEF BatchInv, NoneElse
  <2>4. Fenced(d, e, b)
    <3> SUFFICES ASSUME AtStake(e, b), NEW j \in DOMAIN e.onWay,
                        IsFence(e.onWay[j]), e.onWay[j].by # b
                 PROVE  d.inOrder /\ \E p \in DOMAIN e.onWay : p < j /\ e.onWay[p].by = b
      BY DEF Fenced
    <3>1. PICK m \in DOMAIN c.onWay : e.onWay[j] = c.onWay[m]
      BY <1>a
    <3>2. AtStake(c, b) /\ d.inOrder
      BY <1>3, <3>1 DEF BatchInv, Fenced, AtStake
    <3>3. PICK p \in DOMAIN c.onWay : p < j + 1 /\ c.onWay[p].by = b
      BY <1>3, <1>a, <3>2 DEF BatchInv, Fenced
    <3>4. c.batch[b].at # "running"
      BY <1>3, <1>a, <3>1 DEF BatchInv, NoneElse
    <3>5. p # 1
      BY <1>b, <1>c, <3>2, <3>3, <3>4 DEF RequestRight
    <3>6. p - 1 < j
      BY <1>a, <1>b, <3>2, <3>3
    <3> QED
      BY <1>a, <3>2, <3>3, <3>5, <3>6
  <2>5. StakeHeld(e, b) /\ OpenWhile(d, e, b) /\ FlagWhile(d, e, b)
    BY <1>1, <1>3, <1>a, <1>c DEF BatchInv, StakeHeld, OpenWhile, FlagWhile, AtStake, Waits,
         RequestRight
  <2>6. NotAuto(d, e, b)
    <3> SUFFICES ASSUME d.begin = "flag", NEW j \in DOMAIN e.onWay, e.onWay[j].kind = "statement",
                        AtStake(e, b) \/ \E p \in DOMAIN e.onWay : p <= j /\ e.onWay[p].by = b
                 PROVE  ~e.onWay[j].auto
      BY DEF NotAuto
    <3>1. d.inOrder
      BY DEF DriverRight
    <3>2. AtStake(c, b) \/ \E p \in DOMAIN c.onWay : p <= j + 1 /\ c.onWay[p].by = b
      <4>1. CASE AtStake(e, b)
        BY <4>1 DEF AtStake
      <4>2. CASE \E p \in DOMAIN e.onWay : p <= j /\ e.onWay[p].by = b
        <5>1. PICK p \in DOMAIN e.onWay : p <= j /\ e.onWay[p].by = b
          BY <4>2
        <5>2. p + 1 <= j + 1 /\ p + 1 \in DOMAIN c.onWay /\ c.onWay[p + 1].by = b
          BY <1>a, <3>1, <5>1
        <5> QED
          BY <5>2
      <4> QED
        BY <4>1, <4>2
    <3>3. j + 1 \in DOMAIN c.onWay /\ c.onWay[j + 1] = e.onWay[j]
      BY <1>a, <3>1
    <3> QED
      BY <1>3, <3>2, <3>3 DEF BatchInv, NotAuto
  <2>7. NotBegun(e, b) /\ Progress(e, b) /\ NotKept(e, b)
    BY <1>3 DEF BatchInv, NotBegun, Progress, NotKept, AtStake, DoneOf
  <2>8. AllKept(e, h, b)
    BY <1>3, <1>a, <1>c DEF BatchInv, AllKept, Waits, RequestRight
  <2> QED
    BY <2>1, <2>2, <2>3, <2>4, <2>5, <2>6, <2>7, <2>8 DEF BatchInv
<1> QED
  BY <1>2, <1>3 DEF ConnectionInv

\* What is known of a statement r that the server has just taken: whom no
\* batch can take up commits by itself outside a transaction, and a batch that
\* ran by itself has its flag on its own statement and on what is behind it.
Ready(d, c, h, r) ==
  /\ r.kind = "statement" /\ r.by \in Callers /\ r.auto \in BOOLEAN /\ ~Waits(c, r.by)
  /\ r.by \in Batches => c.batch[r.by].at = "running" /\ c.batch[r.by].next <= BatchLength
  /\ r.by \in Singles => c.single[r.by] = "sent"
  /\ Outside(h, r) => r.auto /\ ~c.open
  /\ d.begin # "flag" => r.auto
  /\ d.begin = "flag" =>
       \A b \in Batches \ h.mixed :
         /\ AtStake(c, b) \/ r.by = b => ~r.auto
         /\ r.by = b => \A j \in DOMAIN c.onWay : c.onWay[j].kind = "statement" => ~c.onWay[j].auto

\* A statement that is taken off the queue is ready.
LEMMA StatementReady ==
  ASSUME NEW d, DriverRight(d), NEW c, NEW h, NEW e \in SessionType, ConnectionInv(d, c, h),
         NEW i, Next(d, c, i), c.onWay[i].kind = "statement",
         Shorter(c.onWay, e.onWay, i), e.open = c.open,
         e.work = c.work, e.single = c.single, e.batch = c.batch
  PROVE  Ready(d, e, h, c.onWay[i])
<1> DEFINE r == c.onWay[i]
<1>a. /\ \A j \in DOMAIN e.onWay : \E m \in DOMAIN c.onWay : m # i /\ e.onWay[j] = c.onWay[m]
      /\ d.inOrder => \A j \in DOMAIN e.onWay :
           j \in Nat /\ j + 1 \in DOMAIN c.onWay /\ e.onWay[j] = c.onWay[j + 1]
  BY Stay DEF Next
<1>b. i \in DOMAIN c.onWay /\ (d.inOrder => i = 1) /\ \A m \in DOMAIN c.onWay : m \in Nat
  BY DEF Next, Shorter
<1>c. RequestRight(d, c, r)
  BY <1>b DEF ConnectionInv, SharedInv, QueueRight
<1>1. r.by \in Callers /\ r.auto \in BOOLEAN
  BY <1>b, RequestsTyped DEF ConnectionInv
<1>2. ~Waits(e, r.by)
  BY StayOnce DEF ConnectionInv, SharedInv
<1>3. Outside(h, r) => r.auto /\ ~e.open
  <2>1. Outside(h, r) => r.auto
    BY <1>b DEF ConnectionInv, SharedInv, AutoRight
  <2>2. Outside(h, r) => ~e.open
    <3>1. CASE d.inOrder
      <4>1. 1..1 - 1 = {}
        OBVIOUS
      <4> QED
        BY <1>b, <3>1, <4>1 DEF ConnectionInv, SharedInv, TakenUp
    <3>2. CASE ~d.inOrder
      BY <1>b, <3>2 DEF ConnectionInv, SharedInv, TakenUp
    <3> QED
      BY <3>1, <3>2
  <2> QED
    BY <2>1, <2>2
<1>4. d.begin # "flag" => r.auto
  BY <1>b DEF ConnectionInv, SharedInv, AutoRight
<1>5. ASSUME d.begin = "flag", NEW b \in Batches \ h.mixed
      PROVE  /\ AtStake(e, b) \/ r.by = b => ~r.auto
             /\ r.by = b => \A j \in DOMAIN e.onWay : e.onWay[j].kind = "statement" => ~e.onWay[j].auto
  <2>1. d.inOrder /\ NotAuto(d, c, b)
    BY <1>5 DEF DriverRight, ConnectionInv, Transacts, BatchInv
  <2>2. AtStake(e, b) \/ r.by = b => ~r.auto
    BY <1>5, <1>b, <2>1 DEF NotAuto, AtStake
  <2>3. ASSUME r.by = b, NEW j \in DOMAIN e.onWay, e.onWay[j].kind = "statement"
        PROVE  ~e.onWay[j].auto
    <3>1. j + 1 \in DOMAIN c.onWay /\ e.onWay[j] = c.onWay[j + 1] /\ 1 \in DOMAIN c.onWay
          /\ 1 <= j + 1 /\ c.onWay[1].by = b
      BY <1>a, <1>b, <2>1, <2>3
    <3> QED
      BY <1>5, <2>1, <2>3, <3>1 DEF NotAuto
  <2> QED
    BY <2>2, <2>3
<1> QED
  BY <1>c, <1>1, <1>2, <1>3, <1>4, <1>5 DEF Ready, RequestRight

\* What it writes.
Written(c, r) == IF r.by \in Singles THEN r.by ELSE <<r.by, c.batch[r.by].next>>

\* Singles are not statements of batches, and batches have theirs apart.
LEMMA WrittenBy ==
  ASSUME NEW d, NEW c \in SessionType, NEW h, NEW r, Ready(d, c, h, r)
  PROVE  /\ Written(c, r) \in SessionStatements
         /\ \A b \in Batches : Written(c, r) \in All(b) => r.by = b
         /\ r.by \in Singles => r.by \notin Batches
         /\ r.by \in Batches => r.by \notin Singles
         /\ r.by \in Singles \/ r.by \in Batches
<1>1. r.by \in Singles \/ r.by \in Batches
  BY DEF Ready, Callers
<1>2. CASE r.by \in Singles
  BY <1>2, SqlSessionsAssumption DEF Written, SessionStatements, All
<1>3. CASE r.by \in Batches
  <2>1. r.by \notin Singles
    BY <1>3, SqlSessionsAssumption
  <2>2. c.batch[r.by].next \in 1..BatchLength + 1 /\ c.batch[r.by].next <= BatchLength
    BY <1>3 DEF Ready, SessionType
  <2>3. BatchLength \in Nat
    BY SqlSessionsAssumption
  <2>4. PICK n \in 1..BatchLength : n = c.batch[r.by].next
    BY <2>2, <2>3
  <2>5. Written(c, r) = <<r.by, n>>
    BY <2>1, <2>4 DEF Written
  <2>6. <<r.by, n>> \in Batches \X (1..BatchLength)
    BY <1>3
  <2>7. \A b \in Batches : <<r.by, n>> \in {b} \X (1..BatchLength) => r.by = b
    OBVIOUS
  <2> QED
    BY <1>3, <2>1, <2>5, <2>6, <2>7 DEF SessionStatements, All
<1> QED
  BY <1>1, <1>2, <1>3

\* What a batch has done is work of its own.
LEMMA DoneIsAll ==
  ASSUME NEW c \in SessionType, NEW b \in Batches
  PROVE  DoneOf(c, b) \subseteq All(b)
<1>1. c.batch[b].next \in 1..BatchLength + 1 /\ BatchLength \in Nat
  BY SqlSessionsAssumption DEF SessionType
<1>2. PICK n \in 1..BatchLength + 1 : n = c.batch[b].next
  BY <1>1
<1>3. 1..n - 1 \subseteq 1..BatchLength
  BY <1>1
<1> QED
  BY <1>2, <1>3 DEF DoneOf, All

\* A batch has statements.
LEMMA AllOfSome ==
  ASSUME NEW b
  PROVE  All(b) # {}
<1>1. <<b, 1>> \in All(b)
  BY SqlSessionsAssumption DEF All
<1> QED
  BY <1>1

\* A statement that only works, in a transaction or with the flag up.
LEMMA StatementWorks ==
  ASSUME NEW d, DriverRight(d), NEW c, NEW h, NEW e \in SessionType, ConnectionInv(d, c, h),
         NEW r, Ready(d, c, h, r), c.open \/ ~r.auto,
         e.work = c.work \union {Written(c, r)}, e.link = c.link,
         e.inTransaction = c.inTransaction, e.open = c.open,
         e.onWay = c.onWay, e.kept = c.kept, e.single = c.single, e.batch = c.batch
  PROVE  ConnectionInv(d, e, h)
<1>a. /\ Written(c, r) \in SessionStatements
      /\ \A b \in Batches : Written(c, r) \in All(b) => r.by = b
  BY WrittenBy DEF ConnectionInv
<1>1. \A b : Held(d, e, b) = Held(d, c, b)
  BY DEF Held, Runs, Waits
<1>2. WorkOpen(d, e)
  BY DEF WorkOpen, Ready
<1>3. SharedInv(d, e, h)
  BY <1>1, <1>2 DEF ConnectionInv, SharedInv, QueueRight, RequestRight, AskedOnce, FlagRight,
       OpenRight, NextRight,
       SomeonesOpen, AutoRight, TakenUp, Acked
<1>4. ASSUME NEW b \in Batches \ h.mixed, BatchInv(d, c, h, b)
      PROVE  BatchInv(d, e, h, b)
  <2>a. AtStake(e, b) => AtStake(c, b) \/ r.by = b
    BY <1>a DEF AtStake
  <2>b. r.by = b => c.batch[b].at = "running"
    BY DEF Ready
  <2>1. Alone(d, e, b) /\ BegunLast(d, e, b) /\ NoneElse(e, b) /\ OpenWhile(d, e, b)
        /\ FlagWhile(d, e, b)
    BY <1>1, <1>4 DEF BatchInv, Alone, BegunLast, NoneElse, OpenWhile, FlagWhile
  <2>2. Fenced(d, e, b)
    BY <1>4, <2>a, <2>b DEF BatchInv, Fenced, NoneElse
  <2>3. StakeHeld(e, b)
    BY <1>4, <2>a, <2>b DEF BatchInv, StakeHeld, Waits
  <2>4. NotAuto(d, e, b)
    BY <1>4, <2>a DEF BatchInv, NotAuto, Ready
  <2>5. NotBegun(e, b) /\ NotKept(e, b)
    BY <1>4, <2>a, <2>b DEF BatchInv, NotBegun, NotKept
  <2>6. Progress(e, b)
    BY <1>4 DEF BatchInv, Progress, DoneOf
  <2>7. AllKept(e, h, b)
    BY <1>4 DEF BatchInv, AllKept, Waits
  <2> QED
    BY <2>1, <2>2, <2>3, <2>4, <2>5, <2>6, <2>7 DEF BatchInv
<1> QED
  BY <1>3, <1>4 DEF ConnectionInv

\* A statement that commits by itself, with whatever work there is.
LEMMA StatementCommits ==
  ASSUME NEW d, DriverRight(d), NEW c, NEW h, NEW e \in SessionType, ConnectionInv(d, c, h),
         NEW r, Ready(d, c, h, r), ~c.open, r.auto,
         e.work = {}, e.kept = c.kept \union c.work \union {Written(c, r)}, e.link = c.link,
         e.inTransaction = c.inTransaction, e.open = c.open,
         e.onWay = c.onWay, e.single = c.single, e.batch = c.batch
  PROVE  /\ ConnectionInv(d, e, h)
         /\ Transacts(d) => r.by \notin Batches \ h.mixed
<1>a. /\ Written(c, r) \in SessionStatements
      /\ \A b \in Batches : Written(c, r) \in All(b) => r.by = b
  BY WrittenBy DEF ConnectionInv
<1>1. \A b : Held(d, e, b) = Held(d, c, b)
  BY DEF Held, Runs, Waits
<1>2. WorkOpen(d, e)
  BY DEF WorkOpen
<1>3. SharedInv(d, e, h)
  BY <1>1, <1>2 DEF ConnectionInv, SharedInv, QueueRight, RequestRight, AskedOnce, FlagRight,
       OpenRight, NextRight,
       SomeonesOpen, AutoRight, TakenUp, Acked
<1>4. ASSUME Transacts(d), NEW b \in Batches \ h.mixed, BatchInv(d, c, h, b)
      PROVE  BatchInv(d, e, h, b) /\ r.by # b
  <2>a. ~AtStake(c, b)
    <3>1. d.begin = "request" => ~AtStake(c, b)
      BY DEF ConnectionInv, SharedInv, WorkOpen, AtStake
    <3>2. d.begin = "flag" => ~AtStake(c, b)
      BY DEF Ready
    <3> QED
      BY <1>4, <3>1, <3>2 DEF Transacts
  <2>b. r.by # b
    <3>1. d.begin = "request" => r.by # b
      BY <1>4 DEF Ready, BatchInv, OpenWhile
    <3>2. d.begin = "flag" => r.by # b
      BY DEF Ready
    <3> QED
      BY <1>4, <3>1, <3>2 DEF Transacts
  <2>c. All(b) \cap (c.work \union {Written(c, r)}) = {}
    BY <1>a, <2>a, <2>b DEF AtStake
  <2>d. ~AtStake(e, b)
    BY DEF AtStake
  <2>1. Alone(d, e, b) /\ BegunLast(d, e, b) /\ NoneElse(e, b) /\ OpenWhile(d, e, b)
        /\ FlagWhile(d, e, b)
    BY <1>1, <1>4 DEF BatchInv, Alone, BegunLast, NoneElse, OpenWhile, FlagWhile
  <2>2. Fenced(d, e, b) /\ StakeHeld(e, b)
    BY <2>d DEF Fenced, StakeHeld
  <2>3. NotAuto(d, e, b) /\ NotBegun(e, b)
    BY <1>4, <2>d DEF BatchInv, NotAuto, NotBegun
  <2>4. NotKept(e, b)
    BY <1>4, <2>c DEF BatchInv, NotKept
  <2>5. Progress(e, b)
    <3>1. DoneOf(c, b) \subseteq All(b)
      BY DoneIsAll DEF ConnectionInv
    <3>2. c.batch[b].at = "running" => DoneOf(c, b) = {}
      BY <1>4, <2>a, <3>1 DEF BatchInv, Progress, AtStake
    <3> QED
      BY <3>2 DEF Progress, DoneOf
  <2>6. AllKept(e, h, b)
    <3>1. ~(All(b) \subseteq c.work)
      BY <2>a, AllOfSome DEF AtStake
    <3> QED
      BY <1>4, <3>1 DEF BatchInv, AllKept
  <2> QED
    BY <2>b, <2>1, <2>2, <2>3, <2>4, <2>5, <2>6 DEF BatchInv
<1> QED
  BY <1>3, <1>4 DEF ConnectionInv

\* A schema statement that commits what is open: the batches whose work that
\* may be, or whose transaction it ends, are mixed from now on.
LEMMA SchemaStatement ==
  ASSUME NEW d, DriverRight(d), NEW c, NEW h, NEW e \in SessionType, ConnectionInv(d, c, h),
         NEW r, Ready(d, c, h, r),
         \A b \in Batches \ h.mixed : ~Held(d, c, b) /\ ~AtStake(c, b),
         e.work = {}, e.kept = c.kept \union c.work \union {Written(c, r)}, e.link = c.link,
         e.inTransaction = c.inTransaction, e.open = FALSE,
         e.onWay = c.onWay, e.single = c.single, e.batch = c.batch
  PROVE  /\ ConnectionInv(d, e, h)
         /\ r.by \notin Batches \ h.mixed
<1>a. /\ Written(c, r) \in SessionStatements
      /\ \A b \in Batches : Written(c, r) \in All(b) => r.by = b
  BY WrittenBy DEF ConnectionInv
<1>1. \A b : Held(d, e, b) = Held(d, c, b)
  BY DEF Held, Runs, Waits
<1>2. WorkOpen(d, e)
  BY DEF WorkOpen
<1>3. SharedInv(d, e, h)
  <2>1. TakenUp(d, e, h)
    BY <1>1 DEF ConnectionInv, SharedInv, TakenUp
  <2> QED
    BY <1>1, <1>2, <2>1 DEF ConnectionInv, SharedInv, QueueRight, RequestRight, AskedOnce,
         FlagRight,
         OpenRight, NextRight, SomeonesOpen, AutoRight, Acked
<1>b. r.by \notin Batches \ h.mixed
  BY DEF Ready, Held, Runs
<1>4. ASSUME NEW b \in Batches \ h.mixed, BatchInv(d, c, h, b)
      PROVE  BatchInv(d, e, h, b)
  <2>a. ~Held(d, e, b) /\ ~AtStake(c, b) /\ ~AtStake(e, b) /\ ~Runs(e, b)
    BY <1>1 DEF AtStake, Held
  <2>c. All(b) \cap (c.work \union {Written(c, r)}) = {}
    BY <1>a, <1>b, <2>a DEF AtStake
  <2>1. Alone(d, e, b) /\ BegunLast(d, e, b) /\ NoneElse(e, b) /\ OpenWhile(d, e, b)
        /\ FlagWhile(d, e, b) /\ Progress(e, b) /\ Fenced(d, e, b) /\ StakeHeld(e, b)
    BY <2>a DEF Alone, BegunLast, NoneElse, OpenWhile, FlagWhile, Progress, Fenced,
         StakeHeld, Runs
  <2>3. NotAuto(d, e, b) /\ NotBegun(e, b)
    BY <1>4, <2>a DEF BatchInv, NotAuto, NotBegun
  <2>4. NotKept(e, b)
    BY <1>4, <2>c DEF BatchInv, NotKept
  <2>6. AllKept(e, h, b)
    <3>1. ~(All(b) \subseteq c.work)
      BY <2>a, AllOfSome DEF AtStake
    <3> QED
      BY <1>4, <3>1 DEF BatchInv, AllKept
  <2> QED
    BY <2>1, <2>3, <2>4, <2>6 DEF BatchInv
<1> QED
  BY <1>3, <1>4, <1>b DEF ConnectionInv

\* A single statement has its answer.
LEMMA SingleAnswered ==
  ASSUME NEW d, NEW c, NEW h, NEW e \in SessionType, ConnectionInv(d, c, h),
         NEW q \in Singles, ~Waits(c, q), NEW answer \in {"ok", "failed"},
         answer = "ok" => q \in c.kept \/ (Transacts(d) /\ q \in h.amid),
         e.single = [c.single EXCEPT ![q] = answer], e.link = c.link,
         e.inTransaction = c.inTransaction, e.open = c.open, e.work = c.work,
         e.onWay = c.onWay, e.kept = c.kept, e.batch = c.batch
  PROVE  ConnectionInv(d, e, h)
<1>a. c.single \in [Singles -> {"idle", "sent", "ok", "failed"}]
  BY DEF ConnectionInv, SessionType
<1>1. \A b : Held(d, e, b) = Held(d, c, b)
  BY DEF Held, Runs, Waits
<1>2. QueueRight(d, e)
  <2> SUFFICES ASSUME NEW i \in DOMAIN c.onWay
               PROVE  RequestRight(d, e, c.onWay[i])
    BY DEF QueueRight
  <2>1. RequestRight(d, c, c.onWay[i]) /\ c.onWay[i].by # q
    BY DEF ConnectionInv, SharedInv, QueueRight, Waits
  <2> QED
    BY <1>a, <2>1 DEF RequestRight
<1>3. Acked(d, e, h)
  BY <1>a DEF ConnectionInv, SharedInv, Acked
<1>4. SharedInv(d, e, h)
  BY <1>1, <1>2, <1>3 DEF ConnectionInv, SharedInv, AskedOnce, FlagRight, OpenRight, NextRight,
       SomeonesOpen, AutoRight, TakenUp, WorkOpen
<1>5. ASSUME NEW b \in Batches, BatchInv(d, c, h, b)
      PROVE  BatchInv(d, e, h, b)
  BY <1>1, <1>5 DEF BatchInv, Alone, BegunLast, NoneElse, Fenced, StakeHeld, OpenWhile, FlagWhile,
       NotAuto, NotBegun, Progress, NotKept, AllKept, AtStake, DoneOf, Waits
<1> QED
  BY <1>4, <1>5 DEF ConnectionInv

\* BEGIN is done and answered: its transaction is open, and what was open
\* before, if the server commits that, was of batches that were mixed.
LEMMA BeginServed ==
  ASSUME NEW d, DriverRight(d), NEW c, NEW h, NEW e \in SessionType, ConnectionInv(d, c, h),
         NEW i, Next(d, c, i), c.onWay[i].kind = "begin",
         Shorter(c.onWay, e.onWay, i), e.link = c.link, e.inTransaction = c.inTransaction,
         e.open = TRUE, e.single = c.single,
         e.batch = [c.batch EXCEPT ![c.onWay[i].by].at = "running"],
         \/ e.work = c.work /\ e.kept = c.kept
         \/ e.work = {} /\ e.kept = c.kept \union c.work /\ d.inOrder
  PROVE  /\ ConnectionInv(d, e, h)
         /\ c.onWay[i].by \in Batches /\ c.batch[c.onWay[i].by].at = "begin"
         /\ ~Waits(e, c.onWay[i].by)
<1> DEFINE x == c.onWay[i].by
<1>a. /\ \A j \in DOMAIN e.onWay : \E m \in DOMAIN c.onWay : m # i /\ e.onWay[j] = c.onWay[m]
      /\ d.inOrder => \A j \in DOMAIN e.onWay :
           j \in Nat /\ j + 1 \in DOMAIN c.onWay /\ e.onWay[j] = c.onWay[j + 1]
  BY Stay DEF Next
<1>b. i \in DOMAIN c.onWay /\ (d.inOrder => i = 1) /\ \A m \in DOMAIN c.onWay : m \in Nat
      /\ m >= 1
  BY DEF Next, Shorter
<1>c. x \in Batches /\ c.batch[x].at = "begin" /\ d.begin = "request"
  BY <1>b DEF ConnectionInv, SharedInv, QueueRight, RequestRight
<1>d. AskedOnce(e) /\ ~Waits(e, x)
  BY StayOnce DEF ConnectionInv, SharedInv
<1>e. c.batch \in [Batches -> [at : {"idle", "begin", "running", "resolved", "rejected"},
                              next : 1..BatchLength + 1]]
  BY DEF ConnectionInv, SessionType
<1>f. /\ \A b \in Batches : e.batch[b].next = c.batch[b].next
      /\ \A b \in Batches : e.batch[b].at = IF b = x THEN "running" ELSE c.batch[b].at
  BY <1>c, <1>e
<1>g. \A m \in DOMAIN c.onWay : c.onWay[m].by = x => m = i
  BY <1>b DEF ConnectionInv, SharedInv, AskedOnce
<1> HIDE DEF x
<1>1. /\ \A b \in Batches : Held(d, e, b) => Held(d, c, b)
      /\ Held(d, e, x) /\ Held(d, c, x)
  BY <1>a, <1>c, <1>f DEF Held, Runs, Waits
<1>2. SharedInv(d, e, h)
  <2>1. QueueRight(d, e)
    <3> SUFFICES ASSUME NEW j \in DOMAIN e.onWay
                 PROVE  RequestRight(d, e, e.onWay[j])
      BY DEF QueueRight
    <3>1. RequestRight(d, c, e.onWay[j]) /\ e.onWay[j].by # x
      BY <1>a, <1>d DEF ConnectionInv, SharedInv, QueueRight, Waits
    <3> QED
      BY <1>f, <3>1 DEF RequestRight, IsEnd
  <2>2. FlagRight(d, e) /\ OpenRight(d, e) /\ NextRight(e) /\ Acked(d, e, h)
        /\ WorkOpen(d, e) /\ SomeonesOpen(d, e)
    BY <1>1, <1>c DEF ConnectionInv, SharedInv, FlagRight, OpenRight, NextRight, Acked,
         WorkOpen, SomeonesOpen
  <2>3. AutoRight(d, e, h)
    BY <1>a DEF ConnectionInv, SharedInv, AutoRight
  <2>4. \A j \in DOMAIN e.onWay : ~Outside(h, e.onWay[j])
    <3>1. CASE d.inOrder
      <4> SUFFICES ASSUME NEW j \in DOMAIN e.onWay, Outside(h, e.onWay[j])
                   PROVE  FALSE
        OBVIOUS
      <4>1. j \in Nat /\ j + 1 \in DOMAIN c.onWay /\ Outside(h, c.onWay[j + 1])
        BY <1>a, <3>1
      <4>2. \A m \in 1..(j + 1) - 1 : c.onWay[m].kind # "begin"
        BY <3>1, <4>1 DEF ConnectionInv, SharedInv, TakenUp
      <4>3. j \in DOMAIN e.onWay /\ j # 0
        BY DEF Shorter
      <4>4. 1 \in 1..(j + 1) - 1
        BY <4>1, <4>3
      <4> QED
        BY <1>b, <3>1, <4>2, <4>4
    <3>2. CASE ~d.inOrder
      BY <1>1, <1>a, <1>c, <3>2 DEF ConnectionInv, SharedInv, TakenUp
    <3> QED
      BY <3>1, <3>2
  <2>5. TakenUp(d, e, h)
    BY <2>4 DEF TakenUp
  <2> QED
    BY <1>d, <2>1, <2>2, <2>3, <2>5 DEF SharedInv
<1>3. ASSUME NEW b \in Batches, BatchInv(d, c, h, b)
      PROVE  BatchInv(d, e, h, b)
  <2>1. Alone(d, e, b)
    BY <1>1, <1>3 DEF BatchInv, Alone
  <2>a. b # x => ~Held(d, c, b) /\ ~Held(d, e, b) /\ ~Runs(c, b) /\ ~Runs(e, b)
    BY <1>1, <1>3, <1>c DEF BatchInv, Alone, Held
  <2>b. (b = x \/ e.work = {}) => ~AtStake(e, b)
    <3>1. b = x => ~AtStake(c, b)
      BY <1>3, <1>c DEF BatchInv, NotBegun
    <3> QED
      BY <3>1 DEF AtStake
  <2>c. d.inOrder => ~AtStake(c, b)
    <3>1. CASE b = x
      BY <1>3, <1>c, <3>1 DEF BatchInv, NotBegun
    <3>2. CASE b # x
      <4>1. IsFence(c.onWay[i])
        BY DEF IsFence
      <4> QED
        BY <1>3, <1>b, <3>2, <4>1 DEF BatchInv, Fenced, x
    <3> QED
      BY <3>1, <3>2
  <2>2. BegunLast(d, e, b)
    BY <1>f, <2>a DEF BegunLast, Runs
  <2>3. NoneElse(e, b)
    <3> SUFFICES ASSUME b = x, NEW j \in DOMAIN e.onWay, IsFence(e.onWay[j])
                 PROVE  FALSE
      BY <2>a DEF NoneElse, Runs
    <3>1. PICK m \in DOMAIN c.onWay : m # i /\ e.onWay[j] = c.onWay[m]
      BY <1>a
    <3>2. c.onWay[m].by # x
      BY <1>g, <3>1
    <3>3. d.inOrder /\ \E p \in DOMAIN c.onWay : m < p /\ c.onWay[p].by = x
      BY <1>3, <1>c, <3>1, <3>2 DEF BatchInv, BegunLast
    <3>4. m < 1 /\ m \in 1..Len(c.onWay)
      BY <1>b, <1>g, <3>3 DEF Shorter
    <3> QED
      BY <3>4 DEF Shorter
  <2>4. Fenced(d, e, b)
    <3>1. CASE ~AtStake(e, b)
      BY <3>1 DEF Fenced
    <3>2. CASE AtStake(e, b)
      <4>1. AtStake(c, b) /\ ~d.inOrder /\ b # x
        BY <2>b, <2>c, <3>2 DEF AtStake
      <4> QED
        BY <1>3, <1>a, <1>b, <4>1 DEF BatchInv, Fenced, x, IsFence
    <3> QED
      BY <3>1, <3>2
  <2>5. StakeHeld(e, b)
    <3>1. CASE AtStake(e, b)
      <4>1. AtStake(c, b) /\ ~d.inOrder /\ b # x
        BY <2>b, <2>c, <3>1 DEF AtStake
      <4>2. ~Waits(c, b) /\ ~Runs(c, b)
        BY <2>a, <4>1 DEF Held
      <4> QED
        BY <1>3, <4>1, <4>2 DEF BatchInv, StakeHeld, Runs
    <3> QED
      BY <3>1 DEF StakeHeld
  <2>6. OpenWhile(d, e, b) /\ FlagWhile(d, e, b) /\ NotAuto(d, e, b)
    BY <1>c DEF OpenWhile, FlagWhile, NotAuto
  <2>7. NotBegun(e, b)
    <3>1. e.batch[b].at = "idle" => ~AtStake(c, b)
      BY <1>3, <1>f DEF BatchInv, NotBegun
    <3>2. e.batch[b].at # "begin"
      BY <1>f, <2>a DEF Runs
    <3> QED
      BY <1>f, <3>1, <3>2 DEF NotBegun, AtStake
  <2>8. Progress(e, b)
    <3> SUFFICES ASSUME b = x
                 PROVE  DoneOf(e, b) \subseteq e.work
      BY <2>a DEF Progress, Runs
    <3>1. e.batch[b].next = 1
      BY <1>c, <1>f DEF ConnectionInv, SharedInv, NextRight
    <3>2. 1..1 - 1 = {}
      OBVIOUS
    <3> QED
      BY <3>1, <3>2 DEF DoneOf
  <2>9. NotKept(e, b)
    <3>1. e.batch[b].at # "resolved" => All(b) \cap c.kept = {}
      BY <1>3, <1>c, <1>f DEF BatchInv, NotKept
    <3>2. e.kept # c.kept => All(b) \cap c.work = {} /\ e.kept = c.kept \union c.work
      BY <2>c DEF AtStake
    <3> QED
      BY <3>1, <3>2 DEF NotKept
  <2>10. AllKept(e, h, b)
    <3> SUFFICES ASSUME e.batch[b].at = "resolved", b \notin h.cut
                 PROVE  All(b) \subseteq e.kept \/ (All(b) \subseteq e.work /\ Waits(e, b))
      BY DEF AllKept
    <3>1. b # x /\ c.batch[b].at = "resolved"
      BY <1>f
    <3>2. CASE All(b) \subseteq c.kept
      BY <3>2
    <3>3. CASE All(b) \subseteq c.work /\ Waits(c, b)
      <4>1. AtStake(c, b)
        BY <3>3, AllOfSome DEF AtStake
      <4>2. ~d.inOrder
        BY <2>c, <4>1
      <4> QED
        BY <2>a, <3>1, <3>3, <4>2 DEF Held
    <3> QED
      BY <1>3, <3>1, <3>2, <3>3 DEF BatchInv, AllKept
  <2> QED
    BY <2>1, <2>2, <2>3, <2>4, <2>5, <2>6, <2>7, <2>8, <2>9, <2>10 DEF BatchInv
<1> QED
  BY <1>2, <1>3, <1>c, <1>d DEF ConnectionInv, x

\* A commit or a rollback is done and answered: no transaction is open, and
\* the flag is off.
LEMMA EndServed ==
  ASSUME NEW d, DriverRight(d), NEW c, NEW h, NEW e \in SessionType, ConnectionInv(d, c, h),
         NEW i, Next(d, c, i), IsEnd(c.onWay[i]),
         Shorter(c.onWay, e.onWay, i), e.link = c.link,
         e.inTransaction => c.inTransaction /\ d.begin # "flag",
         e.open = FALSE, e.work = {}, e.single = c.single, e.batch = c.batch,
         e.kept = IF c.onWay[i].kind = "commit" THEN c.kept \union c.work ELSE c.kept
  PROVE  ConnectionInv(d, e, h)
<1> DEFINE x == c.onWay[i].by
<1>a. /\ \A j \in DOMAIN e.onWay : \E m \in DOMAIN c.onWay : m # i /\ e.onWay[j] = c.onWay[m]
      /\ \A m \in DOMAIN c.onWay : m # i => \E j \in DOMAIN e.onWay : e.onWay[j] = c.onWay[m]
      /\ d.inOrder => \A j \in DOMAIN e.onWay :
           j \in Nat /\ j + 1 \in DOMAIN c.onWay /\ e.onWay[j] = c.onWay[j + 1]
      /\ d.inOrder => \A m \in DOMAIN c.onWay :
           m # 1 => m - 1 \in DOMAIN e.onWay /\ e.onWay[m - 1] = c.onWay[m]
  BY Stay DEF Next
<1>b. i \in DOMAIN c.onWay /\ (d.inOrder => i = 1)
      /\ \A m \in DOMAIN c.onWay : m \in Nat /\ m >= 1
  BY DEF Next, Shorter
<1>c. /\ x \in Batches
      /\ c.onWay[i].kind = "commit" => c.batch[x].at = "resolved"
      /\ c.batch[x].at \in {"resolved", "rejected"}
      /\ IsFence(c.onWay[i])
  BY <1>b DEF ConnectionInv, SharedInv, QueueRight, RequestRight, IsEnd, IsFence
<1>d. AskedOnce(e) /\ ~Waits(e, x)
  BY StayOnce DEF ConnectionInv, SharedInv
<1>1. /\ \A b : Held(d, e, b) => Held(d, c, b)
      /\ ~Held(d, e, x)
  BY <1>a, <1>c, <1>d DEF Held, Runs, Waits
<1>2. SharedInv(d, e, h)
  <2>1. QueueRight(d, e)
    BY <1>a DEF ConnectionInv, SharedInv, QueueRight, RequestRight
  <2>2. FlagRight(d, e) /\ OpenRight(d, e) /\ NextRight(e) /\ WorkOpen(d, e) /\ SomeonesOpen(d, e)
    BY DEF ConnectionInv, SharedInv, FlagRight, OpenRight, NextRight, WorkOpen, SomeonesOpen
  <2>3. AutoRight(d, e, h)
    BY <1>a DEF ConnectionInv, SharedInv, AutoRight
  <2>4. Acked(d, e, h)
    BY DEF ConnectionInv, SharedInv, Acked
  <2>5. ASSUME d.inOrder, NEW j \in DOMAIN e.onWay, Outside(h, e.onWay[j])
        PROVE  \A m \in 1..j - 1 : e.onWay[m].kind # "begin"
    <3>1. j \in Nat /\ j + 1 \in DOMAIN c.onWay /\ Outside(h, c.onWay[j + 1])
      BY <1>a, <2>5
    <3>2. \A m \in 1..j : c.onWay[m].kind # "begin"
      BY <2>5, <3>1 DEF ConnectionInv, SharedInv, TakenUp
    <3>3. \A m \in 1..j - 1 : m \in DOMAIN e.onWay /\ m + 1 \in 1..j
      BY <3>1 DEF Shorter
    <3> QED
      BY <1>a, <2>5, <3>2, <3>3
  <2>6. TakenUp(d, e, h)
    <3>1. ~d.inOrder /\ (\E b \in Batches : Held(d, e, b)) =>
            \A j \in DOMAIN e.onWay : ~Outside(h, e.onWay[j])
      BY <1>1, <1>a DEF ConnectionInv, SharedInv, TakenUp
    <3> QED
      BY <2>5, <3>1 DEF TakenUp
  <2> QED
    BY <1>d, <2>1, <2>2, <2>3, <2>4, <2>6 DEF SharedInv
<1>3. ASSUME NEW b \in Batches, BatchInv(d, c, h, b)
      PROVE  BatchInv(d, e, h, b)
  <2>a. ~AtStake(e, b)
    BY DEF AtStake
  <2>b. c.batch[b].at # "running"
    BY <1>3, <1>b, <1>c DEF BatchInv, NoneElse
  <2>c. b # x => ~AtStake(c, b)
    <3>1. CASE d.inOrder
      BY <1>3, <1>b, <1>c, <3>1 DEF BatchInv, Fenced
    <3>2. CASE ~d.inOrder
      BY <1>3, <1>b, <1>c, <3>2 DEF BatchInv, Fenced
    <3> QED
      BY <3>1, <3>2
  <2>1. Alone(d, e, b)
    BY <1>1, <1>3 DEF BatchInv, Alone
  <2>2. BegunLast(d, e, b)
    <3> SUFFICES ASSUME e.batch[b].at = "begin", NEW j \in DOMAIN e.onWay,
                        IsFence(e.onWay[j]), e.onWay[j].by # b
                 PROVE  d.inOrder /\ \E p \in DOMAIN e.onWay : j < p /\ e.onWay[p].by = b
      BY DEF BegunLast
    <3>1. PICK m \in DOMAIN c.onWay : e.onWay[j] = c.onWay[m]
      BY <1>a
    <3>2. d.inOrder
      BY <1>3, <3>1 DEF BatchInv, BegunLast
    <3>3. PICK p \in DOMAIN c.onWay : j + 1 < p /\ c.onWay[p].by = b
      BY <1>3, <1>a, <3>2 DEF BatchInv, BegunLast
    <3>4. p # 1 /\ j < p - 1
      BY <1>a, <1>b, <3>2, <3>3
    <3> QED
      BY <1>a, <3>2, <3>3, <3>4
  <2>3. NoneElse(e, b) /\ Fenced(d, e, b) /\ StakeHeld(e, b) /\ OpenWhile(d, e, b)
        /\ Progress(e, b)
    BY <2>a, <2>b DEF NoneElse, Fenced, StakeHeld, OpenWhile, Progress
  <2>4. FlagWhile(d, e, b)
    <3> SUFFICES ASSUME d.begin = "flag", Held(d, e, b)
                 PROVE  FALSE
      BY DEF FlagWhile
    <3>1. Held(d, c, b) /\ Held(d, c, x) /\ b # x
      BY <1>1, <1>b DEF Held, Waits
    <3> QED
      BY <1>3, <1>c, <3>1 DEF BatchInv, Alone
  <2>5. NotAuto(d, e, b)
    <3> SUFFICES ASSUME d.begin = "flag", NEW j \in DOMAIN e.onWay, e.onWay[j].kind = "statement",
                        NEW p \in DOMAIN e.onWay, p <= j, e.onWay[p].by = b
                 PROVE  ~e.onWay[j].auto
      BY <2>a DEF NotAuto
    <3>1. d.inOrder
      BY DEF DriverRight
    <3>2. p + 1 <= j + 1 /\ p + 1 \in DOMAIN c.onWay /\ c.onWay[p + 1].by = b
      BY <1>a, <3>1
    <3>3. j + 1 \in DOMAIN c.onWay /\ c.onWay[j + 1] = e.onWay[j]
      BY <1>a, <3>1
    <3> QED
      BY <1>3, <3>2, <3>3 DEF BatchInv, NotAuto
  <2>6. NotBegun(e, b)
    BY <1>3, <2>a DEF BatchInv, NotBegun
  <2>7. NotKept(e, b)
    <3>1. c.batch[b].at # "resolved" => All(b) \cap c.kept = {}
      BY <1>3 DEF BatchInv, NotKept
    <3>2. c.batch[b].at # "resolved" /\ c.onWay[i].kind = "commit" => All(b) \cap c.work = {}
      BY <1>c, <2>c DEF AtStake
    <3> QED
      BY <3>1, <3>2 DEF NotKept
  <2>8. AllKept(e, h, b)
    <3> SUFFICES ASSUME e.batch[b].at = "resolved", b \notin h.cut
                 PROVE  All(b) \subseteq e.kept
      BY DEF AllKept
    <3>1. CASE All(b) \subseteq c.kept
      BY <3>1
    <3>2. CASE All(b) \subseteq c.work
      <4>1. b = x
        BY <2>c, <3>2, AllOfSome DEF AtStake
      <4>2. c.onWay[i].kind = "commit"
        BY <1>b, <4>1 DEF ConnectionInv, SharedInv, QueueRight, RequestRight, IsEnd
      <4> QED
        BY <3>2, <4>2
    <3> QED
      BY <1>3, <3>1, <3>2 DEF BatchInv, AllKept
  <2> QED
    BY <2>1, <2>2, <2>3, <2>4, <2>5, <2>6, <2>7, <2>8 DEF BatchInv
<1> QED
  BY <1>2, <1>3 DEF ConnectionInv

\* A statement of a batch is done, and runBatch turns to the next.
LEMMA StatementCounted ==
  ASSUME NEW d, NEW c, NEW h, NEW e \in SessionType, ConnectionInv(d, c, h),
         NEW x \in Batches, c.batch[x].at = "running", ~Waits(c, x),
         x \in h.mixed \/ ~Transacts(d) \/ <<x, c.batch[x].next>> \in c.work,
         e.batch = [c.batch EXCEPT ![x].next = @ + 1], e.link = c.link,
         e.inTransaction = c.inTransaction, e.open = c.open, e.work = c.work,
         e.onWay = c.onWay, e.kept = c.kept, e.single = c.single
  PROVE  ConnectionInv(d, e, h)
<1>a. c.batch \in [Batches -> [at : {"idle", "begin", "running", "resolved", "rejected"},
                              next : 1..BatchLength + 1]]
  BY DEF ConnectionInv, SessionType
<1>b. /\ \A b \in Batches : e.batch[b].at = c.batch[b].at
      /\ \A b \in Batches : e.batch[b].next = IF b = x THEN c.batch[b].next + 1 ELSE c.batch[b].next
  BY <1>a
<1>1. \A b \in Batches : Held(d, e, b) = Held(d, c, b)
  BY <1>b DEF Held, Runs, Waits
<1>2. QueueRight(d, e)
  <2> SUFFICES ASSUME NEW i \in DOMAIN c.onWay
               PROVE  RequestRight(d, e, c.onWay[i])
    BY DEF QueueRight
  <2>1. RequestRight(d, c, c.onWay[i]) /\ c.onWay[i].by # x
    BY DEF ConnectionInv, SharedInv, QueueRight, Waits
  <2> QED
    BY <1>b, <2>1 DEF RequestRight, IsEnd
<1>3. SharedInv(d, e, h)
  BY <1>1, <1>2 DEF ConnectionInv, SharedInv, AskedOnce, FlagRight, OpenRight, NextRight,
       SomeonesOpen, AutoRight, TakenUp, WorkOpen, Acked
<1>4. ASSUME Transacts(d), NEW b \in Batches \ h.mixed, BatchInv(d, c, h, b)
      PROVE  BatchInv(d, e, h, b)
  <2>1. Progress(e, b)
    <3>1. CASE b # x
      BY <1>4, <1>b, <3>1 DEF BatchInv, Progress, DoneOf
    <3>2. CASE b = x
      <4>1. PICK n \in 1..BatchLength + 1 : n = c.batch[x].next
        BY <1>a
      <4>2. BatchLength \in Nat /\ e.batch[x].next = n + 1
        BY <1>b, <4>1, SqlSessionsAssumption
      <4>3. 1..(n + 1) - 1 = 1..n - 1 \union {n}
        BY <4>1, <4>2
      <4>4. {x} \X (1..n - 1) \subseteq c.work
        BY <1>4, <3>2, <4>1 DEF BatchInv, Progress, DoneOf
      <4>5. {x} \X {n} \subseteq c.work
        BY <1>4, <3>2, <4>1
      <4> QED
        BY <3>2, <4>2, <4>3, <4>4, <4>5 DEF Progress, DoneOf
    <3> QED
      BY <3>1, <3>2
  <2>2. NotBegun(e, b)
    BY <1>4, <1>b DEF BatchInv, NotBegun, AtStake
  <2> QED
    BY <1>1, <1>4, <1>b, <2>1, <2>2 DEF BatchInv, Alone, BegunLast, NoneElse, Fenced, StakeHeld,
         OpenWhile, FlagWhile, NotAuto, NotKept, AllKept, AtStake, Waits
<1> QED
  BY <1>3, <1>4 DEF ConnectionInv

\* A running batch sends a statement.
LEMMA BatchSends ==
  ASSUME NEW d, DriverRight(d), NEW c, NEW h, NEW e \in SessionType, ConnectionInv(d, c, h),
         NEW x \in Batches, c.batch[x].at = "running", ~Waits(c, x), c.link = "open",
         c.batch[x].next <= BatchLength,
         NEW r, r.by = x, r.kind = "statement", r.auto = ~c.inTransaction,
         Longer(c.onWay, e.onWay, r), e.batch = c.batch, e.link = c.link,
         e.inTransaction = c.inTransaction, e.open = c.open, e.work = c.work,
         e.kept = c.kept, e.single = c.single
  PROVE  ConnectionInv(d, e, h)
<1> DEFINE n == Len(c.onWay) + 1
<1>a. /\ n \in DOMAIN e.onWay /\ e.onWay[n] = r
      /\ \A i \in DOMAIN c.onWay : i \in DOMAIN e.onWay /\ e.onWay[i] = c.onWay[i] /\ i < n /\ i # n
      /\ \A i \in DOMAIN e.onWay : i = n \/ i \in DOMAIN c.onWay
      /\ \A i \in DOMAIN e.onWay : i \in Int
  BY DEF Longer
<1>b. /\ \A i \in DOMAIN c.onWay : \A m \in 1..i - 1 : m \in DOMAIN c.onWay
      /\ x \notin Singles
  BY SqlSessionsAssumption DEF Longer
<1>c. \A b : Waits(e, b) <=> Waits(c, b) \/ b = x
  BY <1>a DEF Waits
<1> HIDE DEF n
<1>1. \A b \in Batches : Held(d, e, b) = Held(d, c, b)
  BY <1>c DEF Held, Runs
<1>2. SharedInv(d, e, h)
  <2>1. QueueRight(d, e)
    BY <1>a, <1>b DEF ConnectionInv, SharedInv, QueueRight, RequestRight, IsEnd
  <2>2. AskedOnce(e)
    BY <1>a DEF ConnectionInv, SharedInv, AskedOnce, Waits
  <2>3. FlagRight(d, e) /\ OpenRight(d, e) /\ NextRight(e) /\ WorkOpen(d, e) /\ Acked(d, e, h)
    BY <1>1 DEF ConnectionInv, SharedInv, FlagRight, OpenRight, NextRight, WorkOpen, Acked
  <2>4. SomeonesOpen(d, e)
    BY <1>1, <1>a DEF ConnectionInv, SharedInv, SomeonesOpen
  <2>5. AutoRight(d, e, h)
    BY <1>a, <1>b DEF ConnectionInv, SharedInv, AutoRight, FlagRight, Outside
  <2>6. TakenUp(d, e, h)
    BY <1>1, <1>a, <1>b DEF ConnectionInv, SharedInv, TakenUp, Outside
  <2> QED
    BY <2>1, <2>2, <2>3, <2>4, <2>5, <2>6 DEF SharedInv
<1>3. ASSUME NEW b \in Batches, BatchInv(d, c, h, b)
      PROVE  BatchInv(d, e, h, b)
  <2>1. Alone(d, e, b) /\ OpenWhile(d, e, b) /\ FlagWhile(d, e, b) /\ NotKept(e, b)
        /\ Progress(e, b) /\ NotBegun(e, b)
    BY <1>1, <1>3 DEF BatchInv, Alone, OpenWhile, FlagWhile, NotKept, Progress, NotBegun, DoneOf,
         AtStake
  <2>2. BegunLast(d, e, b) /\ NoneElse(e, b) /\ Fenced(d, e, b)
    BY <1>3, <1>a DEF BatchInv, BegunLast, NoneElse, Fenced, IsFence, AtStake
  <2>3. StakeHeld(e, b) /\ AllKept(e, h, b)
    BY <1>3, <1>c DEF BatchInv, StakeHeld, AllKept, AtStake
  <2>4. NotAuto(d, e, b)
    <3> SUFFICES ASSUME d.begin = "flag", NEW i \in DOMAIN e.onWay, e.onWay[i].kind = "statement",
                        AtStake(e, b) \/ \E p \in DOMAIN e.onWay : p <= i /\ e.onWay[p].by = b
                 PROVE  ~e.onWay[i].auto
      BY DEF NotAuto
    <3>1. CASE i = n
      <4>1. AtStake(c, b) => Held(d, c, b)
        BY <1>3 DEF BatchInv, StakeHeld, Held, Runs
      <4>2. Waits(e, b) => Held(d, c, b)
        BY <1>c DEF Held, Runs
      <4>3. Held(d, c, b)
        BY <4>1, <4>2 DEF AtStake, Waits
      <4> QED
        BY <1>3, <1>a, <3>1, <4>3 DEF BatchInv, FlagWhile
    <3>2. CASE i # n
      <4>1. \A p \in DOMAIN e.onWay : p <= i => p \in DOMAIN c.onWay
        BY <1>a, <3>2
      <4>2. AtStake(c, b) \/ \E p \in DOMAIN c.onWay : p <= i /\ c.onWay[p].by = b
        BY <1>a, <4>1 DEF AtStake
      <4> QED
        BY <1>3, <1>a, <3>2, <4>2 DEF BatchInv, NotAuto
    <3> QED
      BY <3>1, <3>2
  <2> QED
    BY <2>1, <2>2, <2>3, <2>4 DEF BatchInv
<1> QED
  BY <1>2, <1>3 DEF ConnectionInv

\* A running batch ends and sends its commit or its rollback.
LEMMA BatchEndsSending ==
  ASSUME NEW d, DriverRight(d), Transacts(d),
         NEW c, NEW h, NEW e \in SessionType, ConnectionInv(d, c, h),
         NEW x \in Batches, c.batch[x].at = "running", ~Waits(c, x), c.link = "open",
         NEW to, \/ to = "resolved" /\ c.batch[x].next = BatchLength + 1
                 \/ to = "rejected",
         NEW r, r.by = x, r.auto = ~c.inTransaction,
         r.kind = IF to = "resolved" THEN "commit" ELSE "rollback",
         Longer(c.onWay, e.onWay, r), e.batch = [c.batch EXCEPT ![x].at = to], e.link = c.link,
         e.inTransaction = c.inTransaction, e.open = c.open, e.work = c.work,
         e.kept = c.kept, e.single = c.single
  PROVE  ConnectionInv(d, e, h)
<1> DEFINE n == Len(c.onWay) + 1
<1>a. /\ n \in DOMAIN e.onWay /\ e.onWay[n] = r
      /\ \A i \in DOMAIN c.onWay : i \in DOMAIN e.onWay /\ e.onWay[i] = c.onWay[i] /\ i < n /\ i # n
      /\ \A i \in DOMAIN e.onWay : i = n \/ i \in DOMAIN c.onWay
      /\ \A i \in DOMAIN e.onWay : i \in Int
  BY DEF Longer
<1>b. /\ \A i \in DOMAIN c.onWay : \A m \in 1..i - 1 : m \in DOMAIN c.onWay
      /\ x \notin Singles
  BY SqlSessionsAssumption DEF Longer
<1>c. \A b : Waits(e, b) <=> Waits(c, b) \/ b = x
  BY <1>a DEF Waits
<1> HIDE DEF n
<1>d. c.batch \in [Batches -> [at : {"idle", "begin", "running", "resolved", "rejected"},
                              next : 1..BatchLength + 1]]
  BY DEF ConnectionInv, SessionType
<1>e. /\ \A b \in Batches : e.batch[b].next = c.batch[b].next
      /\ \A b \in Batches : e.batch[b].at = IF b = x THEN to ELSE c.batch[b].at
  BY <1>d
<1>f. IsFence(r) /\ IsEnd(r)
  BY DEF IsFence, IsEnd
<1>1. /\ \A b \in Batches : Held(d, e, b) => Held(d, c, b)
      /\ \A b \in Batches : b # x => Held(d, e, b) = Held(d, c, b)
      /\ Held(d, c, x)
      /\ ~(d.begin = "request" /\ d.inOrder) => Held(d, e, x)
  BY <1>c, <1>e DEF Held, Runs
<1>2. SharedInv(d, e, h)
  <2>1. QueueRight(d, e)
    <3> SUFFICES ASSUME NEW i \in DOMAIN e.onWay
                 PROVE  RequestRight(d, e, e.onWay[i])
      BY DEF QueueRight
    <3>1. CASE i = n
      BY <1>a, <1>b, <1>e, <1>f, <3>1 DEF RequestRight, IsEnd
    <3>2. CASE i # n
      <4>1. RequestRight(d, c, e.onWay[i]) /\ e.onWay[i].by # x
        BY <1>a, <3>2 DEF ConnectionInv, SharedInv, QueueRight, Waits
      <4> QED
        BY <1>e, <4>1 DEF RequestRight, IsEnd
    <3> QED
      BY <3>1, <3>2
  <2>2. AskedOnce(e)
    BY <1>a DEF ConnectionInv, SharedInv, AskedOnce, Waits
  <2>3. OpenRight(d, e) /\ NextRight(e) /\ WorkOpen(d, e) /\ Acked(d, e, h)
    BY DEF ConnectionInv, SharedInv, OpenRight, NextRight, WorkOpen, Acked
  <2>4. FlagRight(d, e)
    BY <1>1 DEF ConnectionInv, SharedInv, FlagRight
  <2>5. SomeonesOpen(d, e)
    BY <1>1, <1>a, <1>f DEF ConnectionInv, SharedInv, SomeonesOpen, OpenRight
  <2>6. AutoRight(d, e, h)
    BY <1>a, <1>b DEF ConnectionInv, SharedInv, AutoRight, FlagRight, Outside
  <2>7. TakenUp(d, e, h)
    BY <1>1, <1>a, <1>b DEF ConnectionInv, SharedInv, TakenUp, Outside
  <2> QED
    BY <2>1, <2>2, <2>3, <2>4, <2>5, <2>6, <2>7 DEF SharedInv
<1>3. ASSUME NEW b \in Batches, BatchInv(d, c, h, b)
      PROVE  BatchInv(d, e, h, b)
  <2>a. b # x => ~Held(d, c, b)
    BY <1>1, <1>3 DEF BatchInv, Alone
  <2>1. Alone(d, e, b)
    BY <1>1, <1>3 DEF BatchInv, Alone
  <2>2. BegunLast(d, e, b)
    BY <1>e, <2>a DEF BegunLast, Held, Runs
  <2>3. NoneElse(e, b)
    BY <1>e, <2>a DEF NoneElse, Held, Runs
  <2>4. Fenced(d, e, b)
    <3> SUFFICES ASSUME AtStake(c, b), NEW i \in DOMAIN e.onWay,
                        IsFence(e.onWay[i]), e.onWay[i].by # b
                 PROVE  d.inOrder /\ \E p \in DOMAIN e.onWay : p < i /\ e.onWay[p].by = b
      BY DEF Fenced, AtStake
    <3>1. CASE i = n
      <4>1. b # x /\ Waits(c, b)
        BY <1>3, <1>a, <2>a, <3>1 DEF BatchInv, StakeHeld, Held, Runs
      <4>2. d.inOrder
        BY <2>a, <4>1 DEF Held
      <4> QED
        BY <1>a, <3>1, <4>1, <4>2 DEF Waits
    <3>2. CASE i # n
      BY <1>3, <1>a, <3>2 DEF BatchInv, Fenced
    <3> QED
      BY <3>1, <3>2
  <2>5. StakeHeld(e, b)
    BY <1>3, <1>c, <1>e DEF BatchInv, StakeHeld, AtStake
  <2>6. OpenWhile(d, e, b)
    BY <1>3, <1>e DEF BatchInv, OpenWhile
  <2>7. FlagWhile(d, e, b)
    BY <1>1, <1>3 DEF BatchInv, FlagWhile
  <2>8. NotAuto(d, e, b)
    <3> SUFFICES ASSUME d.begin = "flag", NEW i \in DOMAIN e.onWay, e.onWay[i].kind = "statement",
                        AtStake(e, b) \/ \E p \in DOMAIN e.onWay : p <= i /\ e.onWay[p].by = b
                 PROVE  ~e.onWay[i].auto
      BY DEF NotAuto
    <3>1. i # n /\ i \in DOMAIN c.onWay
      BY <1>a, <1>f DEF IsFence
    <3>2. \A p \in DOMAIN e.onWay : p <= i => p \in DOMAIN c.onWay
      BY <1>a, <3>1
    <3>3. AtStake(c, b) \/ \E p \in DOMAIN c.onWay : p <= i /\ c.onWay[p].by = b
      BY <1>a, <3>2 DEF AtStake
    <3> QED
      BY <1>3, <1>a, <3>1, <3>3 DEF BatchInv, NotAuto
  <2>9. NotBegun(e, b)
    BY <1>3, <1>e DEF BatchInv, NotBegun, AtStake
  <2>10. Progress(e, b)
    BY <1>e, <2>a DEF Progress, Held, Runs
  <2>11. NotKept(e, b)
    BY <1>3, <1>e DEF BatchInv, NotKept
  <2>12. AllKept(e, h, b)
    <3>1. CASE b = x
      <4> SUFFICES ASSUME to = "resolved"
                   PROVE  All(b) \subseteq e.work /\ Waits(e, b)
        BY <1>e, <3>1 DEF AllKept
      <4>1. BatchLength \in Nat /\ (BatchLength + 1) - 1 = BatchLength
        BY SqlSessionsAssumption
      <4>2. DoneOf(c, b) \subseteq c.work
        BY <1>3, <3>1 DEF BatchInv, Progress
      <4>3. DoneOf(c, b) = All(b)
        BY <3>1, <4>1 DEF DoneOf, All
      <4> QED
        BY <1>c, <3>1, <4>2, <4>3
    <3>2. CASE b # x
      BY <1>3, <1>c, <1>e, <3>2 DEF BatchInv, AllKept
    <3> QED
      BY <3>1, <3>2
  <2> QED
    BY <2>1, <2>2, <2>3, <2>4, <2>5, <2>6, <2>7, <2>8, <2>9, <2>10, <2>11, <2>12 DEF BatchInv
<1> QED
  BY <1>2, <1>3 DEF ConnectionInv

\* A running batch ends and sends nothing: there is no connection, which
\* clears the flag, or there are no transactions.
LEMMA BatchEndsSilently ==
  ASSUME NEW d, DriverRight(d),
         NEW c, NEW h, NEW e \in SessionType, ConnectionInv(d, c, h),
         NEW x \in Batches, c.batch[x].at = "running", ~Waits(c, x),
         ~Transacts(d) \/ c.link # "open",
         NEW to, \/ to = "resolved" /\ (Transacts(d) => x \in h.cut \union h.mixed)
                 \/ to = "rejected",
         e.onWay = c.onWay, e.batch = [c.batch EXCEPT ![x].at = to], e.link = c.link,
         ~e.inTransaction, e.open = c.open, e.work = c.work,
         e.kept = c.kept, e.single = c.single
  PROVE  ConnectionInv(d, e, h)
<1>d. c.batch \in [Batches -> [at : {"idle", "begin", "running", "resolved", "rejected"},
                              next : 1..BatchLength + 1]]
  BY DEF ConnectionInv, SessionType
<1>e. /\ \A b \in Batches : e.batch[b].next = c.batch[b].next
      /\ \A b \in Batches : e.batch[b].at = IF b = x THEN to ELSE c.batch[b].at
  BY <1>d
<1>1. /\ \A b \in Batches : Held(d, e, b) => Held(d, c, b)
      /\ Held(d, c, x) /\ ~Held(d, e, x)
  BY <1>e DEF Held, Runs, Waits
<1>2. SharedInv(d, e, h)
  <2>1. QueueRight(d, e)
    <3> SUFFICES ASSUME NEW i \in DOMAIN e.onWay
                 PROVE  RequestRight(d, e, e.onWay[i])
      BY DEF QueueRight
    <3>1. RequestRight(d, c, e.onWay[i]) /\ e.onWay[i].by # x
      BY DEF ConnectionInv, SharedInv, QueueRight, Waits
    <3> QED
      BY <1>e, <3>1 DEF RequestRight, IsEnd
  <2>2. AskedOnce(e) /\ FlagRight(d, e) /\ OpenRight(d, e) /\ NextRight(e)
        /\ WorkOpen(d, e) /\ Acked(d, e, h)
        /\ AutoRight(d, e, h)
    BY DEF ConnectionInv, SharedInv, AskedOnce, FlagRight, OpenRight, NextRight, WorkOpen,
         Acked, AutoRight
  <2>3. SomeonesOpen(d, e)
    BY DEF ConnectionInv, SharedInv, SomeonesOpen, OpenRight, NextRight, Transacts
  <2>4. TakenUp(d, e, h)
    BY <1>1 DEF ConnectionInv, SharedInv, TakenUp
  <2> QED
    BY <2>1, <2>2, <2>3, <2>4 DEF SharedInv
<1>3. ASSUME Transacts(d), NEW b \in Batches \ h.mixed, BatchInv(d, c, h, b)
      PROVE  BatchInv(d, e, h, b)
  <2>a. ~Held(d, e, b) /\ ~Runs(e, b) /\ (b # x => ~Held(d, c, b))
    BY <1>1, <1>3 DEF BatchInv, Alone, Held
  <2>1. Alone(d, e, b) /\ BegunLast(d, e, b) /\ NoneElse(e, b) /\ OpenWhile(d, e, b)
        /\ FlagWhile(d, e, b) /\ Progress(e, b)
    BY <2>a DEF Alone, BegunLast, NoneElse, OpenWhile, FlagWhile, Progress, Runs
  <2>2. Fenced(d, e, b) /\ NotAuto(d, e, b)
    BY <1>3 DEF BatchInv, Fenced, NotAuto, AtStake
  <2>3. StakeHeld(e, b)
    BY <1>3 DEF StakeHeld
  <2>4. NotBegun(e, b) /\ NotKept(e, b)
    BY <1>3, <1>e DEF BatchInv, NotBegun, NotKept, AtStake
  <2>5. AllKept(e, h, b)
    BY <1>3, <1>e DEF BatchInv, AllKept, Waits
  <2> QED
    BY <2>1, <2>2, <2>3, <2>4, <2>5 DEF BatchInv
<1> QED
  BY <1>2, <1>3 DEF ConnectionInv

\* A single statement is sent: while somebody is under way it may be taken up.
LEMMA SingleSends ==
  ASSUME NEW d, DriverRight(d), NEW c, NEW h, NEW e \in SessionType, ConnectionInv(d, c, h),
         NEW q \in Singles, c.single[q] = "idle", c.link = "open",
         (\E b \in Batches : Held(d, c, b)) => q \in h.amid,
         NEW r, r.by = q, r.kind = "statement", r.auto = ~c.inTransaction,
         Longer(c.onWay, e.onWay, r), e.batch = c.batch, e.link = c.link,
         e.inTransaction = c.inTransaction, e.open = c.open, e.work = c.work,
         e.kept = c.kept, e.single = [c.single EXCEPT ![q] = "sent"]
  PROVE  ConnectionInv(d, e, h)
<1> DEFINE n == Len(c.onWay) + 1
<1>a. /\ n \in DOMAIN e.onWay /\ e.onWay[n] = r
      /\ \A i \in DOMAIN c.onWay : i \in DOMAIN e.onWay /\ e.onWay[i] = c.onWay[i] /\ i < n /\ i # n
      /\ \A i \in DOMAIN e.onWay : i = n \/ i \in DOMAIN c.onWay
      /\ \A i \in DOMAIN e.onWay : i \in Int
  BY DEF Longer
<1>b. /\ \A i \in DOMAIN c.onWay : \A m \in 1..i - 1 : m \in DOMAIN c.onWay
      /\ \A m \in 1..n - 1 : m \in DOMAIN c.onWay
      /\ \A m \in DOMAIN c.onWay : m \in 1..n - 1
      /\ q \notin Batches
  BY SqlSessionsAssumption DEF Longer
<1> HIDE DEF n
<1>c. ~Waits(c, q)
  <2> SUFFICES ASSUME NEW i \in DOMAIN c.onWay, c.onWay[i].by = q
               PROVE  FALSE
    BY DEF Waits
  <2>1. RequestRight(d, c, c.onWay[i])
    BY DEF ConnectionInv, SharedInv, QueueRight
  <2>2. c.onWay[i].kind \in {"begin", "statement", "commit", "rollback"}
    BY RequestsTyped DEF ConnectionInv
  <2> QED
    BY <1>b, <2>1, <2>2 DEF RequestRight, IsEnd
<1>d. c.single \in [Singles -> {"idle", "sent", "ok", "failed"}]
  BY DEF ConnectionInv, SessionType
<1>e. \A b \in Batches : Waits(e, b) = Waits(c, b)
  BY <1>a, <1>b DEF Waits
<1>1. \A b \in Batches : Held(d, e, b) = Held(d, c, b)
  BY <1>e DEF Held, Runs
<1>2. SharedInv(d, e, h)
  <2>1. QueueRight(d, e)
    <3> SUFFICES ASSUME NEW i \in DOMAIN e.onWay
                 PROVE  RequestRight(d, e, e.onWay[i])
      BY DEF QueueRight
    <3>1. CASE i = n
      BY <1>a, <1>b, <1>d, <3>1 DEF RequestRight, IsEnd
    <3>2. CASE i # n
      <4>1. RequestRight(d, c, e.onWay[i]) /\ e.onWay[i].by # q
        BY <1>a, <1>c, <3>2 DEF ConnectionInv, SharedInv, QueueRight, Waits
      <4> QED
        BY <1>d, <4>1 DEF RequestRight, IsEnd
    <3> QED
      BY <3>1, <3>2
  <2>2. AskedOnce(e)
    BY <1>a, <1>c DEF ConnectionInv, SharedInv, AskedOnce, Waits
  <2>3. FlagRight(d, e) /\ OpenRight(d, e) /\ NextRight(e) /\ WorkOpen(d, e)
    BY <1>1 DEF ConnectionInv, SharedInv, FlagRight, OpenRight, NextRight, WorkOpen
  <2>4. SomeonesOpen(d, e)
    BY <1>1, <1>a DEF ConnectionInv, SharedInv, SomeonesOpen
  <2>5. Acked(d, e, h)
    BY <1>d DEF ConnectionInv, SharedInv, Acked
  <2>6. AutoRight(d, e, h)
    BY <1>a DEF ConnectionInv, SharedInv, AutoRight, FlagRight, Outside
  <2>7. ASSUME d.inOrder, NEW i \in DOMAIN e.onWay, Outside(h, e.onWay[i])
        PROVE  /\ \A k \in 1..i - 1 : e.onWay[k].kind # "begin"
               /\ e.open => \E m \in 1..i - 1 : IsEnd(e.onWay[m])
    <3>1. CASE i = n
      <4>1. \A b \in Batches : ~Held(d, c, b)
        BY <1>a, <2>7, <3>1 DEF Outside
      <4>2. \A k \in DOMAIN c.onWay : c.onWay[k].kind # "begin"
        BY <4>1 DEF ConnectionInv, SharedInv, QueueRight, RequestRight, Held, Runs
      <4>3. c.open => \E m \in DOMAIN c.onWay : IsEnd(c.onWay[m])
        BY <4>1 DEF ConnectionInv, SharedInv, SomeonesOpen
      <4> QED
        BY <1>a, <1>b, <3>1, <4>2, <4>3
    <3>2. CASE i # n
      BY <1>a, <1>b, <2>7, <3>2 DEF ConnectionInv, SharedInv, TakenUp
    <3> QED
      BY <3>1, <3>2
  <2>8. ASSUME ~d.inOrder, e.open \/ \E b \in Batches : Held(d, e, b), NEW i \in DOMAIN e.onWay
        PROVE  ~Outside(h, e.onWay[i])
    <3>1. \E b \in Batches : Held(d, c, b)
      BY <1>1, <2>8 DEF ConnectionInv, SharedInv, SomeonesOpen
    <3>2. CASE i = n
      BY <1>a, <3>1, <3>2 DEF Outside
    <3>3. CASE i # n
      BY <1>a, <2>8, <3>1, <3>3 DEF ConnectionInv, SharedInv, TakenUp
    <3> QED
      BY <3>2, <3>3
  <2>9. TakenUp(d, e, h)
    BY <2>7, <2>8 DEF TakenUp
  <2> QED
    BY <2>1, <2>2, <2>3, <2>4, <2>5, <2>6, <2>9 DEF SharedInv
<1>3. ASSUME NEW b \in Batches, BatchInv(d, c, h, b)
      PROVE  BatchInv(d, e, h, b)
  <2>1. Alone(d, e, b) /\ OpenWhile(d, e, b) /\ FlagWhile(d, e, b) /\ NotKept(e, b)
        /\ Progress(e, b) /\ NotBegun(e, b)
    BY <1>1, <1>3 DEF BatchInv, Alone, OpenWhile, FlagWhile, NotKept, Progress, NotBegun, DoneOf,
         AtStake
  <2>2. BegunLast(d, e, b) /\ NoneElse(e, b) /\ Fenced(d, e, b)
    BY <1>3, <1>a DEF BatchInv, BegunLast, NoneElse, Fenced, IsFence, AtStake
  <2>3. StakeHeld(e, b) /\ AllKept(e, h, b)
    BY <1>3, <1>e DEF BatchInv, StakeHeld, AllKept, AtStake
  <2>4. NotAuto(d, e, b)
    <3> SUFFICES ASSUME d.begin = "flag", NEW i \in DOMAIN e.onWay, e.onWay[i].kind = "statement",
                        AtStake(e, b) \/ \E p \in DOMAIN e.onWay : p <= i /\ e.onWay[p].by = b
                 PROVE  ~e.onWay[i].auto
      BY DEF NotAuto
    <3>1. CASE i = n
      <4>1. AtStake(c, b) => Held(d, c, b)
        BY <1>3 DEF BatchInv, StakeHeld, Held, Runs
      <4>2. Waits(e, b) => Held(d, c, b)
        BY <1>e DEF Held, Runs
      <4>3. Held(d, c, b)
        BY <4>1, <4>2 DEF AtStake, Waits
      <4> QED
        BY <1>3, <1>a, <3>1, <4>3 DEF BatchInv, FlagWhile
    <3>2. CASE i # n
      <4>1. \A p \in DOMAIN e.onWay : p <= i => p \in DOMAIN c.onWay
        BY <1>a, <3>2
      <4>2. AtStake(c, b) \/ \E p \in DOMAIN c.onWay : p <= i /\ c.onWay[p].by = b
        BY <1>a, <4>1 DEF AtStake
      <4> QED
        BY <1>3, <1>a, <3>2, <4>2 DEF BatchInv, NotAuto
    <3> QED
      BY <3>1, <3>2
  <2> QED
    BY <2>1, <2>2, <2>3, <2>4 DEF BatchInv
<1> QED
  BY <1>2, <1>3 DEF ConnectionInv

\* The connection is lost: what is not committed is undone, who waits has an
\* error, and the commits that were on their way are lost.
LEMMA EverythingLost ==
  ASSUME NEW d, NEW c, NEW h, NEW e \in SessionType, ConnectionInv(d, c, h),
         e.link = "gone", ~e.inTransaction, e.onWay = <<>>, ~e.open, e.work = {},
         e.kept = c.kept, \A q \in Singles : e.single[q] = "ok" => c.single[q] = "ok",
         \A b \in Batches :
           /\ e.batch[b].next = c.batch[b].next
           /\ e.batch[b].at = c.batch[b].at \/ (Runs(c, b) /\ e.batch[b].at = "rejected")
           /\ Transacts(d) => ~Runs(e, b),
         \A i \in DOMAIN c.onWay : c.onWay[i].kind = "commit" => c.onWay[i].by \in h.cut
  PROVE  ConnectionInv(d, e, h)
<1>a. DOMAIN e.onWay = {}
  OBVIOUS
<1>b. Transacts(d) => \A b \in Batches : ~Held(d, e, b)
  BY <1>a DEF Held, Waits
<1>1. SharedInv(d, e, h)
  BY <1>a DEF ConnectionInv, SharedInv, QueueRight, AskedOnce, FlagRight, OpenRight, NextRight,
       SomeonesOpen, AutoRight, TakenUp, Acked, WorkOpen
<1>2. ASSUME Transacts(d), NEW b \in Batches, BatchInv(d, c, h, b)
      PROVE  BatchInv(d, e, h, b)
  <2>1. Alone(d, e, b) /\ BegunLast(d, e, b) /\ NoneElse(e, b) /\ OpenWhile(d, e, b)
        /\ FlagWhile(d, e, b) /\ Progress(e, b) /\ Fenced(d, e, b) /\ NotAuto(d, e, b)
        /\ StakeHeld(e, b)
    BY <1>2, <1>a, <1>b DEF Alone, BegunLast, NoneElse, OpenWhile, FlagWhile, Progress, Runs,
         Fenced,
         NotAuto, StakeHeld, AtStake
  <2>2. NotBegun(e, b)
    BY <1>2 DEF BatchInv, NotBegun, AtStake, Runs
  <2>3. NotKept(e, b)
    BY <1>2 DEF BatchInv, NotKept, Runs
  <2>4. AllKept(e, h, b)
    <3> SUFFICES ASSUME e.batch[b].at = "resolved", b \notin h.cut
                 PROVE  All(b) \subseteq e.kept
      BY DEF AllKept
    <3>1. c.batch[b].at = "resolved"
      OBVIOUS
    <3>2. ~Waits(c, b)
      <4> SUFFICES ASSUME NEW i \in DOMAIN c.onWay, c.onWay[i].by = b
                   PROVE  FALSE
        BY DEF Waits
      <4>1. RequestRight(d, c, c.onWay[i])
        BY DEF ConnectionInv, SharedInv, QueueRight
      <4>2. c.onWay[i].kind \in {"begin", "statement", "commit", "rollback"}
        BY RequestsTyped DEF ConnectionInv
      <4>3. c.onWay[i].kind # "commit"
        OBVIOUS
      <4> QED
        BY <3>1, <4>1, <4>2, <4>3 DEF RequestRight
    <3> QED
      BY <1>2, <3>1, <3>2 DEF BatchInv, AllKept
  <2> QED
    BY <2>1, <2>2, <2>3, <2>4 DEF BatchInv
<1> QED
  BY <1>1, <1>2 DEF ConnectionInv

\* What runBatch finds when it begins: whoever is under way is mixed from now
\* on, with it; and where no order is kept, it may take up whatever was sent.
MayBegin(d, c, h, x) ==
  /\ x \in Batches /\ c.batch[x].at = "idle"
  /\ \A b \in Batches \ h.mixed : ~Held(d, c, b)
  /\ x \notin h.mixed => \A b \in Batches : ~Held(d, c, b)
  /\ ~d.inOrder => \A q \in Singles : c.single[q] = "sent" => q \in h.amid

\* Nobody waits who has not begun, and a single that waits was sent.
LEMMA IdleWaitsNot ==
  ASSUME NEW d, NEW c, NEW h, ConnectionInv(d, c, h)
  PROVE  /\ \A b \in Batches : c.batch[b].at = "idle" => ~Waits(c, b)
         /\ \A i \in DOMAIN c.onWay : c.onWay[i].by \in Singles =>
              c.single[c.onWay[i].by] = "sent"
         /\ \A i \in DOMAIN c.onWay : IsFence(c.onWay[i]) => c.onWay[i].by \in Batches
<1>1. \A b \in Batches : b \notin Singles
  BY SqlSessionsAssumption
<1> SUFFICES ASSUME NEW i \in DOMAIN c.onWay
             PROVE  /\ c.onWay[i].by \in Batches => c.batch[c.onWay[i].by].at # "idle"
                    /\ c.onWay[i].by \in Singles => c.single[c.onWay[i].by] = "sent"
                    /\ IsFence(c.onWay[i]) => c.onWay[i].by \in Batches
  BY DEF Waits
<1>2. RequestRight(d, c, c.onWay[i])
  BY DEF ConnectionInv, SharedInv, QueueRight
<1>3. c.onWay[i].kind \in {"begin", "statement", "commit", "rollback"}
  BY RequestsTyped DEF ConnectionInv
<1> QED
  BY <1>1, <1>2, <1>3 DEF RequestRight, IsEnd, IsFence

\* beginTransaction sends BEGIN.
LEMMA BeginSends ==
  ASSUME NEW d, DriverRight(d), d.begin = "request",
         NEW c, NEW h, NEW e \in SessionType, ConnectionInv(d, c, h),
         NEW x, MayBegin(d, c, h, x), c.link = "open",
         NEW r, r.by = x, r.kind = "begin", r.auto = ~c.inTransaction,
         Longer(c.onWay, e.onWay, r), e.batch = [c.batch EXCEPT ![x].at = "begin"],
         e.link = c.link, e.inTransaction = c.inTransaction, e.open = c.open, e.work = c.work,
         e.kept = c.kept, e.single = c.single
  PROVE  ConnectionInv(d, e, h)
<1> DEFINE n == Len(c.onWay) + 1
<1>a. /\ n \in DOMAIN e.onWay /\ e.onWay[n] = r
      /\ \A i \in DOMAIN c.onWay : i \in DOMAIN e.onWay /\ e.onWay[i] = c.onWay[i] /\ i < n /\ i # n
      /\ \A i \in DOMAIN e.onWay : i = n \/ i \in DOMAIN c.onWay
  BY DEF Longer
<1>b. /\ \A i \in DOMAIN c.onWay : \A m \in 1..i - 1 : m \in DOMAIN c.onWay
      /\ x \in Batches /\ x \notin Singles
  BY SqlSessionsAssumption DEF Longer, MayBegin
<1> HIDE DEF n
<1>c. \A b : Waits(e, b) <=> Waits(c, b) \/ b = x
  BY <1>a DEF Waits
<1>d. c.batch \in [Batches -> [at : {"idle", "begin", "running", "resolved", "rejected"},
                              next : 1..BatchLength + 1]]
  BY DEF ConnectionInv, SessionType
<1>e. /\ \A b \in Batches : e.batch[b].next = c.batch[b].next
      /\ \A b \in Batches : e.batch[b].at = IF b = x THEN "begin" ELSE c.batch[b].at
  BY <1>b, <1>d
<1>f. ~Waits(c, x) /\ ~c.inTransaction
  BY IdleWaitsNot DEF MayBegin, ConnectionInv, SharedInv, FlagRight
<1>1. /\ \A b \in Batches : b # x => Held(d, e, b) = Held(d, c, b)
      /\ Held(d, e, x)
  BY <1>c, <1>e, <1>b DEF Held, Runs
<1>2. SharedInv(d, e, h)
  <2>1. QueueRight(d, e)
    <3> SUFFICES ASSUME NEW i \in DOMAIN e.onWay
                 PROVE  RequestRight(d, e, e.onWay[i])
      BY DEF QueueRight
    <3>1. CASE i = n
      BY <1>a, <1>b, <1>e, <3>1 DEF RequestRight, IsEnd
    <3>2. CASE i # n
      <4>1. RequestRight(d, c, e.onWay[i]) /\ e.onWay[i].by # x
        BY <1>a, <1>f, <3>2 DEF ConnectionInv, SharedInv, QueueRight, Waits
      <4> QED
        BY <1>e, <4>1 DEF RequestRight, IsEnd
    <3> QED
      BY <3>1, <3>2
  <2>2. AskedOnce(e)
    BY <1>a, <1>f DEF ConnectionInv, SharedInv, AskedOnce, Waits
  <2>n. NextRight(e)
    BY <1>e DEF ConnectionInv, SharedInv, NextRight, MayBegin
  <2>3. FlagRight(d, e) /\ OpenRight(d, e) /\ NextRight(e) /\ WorkOpen(d, e) /\ Acked(d, e, h)
        /\ SomeonesOpen(d, e)
    BY <1>1, <1>b, <1>f, <2>n DEF ConnectionInv, SharedInv, FlagRight, OpenRight, WorkOpen,
         Acked, SomeonesOpen
  <2>4. AutoRight(d, e, h)
    BY <1>a, <1>f DEF ConnectionInv, SharedInv, AutoRight
  <2>5. d.inOrder => \A i \in DOMAIN e.onWay : Outside(h, e.onWay[i]) =>
          /\ \A k \in 1..i - 1 : e.onWay[k].kind # "begin"
          /\ e.open => \E m \in 1..i - 1 : IsEnd(e.onWay[m])
    BY <1>a, <1>b DEF ConnectionInv, SharedInv, TakenUp, Outside
  <2>6. ~d.inOrder => \A i \in DOMAIN e.onWay : ~Outside(h, e.onWay[i])
    BY <1>a, <1>b, IdleWaitsNot DEF MayBegin, Outside
  <2>7. TakenUp(d, e, h)
    BY <2>5, <2>6 DEF TakenUp
  <2> QED
    BY <2>1, <2>2, <2>3, <2>4, <2>7 DEF SharedInv
<1>3. ASSUME NEW b \in Batches \ h.mixed, BatchInv(d, c, h, b)
      PROVE  BatchInv(d, e, h, b)
  <2>a. ~Held(d, c, b) /\ (b = x => \A o \in Batches : ~Held(d, c, o))
    BY DEF MayBegin
  <2>b. b # x => ~Held(d, e, b) /\ ~Runs(e, b)
    BY <1>1, <2>a DEF Held
  <2>1. Alone(d, e, b)
    BY <1>1, <2>a, <2>b DEF Alone
  <2>2. BegunLast(d, e, b)
    <3> SUFFICES ASSUME b = x, NEW i \in DOMAIN e.onWay,
                        IsFence(e.onWay[i]), e.onWay[i].by # b
                 PROVE  d.inOrder /\ \E p \in DOMAIN e.onWay : i < p /\ e.onWay[p].by = b
      BY <2>b DEF BegunLast, Runs
    <3>1. i \in DOMAIN c.onWay /\ i < n
      BY <1>a
    <3>2. e.onWay[i].by \in Batches /\ Waits(c, e.onWay[i].by)
      BY <1>a, <3>1, IdleWaitsNot DEF Waits
    <3>3. d.inOrder
      BY <2>a, <3>2 DEF Held
    <3> QED
      BY <1>a, <3>1, <3>3
  <2>3. NoneElse(e, b) /\ OpenWhile(d, e, b) /\ FlagWhile(d, e, b) /\ Progress(e, b)
        /\ NotAuto(d, e, b)
    BY <1>e, <2>b DEF NoneElse, OpenWhile, FlagWhile, Progress, NotAuto, Runs
  <2>4. Fenced(d, e, b)
    <3> SUFFICES ASSUME AtStake(c, b), NEW i \in DOMAIN e.onWay,
                        IsFence(e.onWay[i]), e.onWay[i].by # b
                 PROVE  d.inOrder /\ \E p \in DOMAIN e.onWay : p < i /\ e.onWay[p].by = b
      BY DEF Fenced, AtStake
    <3>1. CASE i = n
      <4>1. Waits(c, b)
        BY <1>3, <2>a DEF BatchInv, StakeHeld, Held, Runs
      <4>2. d.inOrder
        BY <2>a, <4>1 DEF Held
      <4> QED
        BY <1>a, <3>1, <4>1, <4>2 DEF Waits
    <3>2. CASE i # n
      BY <1>3, <1>a, <3>2 DEF BatchInv, Fenced
    <3> QED
      BY <3>1, <3>2
  <2>5. StakeHeld(e, b)
    BY <1>3, <1>c, <2>a DEF BatchInv, StakeHeld, AtStake, Held, Runs
  <2>6. NotBegun(e, b) /\ NotKept(e, b) /\ AllKept(e, h, b)
    BY <1>3, <1>c, <1>e DEF BatchInv, NotBegun, NotKept, AllKept, AtStake, MayBegin
  <2> QED
    BY <2>1, <2>2, <2>3, <2>4, <2>5, <2>6 DEF BatchInv
<1> QED
  BY <1>2, <1>3 DEF ConnectionInv

\* beginTransaction sends nothing, and the batch runs or, where it does not
\* call back, waits for ever; it may set the flag.
LEMMA BeginRuns ==
  ASSUME NEW d, DriverRight(d), d.begin # "request",
         NEW c, NEW h, NEW e \in SessionType, ConnectionInv(d, c, h),
         NEW x, MayBegin(d, c, h, x),
         NEW to, to = "running" \/ (to = "begin" /\ ~Transacts(d)),
         e.onWay = c.onWay, e.batch = [c.batch EXCEPT ![x].at = to],
         e.link = c.link, e.inTransaction = (d.begin = "flag"),
         e.open = c.open, e.work = c.work, e.kept = c.kept, e.single = c.single
  PROVE  ConnectionInv(d, e, h)
<1>b. x \in Batches
  BY DEF MayBegin
<1>d. c.batch \in [Batches -> [at : {"idle", "begin", "running", "resolved", "rejected"},
                              next : 1..BatchLength + 1]]
  BY DEF ConnectionInv, SessionType
<1>e. /\ \A b \in Batches : e.batch[b].next = c.batch[b].next
      /\ \A b \in Batches : e.batch[b].at = IF b = x THEN to ELSE c.batch[b].at
  BY <1>b, <1>d
<1>f. ~Waits(c, x) /\ ~Waits(e, x)
  BY IdleWaitsNot DEF MayBegin, Waits
<1>1. /\ \A b \in Batches : b # x => Held(d, e, b) = Held(d, c, b)
      /\ Held(d, e, x)
  BY <1>e, <1>b DEF Held, Runs, Waits
<1>2. SharedInv(d, e, h)
  <2>1. QueueRight(d, e)
    <3> SUFFICES ASSUME NEW i \in DOMAIN e.onWay
                 PROVE  RequestRight(d, e, e.onWay[i])
      BY DEF QueueRight
    <3>1. RequestRight(d, c, e.onWay[i]) /\ e.onWay[i].by # x
      BY <1>f DEF ConnectionInv, SharedInv, QueueRight, Waits
    <3> QED
      BY <1>e, <3>1 DEF RequestRight, IsEnd
  <2>a. FlagRight(d, e)
    BY <1>1, <1>b DEF FlagRight
  <2>n. NextRight(e)
    BY <1>e DEF ConnectionInv, SharedInv, NextRight, MayBegin
  <2>b. AskedOnce(e) /\ OpenRight(d, e) /\ NextRight(e) /\ WorkOpen(d, e) /\ Acked(d, e, h)
        /\ AutoRight(d, e, h)
    BY <2>n DEF ConnectionInv, SharedInv, AskedOnce, OpenRight, WorkOpen, Acked, AutoRight
  <2>c. SomeonesOpen(d, e)
    BY <1>1, <1>b DEF SomeonesOpen
  <2>3. ~d.inOrder => \A i \in DOMAIN e.onWay : ~Outside(h, e.onWay[i])
    BY IdleWaitsNot DEF MayBegin, Outside
  <2>4. TakenUp(d, e, h)
    BY <2>3 DEF ConnectionInv, SharedInv, TakenUp
  <2> QED
    BY <2>1, <2>a, <2>b, <2>c, <2>4 DEF SharedInv
<1>3. ASSUME Transacts(d), NEW b \in Batches \ h.mixed, BatchInv(d, c, h, b)
      PROVE  BatchInv(d, e, h, b)
  <2>a. ~Held(d, c, b) /\ (b = x => \A o \in Batches : ~Held(d, c, o))
    BY DEF MayBegin
  <2>b. b # x => ~Held(d, e, b) /\ ~Runs(e, b)
    BY <1>1, <2>a DEF Held
  <2>c. b = x => c.batch[b].next = 1 /\ ~AtStake(c, b)
    BY <1>3 DEF MayBegin, BatchInv, NotBegun, ConnectionInv, SharedInv, NextRight
  <2>d. d.begin = "flag" /\ to = "running"
    BY <1>3 DEF Transacts
  <2>1. Alone(d, e, b)
    BY <1>1, <2>a, <2>b DEF Alone
  <2>2. BegunLast(d, e, b) /\ FlagWhile(d, e, b) /\ OpenWhile(d, e, b)
    BY <1>e, <2>b, <2>d DEF BegunLast, FlagWhile, OpenWhile, Runs
  <2>3. NoneElse(e, b)
    <3> SUFFICES ASSUME b = x, NEW i \in DOMAIN e.onWay, IsFence(e.onWay[i])
                 PROVE  FALSE
      BY <2>b DEF NoneElse, Runs
    <3>1. c.onWay[i].by \in Batches /\ Held(d, c, c.onWay[i].by)
      BY IdleWaitsNot DEF Held, Waits
    <3> QED
      BY <2>a, <3>1
  <2>4. Fenced(d, e, b) /\ NotAuto(d, e, b)
    BY <1>3 DEF BatchInv, Fenced, NotAuto, AtStake
  <2>5. StakeHeld(e, b)
    BY <1>3, <1>e, <2>c DEF BatchInv, StakeHeld, AtStake, Waits
  <2>6. NotBegun(e, b) /\ NotKept(e, b) /\ AllKept(e, h, b)
    BY <1>3, <1>e, <2>c DEF BatchInv, NotBegun, NotKept, AllKept, AtStake, MayBegin, Waits
  <2>7. Progress(e, b)
    <3> SUFFICES ASSUME b = x
                 PROVE  DoneOf(e, b) \subseteq e.work
      BY <2>b DEF Progress, Runs
    <3>1. e.batch[b].next = 1
      BY <1>e, <2>c
    <3>2. 1..1 - 1 = {}
      OBVIOUS
    <3> QED
      BY <3>1, <3>2 DEF DoneOf
  <2> QED
    BY <2>1, <2>2, <2>3, <2>4, <2>5, <2>6, <2>7 DEF BatchInv
<1> QED
  BY <1>2, <1>3 DEF ConnectionInv

\* A batch is rejected before anything of it is sent.
LEMMA BeginRefused ==
  ASSUME NEW d, DriverRight(d),
         NEW c, NEW h, NEW e \in SessionType, ConnectionInv(d, c, h),
         NEW x, MayBegin(d, c, h, x),
         e.onWay = c.onWay, e.batch = [c.batch EXCEPT ![x].at = "rejected"],
         e.link = c.link, ~e.inTransaction,
         e.open = c.open, e.work = c.work, e.kept = c.kept, e.single = c.single
  PROVE  ConnectionInv(d, e, h)
<1>b. x \in Batches
  BY DEF MayBegin
<1>d. c.batch \in [Batches -> [at : {"idle", "begin", "running", "resolved", "rejected"},
                              next : 1..BatchLength + 1]]
  BY DEF ConnectionInv, SessionType
<1>e. /\ \A b \in Batches : e.batch[b].next = c.batch[b].next
      /\ \A b \in Batches : e.batch[b].at = IF b = x THEN "rejected" ELSE c.batch[b].at
  BY <1>b, <1>d
<1>f. ~Waits(c, x) /\ ~Waits(e, x)
  BY IdleWaitsNot DEF MayBegin, Waits
<1>1. \A b \in Batches : Held(d, e, b) = Held(d, c, b)
  BY <1>e, <1>b, <1>f DEF Held, Runs, Waits, MayBegin
<1>2. SharedInv(d, e, h)
  <2>1. QueueRight(d, e)
    <3> SUFFICES ASSUME NEW i \in DOMAIN e.onWay
                 PROVE  RequestRight(d, e, e.onWay[i])
      BY DEF QueueRight
    <3>1. RequestRight(d, c, e.onWay[i]) /\ e.onWay[i].by # x
      BY <1>f DEF ConnectionInv, SharedInv, QueueRight, Waits
    <3> QED
      BY <1>e, <3>1 DEF RequestRight, IsEnd
  <2>2. AskedOnce(e) /\ FlagRight(d, e) /\ OpenRight(d, e) /\ NextRight(e)
        /\ WorkOpen(d, e) /\ Acked(d, e, h)
        /\ SomeonesOpen(d, e) /\ AutoRight(d, e, h) /\ TakenUp(d, e, h)
    BY <1>1 DEF ConnectionInv, SharedInv, AskedOnce, FlagRight, OpenRight, NextRight,
         WorkOpen, Acked,
         SomeonesOpen, AutoRight, TakenUp
  <2> QED
    BY <2>1, <2>2 DEF SharedInv
<1>3. ASSUME NEW b \in Batches \ h.mixed, BatchInv(d, c, h, b)
      PROVE  BatchInv(d, e, h, b)
  <2>a. ~Held(d, e, b) /\ ~Runs(e, b)
    BY <1>1 DEF MayBegin, Held
  <2>1. Alone(d, e, b) /\ BegunLast(d, e, b) /\ FlagWhile(d, e, b) /\ OpenWhile(d, e, b)
        /\ NoneElse(e, b) /\ Progress(e, b)
    BY <2>a DEF Alone, BegunLast, FlagWhile, OpenWhile, NoneElse, Progress, Runs
  <2>2. Fenced(d, e, b) /\ NotAuto(d, e, b)
    BY <1>3 DEF BatchInv, Fenced, NotAuto, AtStake
  <2>3. StakeHeld(e, b) /\ NotBegun(e, b) /\ NotKept(e, b) /\ AllKept(e, h, b)
    BY <1>3, <1>e DEF BatchInv, StakeHeld, NotBegun, NotKept, AllKept, AtStake, MayBegin, Waits
  <2> QED
    BY <2>1, <2>2, <2>3 DEF BatchInv
<1> QED
  BY <1>2, <1>3 DEF ConnectionInv

-----------------------------------------------------------------------------
(* What the drivers do, followed through the connections in between.       *)

\* c and e differ in their queue, their batches, their flag and their link at most.
SameServer(c, e) ==
  e.open = c.open /\ e.work = c.work /\ e.kept = c.kept /\ e.single = c.single

\* SendOn puts a request behind the others.
LEMMA Sends1 ==
  ASSUME NEW c \in SessionType, NEW by \in Callers, NEW kind,
         kind \in {"begin", "statement", "commit", "rollback"},
         NEW e, e = SendOn(c, by, kind)
  PROVE  \E r :
         /\ r.by = by /\ r.kind = kind /\ r.auto = ~c.inTransaction
         /\ e \in SessionType /\ Longer(c.onWay, e.onWay, r) /\ SameServer(c, e)
         /\ e.link = c.link /\ e.inTransaction = c.inTransaction /\ e.batch = c.batch
<1>a. PICK r : r = SessionRequest(by, kind, ~c.inTransaction)
  OBVIOUS
<1>b. r.by = by /\ r.kind = kind /\ r.auto = ~c.inTransaction
  BY <1>a DEF SessionRequest
<1>1. c.onWay \in Seq(RequestType) /\ c.inTransaction \in BOOLEAN
  BY RequestsTyped DEF SessionType
<1>2. r \in RequestType
  BY <1>a, <1>1 DEF SessionRequest, RequestType
<1>3. Append(c.onWay, r) \in Seq(RequestType) /\ Longer(c.onWay, Append(c.onWay, r), r)
  BY <1>1, <1>2, AppendedLonger
<1>4. e = [c EXCEPT !.onWay = Append(c.onWay, r)]
  BY <1>a DEF SendOn, AutoCommit
<1>5. PICK q \in Seq(RequestType) : q = Append(c.onWay, r)
  BY <1>3
<1>6. [c EXCEPT !.onWay = q] \in SessionType
  BY DEF SessionType, RequestType
<1>7. /\ [c EXCEPT !.onWay = q].onWay = q
      /\ SameServer(c, [c EXCEPT !.onWay = q])
      /\ [c EXCEPT !.onWay = q].link = c.link
      /\ [c EXCEPT !.onWay = q].inTransaction = c.inTransaction
      /\ [c EXCEPT !.onWay = q].batch = c.batch
  BY DEF SessionType, SameServer
<1> QED
  BY <1>b, <1>3, <1>4, <1>5, <1>6, <1>7

\* A batch is somewhere else.
LEMMA BatchAt ==
  ASSUME NEW c \in SessionType, NEW x \in Batches,
         NEW to \in {"idle", "begin", "running", "resolved", "rejected"}
  PROVE  LET e == [c EXCEPT !.batch[x].at = to]
         IN /\ e \in SessionType
            /\ e.batch = [c.batch EXCEPT ![x].at = to]
            /\ SameServer(c, e) /\ e.onWay = c.onWay
            /\ e.link = c.link /\ e.inTransaction = c.inTransaction
<1>1. c.batch \in [Batches -> [at : {"idle", "begin", "running", "resolved", "rejected"},
                              next : 1..BatchLength + 1]]
  BY DEF SessionType
<1>2. PICK m : m = [c.batch EXCEPT ![x].at = to]
  OBVIOUS
<1>3. m \in [Batches -> [at : {"idle", "begin", "running", "resolved", "rejected"},
                        next : 1..BatchLength + 1]]
  BY <1>1, <1>2
<1>4. [c EXCEPT !.batch[x].at = to] = [c EXCEPT !.batch = m]
  BY <1>2 DEF SessionType
<1>5. [c EXCEPT !.batch = m] \in SessionType
  BY <1>3 DEF SessionType
<1>6. /\ [c EXCEPT !.batch = m].batch = m
      /\ SameServer(c, [c EXCEPT !.batch = m]) /\ [c EXCEPT !.batch = m].onWay = c.onWay
      /\ [c EXCEPT !.batch = m].link = c.link
      /\ [c EXCEPT !.batch = m].inTransaction = c.inTransaction
  BY DEF SessionType, SameServer
<1> QED
  BY <1>2, <1>4, <1>5, <1>6

\* The flag is off.
LEMMA FlagOff ==
  ASSUME NEW c \in SessionType, NEW flag \in BOOLEAN
  PROVE  LET e == [c EXCEPT !.inTransaction = flag]
         IN /\ e \in SessionType
            /\ SameServer(c, e) /\ e.onWay = c.onWay /\ e.batch = c.batch
            /\ e.link = c.link /\ e.inTransaction = flag
BY DEF SessionType, SameServer

\* The catch of runBatch, and rollback.
LEMMA RejectedInv ==
  ASSUME driver \in DOMAIN Driver, NEW c, NEW h, ConnectionInv(D, c, h),
         NEW x \in Batches, c.batch[x].at = "running", ~Waits(c, x)
  PROVE  ConnectionInv(D, Rejected(c, x), h)
<1> DEFINE m == [c EXCEPT !.batch[x].at = "rejected"]
<1>1. DriverRight(D) /\ (Transactional <=> Transacts(D)) /\ c \in SessionType
      /\ x \in Callers
  BY DriversRight DEF ConnectionInv, Callers
<1>2. /\ m \in SessionType /\ m.batch = [c.batch EXCEPT ![x].at = "rejected"]
      /\ SameServer(c, m) /\ m.onWay = c.onWay
      /\ m.link = c.link /\ m.inTransaction = c.inTransaction
  BY <1>1, BatchAt
<1>3. Rejected(c, x) = Rollback(m, x)
  BY DEF Rejected
<1> HIDE DEF m
<1>4. CASE c.link # "open"
  <2>1. Rejected(c, x) = [m EXCEPT !.inTransaction = FALSE]
    BY <1>2, <1>3, <1>4 DEF Rollback
  <2>2. PICK e : e = Rejected(c, x)
    OBVIOUS
  <2>3. /\ e \in SessionType /\ SameServer(m, e) /\ e.onWay = m.onWay /\ e.batch = m.batch
        /\ e.link = m.link /\ e.inTransaction = FALSE
    BY <1>2, <2>1, <2>2, FlagOff
  <2>4. /\ e.onWay = c.onWay /\ e.batch = [c.batch EXCEPT ![x].at = "rejected"]
        /\ e.link = c.link /\ ~e.inTransaction /\ e.open = c.open /\ e.work = c.work
        /\ e.kept = c.kept /\ e.single = c.single
    BY <1>2, <2>3 DEF SameServer
  <2>5. ConnectionInv(D, e, h)
    BY <1>1, <1>4, <2>3, <2>4, BatchEndsSilently
  <2> QED
    BY <2>2, <2>5
<1>5. CASE c.link = "open" /\ Transacts(D)
  <2>1. Rejected(c, x) = SendOn(m, x, "rollback")
    BY <1>1, <1>2, <1>3, <1>5 DEF Rollback
  <2>2. PICK e : e = Rejected(c, x)
    OBVIOUS
  <2>3. PICK r :
        /\ r.by = x /\ r.kind = "rollback" /\ r.auto = ~m.inTransaction
        /\ e \in SessionType /\ Longer(m.onWay, e.onWay, r) /\ SameServer(m, e)
        /\ e.link = m.link /\ e.inTransaction = m.inTransaction /\ e.batch = m.batch
    BY <1>1, <1>2, <2>1, <2>2, Sends1
  <2>4. /\ r.auto = ~c.inTransaction /\ Longer(c.onWay, e.onWay, r)
        /\ e.link = c.link /\ e.inTransaction = c.inTransaction /\ e.open = c.open
        /\ e.work = c.work /\ e.kept = c.kept /\ e.single = c.single
        /\ e.batch = [c.batch EXCEPT ![x].at = "rejected"]
    BY <1>2, <2>3 DEF SameServer
  <2>5. r.kind = IF "rejected" = "resolved" THEN "commit" ELSE "rollback"
    BY <2>3
  <2>6. ConnectionInv(D, e, h)
    BY <1>1, <1>5, <2>3, <2>4, <2>5, BatchEndsSending
  <2> QED
    BY <2>2, <2>6
<1>6. CASE c.link = "open" /\ ~Transacts(D)
  <2>1. Rejected(c, x) = m
    BY <1>1, <1>2, <1>3, <1>6 DEF Rollback
  <2>2. ~c.inTransaction
    BY <1>6 DEF ConnectionInv, SharedInv, FlagRight, Transacts
  <2>3. /\ m.onWay = c.onWay /\ m.batch = [c.batch EXCEPT ![x].at = "rejected"]
        /\ m.link = c.link /\ ~m.inTransaction /\ m.open = c.open /\ m.work = c.work
        /\ m.kept = c.kept /\ m.single = c.single
    BY <1>2, <2>2 DEF SameServer
  <2>4. ~Transacts(D) \/ c.link # "open"
    BY <1>6
  <2>5. ConnectionInv(D, m, h)
    BY <1>1, <1>2, <2>3, <2>4, BatchEndsSilently
  <2> QED
    BY <2>1, <2>5
<1> QED
  BY <1>4, <1>5, <1>6

\* The next statement of a batch, or its commit, or its rejection; a commit
\* that cannot be sent is one that was lost.
LEMMA NextOfBatchInv ==
  ASSUME driver \in DOMAIN Driver, NEW c, NEW h, ConnectionInv(D, c, h),
         NEW x \in Batches, c.batch[x].at = "running", ~Waits(c, x),
         c.batch[x].next > BatchLength /\ c.link # "open" => x \in h.cut \union h.mixed
  PROVE  ConnectionInv(D, NextOfBatch(c, x), h)
<1>1. DriverRight(D) /\ (Transactional <=> Transacts(D)) /\ c \in SessionType
      /\ x \in Callers
  BY DriversRight DEF ConnectionInv, Callers
<1>n. c.batch[x].next \in 1..BatchLength + 1 /\ BatchLength \in Nat
  BY <1>1, SqlSessionsAssumption DEF SessionType
<1>2. CASE c.batch[x].next > BatchLength
  <2> DEFINE m == [c EXCEPT !.batch[x].at = "resolved"]
  <2>1. /\ m \in SessionType /\ m.batch = [c.batch EXCEPT ![x].at = "resolved"]
        /\ SameServer(c, m) /\ m.onWay = c.onWay
        /\ m.link = c.link /\ m.inTransaction = c.inTransaction
    BY <1>1, BatchAt
  <2>2. NextOfBatch(c, x) = Commit(m, x)
    BY <1>2 DEF NextOfBatch
  <2>n. c.batch[x].next = BatchLength + 1
    BY <1>2, <1>n
  <2> HIDE DEF m
  <2>3. CASE c.link # "open"
    <3>1. NextOfBatch(c, x) = [m EXCEPT !.inTransaction = FALSE]
      BY <2>1, <2>2, <2>3 DEF Commit
    <3>2. PICK e : e = NextOfBatch(c, x)
      OBVIOUS
    <3>3. /\ e \in SessionType /\ SameServer(m, e) /\ e.onWay = m.onWay /\ e.batch = m.batch
          /\ e.link = m.link /\ e.inTransaction = FALSE
      BY <2>1, <3>1, <3>2, FlagOff
    <3>4. ConnectionInv(D, e, h)
      BY <1>1, <1>2, <2>1, <2>3, <3>3, BatchEndsSilently DEF SameServer
    <3> QED
      BY <3>2, <3>4
  <2>4. CASE c.link = "open" /\ Transacts(D)
    <3>1. NextOfBatch(c, x) = SendOn(m, x, "commit")
      BY <1>1, <2>1, <2>2, <2>4 DEF Commit
    <3>2. PICK e : e = NextOfBatch(c, x)
      OBVIOUS
    <3>3. PICK r :
          /\ r.by = x /\ r.kind = "commit" /\ r.auto = ~m.inTransaction
          /\ e \in SessionType /\ Longer(m.onWay, e.onWay, r) /\ SameServer(m, e)
          /\ e.link = m.link /\ e.inTransaction = m.inTransaction /\ e.batch = m.batch
      BY <1>1, <2>1, <3>1, <3>2, Sends1
    <3>4. /\ r.auto = ~c.inTransaction /\ Longer(c.onWay, e.onWay, r)
          /\ e.link = c.link /\ e.inTransaction = c.inTransaction /\ e.open = c.open
          /\ e.work = c.work /\ e.kept = c.kept /\ e.single = c.single
          /\ e.batch = [c.batch EXCEPT ![x].at = "resolved"]
      BY <2>1, <3>3 DEF SameServer
    <3>5. r.kind = IF "resolved" = "resolved" THEN "commit" ELSE "rollback"
      BY <3>3
    <3>6. ConnectionInv(D, e, h)
      BY <1>1, <2>n, <2>4, <3>3, <3>4, <3>5, BatchEndsSending
    <3> QED
      BY <3>2, <3>6
  <2>5. CASE c.link = "open" /\ ~Transacts(D)
    <3>1. NextOfBatch(c, x) = m
      BY <1>1, <2>1, <2>2, <2>5 DEF Commit
    <3>2. ~c.inTransaction
      BY <2>5 DEF ConnectionInv, SharedInv, FlagRight, Transacts
    <3>3. /\ m.open = c.open /\ m.work = c.work /\ m.kept = c.kept /\ m.single = c.single
          /\ ~m.inTransaction
      BY <2>1, <3>2 DEF SameServer
    <3>4. \/ "resolved" = "resolved" /\ (Transacts(D) => x \in h.cut \union h.mixed)
          \/ "resolved" = "rejected"
      BY <2>5
    <3>5. ConnectionInv(D, m, h)
      BY <1>1, <2>1, <2>5, <3>3, <3>4, BatchEndsSilently
    <3> QED
      BY <3>1, <3>5
  <2> QED
    BY <2>3, <2>4, <2>5
<1>3. CASE ~(c.batch[x].next > BatchLength) /\ (~D.sql \/ c.link # "open")
  <2>1. NextOfBatch(c, x) = Rejected(c, x)
    BY <1>3 DEF NextOfBatch
  <2> QED
    BY <2>1, RejectedInv
<1>4. CASE ~(c.batch[x].next > BatchLength) /\ D.sql /\ c.link = "open"
  <2>1. NextOfBatch(c, x) = SendOn(c, x, "statement")
    BY <1>4 DEF NextOfBatch
  <2>2. PICK e : e = NextOfBatch(c, x)
    OBVIOUS
  <2>4. PICK r :
        /\ r.by = x /\ r.kind = "statement" /\ r.auto = ~c.inTransaction
        /\ e \in SessionType /\ Longer(c.onWay, e.onWay, r) /\ SameServer(c, e)
        /\ e.link = c.link /\ e.inTransaction = c.inTransaction /\ e.batch = c.batch
    BY <1>1, <2>1, <2>2, Sends1
  <2>6. c.batch[x].next <= BatchLength
    BY <1>4, <1>n
  <2>7. ConnectionInv(D, e, h)
    BY <1>1, <1>4, <2>4, <2>6, BatchSends DEF SameServer
  <2> QED
    BY <2>2, <2>7
<1> QED
  BY <1>1, <1>2, <1>3, <1>4 DEF DriverRight

-----------------------------------------------------------------------------
(* The server.                                                             *)

\* The request is off the queue, and nothing else has happened.
LEMMA TakenOff ==
  ASSUME NEW c \in SessionType, NEW i \in DOMAIN c.onWay
  PROVE  LET e == Taken(c, i)
         IN /\ e \in SessionType /\ Shorter(c.onWay, e.onWay, i) /\ SameServer(c, e)
            /\ e.link = c.link /\ e.inTransaction = c.inTransaction /\ e.batch = c.batch
<1>1. PICK s \in Seq(RequestType) : s = c.onWay
  BY RequestsTyped
<1>2. PICK t : t = RemoveAt(s, i)
  OBVIOUS
<1>3. i \in 1..Len(s)
  BY <1>1
<1>4. t \in Seq(RequestType) /\ Shorter(s, t, i)
  BY <1>2, <1>3, RemovedShorter
<1>5. Taken(c, i) = [c EXCEPT !.onWay = t]
  BY <1>1, <1>2 DEF Taken, SessionType
<1>6. [c EXCEPT !.onWay = t] \in SessionType
  BY <1>4 DEF SessionType, RequestType
<1>7. /\ [c EXCEPT !.onWay = t].onWay = t /\ SameServer(c, [c EXCEPT !.onWay = t])
      /\ [c EXCEPT !.onWay = t].link = c.link /\ [c EXCEPT !.onWay = t].batch = c.batch
      /\ [c EXCEPT !.onWay = t].inTransaction = c.inTransaction
  BY DEF SessionType, SameServer
<1> QED
  BY <1>1, <1>4, <1>5, <1>6, <1>7

\* What the server does of a statement, as one change of the connection.
LEMMA StatementDone ==
  ASSUME NEW c \in SessionType, NEW r, r.kind = "statement", NEW isSchema \in BOOLEAN
  PROVE  LET written == {Written(c, r)}
         IN Processed(c, r, isSchema) =
              IF isSchema /\ SchemaCommits
                THEN [c EXCEPT !.open = FALSE, !.work = {},
                               !.kept = c.kept \union c.work \union written]
              ELSE IF c.open \/ ~r.auto
                THEN [c EXCEPT !.open = c.open, !.work = c.work \union written, !.kept = c.kept]
              ELSE [c EXCEPT !.open = c.open, !.work = {},
                             !.kept = c.kept \union c.work \union written]
<1>1. StatementIn(c, r) = Written(c, r)
  BY DEF StatementIn, Written
<1>2. PICK w : w = {Written(c, r)}
  OBVIOUS
<1>3. CASE isSchema /\ SchemaCommits
  <2>1. Processed(c, r, isSchema) = [Committed(c, w) EXCEPT !.open = FALSE]
    BY <1>1, <1>2, <1>3 DEF Processed
  <2>2. [Committed(c, w) EXCEPT !.open = FALSE]
          = [c EXCEPT !.open = FALSE, !.work = {}, !.kept = c.kept \union c.work \union w]
    BY DEF Committed, SessionType
  <2> QED
    BY <1>2, <1>3, <2>1, <2>2
<1>4. CASE ~(isSchema /\ SchemaCommits) /\ (c.open \/ ~r.auto)
  <2>1. Processed(c, r, isSchema) = [c EXCEPT !.work = c.work \union w]
    BY <1>1, <1>2, <1>4 DEF Processed, SessionType
  <2>2. [c EXCEPT !.work = c.work \union w]
          = [c EXCEPT !.open = c.open, !.work = c.work \union w, !.kept = c.kept]
    BY DEF SessionType
  <2> QED
    BY <1>2, <1>4, <2>1, <2>2
<1>5. CASE ~(isSchema /\ SchemaCommits) /\ ~(c.open \/ ~r.auto)
  <2>1. Processed(c, r, isSchema) = Committed(c, w)
    BY <1>1, <1>2, <1>5 DEF Processed
  <2>2. Committed(c, w)
          = [c EXCEPT !.open = c.open, !.work = {}, !.kept = c.kept \union c.work \union w]
    BY DEF Committed, SessionType
  <2> QED
    BY <1>2, <1>5, <2>1, <2>2
<1> QED
  BY <1>3, <1>4, <1>5

\* A statement that the server has done is kept, or is work of a transaction.
LEMMA StatementServed ==
  ASSUME driver \in DOMAIN Driver, NEW c, NEW h, ConnectionInv(D, c, h),
         NEW r, Ready(D, c, h, r), NEW isSchema \in BOOLEAN,
         isSchema /\ SchemaCommits =>
           \A b \in Batches \ h.mixed : ~Held(D, c, b) /\ ~AtStake(c, b),
         NEW m, m = Processed(c, r, isSchema)
  PROVE  /\ ConnectionInv(D, m, h)
         /\ m.onWay = c.onWay /\ m.link = c.link /\ m.batch = c.batch /\ m.single = c.single
         /\ r.by \in Singles => r.by \in m.kept \/ (Transacts(D) /\ r.by \in h.amid)
         /\ r.by \in Batches =>
              r.by \in h.mixed \/ ~Transacts(D) \/ <<r.by, c.batch[r.by].next>> \in m.work
<1>1. DriverRight(D) /\ c \in SessionType /\ r.kind = "statement" /\ r.auto \in BOOLEAN
  BY DriversRight DEF ConnectionInv, Ready
<1>2. PICK w : w = Written(c, r)
  OBVIOUS
<1>3. /\ w \in SessionStatements
      /\ r.by \in Singles => w = r.by
      /\ r.by \in Batches => w = <<r.by, c.batch[r.by].next>>
  BY <1>1, <1>2, WrittenBy DEF Written
<1>4. /\ c.work \union {w} \in SUBSET SessionStatements
      /\ c.kept \union c.work \union {w} \in SUBSET SessionStatements
      /\ c.kept \in SUBSET SessionStatements /\ c.open \in BOOLEAN
      /\ {} \in SUBSET SessionStatements /\ FALSE \in BOOLEAN
  BY <1>1, <1>3 DEF SessionType
<1>k. PICK k \in SUBSET SessionStatements : k = c.kept \union c.work \union {w}
  BY <1>4
<1>l. PICK l \in SUBSET SessionStatements : l = c.work \union {w}
  BY <1>4
<1>5. CASE isSchema /\ SchemaCommits
  <2>1. m = [c EXCEPT !.open = FALSE, !.work = {}, !.kept = k]
    BY <1>1, <1>2, <1>5, <1>k, StatementDone
  <2>2. /\ m \in SessionType /\ m.open = FALSE /\ m.work = {}
        /\ m.kept = k
        /\ m.onWay = c.onWay /\ m.link = c.link /\ m.inTransaction = c.inTransaction
        /\ m.batch = c.batch /\ m.single = c.single
    BY <1>1, <1>4, <2>1 DEF SessionType
  <2>3. ConnectionInv(D, m, h) /\ r.by \notin Batches \ h.mixed
    BY <1>1, <1>2, <1>5, <1>k, <2>2, SchemaStatement
  <2> QED
    BY <1>3, <1>k, <2>2, <2>3
<1>6. CASE ~(isSchema /\ SchemaCommits) /\ (c.open \/ ~r.auto)
  <2>1. m = [c EXCEPT !.open = c.open, !.work = l, !.kept = c.kept]
    BY <1>1, <1>2, <1>6, <1>l, StatementDone
  <2>2. /\ m \in SessionType /\ m.open = c.open /\ m.work = l
        /\ m.kept = c.kept
        /\ m.onWay = c.onWay /\ m.link = c.link /\ m.inTransaction = c.inTransaction
        /\ m.batch = c.batch /\ m.single = c.single
    BY <1>1, <1>4, <2>1 DEF SessionType
  <2>3. ConnectionInv(D, m, h)
    BY <1>1, <1>2, <1>6, <1>l, <2>2, StatementWorks
  <2>4. Transacts(D)
    BY <1>6 DEF Ready, ConnectionInv, SharedInv, OpenRight, Transacts
  <2>5. r.by \in Singles => r.by \in h.amid
    BY <1>6 DEF Ready, Outside
  <2> QED
    BY <1>3, <1>l, <2>2, <2>3, <2>4, <2>5
<1>7. CASE ~(isSchema /\ SchemaCommits) /\ ~(c.open \/ ~r.auto)
  <2>1. m = [c EXCEPT !.open = c.open, !.work = {}, !.kept = k]
    BY <1>1, <1>2, <1>7, <1>k, StatementDone
  <2>2. /\ m \in SessionType /\ m.open = c.open /\ m.work = {}
        /\ m.kept = k
        /\ m.onWay = c.onWay /\ m.link = c.link /\ m.inTransaction = c.inTransaction
        /\ m.batch = c.batch /\ m.single = c.single
    BY <1>1, <1>4, <2>1 DEF SessionType
  <2>3. ConnectionInv(D, m, h) /\ (Transacts(D) => r.by \notin Batches \ h.mixed)
    BY <1>1, <1>2, <1>7, <1>k, <2>2, StatementCommits
  <2> QED
    BY <1>3, <1>k, <2>2, <2>3
<1> QED
  BY <1>5, <1>6, <1>7

-----------------------------------------------------------------------------
(* The actions.                                                            *)

\* Who is under way is held, and what is taken is what may come next.
LEMMA SessionTerms ==
  ASSUME driver \in DOMAIN Driver, session \in SessionType
  PROVE  /\ \A b : Underway(b) <=> Held(D, session, b)
         /\ \A i \in Takeable : Next(D, session, i)
<1>1. D.inOrder \in BOOLEAN
  BY DriversRight DEF DriverRight
<1> QED
  BY <1>1 DEF Underway, Held, Runs, Waits, Takeable, Next

\* The batches that a schema statement ends are no longer answered for.
LEMMA SchemaEnds ==
  ASSUME driver \in DOMAIN Driver, session \in SessionType,
         NEW r, r.kind = "statement", InSchema(r.by) /\ SchemaCommits,
         NEW b \in Batches \ EndedBy(r)
  PROVE  ~Held(D, session, b) /\ ~AtStake(session, b)
<1>1. ~Underway(b) /\ ~\E i \in 1..BatchLength : <<b, i>> \in session.work
  BY DEF EndedBy
<1>2. ~Held(D, session, b)
  BY <1>1, SessionTerms
<1>3. ASSUME NEW s \in All(b), s \in session.work
      PROVE  FALSE
  <2>1. PICK i \in 1..BatchLength : s = <<b, i>>
    BY DEF All
  <2> QED
    BY <1>1, <1>3, <2>1
<1> QED
  BY <1>2, <1>3 DEF AtStake

\* The server takes a statement and does it.
LEMMA StatementAtServer ==
  ASSUME driver \in DOMAIN Driver, ConnectionInv(D, session, history),
         NEW i \in Takeable, session.onWay[i].kind = "statement",
         NEW k \in HistoryType, history.amid \subseteq k.amid, history.cut \subseteq k.cut,
         history.mixed \union EndedBy(session.onWay[i]) \subseteq k.mixed,
         NEW m, m = Processed(Taken(session, i), session.onWay[i], InSchema(session.onWay[i].by))
  PROVE  LET r == session.onWay[i]
         IN /\ ConnectionInv(D, m, k) /\ Shorter(session.onWay, m.onWay, i) /\ ~Waits(m, r.by)
            /\ m.link = session.link /\ m.batch = session.batch /\ m.single = session.single
            /\ r.by \in Singles => r.by \in m.kept \/ (Transacts(D) /\ r.by \in k.amid)
            /\ r.by \in Batches =>
                 /\ session.batch[r.by].at = "running" /\ session.batch[r.by].next <= BatchLength
                 /\ \/ r.by \in k.mixed \/ ~Transacts(D)
                    \/ <<r.by, session.batch[r.by].next>> \in m.work
            /\ r.by \in Singles \/ r.by \in Batches
<1> DEFINE r == session.onWay[i]
<1>1. DriverRight(D) /\ session \in SessionType /\ Next(D, session, i)
      /\ i \in DOMAIN session.onWay
  BY DriversRight, SessionTerms DEF ConnectionInv, Next
<1>2. PICK c : c = Taken(session, i)
  OBVIOUS
<1>3. /\ c \in SessionType /\ Shorter(session.onWay, c.onWay, i) /\ SameServer(session, c)
      /\ c.link = session.link /\ c.inTransaction = session.inTransaction
      /\ c.batch = session.batch
  BY <1>1, <1>2, TakenOff
<1>4. ConnectionInv(D, session, k)
  BY HistoryGrows
<1>5. ConnectionInv(D, c, k)
  BY <1>1, <1>3, <1>4, StatementTaken DEF SameServer
<1>6. Ready(D, c, k, r)
  BY <1>1, <1>3, <1>4, StatementReady DEF SameServer
<1>7. InSchema(r.by) \in BOOLEAN
  BY DEF InSchema
<1>8. ASSUME InSchema(r.by) /\ SchemaCommits, NEW b \in Batches \ k.mixed
      PROVE  ~Held(D, c, b) /\ ~AtStake(c, b)
  <2>1. ~Held(D, session, b) /\ ~AtStake(session, b)
    BY <1>1, <1>8, SchemaEnds
  <2>2. Waits(c, b) => Waits(session, b)
    BY <1>3, Stay DEF Waits
  <2> QED
    BY <1>3, <2>1, <2>2 DEF Held, Runs, AtStake, SameServer
<1>9. m = Processed(c, r, InSchema(r.by))
  BY <1>2
<1>10. /\ ConnectionInv(D, m, k)
       /\ m.onWay = c.onWay /\ m.link = c.link /\ m.batch = c.batch /\ m.single = c.single
       /\ r.by \in Singles => r.by \in m.kept \/ (Transacts(D) /\ r.by \in k.amid)
       /\ r.by \in Batches =>
            r.by \in k.mixed \/ ~Transacts(D) \/ <<r.by, c.batch[r.by].next>> \in m.work
  BY <1>5, <1>6, <1>7, <1>8, <1>9, StatementServed
<1>11. ~Waits(m, r.by)
  BY <1>6, <1>10 DEF Ready, Waits
<1> QED
  BY <1>3, <1>6, <1>10, <1>11 DEF Ready, Callers, SameServer

\* The batch runs.
Running(c, x) == [c EXCEPT !.batch[x].at = "running"]

\* The server begins a transaction; the batch runs.
LEMMA BeginAtServer ==
  ASSUME driver \in DOMAIN Driver, ConnectionInv(D, session, history),
         NEW i \in Takeable, session.onWay[i].kind = "begin",
         NEW isSchema \in BOOLEAN,
         NEW m, m = Processed(Taken(session, i), session.onWay[i], isSchema),
         NEW e, e = Running(m, session.onWay[i].by)
  PROVE  LET x == session.onWay[i].by
         IN /\ ConnectionInv(D, e, history) /\ Shorter(session.onWay, e.onWay, i) /\ ~Waits(e, x)
            /\ x \in Batches /\ session.batch[x].at = "begin" /\ session.batch[x].next = 1
            /\ e.batch = [session.batch EXCEPT ![x].at = "running"]
            /\ e.link = session.link /\ e.single = session.single /\ e.kept = m.kept
<1> DEFINE x == session.onWay[i].by
<1>1. DriverRight(D) /\ session \in SessionType /\ Next(D, session, i)
      /\ i \in DOMAIN session.onWay
  BY DriversRight, SessionTerms DEF ConnectionInv, Next
<1>2. PICK c : c = Taken(session, i)
  OBVIOUS
<1>3. /\ c \in SessionType /\ Shorter(session.onWay, c.onWay, i) /\ SameServer(session, c)
      /\ c.link = session.link /\ c.inTransaction = session.inTransaction
      /\ c.batch = session.batch
  BY <1>1, <1>2, TakenOff
<1>4. x \in Batches /\ session.batch[x].at = "begin" /\ session.batch[x].next = 1
  BY <1>1 DEF ConnectionInv, SharedInv, QueueRight, RequestRight, NextRight
<1>5. /\ m \in SessionType /\ m.open = TRUE /\ m.onWay = c.onWay /\ m.link = c.link
      /\ m.inTransaction = c.inTransaction /\ m.batch = c.batch /\ m.single = c.single
      /\ \/ m.work = c.work /\ m.kept = c.kept
         \/ m.work = {} /\ m.kept = c.kept \union c.work /\ D.inOrder
  <2>1. CASE BeginCommits
    <3>1. m = [c EXCEPT !.kept = c.kept \union c.work \union {}, !.work = {}, !.open = TRUE]
      BY <1>2, <1>3, <2>1 DEF Processed, Committed, SessionType
    <3>2. PICK k \in SUBSET SessionStatements : k = c.kept \union c.work \union {}
      BY <1>3 DEF SessionType
    <3>3. m = [c EXCEPT !.kept = k, !.work = {}, !.open = TRUE]
      BY <3>1, <3>2
    <3>4. D.inOrder /\ k = c.kept \union c.work
      BY <2>1, <3>2, DriversRight
    <3> QED
      BY <1>3, <3>3, <3>4 DEF SessionType
  <2>2. CASE ~BeginCommits
    <3>1. m = [c EXCEPT !.open = TRUE]
      BY <1>2, <2>2 DEF Processed
    <3> QED
      BY <1>3, <3>1 DEF SessionType
  <2> QED
    BY <2>1, <2>2
<1>6. /\ e \in SessionType
      /\ e.batch = [m.batch EXCEPT ![x].at = "running"]
      /\ SameServer(m, e) /\ e.onWay = m.onWay
      /\ e.link = m.link /\ e.inTransaction = m.inTransaction
  BY <1>4, <1>5, BatchAt DEF Running
<1>7. /\ Shorter(session.onWay, e.onWay, i) /\ e.link = session.link
      /\ e.inTransaction = session.inTransaction /\ e.open = TRUE /\ e.single = session.single
      /\ e.batch = [session.batch EXCEPT ![x].at = "running"] /\ e.kept = m.kept
      /\ \/ e.work = session.work /\ e.kept = session.kept
         \/ e.work = {} /\ e.kept = session.kept \union session.work /\ D.inOrder
  BY <1>3, <1>5, <1>6 DEF SameServer
<1>8. ConnectionInv(D, e, history) /\ ~Waits(e, x)
  BY <1>1, <1>6, <1>7, BeginServed
<1> QED
  BY <1>4, <1>7, <1>8

\* The driver hears that a transaction has ended.
EndHeard(c) == [c EXCEPT !.inTransaction = @ /\ D.begin # "flag"]

\* The server ends a transaction, and the driver hears of it.
LEMMA EndAtServer ==
  ASSUME driver \in DOMAIN Driver, ConnectionInv(D, session, history),
         NEW i \in Takeable, IsEnd(session.onWay[i]),
         NEW isSchema \in BOOLEAN,
         NEW m, m = Processed(Taken(session, i), session.onWay[i], isSchema),
         NEW e, e = EndHeard(m)
  PROVE  /\ ConnectionInv(D, e, history) /\ Shorter(session.onWay, e.onWay, i)
         /\ e.batch = session.batch
         /\ e.link = session.link /\ e.single = session.single /\ e.kept = m.kept
<1> DEFINE r == session.onWay[i]
<1>1. DriverRight(D) /\ session \in SessionType /\ Next(D, session, i)
      /\ i \in DOMAIN session.onWay
  BY DriversRight, SessionTerms DEF ConnectionInv, Next
<1>2. PICK c : c = Taken(session, i)
  OBVIOUS
<1>3. /\ c \in SessionType /\ Shorter(session.onWay, c.onWay, i) /\ SameServer(session, c)
      /\ c.link = session.link /\ c.inTransaction = session.inTransaction
      /\ c.batch = session.batch
  BY <1>1, <1>2, TakenOff
<1>4. PICK k \in SUBSET SessionStatements :
        k = IF r.kind = "commit" THEN c.kept \union c.work ELSE c.kept
  BY <1>3 DEF SessionType
<1>5. m = [c EXCEPT !.open = FALSE, !.work = {}, !.kept = k]
  <2>1. CASE r.kind = "commit"
    <3>1. m = [c EXCEPT !.kept = c.kept \union c.work \union {}, !.work = {}, !.open = FALSE]
      BY <1>2, <1>3, <2>1 DEF Processed, Committed, SessionType
    <3>2. c.kept \union c.work \union {} = k
      BY <1>4, <2>1
    <3> QED
      BY <1>3, <3>1, <3>2 DEF SessionType
  <2>2. CASE r.kind = "rollback"
    <3>1. m = [c EXCEPT !.work = {}, !.open = FALSE]
      BY <1>2, <2>2 DEF Processed
    <3> QED
      BY <1>3, <1>4, <2>2, <3>1 DEF SessionType
  <2> QED
    BY <2>1, <2>2 DEF IsEnd
<1>6. /\ m \in SessionType /\ m.open = FALSE /\ m.work = {} /\ m.kept = k
      /\ m.onWay = c.onWay /\ m.link = c.link
      /\ m.inTransaction = c.inTransaction /\ m.batch = c.batch /\ m.single = c.single
  BY <1>3, <1>5 DEF SessionType
<1>7. PICK flag \in BOOLEAN : flag = (m.inTransaction /\ D.begin # "flag")
  OBVIOUS
<1>8. e = [m EXCEPT !.inTransaction = flag]
  BY <1>6, <1>7 DEF SessionType, EndHeard
<1>9. /\ e \in SessionType
      /\ SameServer(m, e) /\ e.onWay = m.onWay /\ e.batch = m.batch
      /\ e.link = m.link /\ e.inTransaction = flag
  <2>1. /\ e \in SessionType
        /\ SameServer(m, e) /\ e.onWay = m.onWay /\ e.batch = m.batch /\ e.link = m.link
    BY <1>6, <1>8 DEF SessionType, SameServer
  <2>2. e.inTransaction = flag
    BY <1>6, <1>8 DEF SessionType
  <2> QED
    BY <2>1, <2>2
<1>10. /\ Shorter(session.onWay, e.onWay, i) /\ e.link = session.link
       /\ e.inTransaction => session.inTransaction /\ D.begin # "flag"
       /\ e.open = FALSE /\ e.work = {} /\ e.single = session.single /\ e.batch = session.batch
       /\ e.kept = IF r.kind = "commit" THEN session.kept \union session.work ELSE session.kept
       /\ e.kept = m.kept
  BY <1>3, <1>4, <1>6, <1>7, <1>9 DEF SameServer
<1>11. ConnectionInv(D, e, history)
  BY <1>1, <1>9, <1>10, EndServed
<1> QED
  BY <1>10, <1>11

\* A single statement is somewhere else.
SingleIs(c, q, to) == [c EXCEPT !.single[q] = to]

\* A single statement has its answer, and nothing else has happened.
LEMMA SingleTold ==
  ASSUME NEW d, NEW c, NEW h, ConnectionInv(d, c, h),
         NEW q \in Singles, ~Waits(c, q), NEW answer, answer = "ok" \/ answer = "failed",
         answer = "ok" => q \in c.kept \/ (Transacts(d) /\ q \in h.amid),
         NEW e, e = SingleIs(c, q, answer)
  PROVE  ConnectionInv(d, e, h)
<1>1. c \in SessionType
  BY DEF ConnectionInv
<1>2. PICK m : m = [c.single EXCEPT ![q] = answer]
  OBVIOUS
<1>3. m \in [Singles -> {"idle", "sent", "ok", "failed"}]
  BY <1>1, <1>2 DEF SessionType
<1>4. e = [c EXCEPT !.single = m]
  BY <1>1, <1>2 DEF SessionType, SingleIs
<1>5. /\ e \in SessionType /\ e.single = m
      /\ e.link = c.link /\ e.inTransaction = c.inTransaction /\ e.open = c.open
      /\ e.work = c.work /\ e.onWay = c.onWay /\ e.kept = c.kept /\ e.batch = c.batch
  BY <1>1, <1>3, <1>4 DEF SessionType
<1>6. answer \in {"ok", "failed"}
  OBVIOUS
<1> QED
  BY <1>2, <1>5, <1>6, SingleAnswered

\* A statement of a batch is done, and the batch goes on.
LEMMA BatchGoesOn ==
  ASSUME driver \in DOMAIN Driver, NEW c, NEW h, ConnectionInv(D, c, h),
         NEW x \in Batches, c.batch[x].at = "running", ~Waits(c, x), c.batch[x].next <= BatchLength,
         x \in h.mixed \/ ~Transacts(D) \/ <<x, c.batch[x].next>> \in c.work,
         NEW e, e = [c EXCEPT !.batch[x].next = @ + 1],
         NEW f, f = NextOfBatch(e, x),
         f.batch[x].at = "resolved" /\ c.link # "open" => x \in h.cut
  PROVE  ConnectionInv(D, f, h)
<1>1. c \in SessionType
  BY DEF ConnectionInv
<1>2. c.batch \in [Batches -> [at : {"idle", "begin", "running", "resolved", "rejected"},
                              next : 1..BatchLength + 1]]
  BY <1>1 DEF SessionType
<1>n. c.batch[x].next + 1 \in 1..BatchLength + 1
  BY <1>2, SqlSessionsAssumption
<1>3. PICK m : m = [c.batch EXCEPT ![x].next = @ + 1]
  OBVIOUS
<1>4. m \in [Batches -> [at : {"idle", "begin", "running", "resolved", "rejected"},
                        next : 1..BatchLength + 1]]
  BY <1>2, <1>3, <1>n
<1>5. e = [c EXCEPT !.batch = m]
  BY <1>1, <1>3 DEF SessionType
<1>6. /\ e \in SessionType /\ e.batch = [c.batch EXCEPT ![x].next = @ + 1]
      /\ e.link = c.link /\ e.inTransaction = c.inTransaction /\ e.open = c.open
      /\ e.work = c.work /\ e.onWay = c.onWay /\ e.kept = c.kept /\ e.single = c.single
  BY <1>1, <1>3, <1>4, <1>5 DEF SessionType
<1>7. ConnectionInv(D, e, h)
  BY <1>6, StatementCounted
<1>8. e.batch[x].at = "running" /\ ~Waits(e, x)
  BY <1>2, <1>6 DEF Waits
<1>9. e.batch[x].next > BatchLength /\ e.link # "open" => f.batch[x].at = "resolved"
  <2> SUFFICES ASSUME e.batch[x].next > BatchLength, e.link # "open"
               PROVE  f.batch[x].at = "resolved"
    OBVIOUS
  <2>1. PICK g : g = [e EXCEPT !.batch[x].at = "resolved"]
    OBVIOUS
  <2>2. /\ g \in SessionType /\ g.batch = [e.batch EXCEPT ![x].at = "resolved"]
        /\ g.link = e.link
    BY <1>6, <2>1, BatchAt
  <2>3. f = [g EXCEPT !.inTransaction = FALSE]
    BY <2>1, <2>2 DEF NextOfBatch, Commit
  <2>4. f.batch = g.batch
    BY <2>2, <2>3 DEF SessionType
  <2>5. e.batch \in [Batches -> [at : {"idle", "begin", "running", "resolved", "rejected"},
                                next : 1..BatchLength + 1]]
    BY <1>6 DEF SessionType
  <2> QED
    BY <2>2, <2>4, <2>5
<1>10. e.batch[x].next > BatchLength /\ e.link # "open" => x \in h.cut \union h.mixed
  BY <1>6, <1>9
<1> QED
  BY <1>7, <1>8, <1>10, NextOfBatchInv

\* The server does what was asked.
LEMMA SuccessKeeps ==
  ASSUME driver \in DOMAIN Driver, ConnectionInv(D, session, history),
         NEW i \in Takeable, RequestSucceeds(i)
  PROVE  ConnectionInv(D, session', history')
<1> DEFINE r == session.onWay[i]
<1>1. PICK m : m = Processed(Taken(session, i), r, InSchema(r.by))
  OBVIOUS
<1>2. session' = RequestAnswered(m, r, TRUE)
  BY <1>1 DEF RequestSucceeds
<1>3. PICK gone \in SUBSET Batches :
        gone = IF session.link = "open" THEN {} ELSE Resolved(session') \ Resolved(session)
  BY DEF Resolved
<1>4. history' = [history EXCEPT !.mixed = @ \union EndedBy(r), !.cut = @ \union gone]
  BY <1>3 DEF RequestSucceeds
<1>5. EndedBy(r) \in SUBSET Batches
  BY DEF EndedBy
<1>6. PICK k : k = history'
  OBVIOUS
<1>7. /\ k \in HistoryType /\ history.amid \subseteq k.amid /\ history.cut \subseteq k.cut
      /\ history.mixed \subseteq k.mixed
      /\ history.mixed \union EndedBy(r) \subseteq k.mixed /\ gone \subseteq k.cut
  <2>1. history \in HistoryType
    BY DEF ConnectionInv
  <2>2. PICK x \in SUBSET Batches : x = EndedBy(r)
    BY <1>5
  <2>3. k = [history EXCEPT !.mixed = history.mixed \union x, !.cut = history.cut \union gone]
    BY <1>4, <1>6, <2>1, <2>2 DEF HistoryType
  <2>4. k \in HistoryType /\ k.amid = history.amid /\ k.cut = history.cut \union gone
        /\ k.mixed = history.mixed \union x
    BY <2>1, <2>3 DEF HistoryType
  <2> QED
    BY <2>2, <2>4
<1>8. InSchema(r.by) \in BOOLEAN /\ i \in DOMAIN session.onWay
  BY DEF InSchema, Takeable
<1>9. r.kind \in {"begin", "statement", "commit", "rollback"}
  BY <1>8, RequestsTyped DEF ConnectionInv
<1>10. CASE r.kind = "begin"
  <2>1. PICK e : e = Running(m, r.by)
    OBVIOUS
  <2>2. session' = NextOfBatch(e, r.by)
    BY <1>2, <1>10, <2>1 DEF RequestAnswered, Begun, Running
  <2>3. /\ ConnectionInv(D, e, history) /\ ~Waits(e, r.by) /\ r.by \in Batches
        /\ session.batch[r.by].next = 1 /\ e.batch = [session.batch EXCEPT ![r.by].at = "running"]
    BY <1>1, <1>8, <1>10, <2>1, BeginAtServer
  <2>4. e.batch[r.by].at = "running" /\ e.batch[r.by].next = 1
    BY <2>3 DEF ConnectionInv, SessionType
  <2>5. ConnectionInv(D, e, k)
    BY <1>7, <2>3, HistoryGrows
  <2>6. ~(e.batch[r.by].next > BatchLength)
    BY <2>4, SqlSessionsAssumption
  <2> QED
    BY <1>6, <2>2, <2>3, <2>4, <2>5, <2>6, NextOfBatchInv
<1>11. CASE IsEnd(r)
  <2>1. session' = EndHeard(m)
    BY <1>2, <1>11 DEF RequestAnswered, IsEnd, EndHeard
  <2>2. ConnectionInv(D, session', history)
    BY <1>1, <1>8, <1>11, <2>1, EndAtServer
  <2> QED
    BY <1>6, <1>7, <2>2, HistoryGrows
<1>12. CASE r.kind = "statement"
  <2>1. /\ ConnectionInv(D, m, k) /\ ~Waits(m, r.by)
        /\ m.link = session.link /\ m.batch = session.batch /\ m.single = session.single
        /\ r.by \in Singles => r.by \in m.kept \/ (Transacts(D) /\ r.by \in k.amid)
        /\ r.by \in Batches =>
             /\ session.batch[r.by].at = "running" /\ session.batch[r.by].next <= BatchLength
             /\ \/ r.by \in k.mixed \/ ~Transacts(D)
                \/ <<r.by, session.batch[r.by].next>> \in m.work
        /\ r.by \in Singles \/ r.by \in Batches
    BY <1>1, <1>7, <1>12, StatementAtServer
  <2>2. CASE r.by \in Singles
    <3>1. session' = SingleIs(m, r.by, "ok")
      <4>1. r.by \notin Batches
        BY <2>2, SqlSessionsAssumption
      <4> QED
        BY <1>2, <1>12, <2>2, <4>1 DEF RequestAnswered, SingleIs
    <3>2. PICK e : e = session'
      OBVIOUS
    <3>3. e = SingleIs(m, r.by, "ok")
      BY <3>1, <3>2
    <3>4. ConnectionInv(D, e, k)
      BY <2>1, <2>2, <3>3, SingleTold
    <3> QED
      BY <1>6, <3>2, <3>4
  <2>3. CASE r.by \in Batches
    <3>1. r.by \notin Singles
      BY <2>3, SqlSessionsAssumption
    <3>2. PICK e : e = [m EXCEPT !.batch[r.by].next = @ + 1]
      OBVIOUS
    <3>3. session' = NextOfBatch(e, r.by)
      BY <1>2, <1>12, <2>3, <3>1, <3>2 DEF RequestAnswered
    <3>4. PICK f : f = session'
      OBVIOUS
    <3>5. f.batch[r.by].at = "resolved" /\ m.link # "open" => r.by \in k.cut
      BY <1>3, <1>7, <2>1, <2>3, <3>4 DEF Resolved
    <3>6. ConnectionInv(D, f, k)
      BY <2>1, <2>3, <3>2, <3>3, <3>4, <3>5, BatchGoesOn
    <3> QED
      BY <1>6, <3>4, <3>6
  <2> QED
    BY <2>1, <2>2, <2>3
<1> QED
  BY <1>9, <1>10, <1>11, <1>12 DEF IsEnd

\* A connection is ended, by end() or by a failed query.
LEMMA EndedKeeps ==
  ASSUME NEW d, NEW c, NEW h, ConnectionInv(d, c, h),
         NEW e, e = [c EXCEPT !.link = "ending"]
  PROVE  ConnectionInv(d, e, h) /\ e.onWay = c.onWay /\ e.batch = c.batch
<1>1. c \in SessionType
  BY DEF ConnectionInv
<1>2. /\ e \in SessionType /\ e.link = "ending"
      /\ e.inTransaction = c.inTransaction /\ e.onWay = c.onWay /\ e.open = c.open
      /\ e.work = c.work /\ e.kept = c.kept /\ e.single = c.single /\ e.batch = c.batch
  BY <1>1 DEF SessionType
<1> QED
  BY <1>2, LinkEnds

\* A failed query ends the connection or leaves it.
LEMMA ErrorKeeps ==
  ASSUME NEW c, NEW h, ConnectionInv(D, c, h), NEW e, e = AfterError(c)
  PROVE  ConnectionInv(D, e, h) /\ e.onWay = c.onWay /\ e.batch = c.batch
<1>1. CASE D.onError = "ends" /\ c.link = "open"
  BY <1>1, EndedKeeps DEF AfterError
<1>2. CASE ~(D.onError = "ends" /\ c.link = "open")
  BY <1>2 DEF AfterError
<1> QED
  BY <1>1, <1>2

\* The server refuses a statement.
LEMMA RefusalKeeps ==
  ASSUME driver \in DOMAIN Driver, ConnectionInv(D, session, history),
         NEW i \in Takeable, StatementRefused(i)
  PROVE  ConnectionInv(D, session', history')
<1> DEFINE r == session.onWay[i]
<1>1. /\ DriverRight(D) /\ session \in SessionType /\ Next(D, session, i)
      /\ i \in DOMAIN session.onWay /\ r.kind = "statement" /\ history' = history
  BY DriversRight, SessionTerms DEF ConnectionInv, Next, StatementRefused
<1>2. PICK c : c = Taken(session, i)
  OBVIOUS
<1>3. /\ c \in SessionType /\ Shorter(session.onWay, c.onWay, i) /\ SameServer(session, c)
      /\ c.link = session.link /\ c.inTransaction = session.inTransaction
      /\ c.batch = session.batch
  BY <1>1, <1>2, TakenOff
<1>4. ConnectionInv(D, c, history)
  BY <1>1, <1>3, StatementTaken DEF SameServer
<1>5. Ready(D, c, history, r)
  BY <1>1, <1>3, StatementReady DEF SameServer
<1>6. ~Waits(c, r.by) /\ (r.by \in Singles \/ r.by \in Batches)
      /\ (r.by \in Batches => c.batch[r.by].at = "running")
  BY <1>5 DEF Ready, Callers
<1>7. session' = RequestAnswered(c, r, FALSE)
  BY <1>2 DEF StatementRefused
<1>8. CASE r.by \in Singles
  <2>1. r.by \notin Batches
    BY <1>8, SqlSessionsAssumption
  <2>2. PICK e : e = SingleIs(c, r.by, "failed")
    OBVIOUS
  <2>3. session' = AfterError(e)
    BY <1>1, <1>7, <1>8, <2>1, <2>2 DEF RequestAnswered, SingleIs
  <2>4. ConnectionInv(D, e, history)
    BY <1>4, <1>6, <1>8, <2>2, SingleTold
  <2> QED
    BY <1>1, <2>3, <2>4, ErrorKeeps
<1>9. CASE r.by \in Batches
  <2>1. r.by \notin Singles
    BY <1>9, SqlSessionsAssumption
  <2>2. PICK e : e = AfterError(c)
    OBVIOUS
  <2>3. session' = Rejected(e, r.by)
    BY <1>1, <1>7, <1>9, <2>1, <2>2 DEF RequestAnswered
  <2>4. ConnectionInv(D, e, history) /\ e.onWay = c.onWay /\ e.batch = c.batch
    BY <1>4, <2>2, ErrorKeeps
  <2>5. ~Waits(e, r.by) /\ e.batch[r.by].at = "running"
    BY <1>6, <1>9, <2>4 DEF Waits
  <2> QED
    BY <1>1, <1>9, <2>3, <2>4, <2>5, RejectedInv
<1> QED
  BY <1>6, <1>8, <1>9

\* What is kept when the server has done what was asked of it.
Keeps(c, r, isSchema) ==
  IF \/ r.kind = "rollback"
     \/ r.kind = "begin" /\ ~BeginCommits
     \/ r.kind = "statement" /\ ~(isSchema /\ SchemaCommits) /\ (c.open \/ ~r.auto)
  THEN c.kept
  ELSE c.kept \union c.work \union (IF r.kind = "statement" THEN {Written(c, r)} ELSE {})

\* The server changes nothing but the transaction, its work and what is kept.
LEMMA ServerKeeps ==
  ASSUME NEW c \in SessionType, NEW r, NEW isSchema \in BOOLEAN,
         r.kind \in {"begin", "statement", "commit", "rollback"}
  PROVE  \E open, work : Processed(c, r, isSchema) =
           [c EXCEPT !.open = open, !.work = work, !.kept = Keeps(c, r, isSchema)]
<1>1. PICK k : k = Keeps(c, r, isSchema)
  OBVIOUS
<1>2. CASE r.kind = "statement"
  <2>1. PICK w : w = {Written(c, r)}
    OBVIOUS
  <2>2. k = IF ~(isSchema /\ SchemaCommits) /\ (c.open \/ ~r.auto) THEN c.kept
            ELSE c.kept \union c.work \union w
    BY <1>1, <1>2, <2>1 DEF Keeps
  <2>3. Processed(c, r, isSchema) =
           IF isSchema /\ SchemaCommits
             THEN [c EXCEPT !.open = FALSE, !.work = {}, !.kept = c.kept \union c.work \union w]
           ELSE IF c.open \/ ~r.auto
             THEN [c EXCEPT !.open = c.open, !.work = c.work \union w, !.kept = c.kept]
           ELSE [c EXCEPT !.open = c.open, !.work = {}, !.kept = c.kept \union c.work \union w]
    BY <1>2, <2>1, StatementDone
  <2> QED
    BY <1>1, <2>2, <2>3
<1>3. CASE r.kind = "begin" /\ BeginCommits
  <2>1. Processed(c, r, isSchema)
          = [c EXCEPT !.open = TRUE, !.work = {}, !.kept = c.kept \union c.work \union {}]
    BY <1>3 DEF Processed, Committed, SessionType
  <2>2. k = c.kept \union c.work \union {}
    BY <1>1, <1>3 DEF Keeps
  <2> QED
    BY <1>1, <2>1, <2>2
<1>4. CASE r.kind = "begin" /\ ~BeginCommits
  <2>1. Processed(c, r, isSchema) = [c EXCEPT !.open = TRUE]
    BY <1>4 DEF Processed
  <2>2. Processed(c, r, isSchema) = [c EXCEPT !.open = TRUE, !.work = c.work, !.kept = c.kept]
    BY <2>1 DEF SessionType
  <2>3. k = c.kept
    BY <1>1, <1>4 DEF Keeps
  <2> QED
    BY <1>1, <2>2, <2>3
<1>5. CASE r.kind = "commit"
  <2>1. Processed(c, r, isSchema)
          = [c EXCEPT !.open = FALSE, !.work = {}, !.kept = c.kept \union c.work \union {}]
    BY <1>5 DEF Processed, Committed, SessionType
  <2>2. k = c.kept \union c.work \union {}
    BY <1>1, <1>5 DEF Keeps
  <2> QED
    BY <1>1, <2>1, <2>2
<1>6. CASE r.kind = "rollback"
  <2>1. Processed(c, r, isSchema) = [c EXCEPT !.open = FALSE, !.work = {}]
    BY <1>6 DEF Processed, SessionType
  <2>2. Processed(c, r, isSchema) = [c EXCEPT !.open = FALSE, !.work = {}, !.kept = c.kept]
    BY <2>1 DEF SessionType
  <2>3. k = c.kept
    BY <1>1, <1>6 DEF Keeps
  <2> QED
    BY <1>1, <2>2, <2>3
<1> QED
  BY <1>2, <1>3, <1>4, <1>5, <1>6

\* It is the same whether the request is still on the queue or off it.
LEMMA KeptOffQueue ==
  ASSUME NEW c \in SessionType, NEW i \in DOMAIN c.onWay, NEW r, NEW isSchema \in BOOLEAN,
         r.kind \in {"begin", "statement", "commit", "rollback"}
  PROVE  /\ Processed(Taken(c, i), r, isSchema).kept = Keeps(c, r, isSchema)
<1>1. PICK e : e = Taken(c, i)
  OBVIOUS
<1>2. e \in SessionType /\ SameServer(c, e) /\ e.batch = c.batch
  BY <1>1, TakenOff
<1>3. PICK open, work : Processed(e, r, isSchema) =
           [e EXCEPT !.open = open, !.work = work, !.kept = Keeps(e, r, isSchema)]
  BY <1>2, ServerKeeps
<1>4. Written(e, r) = Written(c, r)
  BY <1>2 DEF Written
<1>5. Keeps(e, r, isSchema) = Keeps(c, r, isSchema)
  BY <1>2, <1>4 DEF Keeps, SameServer
<1>6. PICK k : k = Keeps(e, r, isSchema)
  OBVIOUS
<1>7. Processed(e, r, isSchema).kept = k
  BY <1>2, <1>3, <1>6 DEF SessionType
<1> QED
  BY <1>1, <1>5, <1>6, <1>7

\* What the server took last, if anything, it did; s is what would be there if
\* it could still be said.
LEMMA DoneLast ==
  ASSUME driver \in DOMAIN Driver, ConnectionInv(D, session, history),
         NEW last \in Takeable,
         NEW k \in HistoryType, history.amid \subseteq k.amid, history.cut \subseteq k.cut,
         history.mixed \union EndedBy(session.onWay[last]) \subseteq k.mixed
  PROVE  \E s :
           /\ ConnectionInv(D, s, k)
           /\ s.kept = Keeps(session, session.onWay[last], InSchema(session.onWay[last].by))
           /\ s.single = session.single /\ Shorter(session.onWay, s.onWay, last)
           /\ \/ s.batch = session.batch
              \/ \E x \in Batches : /\ session.batch[x].at = "begin" /\ D.begin = "request"
                                    /\ s.batch = [session.batch EXCEPT ![x].at = "running"]
<1> DEFINE r == session.onWay[last]
<1>1. session \in SessionType /\ last \in DOMAIN session.onWay /\ InSchema(r.by) \in BOOLEAN
  BY DEF ConnectionInv, Takeable, InSchema
<1>2. r.kind \in {"begin", "statement", "commit", "rollback"}
  BY <1>1, RequestsTyped
<1>3. PICK m : m = Processed(Taken(session, last), r, InSchema(r.by))
  OBVIOUS
<1>4. m.kept = Keeps(session, r, InSchema(r.by))
  BY <1>1, <1>2, <1>3, KeptOffQueue
<1>5. CASE r.kind = "statement"
  <2>1. /\ ConnectionInv(D, m, k) /\ Shorter(session.onWay, m.onWay, last)
        /\ m.batch = session.batch /\ m.single = session.single
    BY <1>3, <1>5, StatementAtServer
  <2> QED
    BY <1>4, <2>1
<1>6. CASE r.kind = "begin"
  <2>1. PICK e : e = Running(m, r.by)
    OBVIOUS
  <2>2. /\ ConnectionInv(D, e, history) /\ Shorter(session.onWay, e.onWay, last)
        /\ r.by \in Batches /\ session.batch[r.by].at = "begin"
        /\ e.batch = [session.batch EXCEPT ![r.by].at = "running"]
        /\ e.single = session.single /\ e.kept = m.kept
    BY <1>1, <1>3, <1>6, <2>1, BeginAtServer
  <2>3. D.begin = "request"
    BY <1>1, <1>6 DEF ConnectionInv, SharedInv, QueueRight, RequestRight
  <2>4. ConnectionInv(D, e, k)
    BY <2>2, HistoryGrows
  <2> QED
    BY <1>4, <2>2, <2>3, <2>4
<1>7. CASE IsEnd(r)
  <2>1. PICK e : e = EndHeard(m)
    OBVIOUS
  <2>2. /\ ConnectionInv(D, e, history) /\ Shorter(session.onWay, e.onWay, last)
        /\ e.batch = session.batch /\ e.single = session.single /\ e.kept = m.kept
    BY <1>1, <1>3, <1>7, <2>1, EndAtServer
  <2>3. ConnectionInv(D, e, k)
    BY <2>2, HistoryGrows
  <2> QED
    BY <1>4, <2>2, <2>3
<1> QED
  BY <1>2, <1>5, <1>6, <1>7 DEF IsEnd

\* The connection is gone.
LEMMA LossKeeps ==
  ASSUME driver \in DOMAIN Driver, ConnectionInv(D, session, history),
         NEW last \in Takeable \union {0}, ConnectionLost(last)
  PROVE  ConnectionInv(D, session', history')
<1> DEFINE r == session.onWay[last]
           Commits == {b \in Batches : \E i \in DOMAIN session.onWay :
                         session.onWay[i].by = b /\ session.onWay[i].kind = "commit"}
           Gone(to) == IF to = "running" \/ (to = "begin" /\ D.begin # "nothing")
                       THEN "rejected" ELSE to
<1>t. session \in SessionType /\ history \in HistoryType
  BY DEF ConnectionInv
<1>1. PICK k : k = history'
  OBVIOUS
<1>2. PICK ended \in SUBSET Batches : ended = IF last = 0 THEN {} ELSE EndedBy(r)
  BY DEF EndedBy
<1>3. PICK cut \in SUBSET Batches : cut = Commits
  OBVIOUS
<1>4. k = [history EXCEPT !.cut = history.cut \union cut, !.mixed = history.mixed \union ended]
  BY <1>1, <1>2, <1>3, <1>t DEF ConnectionLost, HistoryType
<1>5. /\ k \in HistoryType /\ k.amid = history.amid /\ k.cut = history.cut \union cut
      /\ k.mixed = history.mixed \union ended
  BY <1>2, <1>3, <1>4, <1>t DEF HistoryType
<1>6. PICK c : c = IF last = 0 THEN session ELSE Processed(session, r, InSchema(r.by))
  OBVIOUS
<1>7. PICK e : e = session'
  OBVIOUS
<1>8. PICK s :
        /\ ConnectionInv(D, s, k) /\ s.single = session.single
        /\ \A i \in DOMAIN s.onWay : \E j \in DOMAIN session.onWay : s.onWay[i] = session.onWay[j]
        /\ s.kept = IF last = 0 THEN session.kept ELSE Keeps(session, r, InSchema(r.by))
        /\ \/ s.batch = session.batch
           \/ \E x \in Batches : /\ session.batch[x].at = "begin" /\ D.begin = "request"
                                 /\ s.batch = [session.batch EXCEPT ![x].at = "running"]
  <2>1. CASE last = 0
    <3>1. ConnectionInv(D, session, k)
      BY <1>5, HistoryGrows
    <3> QED
      BY <2>1, <3>1
  <2>2. CASE last # 0
    <3>1. last \in Takeable /\ history.mixed \union EndedBy(r) \subseteq k.mixed
          /\ history.amid \subseteq k.amid /\ history.cut \subseteq k.cut
      BY <1>2, <1>5, <2>2
    <3>2. PICK s :
           /\ ConnectionInv(D, s, k)
           /\ s.kept = Keeps(session, r, InSchema(r.by))
           /\ s.single = session.single /\ Shorter(session.onWay, s.onWay, last)
           /\ \/ s.batch = session.batch
              \/ \E x \in Batches : /\ session.batch[x].at = "begin" /\ D.begin = "request"
                                    /\ s.batch = [session.batch EXCEPT ![x].at = "running"]
      BY <1>5, <3>1, DoneLast
    <3>3. \A i \in DOMAIN s.onWay : \E j \in DOMAIN session.onWay : s.onWay[i] = session.onWay[j]
      BY <3>2, Stay
    <3> QED
      BY <2>2, <3>2, <3>3
  <2> QED
    BY <2>1, <2>2
<1>9. PICK kept \in SUBSET SessionStatements : kept = s.kept
  BY <1>8 DEF ConnectionInv, SessionType
<1>10. PICK open, work : c = [session EXCEPT !.open = open, !.work = work, !.kept = kept]
  <2>1. CASE last = 0
    <3>1. c = [session EXCEPT !.open = session.open, !.work = session.work, !.kept = session.kept]
      BY <1>6, <1>t, <2>1 DEF SessionType
    <3> QED
      BY <1>8, <1>9, <2>1, <3>1
  <2>2. CASE last # 0
    <3>1. last \in DOMAIN session.onWay /\ InSchema(r.by) \in BOOLEAN
      BY <2>2 DEF Takeable, InSchema
    <3>2. r.kind \in {"begin", "statement", "commit", "rollback"}
      BY <1>t, <3>1, RequestsTyped
    <3>3. PICK open, work : Processed(session, r, InSchema(r.by)) =
            [session EXCEPT !.open = open, !.work = work,
                            !.kept = Keeps(session, r, InSchema(r.by))]
      BY <1>t, <3>1, <3>2, ServerKeeps
    <3>4. Keeps(session, r, InSchema(r.by)) = kept
      BY <1>8, <1>9, <2>2
    <3>5. c = [session EXCEPT !.open = open, !.work = work, !.kept = kept]
      BY <1>6, <2>2, <3>3, <3>4
    <3> QED
      BY <3>5
  <2> QED
    BY <2>1, <2>2
<1>11. c.single = session.single /\ c.batch = session.batch
  BY <1>t, <1>10 DEF SessionType
<1>12. PICK single : single = [q \in Singles |->
          IF c.single[q] = "sent" THEN "failed" ELSE c.single[q]]
  OBVIOUS
<1>13. /\ single \in [Singles -> {"idle", "sent", "ok", "failed"}]
       /\ \A q \in Singles : single[q] = "ok" => session.single[q] = "ok"
  BY <1>t, <1>11, <1>12 DEF SessionType
<1>14. PICK batch : batch = [b \in Batches |->
            IF c.batch[b].at = "running" \/ (c.batch[b].at = "begin" /\ D.begin # "nothing")
            THEN [c.batch[b] EXCEPT !.at = "rejected"] ELSE c.batch[b]]
  OBVIOUS
<1>b. session.batch \in [Batches -> [at : {"idle", "begin", "running", "resolved", "rejected"},
                                   next : 1..BatchLength + 1]]
  BY <1>t DEF SessionType
<1>15. /\ batch \in [Batches -> [at : {"idle", "begin", "running", "resolved", "rejected"},
                                 next : 1..BatchLength + 1]]
       /\ \A b \in Batches : /\ batch[b].next = session.batch[b].next
                             /\ batch[b].at = Gone(session.batch[b].at)
  BY <1>11, <1>14, <1>b
<1>16. e = [c EXCEPT !.link = "gone", !.inTransaction = FALSE, !.onWay = <<>>,
                     !.open = FALSE, !.work = {}, !.single = single, !.batch = batch]
  <2>1. e = [c EXCEPT
         !.link = "gone", !.inTransaction = FALSE, !.onWay = <<>>,
         !.open = FALSE, !.work = {},
         !.single = [q \in Singles |-> IF @[q] = "sent" THEN "failed" ELSE @[q]],
         !.batch  = [b \in Batches |->
            IF @[b].at = "running" \/ (@[b].at = "begin" /\ D.begin # "nothing")
            THEN [@[b] EXCEPT !.at = "rejected"] ELSE @[b]]]
    BY <1>6, <1>7 DEF ConnectionLost
  <2> QED
    BY <1>12, <1>14, <2>1
<1>17. e = [session EXCEPT !.link = "gone", !.inTransaction = FALSE, !.onWay = <<>>,
                     !.open = FALSE, !.work = {}, !.kept = kept, !.single = single, !.batch = batch]
  BY <1>t, <1>10, <1>16 DEF SessionType
<1>g. PICK none : none = <<>>
  OBVIOUS
<1>18. /\ e \in SessionType /\ e.link = "gone" /\ ~e.inTransaction /\ e.onWay = <<>> /\ ~e.open
       /\ e.work = {} /\ e.kept = s.kept /\ e.single = single /\ e.batch = batch
  <2>1. batch \in [Batches -> [at : {"idle", "begin", "running", "resolved", "rejected"},
                               next : 1..BatchLength + 1]]
    BY <1>15
  <2>2. e = [session EXCEPT !.link = "gone", !.inTransaction = FALSE, !.onWay = none,
                     !.open = FALSE, !.work = {}, !.kept = kept, !.single = single, !.batch = batch]
    BY <1>17, <1>g
  <2>3. none \in Seq([by : Callers, kind : {"begin", "statement", "commit", "rollback"},
                      auto : BOOLEAN])
    <3>1. \A S : <<>> \in Seq(S)
      OBVIOUS
    <3> QED
      BY <1>g, <3>1
  <2>4. e \in SessionType
    BY <1>t, <1>9, <1>13, <2>1, <2>2, <2>3 DEF SessionType
  <2>5. e.link = "gone" /\ ~e.inTransaction /\ e.onWay = none /\ ~e.open
        /\ e.work = {} /\ e.kept = kept /\ e.single = single /\ e.batch = batch
    BY <1>t, <2>2 DEF SessionType
  <2> QED
    BY <1>9, <1>g, <2>4, <2>5
<1>19. \A q \in Singles : e.single[q] = "ok" => s.single[q] = "ok"
  BY <1>8, <1>13, <1>18
<1>20. ASSUME NEW b \in Batches
       PROVE  /\ e.batch[b].next = s.batch[b].next
              /\ e.batch[b].at = s.batch[b].at \/ (Runs(s, b) /\ e.batch[b].at = "rejected")
              /\ Transacts(D) => ~Runs(e, b)
  <2>1. /\ e.batch[b].next = session.batch[b].next
        /\ e.batch[b].at = Gone(session.batch[b].at)
    BY <1>15, <1>18
  <2>2. /\ s.batch[b].next = session.batch[b].next
        /\ \/ s.batch[b].at = session.batch[b].at
           \/ session.batch[b].at = "begin" /\ D.begin = "request" /\ s.batch[b].at = "running"
    <3>1. CASE s.batch = session.batch
      BY <3>1
    <3>2. ASSUME NEW x \in Batches, session.batch[x].at = "begin", D.begin = "request",
                 s.batch = [session.batch EXCEPT ![x].at = "running"]
          PROVE  /\ s.batch[b].next = session.batch[b].next
                 /\ \/ s.batch[b].at = session.batch[b].at
                    \/ /\ session.batch[b].at = "begin" /\ D.begin = "request"
                       /\ s.batch[b].at = "running"
      BY <1>b, <3>2
    <3> QED
      BY <1>8, <3>1, <3>2
  <2> QED
    BY <2>1, <2>2 DEF Runs, Transacts
<1>21. \A i \in DOMAIN s.onWay : s.onWay[i].kind = "commit" => s.onWay[i].by \in k.cut
  <2> SUFFICES ASSUME NEW i \in DOMAIN s.onWay, s.onWay[i].kind = "commit"
               PROVE  s.onWay[i].by \in k.cut
    OBVIOUS
  <2>1. s.onWay[i].by \in Batches
    BY <1>8 DEF ConnectionInv, SharedInv, QueueRight, RequestRight, IsEnd
  <2>2. s.onWay[i].by \in Commits
    BY <1>8, <2>1
  <2> QED
    BY <1>3, <1>5, <2>2
<1>22. ConnectionInv(D, e, k)
  BY <1>8, <1>18, <1>19, <1>20, <1>21, EverythingLost
<1> QED
  BY <1>1, <1>7, <1>22

\* A single statement is sent, or fails where it cannot be.
LEMMA SendKeeps ==
  ASSUME driver \in DOMAIN Driver, ConnectionInv(D, session, history),
         NEW q \in Singles, NEW isSchema \in BOOLEAN, SendSingle(q, isSchema)
  PROVE  ConnectionInv(D, session', history')
<1>t. session \in SessionType /\ history \in HistoryType /\ DriverRight(D) /\ q \in Callers
  BY DriversRight DEF ConnectionInv, Callers
<1>1. PICK k : k = history'
  OBVIOUS
<1>2. PICK amid \in SUBSET Singles : amid = {s \in {q} : \E b \in Batches : Underway(b)}
  OBVIOUS
<1>3. PICK schema \in SUBSET Callers : schema = {s \in {q} : isSchema}
  BY <1>t
<1>4. k = [history EXCEPT !.amid = history.amid \union amid,
                          !.schema = history.schema \union schema]
  BY <1>1, <1>2, <1>3, <1>t DEF SendSingle, HistoryType
<1>5. /\ k \in HistoryType /\ k.amid = history.amid \union amid /\ k.cut = history.cut
      /\ k.mixed = history.mixed
  BY <1>2, <1>3, <1>4, <1>t DEF HistoryType
<1>6. ConnectionInv(D, session, k)
  BY <1>5, HistoryGrows
<1>7. (\E b \in Batches : Held(D, session, b)) => q \in k.amid
  BY <1>2, <1>5, <1>t, SessionTerms
<1>8. session.single[q] = "idle"
  BY DEF SendSingle
<1>9. ~Waits(session, q)
  BY <1>6, <1>8, IdleWaitsNot DEF Waits
<1>10. PICK e : e = session'
  OBVIOUS
<1>11. CASE ~D.sql \/ session.link # "open"
  <2>1. e = SingleIs(session, q, "failed")
    BY <1>10, <1>11 DEF SendSingle, SingleIs
  <2>2. ConnectionInv(D, e, k)
    BY <1>6, <1>9, <2>1, SingleTold
  <2> QED
    BY <1>1, <1>10, <2>2
<1>12. CASE ~(~D.sql \/ session.link # "open")
  <2>1. PICK m : m = SingleIs(session, q, "sent")
    OBVIOUS
  <2>2. PICK single : single = [session.single EXCEPT ![q] = "sent"]
    OBVIOUS
  <2>3. single \in [Singles -> {"idle", "sent", "ok", "failed"}]
    BY <1>t, <2>2 DEF SessionType
  <2>4. m = [session EXCEPT !.single = single]
    BY <1>t, <2>1, <2>2 DEF SessionType, SingleIs
  <2>5. /\ m \in SessionType /\ m.single = single
        /\ m.link = session.link /\ m.inTransaction = session.inTransaction
        /\ m.open = session.open /\ m.work = session.work /\ m.onWay = session.onWay
        /\ m.kept = session.kept /\ m.batch = session.batch
    BY <1>t, <2>3, <2>4 DEF SessionType
  <2>6. e = SendOn(m, q, "statement")
    BY <1>10, <1>12, <2>1 DEF SendSingle, SingleIs
  <2>7. PICK r :
        /\ r.by = q /\ r.kind = "statement" /\ r.auto = ~m.inTransaction
        /\ e \in SessionType /\ Longer(m.onWay, e.onWay, r) /\ SameServer(m, e)
        /\ e.link = m.link /\ e.inTransaction = m.inTransaction /\ e.batch = m.batch
    BY <1>t, <2>5, <2>6, Sends1
  <2>8. /\ r.auto = ~session.inTransaction /\ Longer(session.onWay, e.onWay, r)
        /\ e.batch = session.batch /\ e.link = session.link
        /\ e.inTransaction = session.inTransaction /\ e.open = session.open
        /\ e.work = session.work /\ e.kept = session.kept
        /\ e.single = [session.single EXCEPT ![q] = "sent"]
    BY <2>2, <2>5, <2>7 DEF SameServer
  <2>9. ConnectionInv(D, e, k)
    BY <1>t, <1>6, <1>7, <1>8, <1>12, <2>7, <2>8, SingleSends
  <2> QED
    BY <1>1, <1>10, <2>9
<1> QED
  BY <1>11, <1>12

\* A batch is somewhere else, whatever it was before.
LEMMA BatchMoves ==
  ASSUME NEW f \in [Batches -> [at : {"idle", "begin", "running", "resolved", "rejected"},
                                next : 1..BatchLength + 1]],
         NEW x \in Batches, NEW old, NEW new,
         NEW g, g = [f EXCEPT ![x].at = old], NEW k, k = [g EXCEPT ![x].at = new]
  PROVE  k = [f EXCEPT ![x].at = new]
<1>1. PICK n : n = [f EXCEPT ![x].at = new]
  OBVIOUS
<1>2. ASSUME NEW b \in Batches
      PROVE  k[b] = n[b]
  <2>1. CASE b # x
    BY <1>1, <2>1
  <2>2. CASE b = x
    <3>1. g[x] = [f[x] EXCEPT !.at = old] /\ k[x] = [g[x] EXCEPT !.at = new]
          /\ n[x] = [f[x] EXCEPT !.at = new]
      BY <1>1
    <3>2. f[x] \in [at : {"idle", "begin", "running", "resolved", "rejected"},
                    next : 1..BatchLength + 1]
      OBVIOUS
    <3> QED
      BY <2>2, <3>1, <3>2
  <2> QED
    BY <2>1, <2>2
<1>3. DOMAIN k = Batches /\ DOMAIN n = Batches /\ k = [b \in DOMAIN k |-> k[b]]
      /\ n = [b \in DOMAIN n |-> n[b]]
  BY <1>1
<1> QED
  BY <1>1, <1>2, <1>3

\* What a batch that begins makes of those who are under way.
LEMMA BeginMixes ==
  ASSUME driver \in DOMAIN Driver, ConnectionInv(D, session, history),
         NEW x \in Batches, NEW isSchema \in BOOLEAN, RunBatch(x, isSchema)
  PROVE  ConnectionInv(D, session, history') /\ MayBegin(D, session, history', x)
<1>t. session \in SessionType /\ history \in HistoryType /\ x \in Callers
      /\ D.inOrder \in BOOLEAN
  BY DriversRight DEF ConnectionInv, Callers, DriverRight
<1>1. PICK k : k = history'
  OBVIOUS
<1>2. PICK others \in SUBSET Batches : others = {o \in Batches : Underway(o)}
  OBVIOUS
<1>3. PICK mixed \in SUBSET Batches :
        mixed = IF others = {} THEN history.mixed ELSE history.mixed \union others \union {x}
  BY <1>t, <1>2 DEF HistoryType
<1>4. PICK amid \in SUBSET Singles :
        amid = IF D.inOrder THEN history.amid
               ELSE history.amid \union {q \in Singles : session.single[q] = "sent"}
  BY <1>t DEF HistoryType
<1>5. PICK schema \in SUBSET Callers : schema = history.schema \union {s \in {x} : isSchema}
  BY <1>t DEF HistoryType
<1>6. k = [history EXCEPT !.mixed = mixed, !.amid = amid, !.schema = schema]
  BY <1>t, <1>1, <1>2, <1>3, <1>4, <1>5 DEF RunBatch, HistoryType
<1>7. k \in HistoryType /\ k.mixed = mixed /\ k.amid = amid /\ k.cut = history.cut
  BY <1>t, <1>3, <1>4, <1>5, <1>6 DEF HistoryType
<1>8. ConnectionInv(D, session, k)
  BY <1>3, <1>4, <1>7, HistoryGrows
<1>9. MayBegin(D, session, k, x)
  <2>1. session.batch[x].at = "idle"
    BY DEF RunBatch
  <2>2. \A o \in Batches : Held(D, session, o) => o \in others
    BY <1>t, <1>2, SessionTerms
  <2>3. \A b \in Batches \ k.mixed : ~Held(D, session, b)
    BY <1>3, <1>7, <2>2
  <2>4. x \notin k.mixed => \A b \in Batches : ~Held(D, session, b)
    BY <1>3, <1>7, <2>2
  <2>5. ~D.inOrder => \A q \in Singles : session.single[q] = "sent" => q \in k.amid
    BY <1>4, <1>7
  <2> QED
    BY <2>1, <2>3, <2>4, <2>5 DEF MayBegin
<1> QED
  BY <1>1, <1>8, <1>9

\* A batch begins.
LEMMA RunKeeps ==
  ASSUME driver \in DOMAIN Driver, ConnectionInv(D, session, history),
         NEW x \in Batches, NEW isSchema \in BOOLEAN, RunBatch(x, isSchema)
  PROVE  ConnectionInv(D, session', history')
<1>t. session \in SessionType /\ DriverRight(D) /\ x \in Callers
      /\ D.begin \in {"request", "flag", "callback", "nothing", "throws"}
  BY DriversRight DEF ConnectionInv, Callers, DriverRight
<1>1. PICK k : k = history'
  OBVIOUS
<1>2. ConnectionInv(D, session, k) /\ MayBegin(D, session, k, x)
  BY <1>1, BeginMixes
<1>b. session.batch \in [Batches -> [at : {"idle", "begin", "running", "resolved", "rejected"},
                                   next : 1..BatchLength + 1]]
  BY <1>t DEF SessionType
<1>3. session.batch[x].next = 1 /\ ~(1 > BatchLength)
  BY <1>2, SqlSessionsAssumption DEF ConnectionInv, SharedInv, NextRight, MayBegin
<1>f. session.inTransaction => D.begin = "flag"
  BY DEF ConnectionInv, SharedInv, FlagRight
<1>4. PICK s : s = [session EXCEPT !.batch[x].at = "begin"]
  OBVIOUS
<1>5. /\ s \in SessionType /\ s.batch = [session.batch EXCEPT ![x].at = "begin"]
      /\ SameServer(session, s) /\ s.onWay = session.onWay
      /\ s.link = session.link /\ s.inTransaction = session.inTransaction
  BY <1>4, <1>t, BatchAt
<1>6. PICK e : e = session'
  OBVIOUS
<1>7. e = Begin(s, x)
  BY <1>4, <1>6 DEF RunBatch
<1>8. ASSUME NEW c \in SessionType, SameServer(s, c), c.onWay = s.onWay, c.batch = s.batch,
             c.link = s.link, c.inTransaction = (D.begin = "flag"), D.begin # "request"
      PROVE  ConnectionInv(D, Begun(c, x), k)
  <2>1. PICK m : m = Running(c, x)
    OBVIOUS
  <2>2. /\ m \in SessionType /\ m.batch = [c.batch EXCEPT ![x].at = "running"]
        /\ SameServer(c, m) /\ m.onWay = c.onWay
        /\ m.link = c.link /\ m.inTransaction = c.inTransaction
    BY <1>8, <2>1, BatchAt DEF Running
  <2>3. m.batch = [session.batch EXCEPT ![x].at = "running"]
    BY <1>5, <1>8, <1>b, <2>2, BatchMoves
  <2>4. /\ m.onWay = session.onWay /\ m.link = session.link
        /\ m.open = session.open /\ m.work = session.work /\ m.kept = session.kept
        /\ m.single = session.single
    BY <1>5, <1>8, <2>2 DEF SameServer
  <2>5. m.inTransaction = (D.begin = "flag")
    BY <1>8, <2>2
  <2>6. ConnectionInv(D, m, k)
    <3>1. "running" = "running" \/ ("running" = "begin" /\ ~Transacts(D))
      OBVIOUS
    <3>2. DriverRight(D) /\ D.begin # "request" /\ m \in SessionType
          /\ ConnectionInv(D, session, k) /\ MayBegin(D, session, k, x)
      BY <1>t, <1>2, <1>8, <2>2
    <3> QED
      BY <2>3, <2>4, <2>5, <3>1, <3>2, BeginRuns
  <2>7. m.batch[x].at = "running" /\ m.batch[x].next = 1
    BY <1>3, <1>b, <2>3
  <2>8. ~Waits(m, x)
    BY <1>2, <2>4, IdleWaitsNot DEF MayBegin, Waits
  <2>9. ConnectionInv(D, NextOfBatch(m, x), k)
    BY <1>3, <2>6, <2>7, <2>8, NextOfBatchInv
  <2> QED
    BY <2>1, <2>9 DEF Begun, Running
<1>9. ASSUME NEW c \in SessionType, SameServer(s, c), c.onWay = s.onWay,
             c.batch = [session.batch EXCEPT ![x].at = "rejected"],
             c.link = s.link, ~c.inTransaction
      PROVE  ConnectionInv(D, c, k)
  <2>1. /\ c.onWay = session.onWay /\ c.link = session.link
        /\ c.open = session.open /\ c.work = session.work /\ c.kept = session.kept
        /\ c.single = session.single
    BY <1>5, <1>9 DEF SameServer
  <2> QED
    BY <1>t, <1>2, <1>9, <2>1, BeginRefused
<1>10. CASE D.begin = "request" /\ s.link = "open"
  <2>1. e = SendOn(s, x, "begin")
    BY <1>7, <1>10 DEF Begin
  <2>2. PICK r :
        /\ r.by = x /\ r.kind = "begin" /\ r.auto = ~s.inTransaction
        /\ e \in SessionType /\ Longer(s.onWay, e.onWay, r) /\ SameServer(s, e)
        /\ e.link = s.link /\ e.inTransaction = s.inTransaction /\ e.batch = s.batch
    BY <1>t, <1>5, <2>1, Sends1
  <2>3. /\ r.auto = ~session.inTransaction /\ Longer(session.onWay, e.onWay, r)
        /\ e.batch = [session.batch EXCEPT ![x].at = "begin"] /\ e.link = session.link
        /\ e.inTransaction = session.inTransaction /\ e.open = session.open
        /\ e.work = session.work /\ e.kept = session.kept /\ e.single = session.single
        /\ session.link = "open"
    BY <1>5, <1>10, <2>2 DEF SameServer
  <2>4. ConnectionInv(D, e, k)
    <3>1. DriverRight(D) /\ D.begin = "request" /\ e \in SessionType
          /\ ConnectionInv(D, session, k) /\ MayBegin(D, session, k, x)
      BY <1>t, <1>2, <1>10, <2>2
    <3>2. r.by = x /\ r.kind = "begin"
      BY <2>2
    <3> QED
      BY <2>3, <3>1, <3>2, BeginSends, SMTT(60)
  <2> QED
    BY <1>1, <1>6, <2>4
<1>11. CASE D.begin = "request" /\ s.link # "open"
  <2>1. PICK m : m = Running(s, x)
    OBVIOUS
  <2>2. /\ m \in SessionType /\ m.batch = [s.batch EXCEPT ![x].at = "running"]
        /\ SameServer(s, m) /\ m.onWay = s.onWay
        /\ m.link = s.link /\ m.inTransaction = s.inTransaction
    BY <1>5, <2>1, BatchAt DEF Running
  <2>3. m.batch = [session.batch EXCEPT ![x].at = "running"]
    BY <1>5, <1>b, <2>2, BatchMoves
  <2>4. m.batch[x].next = 1
    BY <1>3, <1>b, <2>3
  <2>5. e = NextOfBatch(m, x)
    BY <1>7, <1>11, <2>1 DEF Begin, Begun, Running
  <2>6. e = Rejected(m, x)
    BY <1>3, <1>11, <2>2, <2>4, <2>5 DEF NextOfBatch
  <2>7. PICK n : n = [m EXCEPT !.batch[x].at = "rejected"]
    OBVIOUS
  <2>8. /\ n \in SessionType /\ n.batch = [m.batch EXCEPT ![x].at = "rejected"]
        /\ SameServer(m, n) /\ n.onWay = m.onWay /\ n.link = m.link
    BY <2>2, <2>7, BatchAt
  <2>9. n.batch = [session.batch EXCEPT ![x].at = "rejected"]
    BY <1>b, <2>3, <2>8, BatchMoves
  <2>10. e = [n EXCEPT !.inTransaction = FALSE]
    BY <1>11, <2>2, <2>6, <2>7, <2>8 DEF Rejected, Rollback
  <2>11. /\ e \in SessionType /\ SameServer(n, e) /\ e.onWay = n.onWay /\ e.batch = n.batch
         /\ e.link = n.link /\ e.inTransaction = FALSE
    BY <2>8, <2>10, FlagOff
  <2>12. SameServer(s, e) /\ e.onWay = s.onWay /\ e.link = s.link
    BY <2>2, <2>8, <2>11 DEF SameServer
  <2>13. ConnectionInv(D, e, k)
    BY <1>9, <2>9, <2>11, <2>12
  <2> QED
    BY <1>1, <1>6, <2>13
<1>12. CASE D.begin = "flag"
  <2>1. PICK c : c = [s EXCEPT !.inTransaction = TRUE]
    OBVIOUS
  <2>2. /\ c \in SessionType /\ SameServer(s, c) /\ c.onWay = s.onWay /\ c.batch = s.batch
        /\ c.link = s.link /\ c.inTransaction = TRUE
    BY <1>5, <2>1, FlagOff
  <2>3. e = Begun(c, x)
    BY <1>7, <1>12, <2>1 DEF Begin
  <2>4. ConnectionInv(D, e, k)
    BY <1>8, <1>12, <2>2, <2>3
  <2> QED
    BY <1>1, <1>6, <2>4
<1>13. CASE D.begin = "callback"
  <2>1. e = Begun(s, x)
    BY <1>7, <1>13 DEF Begin
  <2>2. s.inTransaction = (D.begin = "flag")
    BY <1>5, <1>f, <1>13 DEF SessionType
  <2>3. SameServer(s, s)
    BY DEF SameServer
  <2>4. ConnectionInv(D, e, k)
    BY <1>5, <1>8, <1>13, <2>1, <2>2, <2>3
  <2> QED
    BY <1>1, <1>6, <2>4
<1>14. CASE D.begin = "nothing"
  <2>1. e = s
    BY <1>7, <1>14 DEF Begin
  <2>2. s.inTransaction = (D.begin = "flag")
    BY <1>5, <1>f, <1>14 DEF SessionType
  <2>3. /\ s.open = session.open /\ s.work = session.work /\ s.kept = session.kept
        /\ s.single = session.single
    BY <1>5 DEF SameServer
  <2>4. ~Transacts(D) /\ D.begin # "request"
    BY <1>14 DEF Transacts
  <2>5. ConnectionInv(D, s, k)
    <3>1. "begin" = "running" \/ ("begin" = "begin" /\ ~Transacts(D))
      BY <2>4
    <3>2. DriverRight(D) /\ D.begin # "request" /\ s \in SessionType
          /\ ConnectionInv(D, session, k) /\ MayBegin(D, session, k, x)
      BY <1>t, <1>2, <1>5, <2>4
    <3>3. s.onWay = session.onWay /\ s.batch = [session.batch EXCEPT ![x].at = "begin"]
          /\ s.link = session.link
      BY <1>5
    <3> QED
      BY <2>2, <2>3, <3>1, <3>2, <3>3, BeginRuns
  <2> QED
    BY <1>1, <1>6, <2>1, <2>5
<1>15. CASE D.begin = "throws"
  <2>1. e = [s EXCEPT !.batch[x].at = "rejected"]
    BY <1>7, <1>15 DEF Begin
  <2>2. /\ e \in SessionType /\ e.batch = [s.batch EXCEPT ![x].at = "rejected"]
        /\ SameServer(s, e) /\ e.onWay = s.onWay /\ e.link = s.link
        /\ e.inTransaction = s.inTransaction
    BY <1>5, <2>1, BatchAt
  <2>3. e.batch = [session.batch EXCEPT ![x].at = "rejected"]
    BY <1>5, <1>b, <2>2, BatchMoves
  <2>4. ~e.inTransaction
    BY <1>5, <1>f, <1>15, <2>2
  <2>5. ConnectionInv(D, e, k)
    BY <1>9, <2>2, <2>3, <2>4
  <2> QED
    BY <1>1, <1>6, <2>5
<1> QED
  BY <1>t, <1>10, <1>11, <1>12, <1>13, <1>14, <1>15

\* A new connection has nobody on it.
LEMMA SessionsStart == SqlSessionsInit => SessionsInv
<1> SUFFICES ASSUME SqlSessionsInit
             PROVE  SessionsInv
  OBVIOUS
<1>1. PICK single : single = [q \in Singles |-> "idle"]
  OBVIOUS
<1>2. PICK batch : batch = [b \in Batches |-> [at |-> "idle", next |-> 1]]
  OBVIOUS
<1>3. PICK none : none = <<>>
  OBVIOUS
<1>4. /\ session = [link |-> "open", inTransaction |-> FALSE, onWay |-> none,
                    open |-> FALSE, work |-> {}, kept |-> {}, single |-> single, batch |-> batch]
      /\ history = [amid |-> {}, mixed |-> {}, schema |-> {}, cut |-> {}]
      /\ driver \in DOMAIN Driver
  BY <1>1, <1>2, <1>3 DEF SqlSessionsInit
<1>5. /\ session.link = "open" /\ session.inTransaction = FALSE /\ session.onWay = none
      /\ session.open = FALSE /\ session.work = {} /\ session.kept = {}
      /\ session.single = single /\ session.batch = batch
      /\ history.mixed = {}
  BY <1>4
<1>6. /\ DOMAIN none = {}
      /\ none \in Seq([by : Callers, kind : {"begin", "statement", "commit", "rollback"},
                       auto : BOOLEAN])
  <2>1. \A S : <<>> \in Seq(S)
    OBVIOUS
  <2>2. DOMAIN <<>> = {}
    OBVIOUS
  <2> QED
    BY <1>3, <2>1, <2>2
<1>7. /\ single \in [Singles -> {"idle", "sent", "ok", "failed"}]
      /\ \A q \in Singles : single[q] = "idle"
  BY <1>1
<1>8. /\ batch \in [Batches -> [at : {"idle", "begin", "running", "resolved", "rejected"},
                               next : 1..BatchLength + 1]]
      /\ \A b \in Batches : batch[b].at = "idle" /\ batch[b].next = 1
  <2>1. 1 \in 1..BatchLength + 1
    BY SqlSessionsAssumption
  <2> QED
    BY <1>2, <2>1
<1>9. session \in SessionType /\ history \in HistoryType
  BY <1>4, <1>6, <1>7, <1>8 DEF SessionType, HistoryType
<1>10. \A b \in Batches : ~Held(D, session, b) /\ ~Runs(session, b)
  BY <1>5, <1>6, <1>8 DEF Held, Runs, Waits
<1>11. SharedInv(D, session, history)
  BY <1>5, <1>6, <1>7, <1>8, <1>10 DEF SharedInv, QueueRight, AskedOnce, NextRight, FlagRight,
       OpenRight, SomeonesOpen, AutoRight, TakenUp, Acked, WorkOpen
<1>12. ASSUME NEW b \in Batches
       PROVE  BatchInv(D, session, history, b)
  BY <1>5, <1>6, <1>8, <1>10 DEF BatchInv, Alone, BegunLast, NoneElse, Fenced, StakeHeld,
       OpenWhile, FlagWhile, NotAuto, NotBegun, Progress, NotKept, AllKept, AtStake
<1> QED
  BY <1>4, <1>9, <1>11, <1>12 DEF SessionsInv, ConnectionInv

\* Every step keeps what is known of the connection.
LEMMA SessionsStep == SessionsInv /\ [SqlSessionsNext]_sessionVars => SessionsInv'
<1> SUFFICES ASSUME SessionsInv, [SqlSessionsNext]_sessionVars
             PROVE  SessionsInv'
  OBVIOUS
<1>1. driver \in DOMAIN Driver /\ ConnectionInv(D, session, history)
  BY DEF SessionsInv
<1>2. ASSUME driver' = driver, ConnectionInv(D, session', history')
      PROVE  SessionsInv'
  BY <1>1, <1>2 DEF SessionsInv, D
<1>3. ASSUME NEW isSchema \in BOOLEAN, NEW q \in Singles, SendSingle(q, isSchema)
      PROVE  SessionsInv'
  <2>1. driver' = driver
    BY <1>3 DEF SendSingle
  <2> QED
    BY <1>1, <1>2, <1>3, <2>1, SendKeeps
<1>4. ASSUME NEW isSchema \in BOOLEAN, NEW b \in Batches, RunBatch(b, isSchema)
      PROVE  SessionsInv'
  <2>1. driver' = driver
    BY <1>4 DEF RunBatch
  <2> QED
    BY <1>1, <1>2, <1>4, <2>1, RunKeeps
<1>5. ASSUME NEW i \in Takeable, RequestSucceeds(i)
      PROVE  SessionsInv'
  <2>1. driver' = driver
    BY <1>5 DEF RequestSucceeds
  <2> QED
    BY <1>1, <1>2, <1>5, <2>1, SuccessKeeps
<1>6. ASSUME NEW i \in Takeable, StatementRefused(i)
      PROVE  SessionsInv'
  <2>1. driver' = driver
    BY <1>6 DEF StatementRefused
  <2> QED
    BY <1>1, <1>2, <1>6, <2>1, RefusalKeeps
<1>7. ASSUME NEW last \in Takeable \union {0}, ConnectionLost(last)
      PROVE  SessionsInv'
  <2>1. driver' = driver
    BY <1>7 DEF ConnectionLost
  <2> QED
    BY <1>1, <1>2, <1>7, <2>1, LossKeeps
<1>8. CASE End
  <2>1. driver' = driver /\ history' = history /\ session' = [session EXCEPT !.link = "ending"]
    BY <1>8 DEF End
  <2>2. ConnectionInv(D, session', history')
    BY <1>1, <2>1, EndedKeeps
  <2> QED
    BY <1>2, <2>1, <2>2
<1>9. CASE UNCHANGED sessionVars
  <2>1. driver' = driver /\ session' = session /\ history' = history
    BY <1>9 DEF sessionVars
  <2> QED
    BY <1>1, <1>2, <2>1
<1> QED
  BY <1>3, <1>4, <1>5, <1>6, <1>7, <1>8, <1>9 DEF SqlSessionsNext

\* What is known of the connection is always so, whatever is sent on it.
LEMMA SessionsAlways == SqlSessionsSpec => []SessionsInv
BY SessionsStart, SessionsStep, PTL DEF SqlSessionsSpec

\* The connection, its queue of requests and the batches stay what they are,
\* on every driver that ConnectionManager.create can make.
THEOREM SessionsTyped == SqlSessionsSpec => []SqlSessionsTypeOK
<1>1. SessionsInv => SqlSessionsTypeOK
  BY DEF SessionsInv, ConnectionInv, SessionType, HistoryType, SqlSessionsTypeOK
<1> QED
  BY <1>1, SessionsAlways, PTL

\* A statement that queryPromise resolved is kept by the server, or has become
\* part of the transaction of a batch that was sent around it.
THEOREM AnswersAreKept == SqlSessionsSpec => []AckedIsKept
<1>1. SessionsInv => AckedIsKept
  BY DriversRight DEF SessionsInv, ConnectionInv, SharedInv, Acked, AckedIsKept
<1> QED
  BY <1>1, SessionsAlways, PTL

\* runBatch keeps all of a batch or nothing on the drivers with transactions,
\* if it ran by itself and its commit was answered.
THEOREM BatchesWhole == SqlSessionsSpec => []BatchesAreAtomic
<1>1. SessionsInv => BatchesAreAtomic
  <2> SUFFICES ASSUME SessionsInv, Transactional, NEW b \in Batches \ history.mixed
               PROVE  /\ session.batch[b].at = "rejected" => All(b) \cap session.kept = {}
                      /\ session.batch[b].at = "resolved" /\ b \notin history.cut =>
                           \/ All(b) \subseteq session.kept
                           \/ \E i \in DOMAIN session.onWay : session.onWay[i].by = b
    BY DEF BatchesAreAtomic, All
  <2>1. Transacts(D)
    BY DriversRight DEF SessionsInv
  <2>2. BatchInv(D, session, history, b)
    BY <2>1 DEF SessionsInv, ConnectionInv
  <2> QED
    BY <2>2 DEF BatchInv, NotKept, AllKept, Waits
<1> QED
  BY <1>1, SessionsAlways, PTL

-----------------------------------------------------------------------------
(* The page of query results.  What is on its way counts as two sets: what *)
(* is asked, of the host and of the connection, and what is told, to the   *)
(* page or, before it listens, to the handlers that will tell it.          *)

RunTypes  == {"RUN", "DATA", "DML", "INSERTED", "ERROR"}
TextTypes == {"DATA", "NEXT_PAGE", "COUNT"}
Messages  == [type : TextTypes, page : 1..2, sql : Texts]
               \union [type : {"RUN", "DML", "INSERTED", "ERROR", "updateSuccess", "updateFail"},
                       page : 1..2, sql : {NoText}]
Reqs == [op : {"run", "count", "save"}, sql : Texts, page : {1}]
          \union [op : {"next"}, sql : Texts, page : 1..2]

Elements(s) == {s[j] : j \in 1..Len(s)}

AskedHost == Elements(toHost)
Owing == AskedHost \union DOMAIN requests
Told  == Elements(toPage)
           \union (IF view = "shown" THEN {} ELSE Elements(handlers))
           \union (IF view = "reading" THEN {first} ELSE {})

PageTyped ==
  /\ view \in {"none", "reading", "loading", "shown"}
  /\ first \in Messages \union {NoText} /\ handlers \in Seq(Messages)
  /\ IsABag(requests) /\ DOMAIN requests \subseteq Reqs
  /\ toPage \in Seq(Messages) /\ toHost \in Seq(Reqs)
  /\ app \in [sql : Texts \union {NoText}, rows : PageRows \union {NoText},
              base : Texts \union {NoText}, total : Texts \union {NoText},
              filtering : BOOLEAN, loading : BOOLEAN,
              edits : [tracked : BOOLEAN, row : PageRows \union {NoText}]]
  /\ ops \in 0..MaxOps
  /\ alone \in BOOLEAN /\ calm \in BOOLEAN /\ twice \in BOOLEAN /\ misplaced \in BOOLEAN
  /\ typed \in {"still", "hurried"}

\* How far the page has come: while it is not shown it has nothing and takes
\* nothing, and before it shows rows there are none to turn, count or save.
Started ==
  /\ view = "none" => requests = EmptyBag /\ handlers = <<>>
  /\ view = "reading" => first \in Messages
  /\ view \in {"loading", "shown"} => handlers # <<>>
  /\ view # "shown" => toHost = <<>> /\ toPage = <<>> /\ app.sql = NoText
  /\ app.sql = NoText =>
       /\ app.rows = NoText /\ app.edits.row = NoText /\ ~app.filtering
       /\ \A e \in Owing : e.op = "run"
       /\ \A m \in Told : m.type \in RunTypes
  /\ app.sql # NoText => app.base # NoText

\* An edit is of the rows shown, and no other rows are on their way.
EditsFollow ==
  /\ app.edits.row # NoText /\ typed = "still" =>
       /\ app.edits.row = app.rows
       /\ \A e \in Owing : e.op # "next"
       /\ \A m \in Told : m.type # "NEXT_PAGE"
  /\ ~misplaced

\* A page that waits for a listing under conditions has one under way.
FilterUnderWay ==
  app.filtering =>
    \/ "filter" \in dropped
    \/ \E e \in Owing : e.op = "run" /\ e.sql.kind = "filter"
    \/ \E m \in Told : m.type = "ERROR" \/ (m.type = "DATA" /\ m.sql.kind = "filter")

\* All that is on its way is of one listing, but for what changes data.
About(l, shown, asked, told) ==
  /\ \A e \in asked : /\ e.op = "run" => e.sql = l \/ e.sql.kind = "change"
                      /\ e.op \in {"count", "next"} => e.sql = l /\ shown = l
  /\ \A m \in told : /\ m.type = "DATA" => m.sql = l
                     /\ m.type \in {"COUNT", "NEXT_PAGE"} => m.sql = l /\ shown = l

NoChange ==
  /\ \A e \in Owing : e.op # "save" /\ (e.op = "run" => e.sql.kind # "change")
  /\ \A m \in Told : m.type \notin {"DML", "INSERTED", "updateSuccess", "updateFail"}

\* Edits are saved while nothing else is on its way.
SavesAlone ==
  (\E e \in Owing : e.op = "save") \/ (\E m \in Told : m.type \in {"updateSuccess", "updateFail"}) =>
    /\ \A e \in Owing : e.op = "save"
    /\ \A m \in Told : m.type \in {"updateSuccess", "updateFail"}
    /\ app.loading => "next" \in dropped

OneListing ==
  /\ alone => /\ NoChange
              /\ \E l \in Texts : /\ About(l, app.sql, Owing, Told)
                                  /\ app.filtering => l.table = app.base.table \/ "filter" \in dropped
  /\ calm /\ ~alone => About(app.sql, app.sql, Owing, Told) /\ SavesAlone

Right ==
  calm =>
    /\ app.sql \in Texts /\ app.rows \in PageRows /\ app.base \in Texts
    /\ app.rows.sql = app.sql
    /\ app.total \in {NoText, app.sql}
    /\ app.edits.row # NoText => app.edits.row.sql = app.sql
    /\ app.base.table = app.sql.table \/ "filter" \in dropped
    /\ app.loading => \/ "next" \in dropped
                      \/ Told # {}
                      \/ \E e \in AskedHost : e.op = "run"
                      \/ \E e \in Owing : e.op = "next"

\* Results are of listings, and so is what conditions are put on.
ResultsList ==
  /\ \A m \in Told : m.type = "DATA" => m.sql.kind # "change"
  /\ app.base # NoText => app.base.kind # "change"

PageInv == PageTyped /\ Started /\ EditsFollow /\ FilterUnderWay /\ OneListing /\ Right /\ ResultsList

\* The elements of sequences
LEMMA ElementsOf ==
  ASSUME NEW S, NEW s \in Seq(S)
  PROVE  /\ Elements(s) \subseteq S
         /\ s = <<>> <=> Elements(s) = {}
         /\ s # <<>> => /\ Head(s) \in S /\ Tail(s) \in Seq(S) /\ Head(s) \in Elements(s)
                        /\ Elements(s) = {Head(s)} \union Elements(Tail(s))
  <1>1. Len(s) \in Nat /\ \A j \in 1..Len(s) : s[j] \in S
    BY ElementOfSeq
  <1>2. s = <<>> <=> Len(s) = 0
    BY EmptySeq
  <1>3. s = <<>> <=> Elements(s) = {}
    <2>1. Len(s) # 0 => 1 \in 1..Len(s)
      BY <1>1
    <2>2. Len(s) = 0 => 1..Len(s) = {}
      BY <1>1
    <2>3. CASE Len(s) = 0
      BY <1>2, <2>2, <2>3 DEF Elements
    <2>4. CASE Len(s) # 0
      BY <1>2, <2>1, <2>4 DEF Elements
    <2> QED
      BY <2>3, <2>4
  <1>4. ASSUME s # <<>>
        PROVE  /\ Head(s) \in S /\ Tail(s) \in Seq(S) /\ Head(s) \in Elements(s)
               /\ Elements(s) = {Head(s)} \union Elements(Tail(s))
    <2>1. /\ Tail(s) \in Seq(S) /\ Len(Tail(s)) = Len(s) - 1 /\ Head(s) = s[1] /\ 1 \in 1..Len(s)
          /\ \A j \in 1..Len(Tail(s)) : Tail(s)[j] = s[j + 1]
      BY <1>1, <1>2, <1>4, HeadTailProperties
    <2>2. /\ \A j \in 1..Len(s) : j = 1 \/ (j - 1 \in 1..Len(Tail(s)) /\ (j - 1) + 1 = j)
          /\ \A j \in 1..Len(Tail(s)) : j + 1 \in 1..Len(s)
      BY <1>1, <2>1
    <2> QED
      BY <1>1, <2>1, <2>2 DEF Elements
  <1> QED
    BY <1>1, <1>3, <1>4 DEF Elements

\* The elements of two sequences, one after the other
LEMMA ElementsTogether ==
  ASSUME NEW S, NEW s \in Seq(S), NEW t \in Seq(S)
  PROVE  s \o t \in Seq(S) /\ Elements(s \o t) = Elements(s) \union Elements(t)
  <1>1. /\ s \o t \in Seq(S) /\ Len(s \o t) = Len(s) + Len(t)
        /\ \A j \in 1..(Len(s) + Len(t)) : (s \o t)[j] = IF j <= Len(s) THEN s[j] ELSE t[j - Len(s)]
    BY ConcatProperties
  <1>2. Len(s) \in Nat /\ Len(t) \in Nat
    OBVIOUS
  <1>3. PICK r : r = s \o t
    OBVIOUS
  <1>4. ASSUME NEW x \in Elements(r) PROVE x \in Elements(s) \union Elements(t)
    <2>1. PICK j \in 1..(Len(s) + Len(t)) : x = r[j]
      BY <1>1, <1>3, <1>4 DEF Elements
    <2>2. CASE j <= Len(s)
      <3>1. j \in 1..Len(s)
        BY <1>2, <2>2
      <3>2. x = s[j]
        BY <1>1, <1>3, <2>1, <2>2
      <3> QED
        BY <3>1, <3>2 DEF Elements
    <2>3. CASE ~(j <= Len(s))
      <3>1. j - Len(s) \in 1..Len(t)
        BY <1>2, <2>3
      <3>2. x = t[j - Len(s)]
        BY <1>1, <1>3, <2>1, <2>3
      <3> QED
        BY <3>1, <3>2 DEF Elements
    <2> QED
      BY <2>2, <2>3
  <1>5. ASSUME NEW x \in Elements(s) PROVE x \in Elements(r)
    <2>1. PICK j \in 1..Len(s) : x = s[j]
      BY <1>5 DEF Elements
    <2>2. j \in 1..(Len(s) + Len(t)) /\ j <= Len(s)
      BY <1>2, <2>1
    <2>3. x = r[j]
      BY <1>1, <1>3, <2>1, <2>2
    <2> QED
      BY <1>1, <1>3, <2>2, <2>3 DEF Elements
  <1>6. ASSUME NEW x \in Elements(t) PROVE x \in Elements(r)
    <2>1. PICK j \in 1..Len(t) : x = t[j]
      BY <1>6 DEF Elements
    <2>2. j + Len(s) \in 1..(Len(s) + Len(t)) /\ ~(j + Len(s) <= Len(s)) /\ (j + Len(s)) - Len(s) = j
      BY <1>2, <2>1
    <2>3. x = r[j + Len(s)]
      BY <1>1, <1>3, <2>1, <2>2
    <2> QED
      BY <1>1, <1>3, <2>2, <2>3 DEF Elements
  <1>7. Elements(r) = Elements(s) \union Elements(t)
    BY <1>4, <1>5, <1>6
  <1> QED
    BY <1>1, <1>3, <1>7

\* One more
More(r, s, x) == r = Append(s, x)

\* A sequence with one more has its elements and that one.
LEMMA ElementsAppended ==
  ASSUME NEW S, NEW s \in Seq(S), NEW x \in S, NEW r, More(r, s, x)
  PROVE  r \in Seq(S) /\ Elements(r) = Elements(s) \union {x} /\ r # <<>>
  <1>1. r = Append(s, x)
    BY DEF More
  <1>2. /\ r \in Seq(S) /\ Len(r) = Len(s) + 1 /\ Len(s) \in Nat
        /\ \A j \in 1..Len(s) : r[j] = s[j]
        /\ r[Len(s) + 1] = x
    BY <1>1
  <1>3. \A j \in 1..(Len(s) + 1) : j \in 1..Len(s) \/ j = Len(s) + 1
    BY <1>2
  <1>4. /\ \A j \in 1..Len(s) : j \in 1..(Len(s) + 1)
        /\ Len(s) + 1 \in 1..(Len(s) + 1)
    BY <1>2
  <1>5. Elements(r) = Elements(s) \union {x}
    BY <1>2, <1>3, <1>4 DEF Elements
  <1>6. r # <<>>
    BY <1>2, EmptySeq
  <1> QED
    BY <1>2, <1>5, <1>6

\* One alone
LEMMA ElementsWith ==
  ASSUME NEW S, NEW x \in S
  PROVE  <<x>> \in Seq(S) /\ Elements(<<x>>) = {x} /\ <<x>>[Len(<<x>>)] = x /\ <<x>>[1] = x /\ <<x>> # <<>>
  <1>7. <<x>> \in Seq(S) /\ Len(<<x>>) = 1 /\ <<x>>[1] = x /\ <<x>> # <<>>
    OBVIOUS
  <1>8. Elements(<<x>>) = {x}
    BY <1>7 DEF Elements
  <1> QED
    BY <1>7, <1>8

\* The same message several times
LEMMA ElementsRepeated ==
  ASSUME NEW S, NEW x \in S, NEW n \in Nat, n > 0, NEW s, s = [i \in 1..n |-> x]
  PROVE  s \in Seq(S) /\ Elements(s) = {x} /\ s[Len(s)] = x /\ s[1] = x
  <1>1. s \in [1..n -> S]
    OBVIOUS
  <1>2. s \in Seq(S) /\ Len(s) = n
    BY <1>1
  <1>3. 1 \in 1..n /\ n \in 1..n
    OBVIOUS
  <1> QED
    BY <1>2, <1>3 DEF Elements

\* A request asked n times more
LEMMA BagAsked ==
  ASSUME IsABag(requests), NEW x, NEW n \in Nat, n > 0
  PROVE  /\ IsABag(Asks(n, x))
         /\ DOMAIN Asks(n, x) = DOMAIN requests \union {x}
  <1> DEFINE B == requests
             S == [r \in {x} |-> n]
             U == B (+) S
  <1>1. DOMAIN S = {x} /\ S[x] = n
    OBVIOUS
  <1>2. U = [e \in DOMAIN B \union DOMAIN S |->
               (IF e \in DOMAIN B THEN B[e] ELSE 0) + (IF e \in DOMAIN S THEN S[e] ELSE 0)]
    BY Zenon DEF (+)
  <1>3. DOMAIN U = DOMAIN B \union {x}
    BY <1>1, <1>2
  <1>4. U = Asks(n, x)
    BY DEF Asks
  <1> HIDE DEF U, S, B
  <1>5. \A e \in DOMAIN B : B[e] \in Nat /\ B[e] > 0
    BY DEF IsABag, B
  <1>6. \A e \in DOMAIN U : U[e] = (IF e \in DOMAIN B THEN B[e] ELSE 0)
                                   + (IF e \in DOMAIN S THEN S[e] ELSE 0)
    BY <1>2
  <1>7. \A e \in DOMAIN U : U[e] \in Nat /\ U[e] > 0
    BY <1>1, <1>3, <1>5, <1>6
  <1>8. IsABag(U)
    BY <1>2, <1>3, <1>7 DEF IsABag
  <1> QED
    BY <1>3, <1>4, <1>8 DEF B

\* A request taken once: the others stay.
LEMMA BagTaken ==
  ASSUME IsABag(requests), NEW c \in DOMAIN requests
  PROVE  /\ IsABag(requests (-) SetToBag({c}))
         /\ DOMAIN (requests (-) SetToBag({c})) \subseteq DOMAIN requests
         /\ DOMAIN requests \ {c} \subseteq DOMAIN (requests (-) SetToBag({c}))
  <1> DEFINE B == requests
             S == SetToBag({c})
             U == B (-) S
             R == [e \in DOMAIN B |-> IF e \in DOMAIN S THEN B[e] - S[e] ELSE B[e]]
  <1>1. S = [e \in {c} |-> 1] /\ DOMAIN S = {c} /\ S[c] = 1
    BY DEF SetToBag
  <1>2. U = [e \in {d \in DOMAIN R : R[d] > 0} |-> R[e]]
    BY Zenon DEF (-)
  <1>3. \A e \in DOMAIN B : R[e] \in Nat /\ (e # c => R[e] = B[e] /\ R[e] > 0)
    BY <1>1 DEF IsABag
  <1>4. DOMAIN U = {d \in DOMAIN B : R[d] > 0}
    BY <1>2
  <1> HIDE DEF U, R
  <1>5. \A e \in DOMAIN U : U[e] = R[e] /\ R[e] > 0 /\ e \in DOMAIN B
    BY <1>2, <1>4
  <1>6. \A e \in DOMAIN U : U[e] \in Nat /\ U[e] > 0
    BY <1>3, <1>5
  <1>7. IsABag(U)
    BY <1>2, <1>4, <1>6 DEF IsABag
  <1> QED
    BY <1>3, <1>4, <1>7 DEF U

\* There is no page, and nothing is on its way.
LEMMA InitPage == QueryPageInit => PageInv
  <1> SUFFICES ASSUME QueryPageInit PROVE PageInv
    OBVIOUS
  <1>1. DOMAIN requests = {} /\ IsABag(requests) /\ requests = EmptyBag
    BY DEF QueryPageInit, EmptyBag, SetToBag, IsABag
  <1>2. <<>> \in Seq(Messages) /\ <<>> \in Seq(Reqs)
    BY EmptySeq
  <1>3. Elements(toHost) = {} /\ Elements(toPage) = {} /\ Elements(handlers) = {}
    BY <1>2, ElementsOf DEF QueryPageInit
  <1>4. Owing = {} /\ Told = {} /\ AskedHost = {}
    BY <1>1, <1>3 DEF Owing, AskedHost, Told, QueryPageInit
  <1>5. PageTyped
    <2>1. 0 \in 0..MaxOps
      BY QueryPageAssumption
    <2> QED
      BY <1>1, <1>2, <2>1 DEF QueryPageInit, PageTyped, NoEdits
  <1>6. Started
    BY <1>1, <1>4 DEF QueryPageInit, Started, NoEdits
  <1>7. EditsFollow
    BY <1>4 DEF QueryPageInit, EditsFollow, NoEdits
  <1>8. FilterUnderWay /\ Right
    BY DEF QueryPageInit, FilterUnderWay, Right
  <1>9. OneListing /\ ResultsList
    BY <1>4 DEF QueryPageInit, OneListing, ResultsList
  <1> QED
    BY <1>5, <1>6, <1>7, <1>8, <1>9 DEF PageInv
\* What a request may tell the page, and what ends it
Brings(e, m) ==
  \/ e.op = "run" /\ m.type \in {"RUN", "ERROR"}
  \/ e.op = "run" /\ e.sql.kind = "change" /\ m.type \in {"DML", "INSERTED"}
  \/ e.op = "run" /\ e.sql.kind # "change" /\ m.type = "DATA" /\ m.sql = e.sql
  \/ e.op = "next" /\ m.type = "NEXT_PAGE" /\ m.sql = e.sql
  \/ e.op = "count" /\ m.type = "COUNT" /\ m.sql = e.sql
  \/ e.op = "save" /\ m.type \in {"updateSuccess", "updateFail"}

\* The host goes on: what it tells comes from what is asked, and what is asked
\* ends in an answer or is dropped.
Moves ==
  /\ app' = app /\ ops' = ops /\ alone' = alone /\ calm' = calm
  /\ typed' = typed /\ misplaced' = misplaced
  /\ dropped \subseteq dropped'
  /\ Owing' \subseteq Owing
  /\ \A m \in Told' : m \in Told \/ \E e \in Owing : Brings(e, m)
  /\ view = "shown" =>
       /\ Told \subseteq Told'
       /\ \A e \in Owing : \/ e \in Owing'
                           \/ (\E m \in Told' : Brings(e, m) /\ m.type # "RUN")
                           \/ (e.op = "run" /\ (e.sql.kind = "filter" => "filter" \in dropped'))
                           \/ e.op = "next" /\ "next" \in dropped'
                           \/ e.op = "count"
       /\ \A e \in AskedHost : e.op = "run" => e \in AskedHost' \/ Told' # {}

\* The host's steps keep what holds of the page and of what is on its way.
LEMMA MovesInv ==
  ASSUME PageInv, Moves
  PROVE  /\ EditsFollow' /\ FilterUnderWay' /\ OneListing' /\ Right' /\ ResultsList'
         /\ app.sql = NoText => /\ \A e \in Owing' : e.op = "run"
                               /\ \A m \in Told' : m.type \in RunTypes
  <1>1. /\ PageTyped /\ Started /\ EditsFollow /\ FilterUnderWay /\ OneListing /\ Right
        /\ ResultsList
    BY DEF PageInv
  <1>2. \A e \in Owing' : e \in Owing
    BY DEF Moves
  <1>3. \A m \in Told' : m \in Told \/ \E e \in Owing : Brings(e, m)
    BY DEF Moves
  <1>4. /\ app' = app /\ ops' = ops /\ alone' = alone /\ calm' = calm
        /\ typed' = typed /\ misplaced' = misplaced
        /\ \A k : k \in dropped => k \in dropped'
    BY DEF Moves
  <1>5. app.sql # NoText => view = "shown"
    BY <1>1 DEF Started
  <1>6. app.sql = NoText => /\ \A e \in Owing' : e.op = "run"
                            /\ \A m \in Told' : m.type \in RunTypes
    BY <1>1, <1>2, <1>3 DEF Started, Brings, RunTypes
  <1>7. EditsFollow'
    BY <1>1, <1>2, <1>3, <1>4 DEF EditsFollow, Brings
  <1>8. FilterUnderWay'
    <2>1. SUFFICES ASSUME app.filtering PROVE FilterUnderWay'
      BY <1>4 DEF FilterUnderWay
    <2>2. view = "shown"
      BY <1>1, <1>5, <2>1 DEF Started
    <2>3. CASE "filter" \in dropped
      BY <1>4, <2>3 DEF FilterUnderWay
    <2>4. CASE \E m \in Told : m.type = "ERROR" \/ (m.type = "DATA" /\ m.sql.kind = "filter")
      BY <2>2, <2>4 DEF FilterUnderWay, Moves
    <2>5. CASE \E e \in Owing : e.op = "run" /\ e.sql.kind = "filter"
      <3>1. PICK e \in Owing : e.op = "run" /\ e.sql.kind = "filter"
        BY <2>5
      <3>2. \/ e \in Owing'
            \/ (\E m \in Told' : Brings(e, m) /\ m.type # "RUN")
            \/ "filter" \in dropped'
        BY <2>2, <3>1 DEF Moves
      <3> QED
        BY <3>1, <3>2 DEF FilterUnderWay, Brings
    <2> QED
      BY <1>1, <2>1, <2>3, <2>4, <2>5 DEF FilterUnderWay
  <1>9. OneListing'
    <2>1. ASSUME NEW l, About(l, app.sql, Owing, Told) PROVE About(l, app.sql, Owing', Told')
      BY <1>2, <1>3, <2>1 DEF About, Brings
    <2>2. NoChange => NoChange'
      BY <1>2, <1>3 DEF NoChange, Brings
    <2>3. SavesAlone => SavesAlone'
      BY <1>2, <1>3, <1>4 DEF SavesAlone, Brings
    <2> QED
      BY <1>1, <1>4, <2>1, <2>2, <2>3 DEF OneListing
  <1>10. Right'
    <2>1. SUFFICES ASSUME calm PROVE Right'
      BY <1>4 DEF Right
    <2>2. view = "shown"
      BY <1>1, <1>5, <2>1, QueryPageAssumption DEF Right
    <2>3. ASSUME app.loading
          PROVE  \/ "next" \in dropped' \/ Told' # {}
                 \/ \E e \in AskedHost' : e.op = "run"
                 \/ \E e \in Owing' : e.op = "next"
      <3>1. CASE "next" \in dropped
        BY <1>4, <3>1
      <3>2. CASE Told # {}
        BY <2>2, <3>2 DEF Moves
      <3>3. CASE \E e \in AskedHost : e.op = "run"
        BY <2>2, <3>3 DEF Moves
      <3>4. CASE \E e \in Owing : e.op = "next"
        BY <2>2, <3>4 DEF Moves
      <3> QED
        BY <1>1, <2>1, <2>3, <3>1, <3>2, <3>3, <3>4 DEF Right
    <2> QED
      BY <1>1, <1>4, <2>1, <2>3 DEF Right
  <1>11. ResultsList'
    BY <1>1, <1>3, <1>4 DEF ResultsList, Brings
  <1> QED
    BY <1>6, <1>7, <1>8, <1>9, <1>10, <1>11
\* Requests and messages are of their types.
LEMMA RequestsMade ==
  ASSUME NEW text \in Texts
  PROVE  /\ Request("run", text, 1) \in Reqs /\ Request("count", text, 1) \in Reqs
         /\ Request("save", text, 1) \in Reqs /\ Request("next", text, 2) \in Reqs
         /\ \A op, page : LET r == Request(op, text, page)
                          IN  r.op = op /\ r.sql = text /\ r.page = page
  BY DEF Request, Reqs

\* What a request is made of
LEMMA RequestsAre ==
  ASSUME NEW e \in Reqs
  PROVE  /\ e.sql \in Texts /\ e.op \in {"run", "count", "save", "next"} /\ e.page \in 1..2
         /\ e.op = "run" => e = Request("run", e.sql, 1)
  BY DEF Request, Reqs

\* The messages the handlers make are of the type of messages.
LEMMA MessagesTyped ==
  ASSUME NEW text \in Texts,
         NEW type \in TextTypes \union {"RUN", "DML", "INSERTED", "ERROR"}
  PROVE  /\ Message(type, text) \in Messages /\ Message(type, text).type = type
         /\ type \in TextTypes => Message(type, text).sql = text
  BY DEF Message, Messages, TextTypes

\* What a message is made of
LEMMA MessagesAre ==
  ASSUME NEW m \in Messages
  PROVE  /\ m.type \in TextTypes \union {"RUN", "DML", "INSERTED", "ERROR",
                                         "updateSuccess", "updateFail"}
         /\ m.type \in TextTypes => m.sql \in Texts
         /\ m.page \in 1..2
  BY DEF Messages, TextTypes

\* What QueryPage.send does with one message, sent once or more
Sent(m) ==
  /\ view' \in {"reading", "loading", "shown"} /\ first' \in Messages \union {NoText}
  /\ handlers' \in Seq(Messages) /\ toPage' \in Seq(Messages)
  /\ view = "shown" => view' = "shown" /\ Told' = Told \union {m}
  /\ view # "shown" => view' # "shown" /\ toPage' = <<>>
  /\ view' = "reading" => first' \in Messages
  /\ view' \in {"loading", "shown"} => handlers' # <<>>
  /\ Told' \subseteq Told \union {m} /\ m \in Told'

\* A message is sent: a page that is shown has it on its way, one that is not
\* will be told.
LEMMA SendsDo ==
  ASSUME PageTyped, Started, NEW m \in Messages, NEW s \in Seq(Messages),
         Elements(s) = {m}, s[1] = m, s[Len(s)] = m, Sends(s)
  PROVE  Sent(m)
  <1>1. /\ toPage \in Seq(Messages) /\ handlers \in Seq(Messages)
        /\ first \in Messages \union {NoText}
        /\ view \in {"none", "reading", "loading", "shown"}
    BY DEF PageTyped
  <1>2. /\ <<m>> \in Seq(Messages) /\ Elements(<<m>>) = {m} /\ <<m>> # <<>>
    BY <1>1, ElementsWith
  <1>3. CASE view = "none"
    <2>1. /\ view' = "reading" /\ first' = m /\ handlers' = handlers /\ toPage' = toPage
          /\ handlers = <<>> /\ toPage = <<>>
      BY <1>3 DEF Sends, Started
    <2>2. Elements(toPage) = {} /\ Elements(handlers) = {}
      BY <1>1, <2>1, ElementsOf
    <2>3. Told' = {m}
      BY <2>1, <2>2 DEF Told
    <2> QED
      BY <1>1, <1>3, <2>1, <2>3 DEF Sent
  <1>4. CASE view \in {"reading", "loading"}
    <2>1. /\ view' = view /\ first' = first /\ handlers' = <<m>> /\ toPage' = toPage
          /\ toPage = <<>>
          /\ view = "reading" => first \in Messages
      BY <1>4 DEF Sends, Started
    <2>2. Elements(toPage) = {}
      BY <1>1, <2>1, ElementsOf
    <2>3. Told' \subseteq Told \union {m} /\ m \in Told'
      BY <1>2, <1>4, <2>1, <2>2 DEF Told
    <2> QED
      BY <1>1, <1>2, <1>4, <2>1, <2>3 DEF Sent
  <1>5. CASE view = "shown"
    <2>1. /\ view' = view /\ first' = first /\ handlers' = <<m>> /\ toPage' = toPage \o s
      BY <1>5 DEF Sends
    <2>2. toPage \o s \in Seq(Messages) /\ Elements(toPage \o s) = Elements(toPage) \union {m}
      BY <1>1, ElementsTogether
    <2>3. Told' = Told \union {m}
      BY <1>5, <2>1, <2>2 DEF Told
    <2> QED
      BY <1>1, <1>2, <1>5, <2>1, <2>2, <2>3 DEF Sent
  <1> QED
    BY <1>1, <1>3, <1>4, <1>5

\* QueryUnit.runQuery for one handler or more
LEMMA RunQueryDoes ==
  ASSUME PageTyped, Started, NEW text \in Texts, NEW n \in Nat, n > 0, RunQuery(text, n)
  PROVE  /\ IsABag(requests') /\ DOMAIN requests' \subseteq Reqs
         /\ DOMAIN requests' = DOMAIN requests \union {Request("run", text, 1)}
         /\ Sent(Message("RUN", text))
  <1>1. requests' = Asks(n, Request("run", text, 1)) /\ Sends([i \in 1..n |-> Message("RUN", text)])
    BY DEF RunQuery
  <1>2. IsABag(requests) /\ DOMAIN requests \subseteq Reqs
    BY DEF PageTyped
  <1>3. PICK r : r = Request("run", text, 1)
    OBVIOUS
  <1>4. r \in Reqs
    BY <1>3, RequestsMade
  <1>5. IsABag(Asks(n, r)) /\ DOMAIN Asks(n, r) = DOMAIN requests \union {r}
    BY <1>2, BagAsked
  <1>6. PICK m : m = Message("RUN", text)
    OBVIOUS
  <1>7. m \in Messages
    BY <1>6, MessagesTyped
  <1>8. PICK s : s = [i \in 1..n |-> m]
    OBVIOUS
  <1>9. s \in Seq(Messages) /\ Elements(s) = {m} /\ s[Len(s)] = m /\ s[1] = m
    BY <1>7, <1>8, ElementsRepeated
  <1>10. Sends(s)
    BY <1>1, <1>6, <1>8
  <1>11. Sent(m)
    BY <1>7, <1>9, <1>10, SendsDo
  <1> QED
    BY <1>1, <1>2, <1>3, <1>4, <1>5, <1>6, <1>11

\* The answers to a request are messages it may bring.
LEMMA AnswersTyped ==
  ASSUME NEW r \in Reqs
  PROVE  /\ r.op # "run" => /\ Emitted(r) \in Messages /\ Brings(r, Emitted(r))
                            /\ Emitted(r).type # "RUN"
         /\ r.op = "save" => /\ Message("updateFail", NoText) \in Messages
                             /\ Brings(r, Message("updateFail", NoText))
                             /\ Message("updateFail", NoText).type # "RUN"
         /\ \A type \in {"DML", "INSERTED", "ERROR"} :
              r.op = "run" /\ r.sql.kind = "change" =>
                /\ Message(type, r.sql) \in Messages /\ Brings(r, Message(type, r.sql))
                /\ Message(type, r.sql).type # "RUN"
         /\ \A type \in {"DATA", "ERROR"} :
              r.op = "run" /\ r.sql.kind # "change" =>
                /\ Message(type, r.sql) \in Messages /\ Brings(r, Message(type, r.sql))
                /\ Message(type, r.sql).type # "RUN"
  <1>1. /\ r.sql \in Texts /\ r.op \in {"run", "count", "save", "next"} /\ r.page \in 1..2
    BY RequestsAre
  <1>2. CASE r.op = "next"
    <2>1. /\ Emitted(r) = [type |-> "NEXT_PAGE", page |-> r.page, sql |-> r.sql]
      BY <1>2 DEF Emitted, Message
    <2> QED
      BY <1>1, <1>2, <2>1 DEF Messages, TextTypes, Brings
  <1>3. CASE r.op = "count"
    <2>1. /\ Emitted(r) = [type |-> "COUNT", page |-> 1, sql |-> r.sql]
      BY <1>3 DEF Emitted, Message
    <2> QED
      BY <1>1, <1>3, <2>1 DEF Messages, TextTypes, Brings
  <1>4. CASE r.op = "save"
    <2>1. /\ Emitted(r) = [type |-> "updateSuccess", page |-> 1, sql |-> NoText]
          /\ Message("updateFail", NoText) = [type |-> "updateFail", page |-> 1, sql |-> NoText]
      BY <1>4 DEF Emitted, Message
    <2> QED
      BY <1>1, <1>4, <2>1 DEF Messages, TextTypes, Brings
  <1>5. CASE r.op = "run"
    <2>1. \A type \in {"DML", "INSERTED", "ERROR"} :
            Message(type, r.sql) = [type |-> type, page |-> 1, sql |-> NoText]
      BY DEF Message
    <2>2. Message("DATA", r.sql) = [type |-> "DATA", page |-> 1, sql |-> r.sql]
      BY DEF Message
    <2> QED
      BY <1>1, <1>5, <2>1, <2>2 DEF Messages, TextTypes, Brings
  <1> QED
    BY <1>1, <1>2, <1>3, <1>4, <1>5

\* The host takes an event of the page: every handler of it asks for what is
\* asked already.
LEMMA HostTakesInv ==
  ASSUME PageInv, HostTakes
  PROVE  PageInv'
  <1>1. PageTyped /\ Started
    BY DEF PageInv
  <1>2. /\ toHost \in Seq(Reqs) /\ toHost # <<>> /\ toHost' = Tail(toHost)
        /\ handlers \in Seq(Messages) /\ IsABag(requests) /\ DOMAIN requests \subseteq Reqs
        /\ UNCHANGED <<app, ops, alone, calm, dropped, typed, misplaced>>
    BY <1>1 DEF PageTyped, HostTakes
  <1>3. view = "shown" /\ handlers # <<>>
    BY <1>1, <1>2 DEF Started, PageTyped
  <1>e. PICK e : e = Head(toHost)
    OBVIOUS
  <1>n. PICK n : n = Len(handlers)
    OBVIOUS
  <1>4. n \in Nat /\ n > 0
    BY <1>2, <1>3, <1>n, EmptySeq
  <1>5. /\ e \in Reqs /\ Tail(toHost) \in Seq(Reqs) /\ AskedHost = {e} \union Elements(Tail(toHost))
    BY <1>2, <1>e, ElementsOf DEF AskedHost
  <1>6. AskedHost = {e} \union AskedHost'
    BY <1>2, <1>5 DEF AskedHost
  <1>7. e.sql \in Texts /\ (e.op = "run" => e = Request("run", e.sql, 1))
    BY <1>5, RequestsAre
  <1>8. /\ IsABag(requests') /\ DOMAIN requests' \subseteq Reqs
        /\ DOMAIN requests' = DOMAIN requests \union {e}
        /\ e.op = "run" => Sent(Message("RUN", e.sql))
        /\ e.op # "run" => UNCHANGED <<view, first, handlers, toPage>>
    <2>1. CASE e.op = "run"
      <3>1. RunQuery(e.sql, n)
        BY <1>e, <1>n, <2>1 DEF HostTakes
      <3> QED
        BY <1>1, <1>4, <1>7, <2>1, <3>1, RunQueryDoes
    <2>2. CASE e.op # "run"
      <3>1. requests' = Asks(n, e) /\ UNCHANGED <<view, first, handlers, toPage>>
        BY <1>e, <1>n, <2>2 DEF HostTakes
      <3>2. IsABag(Asks(n, e)) /\ DOMAIN Asks(n, e) = DOMAIN requests \union {e}
        BY <1>2, <1>4, BagAsked
      <3> QED
        BY <1>2, <1>5, <2>2, <3>1, <3>2
    <2> QED
      BY <2>1, <2>2
  <1>9. Owing' = Owing
    BY <1>6, <1>8 DEF Owing
  <1>10. e.op # "run" => Told' = Told
    BY <1>8 DEF Told
  <1>m. PICK m : m = Message("RUN", e.sql)
    OBVIOUS
  <1>11. m \in Messages /\ m.type = "RUN"
    BY <1>7, <1>m, MessagesTyped
  <1>12. e.op = "run" => /\ Sent(m) /\ Told' = Told \union {m} /\ view' = "shown"
                         /\ Brings(e, m) /\ e \in Owing
    BY <1>3, <1>6, <1>8, <1>m, <1>11 DEF Sent, Brings, Owing
  <1>13. Moves
    BY <1>2, <1>3, <1>6, <1>8, <1>9, <1>10, <1>12 DEF Moves
  <1>14. PageTyped'
    BY <1>1, <1>2, <1>5, <1>8, <1>12, HostTakes DEF PageTyped, Sent, HostTakes
  <1>15. /\ EditsFollow' /\ FilterUnderWay' /\ OneListing' /\ Right' /\ ResultsList'
         /\ app.sql = NoText => /\ \A o \in Owing' : o.op = "run"
                                /\ \A o \in Told' : o.type \in RunTypes
    BY <1>13, MovesInv
  <1>16. Started'
    BY <1>1, <1>2, <1>3, <1>8, <1>12, <1>15 DEF Started, Sent
  <1> QED
    BY <1>14, <1>15, <1>16 DEF PageInv

\* What waits is asked, and who waits has a page.
LEMMA Waiting ==
  ASSUME PageTyped, Started, NEW r \in BagToSet(requests)
  PROVE  /\ r \in DOMAIN requests /\ r \in Reqs /\ r \in Owing /\ view # "none"
         /\ r.op # "run" => view = "shown"
  <1>1. r \in DOMAIN requests
    BY DEF BagToSet
  <1>2. r \in Reqs /\ r \in Owing
    BY <1>1 DEF PageTyped, Owing
  <1>3. EmptyBag = [x \in {} |-> 0] \/ DOMAIN EmptyBag = {}
    BY DEF EmptyBag, SetToBag
  <1>4. view # "none"
    BY <1>1, <1>3 DEF Started
  <1>5. r.op # "run" => app.sql # NoText
    BY <1>2 DEF Started
  <1> QED
    BY <1>1, <1>2, <1>4, <1>5 DEF Started

\* A request is answered: the answer is told.
LEMMA AnsweredInv ==
  ASSUME PageInv, NEW r \in BagToSet(requests), Answered(r)
  PROVE  PageInv'
  <1>1. PageTyped /\ Started
    BY DEF PageInv
  <1>2. /\ requests' = requests (-) SetToBag({r})
        /\ UNCHANGED <<toHost, app, ops, alone, calm, dropped, twice, typed, misplaced>>
    BY DEF Answered
  <1>3. /\ r \in DOMAIN requests /\ r \in Reqs /\ r \in Owing /\ view # "none"
        /\ r.op # "run" => view = "shown"
    BY <1>1, Waiting
  <1>4. IsABag(requests) /\ DOMAIN requests \subseteq Reqs /\ toPage \in Seq(Messages)
    BY <1>1 DEF PageTyped
  <1>5. /\ IsABag(requests') /\ DOMAIN requests' \subseteq DOMAIN requests
        /\ DOMAIN requests \ {r} \subseteq DOMAIN requests'
    <2>1. /\ IsABag(requests (-) SetToBag({r}))
          /\ DOMAIN (requests (-) SetToBag({r})) \subseteq DOMAIN requests
          /\ DOMAIN requests \ {r} \subseteq DOMAIN (requests (-) SetToBag({r}))
      BY <1>3, <1>4, BagTaken
    <2> QED
      BY <1>2, <2>1
  <1>6. \E m \in Messages : Brings(r, m) /\ m.type # "RUN" /\ Sent(m)
    <2>1. ASSUME NEW m \in Messages, Sends(<<m>>) PROVE Sent(m)
      <3>1. /\ <<m>> \in Seq(Messages) /\ Elements(<<m>>) = {m}
            /\ <<m>>[Len(<<m>>)] = m /\ <<m>>[1] = m
        BY <1>4, ElementsWith
      <3> QED
        BY <1>1, <2>1, <3>1, SendsDo
    <2>2. ASSUME NEW m \in Messages, r.op # "run", toPage' = Append(toPage, m),
                 UNCHANGED <<view, first, handlers>>
          PROVE  Sent(m)
      <3>s. PICK s : s = toPage
        OBVIOUS
      <3>r. PICK t : t = toPage'
        OBVIOUS
      <3>a. More(t, s, m)
        BY <2>2, <3>s, <3>r DEF More
      <3>t. s \in Seq(Messages) /\ m \in Messages
        BY <1>4, <2>2, <3>s
      <3>b. t \in Seq(Messages) /\ Elements(t) = Elements(s) \union {m} /\ t # <<>>
        BY <3>a, <3>t, ElementsAppended
      <3>1. toPage' \in Seq(Messages) /\ Elements(toPage') = Elements(toPage) \union {m}
        BY <3>b, <3>s, <3>r
      <3>2. view = "shown" /\ view' = "shown"
        BY <1>3, <2>2
      <3>3. Told' = Told \union {m}
        BY <2>2, <3>1, <3>2 DEF Told
      <3> QED
        BY <1>1, <2>2, <3>1, <3>2, <3>3 DEF Sent, PageTyped, Started
    <2>3. CASE r.op = "run"
      <3>1. PICK type \in IF r.sql.kind = "change" THEN {"DML", "INSERTED", "ERROR"}
                          ELSE {"DATA", "ERROR"} : Sends(<<Message(type, r.sql)>>)
        BY <2>3 DEF Answered
      <3>2. PICK m : m = Message(type, r.sql)
        OBVIOUS
      <3>3. m \in Messages /\ Brings(r, m) /\ m.type # "RUN"
        BY <1>3, <2>3, <3>1, <3>2, AnswersTyped
      <3> QED
        BY <2>1, <3>1, <3>2, <3>3
    <2>4. CASE r.op # "run"
      <3>1. \/ toPage' = Append(toPage, Emitted(r)) /\ UNCHANGED <<view, first, handlers>>
            \/ r.op = "save" /\ toPage' = Append(toPage, Message("updateFail", NoText))
                 /\ UNCHANGED <<view, first, handlers>>
        BY <2>4 DEF Answered
      <3> QED
        BY <1>3, <2>2, <2>4, <3>1, AnswersTyped
    <2> QED
      BY <2>3, <2>4
  <1>7. PICK m \in Messages : Brings(r, m) /\ m.type # "RUN" /\ Sent(m)
    BY <1>6
  <1>8. AskedHost' = AskedHost
    BY <1>2 DEF AskedHost
  <1>9. Owing' \subseteq Owing /\ Owing \ {r} \subseteq Owing'
    BY <1>5, <1>8 DEF Owing
  <1>10. Moves
    <2>1. /\ Told' \subseteq Told \union {m} /\ m \in Told'
          /\ view = "shown" => view' = "shown" /\ Told' = Told \union {m}
      BY <1>7 DEF Sent
    <2> QED
      BY <1>2, <1>3, <1>7, <1>8, <1>9, <2>1 DEF Moves
  <1>11. PageTyped'
    <2>1. DOMAIN requests' \subseteq Reqs
      BY <1>4, <1>5
    <2>2. /\ view' \in {"reading", "loading", "shown"} /\ first' \in Messages \union {NoText}
          /\ handlers' \in Seq(Messages) /\ toPage' \in Seq(Messages)
      BY <1>7 DEF Sent
    <2>3. UNCHANGED <<toHost, app, ops, alone, calm, dropped, twice, typed, misplaced>>
      BY <1>2
    <2> QED
      BY <1>1, <1>5, <2>1, <2>2, <2>3 DEF PageTyped
  <1>12. /\ EditsFollow' /\ FilterUnderWay' /\ OneListing' /\ Right' /\ ResultsList'
         /\ app.sql = NoText => /\ \A o \in Owing' : o.op = "run"
                                /\ \A o \in Told' : o.type \in RunTypes
    BY <1>10, MovesInv
  <1>13. Started'
    BY <1>1, <1>2, <1>7, <1>12 DEF Started, Sent
  <1> QED
    BY <1>11, <1>12, <1>13 DEF PageInv

\* A request that is never answered
LEMMA DroppedInv ==
  ASSUME PageInv, NEW r \in BagToSet(requests), Dropped(r)
  PROVE  PageInv'
  <1>1. PageTyped /\ Started
    BY DEF PageInv
  <1>2. /\ requests' = requests (-) SetToBag({r}) /\ r.op # "save"
        /\ dropped' = dropped \union
             ({IF r.op = "run" THEN r.sql.kind ELSE r.op} \intersect {"filter", "next"})
        /\ UNCHANGED <<view, first, handlers, toPage, toHost, app, ops, alone, calm,
                       twice, typed, misplaced>>
    BY DEF Dropped
  <1>3. r \in DOMAIN requests /\ r \in Reqs /\ r \in Owing /\ view # "none"
    BY <1>1, Waiting
  <1>4. IsABag(requests) /\ DOMAIN requests \subseteq Reqs /\ toPage \in Seq(Messages)
    BY <1>1 DEF PageTyped
  <1>5. /\ IsABag(requests') /\ DOMAIN requests' \subseteq DOMAIN requests
        /\ DOMAIN requests \ {r} \subseteq DOMAIN requests'
    <2>1. /\ IsABag(requests (-) SetToBag({r}))
          /\ DOMAIN (requests (-) SetToBag({r})) \subseteq DOMAIN requests
          /\ DOMAIN requests \ {r} \subseteq DOMAIN (requests (-) SetToBag({r}))
      BY <1>3, <1>4, BagTaken
    <2> QED
      BY <1>2, <2>1
  <1>6. AskedHost' = AskedHost /\ Told' = Told
    BY <1>2 DEF AskedHost, Told
  <1>7. Owing' \subseteq Owing /\ Owing \ {r} \subseteq Owing'
    BY <1>5, <1>6 DEF Owing
  <1>8. /\ r.op \in {"run", "count", "next"} /\ dropped \subseteq dropped'
        /\ r.op = "run" => (r.sql.kind = "filter" => "filter" \in dropped')
        /\ r.op = "next" => "next" \in dropped'
    BY <1>2, <1>3, RequestsAre
  <1>9. Moves
    BY <1>2, <1>3, <1>6, <1>7, <1>8 DEF Moves
  <1>10. PageTyped'
    <2>1. DOMAIN requests' \subseteq Reqs /\ IsABag(requests')
      BY <1>4, <1>5
    <2>2. UNCHANGED <<view, first, handlers, toPage, toHost, app, ops, alone, calm,
                      twice, typed, misplaced>>
      BY <1>2
    <2> QED
      BY <1>1, <2>1, <2>2 DEF PageTyped
  <1>11. /\ EditsFollow' /\ FilterUnderWay' /\ OneListing' /\ Right' /\ ResultsList'
         /\ app.sql = NoText => /\ \A o \in Owing' : o.op = "run"
                                /\ \A o \in Told' : o.type \in RunTypes
    BY <1>9, MovesInv
  <1>12. Started'
    BY <1>1, <1>2, <1>3, <1>11 DEF Started
  <1> QED
    BY <1>10, <1>11, <1>12 DEF PageInv

\* The first handlers of the page are added; what they will tell was told.
LEMMA PageReadInv ==
  ASSUME PageInv, PageRead
  PROVE  PageInv'
  <1>1. PageTyped /\ Started
    BY DEF PageInv
  <1>2. /\ view = "reading" /\ view' = "loading" /\ handlers' = Append(handlers, first)
        /\ first' = NoText /\ UNCHANGED <<requests, toPage, toHost, app, ghosts>>
        /\ first \in Messages /\ handlers \in Seq(Messages)
    BY <1>1 DEF PageRead, Started, PageTyped
  <1>s. PICK s : s = handlers
    OBVIOUS
  <1>m. PICK m : m = first
    OBVIOUS
  <1>r. PICK t : t = handlers'
    OBVIOUS
  <1>t. m \in Messages /\ s \in Seq(Messages)
    BY <1>2, <1>s, <1>m
  <1>a. More(t, s, m)
    BY <1>2, <1>s, <1>m, <1>r DEF More
  <1>b. t \in Seq(Messages) /\ Elements(t) = Elements(s) \union {m} /\ t # <<>>
    BY <1>a, <1>t, ElementsAppended
  <1>3. /\ handlers' \in Seq(Messages) /\ handlers' # <<>>
        /\ Elements(handlers') = Elements(handlers) \union {first}
    BY <1>b, <1>s, <1>m, <1>r
  <1>4. Told' = Told
    BY <1>2, <1>3 DEF Told
  <1>5. Owing' = Owing /\ AskedHost' = AskedHost
    BY <1>2 DEF Owing, AskedHost
  <1>6. Moves
    BY <1>2, <1>4, <1>5 DEF Moves, ghosts
  <1>7. PageTyped'
    BY <1>1, <1>2, <1>3 DEF PageTyped, ghosts
  <1>8. /\ EditsFollow' /\ FilterUnderWay' /\ OneListing' /\ Right' /\ ResultsList'
        /\ app.sql = NoText => /\ \A o \in Owing' : o.op = "run"
                               /\ \A o \in Told' : o.type \in RunTypes
    BY <1>6, MovesInv
  <1>9. Started'
    BY <1>1, <1>2, <1>3, <1>8 DEF Started
  <1> QED
    BY <1>7, <1>8, <1>9 DEF PageInv

\* The page is mounted: what its handlers were to tell is on its way.
LEMMA PageMountedInv ==
  ASSUME PageInv, PageMounted
  PROVE  PageInv'
  <1>1. PageTyped /\ Started
    BY DEF PageInv
  <1>2. /\ view = "loading" /\ view' = "shown" /\ toPage' = toPage \o handlers
        /\ UNCHANGED <<first, handlers, requests, toHost, app, ghosts>>
        /\ toPage \in Seq(Messages) /\ handlers \in Seq(Messages)
    BY <1>1 DEF PageMounted, PageTyped
  <1>3. /\ toPage \o handlers \in Seq(Messages)
        /\ Elements(toPage \o handlers) = Elements(toPage) \union Elements(handlers)
    BY <1>2, ElementsTogether
  <1>4. Told' = Told
    BY <1>2, <1>3 DEF Told
  <1>5. Owing' = Owing /\ AskedHost' = AskedHost
    BY <1>2 DEF Owing, AskedHost
  <1>6. Moves
    BY <1>2, <1>4, <1>5 DEF Moves, ghosts
  <1>7. PageTyped'
    BY <1>1, <1>2, <1>3 DEF PageTyped, ghosts
  <1>8. /\ EditsFollow' /\ FilterUnderWay' /\ OneListing' /\ Right' /\ ResultsList'
        /\ app.sql = NoText => /\ \A o \in Owing' : o.op = "run"
                               /\ \A o \in Told' : o.type \in RunTypes
    BY <1>6, MovesInv
  <1>9. Started'
    BY <1>1, <1>2, <1>3, <1>8 DEF Started
  <1> QED
    BY <1>7, <1>8, <1>9 DEF PageInv

-----------------------------------------------------------------------------
\* What the page shows is of its types, and nothing is turned, counted or saved
\* before it shows something.
AppTyped ==
  app \in [sql : Texts \union {NoText}, rows : PageRows \union {NoText},
           base : Texts \union {NoText}, total : Texts \union {NoText},
           filtering : BOOLEAN, loading : BOOLEAN,
           edits : [tracked : BOOLEAN, row : PageRows \union {NoText}]]

AppStarted ==
  /\ app.sql = NoText =>
       /\ app.rows = NoText /\ app.edits.row = NoText /\ ~app.filtering
       /\ \A e \in Owing : e.op = "run"
       /\ \A m \in Told : m.type \in RunTypes
  /\ app.sql # NoText => app.base # NoText

PageRight == AppTyped /\ AppStarted /\ EditsFollow /\ FilterUnderWay /\ OneListing /\ Right /\ ResultsList

\* The page takes a message, and asks for nothing or for one thing.
PageTook(m) ==
  /\ m \in Messages /\ m \in Told /\ Told' \subseteq Told
  /\ \A o \in Told : o = m \/ o \in Told'
  /\ alone' = alone /\ dropped' = dropped /\ typed' = typed /\ misplaced' = misplaced

AsksNothing == Owing' = Owing /\ AskedHost' = AskedHost
AsksMore(r) == Owing' = Owing \union {r} /\ AskedHost' = AskedHost \union {r}

\* A result: rows, and the conditions that are put on their statement, are of
\* the statement listed.
LEMMA TakesData ==
  ASSUME PageRight, NEW m, PageTook(m), m.type = "DATA",
         NEW full \in BOOLEAN, full => AsksMore(Request("count", m.sql, 1)), ~full => AsksNothing,
         app' = [sql       |-> m.sql,
                 rows      |-> [sql |-> m.sql, page |-> 1],
                 base      |-> Base(m.sql),
                 total     |-> IF full THEN NoText ELSE m.sql,
                 filtering |-> FALSE,
                 loading   |-> FALSE,
                 edits     |-> NoEdits],
         calm' = (calm \/ alone)
  PROVE  PageRight'
  <1>1. /\ AppTyped /\ AppStarted /\ EditsFollow /\ FilterUnderWay /\ OneListing /\ Right
        /\ ResultsList
    BY DEF PageRight
  <1>2. m.sql \in Texts /\ m.sql # NoText /\ m \in Told
    BY MessagesAre, QueryPageAssumption DEF PageTook, TextTypes
  <1>3. /\ Base(m.sql) \in Texts /\ Base(m.sql) # NoText
        /\ Base(m.sql) = m.sql \/ (app.filtering /\ Base(m.sql) = app.base)
    BY <1>1, <1>2, QueryPageAssumption DEF Base, AppTyped
  <1>4. /\ app'.sql = m.sql /\ app'.rows = [sql |-> m.sql, page |-> 1] /\ app'.base = Base(m.sql)
        /\ app'.total \in {NoText, m.sql} /\ app'.filtering = FALSE /\ app'.loading = FALSE
        /\ app'.edits = [tracked |-> TRUE, row |-> NoText]
    BY DEF NoEdits
  <1>5. AppTyped'
    BY <1>2, <1>3 DEF AppTyped, PageRows, NoEdits
  <1>6. /\ \A o \in Told' : o \in Told
        /\ alone' = alone /\ dropped' = dropped /\ misplaced' = misplaced
    BY DEF PageTook
  <1>7. \A e \in Owing' : e \in Owing \/ (e.op = "count" /\ e.sql = m.sql)
    <2>1. Request("count", m.sql, 1).op = "count" /\ Request("count", m.sql, 1).sql = m.sql
      BY DEF Request
    <2> QED
      BY <2>1 DEF AsksMore, AsksNothing
  <1>8. AppStarted' /\ FilterUnderWay'
    BY <1>2, <1>3, <1>4 DEF AppStarted, FilterUnderWay
  <1>9. EditsFollow'
    BY <1>1, <1>4, <1>6 DEF EditsFollow
  <1>10. ASSUME alone
         PROVE  /\ NoChange' /\ m.sql = app'.sql
                /\ About(m.sql, app'.sql, Owing', Told')
                /\ app.filtering => m.sql.table = app.base.table \/ "filter" \in dropped
    <2>1. NoChange
      BY <1>1, <1>10 DEF OneListing
    <2>2. PICK l \in Texts : /\ About(l, app.sql, Owing, Told)
                             /\ app.filtering => l.table = app.base.table \/ "filter" \in dropped
      BY <1>1, <1>10 DEF OneListing
    <2>3. m.sql = l
      BY <1>2, <2>2 DEF About
    <2>4. NoChange'
      BY <1>6, <1>7, <2>1 DEF NoChange
    <2>5. About(m.sql, app'.sql, Owing', Told')
      BY <1>4, <1>6, <1>7, <2>2, <2>3 DEF About
    <2> QED
      BY <1>4, <2>2, <2>3, <2>4, <2>5
  <1>11. ASSUME calm, ~alone
         PROVE  /\ About(m.sql, app'.sql, Owing', Told') /\ SavesAlone' /\ m.sql = app.sql
    <2>1. About(app.sql, app.sql, Owing, Told) /\ SavesAlone
      BY <1>1, <1>11 DEF OneListing
    <2>2. m.sql = app.sql
      BY <1>2, <2>1 DEF About
    <2>3. About(m.sql, app'.sql, Owing', Told')
      BY <1>4, <1>6, <1>7, <2>1, <2>2 DEF About
    <2>4. SavesAlone'
      BY <1>2, <1>6, <1>7, <2>1 DEF SavesAlone
    <2> QED
      BY <2>2, <2>3, <2>4
  <1>12. OneListing'
    BY <1>2, <1>4, <1>6, <1>10, <1>11 DEF OneListing
  <1>13. Right'
    <2>1. SUFFICES ASSUME calm \/ alone PROVE Right'
      BY DEF Right
    <2>2. app.filtering => m.sql.table = app.base.table \/ "filter" \in dropped
      BY <1>1, <1>10, <1>11, <2>1 DEF Right
    <2>3. Base(m.sql).table = m.sql.table \/ "filter" \in dropped
      BY <1>3, <2>2
    <2>4. app'.rows \in PageRows
      BY <1>2, <1>4 DEF PageRows
    <2> QED
      BY <1>2, <1>3, <1>4, <1>6, <2>3, <2>4 DEF Right
  <1>14. ResultsList'
    BY <1>1, <1>2, <1>3, <1>4, <1>6 DEF ResultsList
  <1> QED
    BY <1>5, <1>8, <1>9, <1>12, <1>13, <1>14 DEF PageRight

\* A message taken leaves what is on its way of one listing ...
LEMMA TookListing ==
  ASSUME OneListing, NEW m, PageTook(m), AsksNothing, calm' = calm,
         app'.sql = app.sql, app'.base = app.base,
         app'.filtering => app.filtering, app'.loading => app.loading
  PROVE  OneListing'
  <1>1. /\ \A e \in Owing' : e \in Owing
        /\ \A o \in Told' : o \in Told
        /\ alone' = alone /\ dropped' = dropped
    BY DEF PageTook, AsksNothing
  <1>2. \A l : About(l, app.sql, Owing, Told) => About(l, app'.sql, Owing', Told')
    BY <1>1 DEF About
  <1>3. NoChange => NoChange'
    BY <1>1 DEF NoChange
  <1>4. SavesAlone => SavesAlone'
    BY <1>1 DEF SavesAlone
  <1> QED
    BY <1>1, <1>2, <1>3, <1>4 DEF OneListing

\* ... and one that is no result and no error leaves the listing under way.
LEMMA TookFilter ==
  ASSUME FilterUnderWay, NEW m, PageTook(m), Owing \subseteq Owing',
         app'.filtering => app.filtering /\ m.type \notin {"ERROR", "DATA"}
  PROVE  FilterUnderWay'
  BY DEF FilterUnderWay, PageTook

\* The rows of another page, for which the page waited without edits
LEMMA TakesNextPage ==
  ASSUME PageRight, NEW m, PageTook(m), m.type = "NEXT_PAGE", AsksNothing, calm' = calm,
         app' = [app EXCEPT !.rows = [sql |-> m.sql, page |-> m.page], !.loading = FALSE]
  PROVE  PageRight'
  <1>1. /\ AppTyped /\ AppStarted /\ EditsFollow /\ FilterUnderWay /\ OneListing /\ Right
        /\ ResultsList
    BY DEF PageRight
  <1>2. m.sql \in Texts /\ m.page \in 1..2 /\ m \in Told
    BY MessagesAre DEF PageTook, TextTypes
  <1>3. /\ app'.sql = app.sql /\ app'.rows = [sql |-> m.sql, page |-> m.page]
        /\ app'.base = app.base /\ app'.total = app.total /\ app'.filtering = app.filtering
        /\ app'.loading = FALSE /\ app'.edits = app.edits
    BY <1>1 DEF AppTyped
  <1>4. AppTyped'
    BY <1>1, <1>2 DEF AppTyped, PageRows
  <1>5. OneListing' /\ FilterUnderWay'
    BY <1>1, <1>3, TookListing, TookFilter DEF AsksNothing
  <1>6. app.sql # NoText
    BY <1>1, <1>2 DEF AppStarted, RunTypes
  <1>7. AppStarted'
    BY <1>1, <1>3, <1>6 DEF AppStarted
  <1>8. EditsFollow'
    BY <1>1, <1>2, <1>3 DEF EditsFollow, PageTook
  <1>9. calm => m.sql = app.sql
    BY <1>1, <1>2 DEF OneListing, About
  <1>10. Right'
    BY <1>1, <1>2, <1>3, <1>9 DEF Right, PageRows, PageTook
  <1>11. ResultsList'
    BY <1>1, <1>3 DEF ResultsList, PageTook
  <1> QED
    BY <1>4, <1>5, <1>7, <1>8, <1>10, <1>11 DEF PageRight

\* The number of rows
LEMMA TakesCount ==
  ASSUME PageRight, NEW m, PageTook(m), m.type = "COUNT", AsksNothing, calm' = calm,
         app' = [app EXCEPT !.total = m.sql, !.loading = FALSE]
  PROVE  PageRight'
  <1>1. /\ AppTyped /\ AppStarted /\ EditsFollow /\ FilterUnderWay /\ OneListing /\ Right
        /\ ResultsList
    BY DEF PageRight
  <1>2. m.sql \in Texts /\ m \in Told
    BY MessagesAre DEF PageTook, TextTypes
  <1>3. /\ app'.sql = app.sql /\ app'.rows = app.rows /\ app'.total = m.sql
        /\ app'.base = app.base /\ app'.filtering = app.filtering
        /\ app'.loading = FALSE /\ app'.edits = app.edits
    BY <1>1 DEF AppTyped
  <1>4. AppTyped'
    BY <1>1, <1>2 DEF AppTyped
  <1>5. OneListing' /\ FilterUnderWay'
    BY <1>1, <1>3, TookListing, TookFilter DEF AsksNothing
  <1>6. app.sql # NoText
    BY <1>1, <1>2 DEF AppStarted, RunTypes
  <1>7. AppStarted'
    BY <1>1, <1>3, <1>6 DEF AppStarted
  <1>8. EditsFollow'
    BY <1>1, <1>3 DEF EditsFollow, PageTook, AsksNothing
  <1>9. calm => m.sql = app.sql
    BY <1>1, <1>2 DEF OneListing, About
  <1>10. Right'
    BY <1>1, <1>3, <1>9 DEF Right, PageTook
  <1>11. ResultsList'
    BY <1>1, <1>3 DEF ResultsList, PageTook
  <1> QED
    BY <1>4, <1>5, <1>7, <1>8, <1>10, <1>11 DEF PageRight

\* A message that ends the loading, or the conditions asked for too
LEMMA TakesEnd ==
  ASSUME PageRight, NEW m, PageTook(m), AsksNothing, calm' = calm,
         \/ /\ m.type = "ERROR"
            /\ app' = [app EXCEPT !.filtering = FALSE, !.loading = FALSE]
         \/ /\ m.type \in {"RUN", "DML", "INSERTED", "updateFail"}
            /\ app' = [app EXCEPT !.loading = FALSE]
  PROVE  PageRight'
  <1>1. /\ AppTyped /\ AppStarted /\ EditsFollow /\ FilterUnderWay /\ OneListing /\ Right
        /\ ResultsList
    BY DEF PageRight
  <1>3. /\ app'.sql = app.sql /\ app'.rows = app.rows /\ app'.total = app.total
        /\ app'.base = app.base /\ app'.loading = FALSE /\ app'.edits = app.edits
        /\ app'.filtering => app.filtering /\ m.type \notin {"ERROR", "DATA"}
    BY <1>1 DEF AppTyped
  <1>4. AppTyped'
    BY <1>1 DEF AppTyped
  <1>5. OneListing' /\ FilterUnderWay'
    BY <1>1, <1>3, TookListing, TookFilter DEF AsksNothing
  <1>7. AppStarted'
    BY <1>1, <1>3 DEF AppStarted, PageTook, AsksNothing
  <1>8. EditsFollow'
    BY <1>1, <1>3 DEF EditsFollow, PageTook, AsksNothing
  <1>10. Right'
    BY <1>1, <1>3 DEF Right, PageTook
  <1>11. ResultsList'
    BY <1>1, <1>3 DEF ResultsList, PageTook
  <1> QED
    BY <1>4, <1>5, <1>7, <1>8, <1>10, <1>11 DEF PageRight

\* The edits are saved: they are the rows now.
LEMMA TakesSaved ==
  ASSUME PageRight, NEW m, PageTook(m), m.type = "updateSuccess", AsksNothing, calm' = calm,
         app' = [app EXCEPT !.rows = IF app.edits.row # NoText THEN app.edits.row ELSE @,
                            !.edits = [tracked |-> FALSE, row |-> NoText]]
  PROVE  PageRight'
  <1>1. /\ AppTyped /\ AppStarted /\ EditsFollow /\ FilterUnderWay /\ OneListing /\ Right
        /\ ResultsList
    BY DEF PageRight
  <1>2. m \in Told
    BY DEF PageTook
  <1>3. /\ app'.sql = app.sql /\ app'.total = app.total /\ app'.base = app.base
        /\ app'.rows = IF app.edits.row # NoText THEN app.edits.row ELSE app.rows
        /\ app'.loading = app.loading /\ app'.filtering = app.filtering
        /\ app'.edits = [tracked |-> FALSE, row |-> NoText]
    BY <1>1 DEF AppTyped
  <1>4. AppTyped'
    BY <1>1 DEF AppTyped
  <1>5. OneListing' /\ FilterUnderWay'
    BY <1>1, <1>3, TookListing, TookFilter DEF AsksNothing
  <1>6. app.sql # NoText
    BY <1>1, <1>2 DEF AppStarted, RunTypes
  <1>7. AppStarted'
    BY <1>1, <1>3, <1>6 DEF AppStarted
  <1>8. EditsFollow'
    BY <1>1, <1>3 DEF EditsFollow, PageTook
  <1>9. calm => (app.loading => "next" \in dropped)
    BY <1>1, <1>2 DEF OneListing, SavesAlone, NoChange
  <1>10. Right'
    <2>1. SUFFICES ASSUME calm PROVE Right'
      BY DEF Right
    <2>2. app'.rows \in PageRows /\ app'.rows.sql = app.sql
      BY <1>1, <1>3, <2>1 DEF Right, AppTyped
    <2> QED
      BY <1>1, <1>3, <1>9, <2>1, <2>2 DEF Right, PageTook
  <1>11. ResultsList'
    BY <1>1, <1>3 DEF ResultsList, PageTook
  <1> QED
    BY <1>4, <1>5, <1>7, <1>8, <1>10, <1>11 DEF PageRight

\* Rows were inserted: the page lists again what it shows.
LEMMA TakesInserted ==
  ASSUME PageRight, NEW m, PageTook(m), m.type = "INSERTED", app.sql # NoText,
         AsksMore(Request("run", app.sql, 1)), calm' = calm,
         app' = [app EXCEPT !.loading = TRUE]
  PROVE  PageRight'
  <1>1. /\ AppTyped /\ AppStarted /\ EditsFollow /\ FilterUnderWay /\ OneListing /\ Right
        /\ ResultsList
    BY DEF PageRight
  <1>2. /\ m \in Told /\ \A o \in Told' : o \in Told
        /\ alone' = alone /\ dropped' = dropped /\ typed' = typed /\ misplaced' = misplaced
    BY DEF PageTook
  <1>r. PICK r : r = Request("run", app.sql, 1)
    OBVIOUS
  <1>3. r.op = "run" /\ r.sql = app.sql /\ Owing' = Owing \union {r} /\ r \in AskedHost'
    BY <1>r DEF Request, AsksMore
  <1>4. /\ app'.sql = app.sql /\ app'.rows = app.rows /\ app'.total = app.total
        /\ app'.base = app.base /\ app'.filtering = app.filtering /\ app'.edits = app.edits
    BY <1>1 DEF AppTyped
  <1>5. AppTyped'
    BY <1>1 DEF AppTyped
  <1>6. AppStarted'
    BY <1>1, <1>4 DEF AppStarted
  <1>7. FilterUnderWay'
    BY <1>1, <1>3, <1>4, TookFilter
  <1>8. EditsFollow'
    BY <1>1, <1>2, <1>3, <1>4 DEF EditsFollow
  <1>9. ~alone
    BY <1>1, <1>2 DEF OneListing, NoChange
  <1>10. ASSUME calm PROVE About(app.sql, app'.sql, Owing', Told') /\ SavesAlone'
    <2>1. About(app.sql, app.sql, Owing, Told) /\ SavesAlone
      BY <1>1, <1>9, <1>10 DEF OneListing
    <2>2. About(app.sql, app'.sql, Owing', Told')
      BY <1>2, <1>3, <1>4, <2>1 DEF About
    <2>3. SavesAlone'
      BY <1>2, <1>3, <2>1 DEF SavesAlone
    <2> QED
      BY <2>2, <2>3
  <1>11. OneListing'
    BY <1>2, <1>4, <1>9, <1>10 DEF OneListing
  <1>12. Right'
    BY <1>1, <1>2, <1>3, <1>4 DEF Right
  <1>13. ResultsList'
    BY <1>1, <1>2, <1>4 DEF ResultsList
  <1> QED
    BY <1>5, <1>6, <1>7, <1>8, <1>11, <1>12, <1>13 DEF PageRight

\* The page takes the next message.
LEMMA PageTakesInv ==
  ASSUME PageInv, PageTakes
  PROVE  PageInv'
  <1>1. PageTyped /\ Started /\ PageRight
    BY DEF PageInv, PageRight, PageTyped, Started, AppTyped, AppStarted
  <1>2. /\ view = "shown" /\ toPage # <<>> /\ toPage' = Tail(toPage)
        /\ UNCHANGED <<view, first, handlers, requests>>
        /\ UNCHANGED <<ops, alone, dropped, twice, typed, misplaced>>
        /\ toPage \in Seq(Messages) /\ toHost \in Seq(Reqs)
    BY <1>1 DEF PageTakes, PageTyped, hostSide
  <1>m. PICK m : m = Head(toPage)
    OBVIOUS
  <1>3. /\ m \in Messages /\ toPage' \in Seq(Messages)
        /\ Elements(toPage) = {m} \union Elements(toPage')
    BY <1>2, <1>m, ElementsOf
  <1>4. Told = {m} \union Told'
    BY <1>2, <1>3 DEF Told
  <1>5. PageTook(m)
    BY <1>2, <1>3, <1>4 DEF PageTook
  <1>6. toHost' = toHost => AsksNothing
    BY <1>2 DEF AsksNothing, Owing, AskedHost
  <1>7. ASSUME NEW r \in Reqs, toHost' = Append(toHost, r)
        PROVE  AsksMore(r) /\ toHost' \in Seq(Reqs)
    <2>s. PICK s : s = toHost
      OBVIOUS
    <2>r. PICK t : t = toHost'
      OBVIOUS
    <2>1. s \in Seq(Reqs) /\ More(t, s, r) /\ r \in Reqs
      BY <1>2, <1>7, <2>s, <2>r DEF More
    <2>2. t \in Seq(Reqs) /\ Elements(t) = Elements(s) \union {r}
      BY <2>1, ElementsAppended
    <2> QED
      BY <1>2, <2>2, <2>s, <2>r DEF AsksMore, Owing, AskedHost
  <1>8. PageRight' /\ toHost' \in Seq(Reqs)
    <2>1. CASE m.type = "DATA"
      <3>1. PICK full \in BOOLEAN : ShowData(m.sql, full)
        BY <1>m, <2>1 DEF PageTakes
      <3>2. m.sql \in Texts
        BY <1>3, <2>1, MessagesAre DEF TextTypes
      <3>3. PICK r : r = Request("count", m.sql, 1)
        OBVIOUS
      <3>4. r \in Reqs
        BY <3>2, <3>3, RequestsMade
      <3>5. full => toHost' = Append(toHost, r)
        BY <3>1, <3>3 DEF ShowData
      <3>6. ~full => toHost' = toHost
        BY <3>1 DEF ShowData
      <3>7. /\ full => AsksMore(Request("count", m.sql, 1)) /\ toHost' \in Seq(Reqs)
            /\ ~full => AsksNothing /\ toHost' \in Seq(Reqs)
        BY <1>2, <1>6, <1>7, <3>3, <3>4, <3>5, <3>6
      <3>8. /\ app' = [sql       |-> m.sql,
                       rows      |-> [sql |-> m.sql, page |-> 1],
                       base      |-> Base(m.sql),
                       total     |-> IF full THEN NoText ELSE m.sql,
                       filtering |-> FALSE,
                       loading   |-> FALSE,
                       edits     |-> NoEdits]
            /\ calm' = (calm \/ alone)
        BY <3>1 DEF ShowData
      <3> QED
        BY <1>1, <1>5, <2>1, <3>1, <3>7, <3>8, TakesData
    <2>2. CASE m.type = "NEXT_PAGE"
      <3>1. /\ app' = [app EXCEPT !.rows = [sql |-> m.sql, page |-> m.page], !.loading = FALSE]
            /\ toHost' = toHost /\ calm' = calm
        BY <1>m, <2>2 DEF PageTakes
      <3> QED
        BY <1>1, <1>2, <1>5, <1>6, <2>2, <3>1, TakesNextPage
    <2>3. CASE m.type = "COUNT"
      <3>1. /\ app' = [app EXCEPT !.total = m.sql, !.loading = FALSE]
            /\ toHost' = toHost /\ calm' = calm
        BY <1>m, <2>3 DEF PageTakes
      <3> QED
        BY <1>1, <1>2, <1>5, <1>6, <2>3, <3>1, TakesCount
    <2>4. CASE m.type = "ERROR"
      <3>1. /\ app' = [app EXCEPT !.filtering = FALSE, !.loading = FALSE]
            /\ toHost' = toHost /\ calm' = calm
        BY <1>m, <2>4 DEF PageTakes
      <3> QED
        BY <1>1, <1>2, <1>5, <1>6, <2>4, <3>1, TakesEnd
    <2>5. CASE m.type \in {"RUN", "DML", "updateFail"}
      <3>1. /\ app' = [app EXCEPT !.loading = FALSE]
            /\ toHost' = toHost /\ calm' = calm
        BY <1>m, <2>5 DEF PageTakes
      <3> QED
        BY <1>1, <1>2, <1>5, <1>6, <2>5, <3>1, TakesEnd
    <2>6. CASE m.type = "INSERTED" /\ app.sql = NoText
      <3>1. /\ app' = [app EXCEPT !.loading = FALSE]
            /\ toHost' = toHost /\ calm' = calm
        BY <1>m, <2>6 DEF PageTakes
      <3> QED
        BY <1>1, <1>2, <1>5, <1>6, <2>6, <3>1, TakesEnd
    <2>7. CASE m.type = "INSERTED" /\ app.sql # NoText
      <3>1. /\ app' = [app EXCEPT !.loading = TRUE]
            /\ toHost' = Append(toHost, Request("run", app.sql, 1)) /\ calm' = calm
        BY <1>m, <2>7 DEF PageTakes, Execute
      <3>2. app.sql \in Texts
        BY <1>1, <2>7 DEF PageTyped
      <3>3. PICK r : r = Request("run", app.sql, 1)
        OBVIOUS
      <3>4. r \in Reqs
        BY <3>2, <3>3, RequestsMade
      <3>5. AsksMore(Request("run", app.sql, 1)) /\ toHost' \in Seq(Reqs)
        BY <1>7, <3>1, <3>3, <3>4
      <3> QED
        BY <1>1, <1>5, <2>7, <3>1, <3>5, TakesInserted
    <2>8. CASE m.type = "updateSuccess"
      <3>1. /\ app' = [app EXCEPT !.rows = IF app.edits.row # NoText THEN app.edits.row ELSE @,
                                  !.edits = [tracked |-> FALSE, row |-> NoText]]
            /\ toHost' = toHost /\ calm' = calm
        BY <1>m, <2>8 DEF PageTakes
      <3> QED
        BY <1>1, <1>2, <1>5, <1>6, <2>8, <3>1, TakesSaved
    <2>9. m.type \in TextTypes \union {"RUN", "DML", "INSERTED", "ERROR",
                                       "updateSuccess", "updateFail"}
      BY <1>3, MessagesAre
    <2> QED
      BY <2>1, <2>2, <2>3, <2>4, <2>5, <2>6, <2>7, <2>8, <2>9 DEF TextTypes
  <1>9. calm' \in BOOLEAN
    <2>1. calm' = calm \/ calm' = (calm \/ alone)
      BY DEF PageTakes, ShowData
    <2> QED
      BY <1>1, <2>1 DEF PageTyped
  <1>10. PageTyped'
    BY <1>1, <1>2, <1>3, <1>8, <1>9 DEF PageTyped, PageRight, AppTyped
  <1>11. Started'
    BY <1>1, <1>2, <1>8 DEF Started, PageRight, AppStarted
  <1> QED
    BY <1>8, <1>10, <1>11 DEF PageInv, PageRight

-----------------------------------------------------------------------------
\* The user begins something, which asks for one thing.
UserBegan(r) ==
  /\ r \in Reqs /\ Owing' = Owing \union {r} /\ AskedHost \subseteq AskedHost'
  /\ r \in AskedHost' \/ (\E m \in Told' : m.type = "RUN")
  /\ \A m \in Told : app.sql # NoText => m \in Told'
  /\ \A m \in Told' : m \in Told \/ (m.type = "RUN" /\ r.op = "run")
  /\ Quiet => Owing = {} /\ Told = {} /\ (alone' <=> r.op = "run" /\ r.sql.kind # "change")
  /\ ~Quiet => ~alone' /\ ~calm'
  /\ calm' => calm
  /\ dropped' = dropped

\* Nothing is on its way.
LEMMA QuietIs ==
  ASSUME PageTyped, Started, Quiet
  PROVE  Owing = {} /\ Told = {} /\ AskedHost = {}
  <1>1. /\ view \in {"none", "shown"} /\ requests = EmptyBag /\ toPage = <<>> /\ toHost = <<>>
        /\ view = "none" => handlers = <<>>
        /\ toPage \in Seq(Messages) /\ toHost \in Seq(Reqs) /\ handlers \in Seq(Messages)
    BY DEF Quiet, PageTyped, Started
  <1>2. Elements(toPage) = {} /\ Elements(toHost) = {} /\ (view = "none" => Elements(handlers) = {})
    BY <1>1, ElementsOf
  <1>3. DOMAIN requests = {}
    BY <1>1 DEF EmptyBag, SetToBag
  <1> QED
    BY <1>1, <1>2, <1>3 DEF Owing, AskedHost, Told

\* What is begun in a hurry lists nothing alone, what is begun else is of one
\* listing.
LEMMA BegunListing ==
  ASSUME PageRight, NEW r, UserBegan(r), app'.sql = app.sql, app'.base = app.base,
         app'.filtering => app.filtering \/ r.sql.table = app.base.table,
         r.op \in {"count", "next"} => r.sql = app.sql,
         r.op \in {"save", "count"} => app'.loading = app.loading
  PROVE  OneListing'
  <1>1. FilterUnderWay /\ Right
    BY DEF PageRight
  <1>2. /\ Owing' = Owing \union {r} /\ dropped' = dropped
        /\ \A m \in Told' : m \in Told \/ (m.type = "RUN" /\ r.op = "run")
    BY DEF UserBegan
  <1>3. r.sql \in Texts /\ r.op \in {"run", "count", "save", "next"}
    BY RequestsAre DEF UserBegan
  <1>4. CASE ~Quiet
    BY <1>4 DEF OneListing, UserBegan
  <1>5. CASE Quiet
    <2>1. /\ Owing' = {r} /\ \A m \in Told' : m.type = "RUN" /\ r.op = "run"
          /\ alone' <=> r.op = "run" /\ r.sql.kind # "change"
          /\ Owing = {} /\ Told = {}
          /\ calm' => calm
      BY <1>2, <1>5 DEF UserBegan
    <2>2. ASSUME alone'
          PROVE  /\ NoChange' /\ About(r.sql, app'.sql, Owing', Told')
                 /\ app'.filtering => r.sql.table = app'.base.table \/ "filter" \in dropped'
      <3>1. app.filtering => "filter" \in dropped
        BY <1>1, <2>1 DEF FilterUnderWay
      <3> QED
        BY <1>2, <1>3, <2>1, <2>2, <3>1 DEF NoChange, About
    <2>3. ASSUME calm', ~alone'
          PROVE  About(app'.sql, app'.sql, Owing', Told') /\ SavesAlone'
      <3>1. calm => (app.loading => "next" \in dropped)
        <4>1. AskedHost = {}
          BY <2>1 DEF Owing
        <4> QED
          BY <1>1, <2>1, <4>1 DEF Right
      <3>2. About(app'.sql, app'.sql, Owing', Told')
        BY <1>3, <2>1, <2>3 DEF About
      <3>3. SavesAlone'
        BY <1>2, <1>3, <2>1, <2>3, <3>1 DEF SavesAlone
      <3> QED
        BY <3>2, <3>3
    <2> QED
      BY <1>3, <2>2, <2>3 DEF OneListing
  <1> QED
    BY <1>4, <1>5

\* What begins leaves the rest of the page right.
LEMMA BegunRight ==
  ASSUME PageRight, NEW r, UserBegan(r), AppTyped',
         app'.sql = app.sql, app'.base = app.base, app'.rows = app.rows, app'.total = app.total,
         app'.edits.row \in {app.edits.row, NoText},
         app'.filtering => app.filtering
                             \/ (r.op = "run" /\ r.sql.kind = "filter"
                                   /\ app.sql # NoText /\ r.sql.table = app.base.table),
         app.sql = NoText => r.op = "run",
         r.op \in {"count", "next"} => r.sql = app.sql,
         r.op = "next" => app'.edits.row = NoText,
         r.op \in {"save", "count"} => app'.loading = app.loading,
         typed' = typed, ~misplaced'
  PROVE  PageRight'
  <1>1. AppTyped /\ AppStarted /\ EditsFollow /\ FilterUnderWay /\ OneListing /\ Right /\ ResultsList
    BY DEF PageRight
  <1>2. /\ Owing' = Owing \union {r} /\ dropped' = dropped
        /\ \A m \in Told' : m \in Told \/ (m.type = "RUN" /\ r.op = "run")
        /\ \A m \in Told : app.sql # NoText => m \in Told'
    BY DEF UserBegan
  <1>3. OneListing'
    BY BegunListing
  <1>4. AppStarted'
    BY <1>1, <1>2 DEF AppStarted, RunTypes
  <1>5. EditsFollow'
    BY <1>1, <1>2 DEF EditsFollow
  <1>6. FilterUnderWay'
    <2>1. app.filtering => app.sql # NoText
      BY <1>1 DEF AppStarted
    <2> QED
      BY <1>1, <1>2, <2>1 DEF FilterUnderWay
  <1>7. ResultsList'
    BY <1>1, <1>2 DEF ResultsList
  <1>8. Right'
    <2>1. SUFFICES ASSUME calm' PROVE Right'
      BY DEF Right
    <2>2. calm /\ app.sql # NoText
      BY <1>1, <2>1, QueryPageAssumption DEF UserBegan, Right
    <2>3. r.op = "run" \/ r.op = "next" \/ r.op = "count" \/ r.op = "save"
      BY RequestsAre DEF UserBegan
    <2>4. ASSUME app'.loading
          PROVE  \/ "next" \in dropped' \/ Told' # {}
                 \/ \E e \in AskedHost' : e.op = "run"
                 \/ \E e \in Owing' : e.op = "next"
      BY <1>1, <1>2, <2>2, <2>3, <2>4 DEF Right, UserBegan
    <2> QED
      BY <1>1, <1>2, <2>2, <2>4 DEF Right
  <1> QED
    BY <1>1, <1>3, <1>4, <1>5, <1>6, <1>7, <1>8 DEF PageRight

\* What the user begins counts.
LEMMA BeginsDo ==
  ASSUME PageTyped, NEW lists \in BOOLEAN, Begins(lists)
  PROVE  /\ ops' \in 0..MaxOps /\ alone' \in BOOLEAN /\ calm' \in BOOLEAN
         /\ Quiet => (alone' <=> lists)
         /\ ~Quiet => ~alone' /\ ~calm'
         /\ calm' => calm
  <1>1. /\ ops < MaxOps /\ ops' = ops + 1 /\ alone' = (Quiet /\ lists) /\ calm' = (calm /\ Quiet)
    BY DEF Begins
  <1>2. ops' \in 0..MaxOps
    BY <1>1, QueryPageAssumption DEF PageTyped
  <1>3. alone' \in BOOLEAN /\ calm' \in BOOLEAN
    BY <1>1
  <1>4. /\ Quiet => (alone' <=> lists)
        /\ ~Quiet => ~alone' /\ ~calm'
        /\ calm' => calm
    BY <1>1
  <1> QED
    BY <1>2, <1>3, <1>4

\* The page asks for something the user begins.
LEMMA PageAsks ==
  ASSUME PageInv, NEW r \in Reqs, view = "shown", toHost' = Append(toHost, r),
         NEW lists \in BOOLEAN, Begins(lists), lists <=> r.op = "run" /\ r.sql.kind # "change",
         UNCHANGED <<hostSide, toPage, dropped, twice>>
  PROVE  UserBegan(r) /\ toHost' \in Seq(Reqs)
  <1>1. PageTyped /\ Started
    BY DEF PageInv
  <1>s. PICK s : s = toHost
    OBVIOUS
  <1>r. PICK t : t = toHost'
    OBVIOUS
  <1>2. s \in Seq(Reqs) /\ More(t, s, r) /\ r \in Reqs
    BY <1>1, <1>s, <1>r DEF More, PageTyped
  <1>3. t \in Seq(Reqs) /\ Elements(t) = Elements(s) \union {r}
    BY <1>2, ElementsAppended
  <1>4. toHost' \in Seq(Reqs) /\ AskedHost' = AskedHost \union {r}
    BY <1>3, <1>s, <1>r DEF AskedHost
  <1>5. Owing' = Owing \union {r} /\ Told' = Told
    BY <1>4 DEF Owing, Told, hostSide
  <1>6. /\ Quiet => (alone' <=> lists)
        /\ ~Quiet => ~alone' /\ ~calm'
        /\ calm' => calm
    BY <1>1, BeginsDo
  <1>7. Quiet => Owing = {} /\ Told = {}
    BY <1>1, QuietIs
  <1> QED
    BY <1>4, <1>5, <1>6, <1>7 DEF UserBegan

\* A step of the page that keeps what it shows right keeps everything.
LEMMA PageStays ==
  ASSUME PageInv, PageRight', view = "shown", UNCHANGED <<hostSide, toPage, dropped, twice>>,
         toHost' \in Seq(Reqs), ops' \in 0..MaxOps, alone' \in BOOLEAN, calm' \in BOOLEAN,
         typed' \in {"still", "hurried"}, misplaced' \in BOOLEAN
  PROVE  PageInv'
  <1>1. PageTyped /\ Started
    BY DEF PageInv
  <1>4. PageTyped'
    BY <1>1 DEF PageTyped, PageRight, AppTyped, hostSide
  <1>5. Started'
    BY <1>1 DEF Started, PageRight, AppStarted, hostSide
  <1> QED
    BY <1>4, <1>5 DEF PageInv, PageRight

\* A statement is run on the page.
LEMMA RunOnPageInv ==
  ASSUME PageInv, NEW text \in Texts, RunOnPage(text)
  PROVE  PageInv'
  <1>1. PageTyped /\ PageRight
    BY DEF PageInv, PageRight, PageTyped, Started, AppTyped, AppStarted
  <1>r. PICK r : r = Request("run", text, 1)
    OBVIOUS
  <1>l. PICK lists \in BOOLEAN : lists = (text.kind # "change")
    OBVIOUS
  <1>2. /\ view = "shown" /\ Begins(lists) /\ toHost' = Append(toHost, r)
        /\ app' = [app EXCEPT !.loading = TRUE]
        /\ UNCHANGED <<hostSide, toPage, dropped, twice>>
        /\ UNCHANGED <<typed, misplaced>>
    BY <1>r, <1>l DEF RunOnPage, Execute
  <1>3. r \in Reqs /\ r.op = "run" /\ r.sql = text
    BY <1>r, RequestsMade
  <1>4. lists <=> r.op = "run" /\ r.sql.kind # "change"
    BY <1>3, <1>l
  <1>5. UserBegan(r) /\ toHost' \in Seq(Reqs)
    BY <1>2, <1>3, <1>4, PageAsks
  <1>6. /\ ops' \in 0..MaxOps /\ alone' \in BOOLEAN /\ calm' \in BOOLEAN
    BY <1>1, <1>2, BeginsDo
  <1>7. /\ app'.sql = app.sql /\ app'.base = app.base /\ app'.rows = app.rows
        /\ app'.total = app.total /\ app'.edits = app.edits /\ app'.filtering = app.filtering
        /\ AppTyped'
    BY <1>1, <1>2 DEF PageRight, AppTyped
  <1>8. ~misplaced'
    BY <1>1, <1>2 DEF PageRight, EditsFollow
  <1>9. PageRight'
    BY <1>1, <1>2, <1>3, <1>5, <1>7, <1>8, BegunRight
  <1> QED
    BY <1>1, <1>2, <1>5, <1>6, <1>9, PageStays DEF PageTyped

\* A listing under conditions is asked for.
LEMMA ApplyInv ==
  ASSUME PageInv, ApplyConditionFilters
  PROVE  PageInv'
  <1>1. PageTyped /\ PageRight
    BY DEF PageInv, PageRight, PageTyped, Started, AppTyped, AppStarted
  <1>t. PICK text : text = Filtered(app.base.table)
    OBVIOUS
  <1>r. PICK r : r = Request("run", text, 1)
    OBVIOUS
  <1>2. /\ view = "shown" /\ app.sql # NoText /\ Begins(TRUE) /\ toHost' = Append(toHost, r)
        /\ app' = [app EXCEPT !.filtering = TRUE, !.loading = TRUE]
        /\ UNCHANGED <<hostSide, toPage, dropped, twice>>
        /\ UNCHANGED <<typed, misplaced>>
    BY <1>r, <1>t DEF ApplyConditionFilters, Execute
  <1>b. app.base \in Texts
    BY <1>1, <1>2 DEF PageRight, AppTyped, AppStarted
  <1>x. text \in Texts /\ text.kind = "filter" /\ text.table = app.base.table
    BY <1>b, <1>t DEF Texts, Filtered
  <1>3. r \in Reqs /\ r.op = "run" /\ r.sql = text
    BY <1>r, <1>x, RequestsMade
  <1>4. TRUE <=> r.op = "run" /\ r.sql.kind # "change"
    BY <1>3, <1>x
  <1>5. UserBegan(r) /\ toHost' \in Seq(Reqs)
    BY <1>2, <1>3, <1>4, PageAsks
  <1>6. /\ ops' \in 0..MaxOps /\ alone' \in BOOLEAN /\ calm' \in BOOLEAN
    BY <1>1, <1>2, BeginsDo
  <1>7. /\ app'.sql = app.sql /\ app'.base = app.base /\ app'.rows = app.rows
        /\ app'.total = app.total /\ app'.edits = app.edits
        /\ AppTyped'
    BY <1>1, <1>2 DEF PageRight, AppTyped
  <1>8. ~misplaced'
    BY <1>1, <1>2 DEF PageRight, EditsFollow
  <1>9. PageRight'
    BY <1>1, <1>2, <1>3, <1>5, <1>7, <1>8, <1>x, BegunRight
  <1> QED
    BY <1>1, <1>2, <1>5, <1>6, <1>9, PageStays DEF PageTyped

\* A listing without conditions is asked for.
LEMMA ClearInv ==
  ASSUME PageInv, ClearConditionFilters
  PROVE  PageInv'
  <1>1. PageTyped /\ PageRight
    BY DEF PageInv, PageRight, PageTyped, Started, AppTyped, AppStarted
  <1>r. PICK r : r = Request("run", app.base, 1)
    OBVIOUS
  <1>2. /\ view = "shown" /\ app.sql # NoText /\ Begins(TRUE) /\ toHost' = Append(toHost, r)
        /\ app' = [app EXCEPT !.filtering = FALSE, !.loading = TRUE]
        /\ UNCHANGED <<hostSide, toPage, dropped, twice>>
        /\ UNCHANGED <<typed, misplaced>>
    BY <1>r DEF ClearConditionFilters, Execute
  <1>b. app.base \in Texts /\ app.base.kind # "change"
    BY <1>1, <1>2 DEF PageRight, AppTyped, AppStarted, ResultsList
  <1>3. r \in Reqs /\ r.op = "run" /\ r.sql = app.base
    BY <1>r, <1>b, RequestsMade
  <1>4. TRUE <=> r.op = "run" /\ r.sql.kind # "change"
    BY <1>3, <1>b
  <1>5. UserBegan(r) /\ toHost' \in Seq(Reqs)
    BY <1>2, <1>3, <1>4, PageAsks
  <1>6. /\ ops' \in 0..MaxOps /\ alone' \in BOOLEAN /\ calm' \in BOOLEAN
    BY <1>1, <1>2, BeginsDo
  <1>7. /\ app'.sql = app.sql /\ app'.base = app.base /\ app'.rows = app.rows
        /\ app'.total = app.total /\ app'.edits = app.edits /\ ~app'.filtering
        /\ AppTyped'
    BY <1>1, <1>2 DEF PageRight, AppTyped
  <1>8. ~misplaced'
    BY <1>1, <1>2 DEF PageRight, EditsFollow
  <1>9. PageRight'
    BY <1>1, <1>2, <1>3, <1>5, <1>7, <1>8, BegunRight
  <1> QED
    BY <1>1, <1>2, <1>5, <1>6, <1>9, PageStays DEF PageTyped

\* Another page of rows is asked for, without the edits.
LEMMA ChangePageInv ==
  ASSUME PageInv, ChangePage(2)
  PROVE  PageInv'
  <1>1. PageTyped /\ PageRight
    BY DEF PageInv, PageRight, PageTyped, Started, AppTyped, AppStarted
  <1>r. PICK r : r = Request("next", app.sql, 2)
    OBVIOUS
  <1>2. /\ view = "shown" /\ app.sql # NoText /\ Begins(FALSE) /\ toHost' = Append(toHost, r)
        /\ app' = [app EXCEPT !.loading = TRUE, !.edits = EditsDropped]
        /\ UNCHANGED <<hostSide, toPage, dropped, twice>>
        /\ UNCHANGED <<typed, misplaced>>
    BY <1>r DEF ChangePage
  <1>b. app.sql \in Texts
    BY <1>1, <1>2 DEF PageRight, AppTyped
  <1>3. r \in Reqs /\ r.op = "next" /\ r.sql = app.sql
    BY <1>r, <1>b, RequestsMade
  <1>4. FALSE <=> r.op = "run" /\ r.sql.kind # "change"
    BY <1>3
  <1>5. UserBegan(r) /\ toHost' \in Seq(Reqs)
    BY <1>2, <1>3, <1>4, PageAsks
  <1>6. /\ ops' \in 0..MaxOps /\ alone' \in BOOLEAN /\ calm' \in BOOLEAN
    BY <1>1, <1>2, BeginsDo
  <1>e. /\ EditsDropped.row = NoText
        /\ EditsDropped \in [tracked : BOOLEAN, row : PageRows \union {NoText}]
    BY <1>1 DEF PageRight, AppTyped, EditsDropped, NoEdits
  <1>7. /\ app'.sql = app.sql /\ app'.base = app.base /\ app'.rows = app.rows
        /\ app'.total = app.total /\ app'.edits = EditsDropped /\ app'.filtering = app.filtering
        /\ AppTyped'
    BY <1>1, <1>2, <1>e DEF PageRight, AppTyped
  <1>8. ~misplaced'
    BY <1>1, <1>2 DEF PageRight, EditsFollow
  <1>9. PageRight'
    BY <1>1, <1>2, <1>3, <1>5, <1>7, <1>8, <1>e, BegunRight
  <1> QED
    BY <1>1, <1>2, <1>5, <1>6, <1>9, PageStays DEF PageTyped

\* Edits are saved: they are of the row shown, or were typed in a hurry.
LEMMA SaveInv ==
  ASSUME PageInv, Save
  PROVE  PageInv'
  <1>1. PageTyped /\ PageRight
    BY DEF PageInv, PageRight, PageTyped, Started, AppTyped, AppStarted
  <1>r. PICK r : r = Request("save", app.sql, 1)
    OBVIOUS
  <1>2. /\ view = "shown" /\ app.edits.row # NoText /\ Begins(FALSE) /\ toHost' = Append(toHost, r)
        /\ misplaced' = (misplaced \/ (app.edits.row # app.rows /\ typed = "still"))
        /\ UNCHANGED <<hostSide, toPage, dropped, twice>>
        /\ UNCHANGED <<app, typed>>
    BY <1>r DEF Save
  <1>b. app.sql \in Texts
    BY <1>1, <1>2 DEF PageRight, AppTyped, AppStarted
  <1>3. r \in Reqs /\ r.op = "save" /\ r.sql = app.sql
    BY <1>r, <1>b, RequestsMade
  <1>4. FALSE <=> r.op = "run" /\ r.sql.kind # "change"
    BY <1>3
  <1>5. UserBegan(r) /\ toHost' \in Seq(Reqs)
    BY <1>2, <1>3, <1>4, PageAsks
  <1>6. /\ ops' \in 0..MaxOps /\ alone' \in BOOLEAN /\ calm' \in BOOLEAN
    BY <1>1, <1>2, BeginsDo
  <1>7. /\ app'.sql = app.sql /\ app'.base = app.base /\ app'.rows = app.rows
        /\ app'.total = app.total /\ app'.edits = app.edits /\ app'.filtering = app.filtering
        /\ app'.loading = app.loading
        /\ AppTyped'
    BY <1>1, <1>2 DEF PageRight, AppTyped
  <1>8. ~misplaced'
    BY <1>1, <1>2 DEF PageRight, EditsFollow
  <1>9. PageRight'
    BY <1>1, <1>2, <1>3, <1>5, <1>7, <1>8, <1>b, QueryPageAssumption, BegunRight
  <1>m. misplaced' \in BOOLEAN
    BY <1>2
  <1> QED
    BY <1>1, <1>2, <1>5, <1>6, <1>9, <1>m, PageStays DEF PageTyped

\* A row is edited: no other rows are on their way, or it is typed in a hurry.
LEMMA EditRowInv ==
  ASSUME PageInv, EditRow
  PROVE  PageInv'
  <1>1. PageTyped /\ Started /\ PageRight
    BY DEF PageInv, PageRight, PageTyped, Started, AppTyped, AppStarted
  <1>2. /\ view = "shown" /\ app.rows # NoText
        /\ app' = [app EXCEPT !.edits.row = app.rows]
        /\ typed' = IF NextDue THEN "hurried" ELSE "still"
        /\ UNCHANGED <<hostSide, toPage, dropped, twice>>
        /\ UNCHANGED <<toHost, ops, alone, calm, misplaced>>
    BY DEF EditRow
  <1>3. Owing' = Owing /\ AskedHost' = AskedHost /\ Told' = Told
    BY <1>2 DEF Owing, AskedHost, Told, hostSide
  <1>4. /\ app'.sql = app.sql /\ app'.base = app.base /\ app'.rows = app.rows
        /\ app'.total = app.total /\ app'.edits.row = app.rows /\ app'.filtering = app.filtering
        /\ app'.loading = app.loading
        /\ AppTyped'
    BY <1>1, <1>2 DEF PageRight, AppTyped
  <1>5. app.sql # NoText
    BY <1>1, <1>2 DEF PageRight, AppStarted
  <1>6. typed' = "still" => /\ \A e \in Owing : e.op # "next"
                            /\ \A m \in Told : m.type # "NEXT_PAGE"
    <2>1. SUFFICES ASSUME ~NextDue PROVE /\ \A e \in Owing : e.op # "next"
                                         /\ \A m \in Told : m.type # "NEXT_PAGE"
      BY <1>2
    <2>2. /\ \A j \in DOMAIN toHost : toHost[j].op # "next"
          /\ \A r \in DOMAIN requests : r.op # "next"
          /\ \A j \in DOMAIN toPage : toPage[j].type # "NEXT_PAGE"
      BY <2>1 DEF NextDue, BagToSet
    <2>3. DOMAIN toHost = 1..Len(toHost) /\ DOMAIN toPage = 1..Len(toPage)
      BY <1>1 DEF PageTyped
    <2> QED
      BY <1>2, <2>2, <2>3 DEF Owing, AskedHost, Told, Elements
  <1>7. EditsFollow'
    BY <1>1, <1>2, <1>3, <1>4, <1>6 DEF PageRight, EditsFollow
  <1>8. FilterUnderWay' /\ ResultsList' /\ AppStarted'
    BY <1>1, <1>2, <1>3, <1>4, <1>5 DEF PageRight, FilterUnderWay, ResultsList, AppStarted
  <1>9. OneListing'
    <2>1. NoChange => NoChange'
      BY <1>3 DEF NoChange
    <2>2. SavesAlone => SavesAlone'
      BY <1>2, <1>3, <1>4 DEF SavesAlone
    <2>3. \A l : About(l, app.sql, Owing, Told) => About(l, app'.sql, Owing', Told')
      BY <1>3, <1>4
    <2> QED
      BY <1>1, <1>2, <1>4, <2>1, <2>2, <2>3 DEF PageRight, OneListing
  <1>10. Right'
    BY <1>1, <1>2, <1>3, <1>4 DEF PageRight, Right
  <1>11. PageRight'
    BY <1>4, <1>7, <1>8, <1>9, <1>10 DEF PageRight
  <1>12. /\ toHost' \in Seq(Reqs) /\ ops' \in 0..MaxOps /\ alone' \in BOOLEAN /\ calm' \in BOOLEAN
         /\ typed' \in {"still", "hurried"} /\ misplaced' \in BOOLEAN
    BY <1>1, <1>2 DEF PageTyped
  <1> QED
    BY <1>2, <1>11, <1>12, PageStays

\* A statement is run from an editor or from a node of the tree: the page is
\* told, unless it has not started.
LEMMA RunFromEditorInv ==
  ASSUME PageInv, NEW text \in Texts, RunFromEditor(text)
  PROVE  PageInv'
  <1>1. PageTyped /\ Started /\ PageRight
    BY DEF PageInv, PageRight, PageTyped, Started, AppTyped, AppStarted
  <1>r. PICK r : r = Request("run", text, 1)
    OBVIOUS
  <1>l. PICK lists \in BOOLEAN : lists = (text.kind # "change")
    OBVIOUS
  <1>2. /\ Begins(lists) /\ RunQuery(text, 1)
        /\ UNCHANGED <<toHost, app, dropped, twice, typed, misplaced>>
    BY <1>l DEF RunFromEditor
  <1>3. r \in Reqs /\ r.op = "run" /\ r.sql = text
    BY <1>r, RequestsMade
  <1>4. lists <=> r.op = "run" /\ r.sql.kind # "change"
    BY <1>3, <1>l
  <1>m. PICK m : m = Message("RUN", text)
    OBVIOUS
  <1>5. /\ IsABag(requests') /\ DOMAIN requests' \subseteq Reqs
        /\ DOMAIN requests' = DOMAIN requests \union {r}
        /\ Sent(m)
    BY <1>1, <1>2, <1>r, <1>m, RunQueryDoes
  <1>6. m.type = "RUN"
    BY <1>m, MessagesTyped
  <1>7. AskedHost' = AskedHost /\ Owing' = Owing \union {r}
    BY <1>2, <1>5 DEF Owing, AskedHost
  <1>8. /\ ops' \in 0..MaxOps /\ alone' \in BOOLEAN /\ calm' \in BOOLEAN
        /\ Quiet => (alone' <=> lists)
        /\ ~Quiet => ~alone' /\ ~calm'
        /\ calm' => calm
    BY <1>1, <1>2, BeginsDo
  <1>9. Quiet => Owing = {} /\ Told = {}
    BY <1>1, QuietIs
  <1>10. UserBegan(r)
    <2>1. app.sql # NoText => view = "shown"
      BY <1>1 DEF Started
    <2>2. /\ Told' \subseteq Told \union {m} /\ m \in Told'
          /\ view = "shown" => Told' = Told \union {m}
      BY <1>5 DEF Sent
    <2> QED
      BY <1>2, <1>3, <1>4, <1>6, <1>7, <1>8, <1>9, <2>1, <2>2 DEF UserBegan
  <1>11. app' = app /\ AppTyped' /\ ~misplaced'
    BY <1>1, <1>2 DEF PageRight, AppTyped, EditsFollow
  <1>12. PageRight'
    <2>1. /\ app'.sql = app.sql /\ app'.base = app.base /\ app'.rows = app.rows
          /\ app'.total = app.total /\ app'.edits.row = app.edits.row
          /\ app'.filtering = app.filtering
      BY <1>11
    <2> QED
      BY <1>1, <1>2, <1>3, <1>10, <1>11, <2>1, BegunRight
  <1>13. PageTyped'
    <2>1. /\ view' \in {"reading", "loading", "shown"} /\ first' \in Messages \union {NoText}
          /\ handlers' \in Seq(Messages) /\ toPage' \in Seq(Messages)
      BY <1>5 DEF Sent
    <2> QED
      BY <1>1, <1>2, <1>5, <1>8, <1>11, <2>1 DEF PageTyped, AppTyped
  <1>14. Started'
    BY <1>1, <1>2, <1>5, <1>12 DEF Started, Sent, PageRight, AppStarted
  <1> QED
    BY <1>12, <1>13, <1>14 DEF PageInv, PageRight

\* A step that changes nothing
LEMMA PageStutters ==
  ASSUME PageInv, UNCHANGED pageVars
  PROVE  PageInv'
  <1>1. /\ PageTyped /\ Started /\ EditsFollow /\ FilterUnderWay /\ OneListing /\ Right
        /\ ResultsList
    BY DEF PageInv
  <1>2. UNCHANGED <<view, first, handlers, requests, toPage, toHost, app, ops, alone, calm,
                    dropped, twice, typed, misplaced>>
    BY DEF pageVars, hostSide, ghosts
  <1>3. Owing' = Owing /\ AskedHost' = AskedHost /\ Told' = Told
    BY <1>2 DEF Owing, AskedHost, Told
  <1>4. Moves
    BY <1>2, <1>3 DEF Moves
  <1>5. /\ EditsFollow' /\ FilterUnderWay' /\ OneListing' /\ Right' /\ ResultsList'
        /\ app.sql = NoText => /\ \A o \in Owing' : o.op = "run"
                               /\ \A o \in Told' : o.type \in RunTypes
    BY <1>4, MovesInv
  <1>6. PageTyped'
    BY <1>1, <1>2 DEF PageTyped
  <1>7. Started'
    BY <1>1, <1>2, <1>5 DEF Started
  <1> QED
    BY <1>5, <1>6, <1>7 DEF PageInv

\* Every step of the page, of its user and of the host
LEMMA QueryPageStepInv ==
  ASSUME PageInv, [QueryPageNext]_pageVars
  PROVE  PageInv'
  <1>1. \A t \in Tables : Listing(t) \in Texts /\ Change(t) \in Texts
    BY DEF Listing, Change, Texts
  <1>2. CASE \E t \in Tables : RunFromEditor(Listing(t)) \/ RunFromEditor(Change(t))
    BY <1>1, <1>2, RunFromEditorInv
  <1>3. CASE HostTakes
    BY <1>3, HostTakesInv
  <1>4. CASE \E r \in BagToSet(requests) : Answered(r) \/ Dropped(r)
    BY <1>4, AnsweredInv, DroppedInv
  <1>5. CASE PageRead
    BY <1>5, PageReadInv
  <1>6. CASE PageMounted
    BY <1>6, PageMountedInv
  <1>7. CASE PageTakes
    BY <1>7, PageTakesInv
  <1>8. CASE \E t \in Tables : RunOnPage(Listing(t)) \/ RunOnPage(Change(t))
    BY <1>1, <1>8, RunOnPageInv
  <1>9. CASE Refresh
    <2>1. app.sql \in Texts
      BY <1>9 DEF Refresh, PageInv, PageTyped
    <2> QED
      BY <1>9, <2>1, RunOnPageInv DEF Refresh
  <1>10. CASE ApplyConditionFilters
    BY <1>10, ApplyInv
  <1>11. CASE ClearConditionFilters
    BY <1>11, ClearInv
  <1>12. CASE ChangePage(2)
    BY <1>12, ChangePageInv
  <1>13. CASE EditRow
    BY <1>13, EditRowInv
  <1>14. CASE Save
    BY <1>14, SaveInv
  <1>15. CASE UNCHANGED pageVars
    BY <1>15, PageStutters
  <1> QED
    BY <1>2, <1>3, <1>4, <1>5, <1>6, <1>7, <1>8, <1>9, <1>10, <1>11, <1>12, <1>13, <1>14, <1>15
       DEF QueryPageNext

\* Page and way are of their types, and what is on its way is of the listing
\* that was run alone, since the first statement: PageInv is inductive.
THEOREM PageStaysTyped == QueryPageSpec => []PageInv
  <1>1. QueryPageInit => PageInv
    BY InitPage
  <1>2. PageInv /\ [QueryPageNext]_pageVars => PageInv'
    BY QueryPageStepInv
  <1> QED
    BY <1>1, <1>2, PTL DEF QueryPageSpec

\* The data of App.vue and the requests are of their types (vue/result/App.vue).
THEOREM PageTypeCorrect == QueryPageSpec => []QueryPageTypeOK
  <1>1. PageInv => QueryPageTypeOK
    <2>1. ASSUME PageTyped, NEW r \in BagToSet(requests) PROVE r.sql \in Texts
      BY <2>1, RequestsAre DEF PageTyped, BagToSet
    <2> QED
      BY <2>1 DEF PageInv, PageTyped, QueryPageTypeOK
  <1> QED
    BY <1>1, PageStaysTyped, PTL

\* An edit is saved over the row it was typed in, unless it was typed while the
\* rows of another page were on their way (changePage, editListen, save).
THEOREM EditsStayOnTheirRow == QueryPageSpec => []EditsKeepTheirRow
  <1>1. PageInv => EditsKeepTheirRow
    BY DEF PageInv, EditsFollow, EditsKeepTheirRow
  <1> QED
    BY <1>1, PageStaysTyped, PTL

\* A listing run while nothing else is on its way puts the page right, whatever
\* crossed before: rows, number, conditions and loading (handlerData).
THEOREM PagesAreRepaired == QueryPageSpec => []PageIsRepaired
  <1>1. PageInv => PageIsRepaired
    <2> SUFFICES ASSUME PageInv, Quiet, calm
                 PROVE  /\ app.rows.sql = app.sql
                        /\ app.total \in {NoText, app.sql}
                        /\ app.loading => "next" \in dropped
                        /\ \/ ~app.filtering /\ app.base.table = app.sql.table
                           \/ "filter" \in dropped
      BY DEF PageIsRepaired
    <2>1. Owing = {} /\ Told = {} /\ AskedHost = {}
      BY QuietIs DEF PageInv
    <2>2. Right /\ FilterUnderWay
      BY DEF PageInv
    <2> QED
      BY <2>1, <2>2 DEF Right, FilterUnderWay
  <1> QED
    BY <1>1, PageStaysTyped, PTL

-----------------------------------------------------------------------------
(* The batches of a script.  The invariant says of the place that is read: *)
(* in code it is the beginning of a lexeme, otherwise what is open began   *)
(* at one and nothing since then closed it.                                *)

Letters == Alphabet("default") \union Alphabet("kingbase") \union Alphabet("dameng")

AScript == /\ mode \in {"default", "kingbase", "dameng"}
           /\ script \in Seq(Letters)

\* The quotes between p and the one at r, and whether the one at r closes the
\* text that begins at p
QuotesIn(p, r) == {s \in p + 1..r - 1 : script[s] = At(p)}
ClosesQuote(p, r) == /\ script[r] = At(p) /\ At(r + 1) # At(p)
                     /\ Cardinality(QuotesIn(p, r)) % 2 = 0

\* What is open before a began at p and has not been closed.
OpenSince(p, a, i) ==
  \/ /\ i.what = "line" /\ OpensLineComment(p) /\ p + 2 <= a
     /\ \A r \in p + 2..a - 1 : script[r] # "newline"
  \/ /\ i.what = "block" /\ OpensBlockComment(p) /\ p + 2 <= a
     /\ \A r \in p + 2..a - 1 : ~(At(r) = "*" /\ At(r + 1) = "/")
  \/ /\ i.what = "quote" /\ OpensQuote(p) /\ i.by = <<At(p)>> /\ p + 1 <= a
     /\ Cardinality(QuotesIn(p, a)) % 2 = 0
     /\ \A r \in p + 1..a - 1 : ~ClosesQuote(p, r)
  \/ /\ i.what = "dollar" /\ OpensDollarQuote(p)
     /\ \E q \in TagEnds(p) : /\ i.by = SubSeq(script, p, q) /\ q + 1 <= a
                              /\ \A s \in q + 1..a - 1 : ~StartsWith(i.by, s)

Reading(a, f, i) ==
  \/ i = Plain /\ LexemeAt[a] /\ f = StatementOf[a]
  \/ \E p \in Positions : /\ LexemeAt[p] /\ f = StatementOf[p]
                          /\ OpenSince(p, a, i)

\* The statements that ended before f
EndedBefore(f) ==
  {Trimmed(StatementOf[p], p - 1)[1] : p \in
     {q \in 1..f - 1 : StatementOf[q + 1] = q + 1 /\ Solid(StatementOf[q], q - 1) # {}}}

Spans == [first : Positions, last : Positions]

InOrder(b) == \A n \in 1..Len(b) - 1 : b[n].last < b[n + 1].first

Pushed(f, b) == /\ Range(b) = EndedBefore(f) /\ InOrder(b)
                /\ \A n \in DOMAIN b : b[n].last < f

\* What holds of the place a, the beginning f of the statement, what is open
\* and the batches b
ReadSoFar(a, f, i, b) ==
  /\ a \in 1..Len(script) + 2 /\ f \in 1..Len(script) + 2
  /\ i.what \in {"code", "line", "block", "quote", "dollar"}
  /\ b \in Seq(Spans)
  /\ a <= Len(script) + 1 => f <= a /\ Reading(a, f, i) /\ Pushed(f, b)
  /\ a = Len(script) + 2 => Range(b) = Statements /\ InOrder(b)

SqlBatchesInv == AScript /\ ReadSoFar(at, from, inside, batches)
-----------------------------------------------------------------------------
(* Least and greatest places, and the two recursive functions.             *)

\* A set of naturals that has a member has a least one.
LEMMA LeastNat ==
  ASSUME NEW S \in SUBSET Nat, S # {}
  PROVE  \E n \in S : \A m \in S : n <= m
<1>1. PICK k \in S : TRUE
  OBVIOUS
<1> DEFINE T == {0..m : m \in {j \in S : j <= k}}
<1>2. IsFiniteSet(0..k) /\ k \in Nat
  BY <1>1, FS_Interval
<1>3. IsWellFoundedOn(StrictSubsetOrdering(0..k), SUBSET (0..k))
  BY <1>2, FS_StrictSubsetOrderingWellFounded, FS_FiniteSubsetsOfFinite, Zenon
<1>4. T \subseteq SUBSET (0..k)
  BY <1>2
<1>5. 0..k \in T
  BY <1>2
<1>6. T # {}
  BY <1>5
<1> HIDE DEF T
<1>7. PICK x \in T : \A y \in T : ~(<<y, x>> \in StrictSubsetOrdering(0..k))
  BY <1>3, <1>4, <1>6, WFMin
<1>8. PICK n \in S : n <= k /\ x = 0..n
  BY <1>7 DEF T
<1>9. ASSUME NEW m \in S, m < n
      PROVE  FALSE
  <2>1. 0..m \in T
    BY <1>2, <1>8, <1>9 DEF T
  <2>2. 0..m \subseteq 0..n /\ n \in 0..n /\ n \notin 0..m
    BY <1>9
  <2>3. <<0..m, x>> \in StrictSubsetOrdering(0..k)
    BY <1>4, <1>7, <1>8, <2>1, <2>2 DEF StrictSubsetOrdering
  <2> QED
    BY <1>7, <2>1, <2>3
<1> QED
  BY <1>9

\* A set of places that has a member has a greatest one.
LEMMA GreatestPlace ==
  ASSUME NEW N \in Nat, NEW S \in SUBSET (1..N), S # {}
  PROVE  \E n \in S : \A m \in S : m <= n
<1> DEFINE T == {k \in Nat : N - k \in S}
<1>1. T # {}
  <2>1. PICK n \in S : TRUE
    OBVIOUS
  <2>2. N - n \in T
    <3>1. n \in 1..N
      BY <2>1
    <3>2. N - n \in Nat /\ N - (N - n) = n
      BY <3>1
    <3> QED
      BY <2>1, <3>2
  <2> QED
    BY <2>2
<1>2. PICK k \in T : \A j \in T : k <= j
  BY <1>1, LeastNat
<1>3. N - k \in S
  BY <1>2
<1>4. ASSUME NEW m \in S
      PROVE  m <= N - k
  <2>1. m \in 1..N
    OBVIOUS
  <2>2. N - m \in Nat /\ N - (N - m) = m
    BY <2>1
  <2>3. N - m \in T
    BY <2>2
  <2>4. k <= N - m
    BY <1>2, <2>3
  <2> QED
    BY <1>2, <2>1, <2>4
<1> QED
  BY <1>3, <1>4

\* The places of a script.
LEMMA ScriptPlaces ==
  ASSUME AScript
  PROVE  /\ Len(script) \in Nat /\ Positions = 1..Len(script)
         /\ Positions \subseteq Nat \ {0} /\ DOMAIN script = Positions
         /\ \A p \in Positions : script[p] \in Letters /\ At(p) = script[p]
<1>1. script \in Seq(Letters)
  BY DEF AScript
<1>2. Len(script) \in Nat /\ DOMAIN script = 1..Len(script)
  BY <1>1, LenProperties
<1>3. \A p \in Positions : script[p] \in Letters
  BY <1>1, ElementOfSeq DEF Positions
<1> QED
  BY <1>2, <1>3 DEF Positions, At

\* The first of a set of places.
LEMMA FirstIs ==
  ASSUME AScript, NEW S \in SUBSET Positions, NEW r \in S, \A q \in S : r <= q
  PROVE  FirstOf(S) = r
<1>1. S # {} /\ S \subseteq Nat
  BY ScriptPlaces
<1>2. ASSUME NEW p \in S, \A q \in S : p <= q
      PROVE  p = r
  BY <1>1, <1>2
<1> QED
  BY <1>1, <1>2 DEF FirstOf

\* A set of places has a first one, which is the end of the script when the
\* set is empty.
LEMMA FirstThere ==
  ASSUME AScript, NEW S \in SUBSET Positions
  PROVE  /\ S = {} => FirstOf(S) = Len(script)
         /\ S # {} => FirstOf(S) \in S /\ \A q \in S : FirstOf(S) <= q
<1>1. CASE S = {}
  BY <1>1 DEF FirstOf
<1>2. CASE S # {}
  <2>1. S \in SUBSET Nat
    BY ScriptPlaces
  <2>2. PICK r \in S : \A q \in S : r <= q
    BY <1>2, <2>1, LeastNat
  <2>3. FirstOf(S) = r
    BY <2>2, FirstIs
  <2> QED
    BY <1>2, <2>2, <2>3
<1> QED
  BY <1>1, <1>2

\* What is left of a text whose blank ends are cut off.
LEMMA TrimmedIs ==
  ASSUME AScript, NEW a, NEW b
  PROVE  /\ Solid(a, b) = {} => Trimmed(a, b) = <<>>
         /\ Solid(a, b) # {} =>
              \E t \in Spans : /\ Trimmed(a, b) = <<t>>
                               /\ a <= t.first /\ t.first <= t.last /\ t.last <= b
<1>1. CASE Solid(a, b) = {}
  BY <1>1 DEF Trimmed
<1>2. CASE Solid(a, b) # {}
  <2> DEFINE S == Solid(a, b)
             least == CHOOSE p \in S : \A q \in S : p <= q
             most  == CHOOSE p \in S : \A q \in S : q <= p
  <2>1. S \in SUBSET Positions /\ \A p \in S : a <= p /\ p <= b
    BY DEF Solid
  <2>2. S \in SUBSET Nat /\ S \in SUBSET (1..Len(script)) /\ Len(script) \in Nat
    BY <2>1, ScriptPlaces
  <2>3. S # {}
    BY <1>2
  <2> HIDE DEF S
  <2>4. least \in S /\ \A q \in S : least <= q
    BY <2>2, <2>3, LeastNat
  <2>5. most \in S /\ \A q \in S : q <= most
    BY <2>2, <2>3, GreatestPlace
  <2>6. Trimmed(a, b) = <<[first |-> least, last |-> most]>>
    BY <1>2 DEF Trimmed, S
  <2> HIDE DEF least, most
  <2>7. [first |-> least, last |-> most] \in Spans
    BY <2>1, <2>4, <2>5 DEF Spans
  <2> QED
    BY <1>2, <2>1, <2>4, <2>5, <2>6, <2>7
<1> QED
  BY <1>1, <1>2
-----------------------------------------------------------------------------
(* Where a lexeme ends.                                                    *)

Opening(p) == \/ OpensLineComment(p) \/ OpensBlockComment(p)
              \/ OpensQuote(p) \/ OpensDollarQuote(p)

\* A tag of a dollar quote has one end.
LEMMA OneTag ==
  ASSUME AScript, NEW p \in Positions, NEW q \in TagEnds(p)
  PROVE  /\ TagEnds(p) = {q} /\ FirstOf(TagEnds(p)) = q /\ TagEnds(p) \subseteq Positions
         /\ At(p) = "$" /\ p < q /\ q \in Positions
<1>1. TagEnds(p) \subseteq Positions /\ Positions \subseteq Nat /\ p < q /\ q \in Positions
      /\ script[p] = "$" /\ script[q] = "$" /\ At(p) = script[p]
  BY ScriptPlaces DEF TagEnds
<1>2. ASSUME NEW r \in TagEnds(p)
      PROVE  r = q
  <2>1. r \in Nat /\ q \in Nat /\ p \in Nat /\ p < r /\ script[r] = "$"
    BY <1>1 DEF TagEnds
  <2>2. ~(r < q)
    <3> SUFFICES ASSUME r < q PROVE FALSE
      OBVIOUS
    <3>1. r \in p + 1..q - 1
      BY <2>1
    <3> QED
      BY <2>1, <3>1 DEF TagEnds
  <2>3. ~(q < r)
    <3> SUFFICES ASSUME q < r PROVE FALSE
      OBVIOUS
    <3>1. q \in p + 1..r - 1
      BY <1>1, <2>1
    <3> QED
      BY <1>1, <3>1 DEF TagEnds
  <2> QED
    BY <2>1, <2>2, <2>3
<1>3. TagEnds(p) = {q}
  BY <1>2
<1>4. FirstOf(TagEnds(p)) = q
  BY <1>1, <1>3, FirstIs
<1> QED
  BY <1>1, <1>3, <1>4

\* What a character may open is told from the character.
LEMMA OpeningIs ==
  ASSUME AScript, NEW p \in Positions
  PROVE  /\ OpensLineComment(p)  => At(p) = "-"
         /\ OpensBlockComment(p) => At(p) = "/"
         /\ OpensQuote(p)        => At(p) = "'"
         /\ OpensDollarQuote(p)  => At(p) = "$"
<1>1. OpensDollarQuote(p) => At(p) = "$"
  BY OneTag DEF OpensDollarQuote
<1> QED
  BY <1>1 DEF OpensLineComment, OpensBlockComment, OpensQuote

\* Where a lexeme of each kind ends.
LEMMA EndsAt ==
  ASSUME AScript, NEW p \in Positions
  PROVE  /\ OpensLineComment(p) =>
              EndOf(p) = FirstOf({r \in Positions : r > p + 1 /\ script[r] = "newline"})
         /\ OpensBlockComment(p) =>
              EndOf(p) = FirstOf({r \in Positions : r > p + 2 /\ script[r - 1] = "*"
                                                    /\ script[r] = "/"})
         /\ OpensQuote(p) =>
              EndOf(p) = FirstOf({r \in Positions : r > p /\ ClosesQuote(p, r)})
         /\ \A q \in TagEnds(p) : mode = "kingbase" =>
              LET tag == SubSeq(script, p, q)
              IN EndOf(p) = FirstOf({r \in Positions : \E s \in p + Len(tag)..r :
                                       r = s + Len(tag) - 1 /\ StartsWith(tag, s)})
         /\ ~Opening(p) => EndOf(p) = p
<1>1. /\ OpensLineComment(p)  => ~OpensBlockComment(p) /\ ~OpensQuote(p) /\ ~OpensDollarQuote(p)
      /\ OpensBlockComment(p) => ~OpensLineComment(p) /\ ~OpensQuote(p) /\ ~OpensDollarQuote(p)
      /\ OpensQuote(p) => ~OpensLineComment(p) /\ ~OpensBlockComment(p) /\ ~OpensDollarQuote(p)
      /\ OpensDollarQuote(p) => ~OpensLineComment(p) /\ ~OpensBlockComment(p) /\ ~OpensQuote(p)
  BY OpeningIs
<1>2. OpensLineComment(p) =>
        EndOf(p) = FirstOf({r \in Positions : r > p + 1 /\ script[r] = "newline"})
  BY <1>1 DEF EndOf
<1>3. OpensBlockComment(p) =>
        EndOf(p) = FirstOf({r \in Positions : r > p + 2 /\ script[r - 1] = "*" /\ script[r] = "/"})
  BY <1>1 DEF EndOf
<1>4. ASSUME OpensQuote(p)
      PROVE  EndOf(p) = FirstOf({r \in Positions : r > p /\ ClosesQuote(p, r)})
  <2>1. EndOf(p) =
          FirstOf({r \in Positions : /\ r > p /\ script[r] = At(p) /\ At(r + 1) # At(p)
                                     /\ Cardinality({s \in p + 1..r - 1 : script[s] = At(p)}) % 2 = 0})
    BY <1>1, <1>4 DEF EndOf
  <2> QED
    BY <2>1 DEF ClosesQuote, QuotesIn
<1>5. ASSUME NEW q \in TagEnds(p), mode = "kingbase"
      PROVE  LET tag == SubSeq(script, p, q)
             IN EndOf(p) = FirstOf({r \in Positions : \E s \in p + Len(tag)..r :
                                      r = s + Len(tag) - 1 /\ StartsWith(tag, s)})
  <2>1. OpensDollarQuote(p)
    BY <1>5 DEF OpensDollarQuote
  <2>2. FirstOf(TagEnds(p)) = q
    BY OneTag
  <2>3. EndOf(p) =
          LET tag == SubSeq(script, p, FirstOf(TagEnds(p)))
          IN FirstOf({r \in Positions : \E s \in p + Len(tag)..r :
                        r = s + Len(tag) - 1 /\ StartsWith(tag, s)})
    BY <1>1, <2>1 DEF EndOf
  <2> QED
    BY <2>2, <2>3
<1>6. ~Opening(p) => EndOf(p) = p
  BY DEF EndOf, Opening
<1> QED
  BY <1>2, <1>3, <1>4, <1>5, <1>6

\* Where a body between dollar quotes ends, for the tag it begins with.
LEMMA EndsAtTag ==
  ASSUME AScript, NEW p \in Positions, NEW q \in TagEnds(p), mode = "kingbase",
         NEW t, t = SubSeq(script, p, q)
  PROVE  EndOf(p) = FirstOf({r \in Positions : \E s \in p + Len(t)..r :
                               r = s + Len(t) - 1 /\ StartsWith(t, s)})
<1>1. LET tag == SubSeq(script, p, q)
      IN EndOf(p) = FirstOf({r \in Positions : \E s \in p + Len(tag)..r :
                               r = s + Len(tag) - 1 /\ StartsWith(tag, s)})
  BY EndsAt
<1> QED
  BY <1>1

\* A lexeme ends in the script, and not before it begins.
LEMMA EndsLater ==
  ASSUME AScript
  PROVE  /\ \A p \in Nat \ {0} : EndOf(p) \in Nat /\ p <= EndOf(p)
         /\ \A p \in Positions : EndOf(p) \in Positions
<1> USE ScriptPlaces
<1>1. ASSUME NEW p \in Positions, NEW S \in SUBSET {r \in Positions : p <= r}
      PROVE  FirstOf(S) \in Positions /\ p <= FirstOf(S)
  <2>1. S \in SUBSET Positions
    OBVIOUS
  <2>2. CASE S = {}
    BY <2>1, <2>2, FirstThere
  <2>3. CASE S # {}
    BY <2>1, <2>3, FirstThere
  <2> QED
    BY <2>2, <2>3
<1>2. ASSUME NEW p \in Positions
      PROVE  EndOf(p) \in Positions /\ p <= EndOf(p)
  <2>1. CASE ~Opening(p)
    <3>1. EndOf(p) = p
      BY <2>1 DEF EndOf, Opening
    <3> QED
      BY <3>1
  <2>2. CASE OpensLineComment(p)
    <3>1. {r \in Positions : r > p + 1 /\ script[r] = "newline"} \in SUBSET {r \in Positions : p <= r}
      OBVIOUS
    <3> QED
      BY <1>1, <2>2, <3>1, EndsAt
  <2>3. CASE OpensBlockComment(p)
    <3>1. {r \in Positions : r > p + 2 /\ script[r - 1] = "*" /\ script[r] = "/"}
            \in SUBSET {r \in Positions : p <= r}
      OBVIOUS
    <3> QED
      BY <1>1, <2>3, <3>1, EndsAt
  <2>4. CASE OpensQuote(p)
    <3>1. {r \in Positions : r > p /\ ClosesQuote(p, r)} \in SUBSET {r \in Positions : p <= r}
      OBVIOUS
    <3> QED
      BY <1>1, <2>4, <3>1, EndsAt
  <2>5. CASE OpensDollarQuote(p)
    <3>1. PICK q \in TagEnds(p) : mode = "kingbase"
      BY <2>5 DEF OpensDollarQuote
    <3>2. p < q /\ q \in Positions
      BY OneTag
    <3>3. /\ Len(SubSeq(script, p, q)) = q - p + 1
      BY <3>2, SubSeqProperties
    <3> DEFINE tag == SubSeq(script, p, q)
               S == {r \in Positions : \E s \in p + Len(tag)..r :
                       r = s + Len(tag) - 1 /\ StartsWith(tag, s)}
    <3>4. EndOf(p) = FirstOf(S)
      BY <3>1, EndsAt
    <3>5. S \in SUBSET {r \in Positions : p <= r}
      BY <3>2, <3>3
    <3> QED
      BY <1>1, <3>4, <3>5
  <2> QED
    BY <2>1, <2>2, <2>3, <2>4, <2>5 DEF Opening
<1>3. ASSUME NEW p \in Nat \ {0}, p \notin Positions
      PROVE  EndOf(p) = p
  <2>1. At(p) = "end"
    BY <1>3 DEF At
  <2>2. TagEnds(p) = {}
    BY <1>3 DEF TagEnds
  <2>3. ~Opening(p)
    BY <2>1, <2>2 DEF Opening, OpensLineComment, OpensBlockComment, OpensQuote, OpensDollarQuote
  <2> QED
    BY <2>3 DEF EndOf, Opening
<1> QED
  BY <1>2, <1>3
-----------------------------------------------------------------------------
(* The places where lexemes begin.                                         *)

\* LexemeAt is the function that its definition describes: a place is the
\* beginning of a lexeme when it is in every set that has 1 and, with a place,
\* the one after the lexeme there.
LEMMA LexemeIs ==
  ASSUME AScript
  PROVE  \A p \in Nat : LexemeAt[p] <=> \/ p = 1
                                        \/ \E q \in 1..p - 1 : LexemeAt[q] /\ EndOf(q) = p - 1
<1> DEFINE Closing(S) == 1 \in S /\ \A q \in S : q >= 1 => EndOf(q) + 1 \in S
           f == [p \in Nat |-> \A S \in SUBSET Nat : Closing(S) => p \in S]
           Body(p) == p = 1 \/ \E q \in 1..p - 1 : f[q] /\ EndOf(q) = p - 1
<1>1. ASSUME NEW p \in Nat, Body(p)
      PROVE  f[p]
  <2>1. SUFFICES ASSUME NEW S \in SUBSET Nat, Closing(S) PROVE p \in S
    OBVIOUS
  <2>2. CASE p = 1
    BY <2>1, <2>2
  <2>3. ASSUME NEW q \in 1..p - 1, f[q], EndOf(q) = p - 1
        PROVE  p \in S
    <3>1. q \in Nat /\ q >= 1
      OBVIOUS
    <3>2. q \in S
      BY <2>1, <2>3, <3>1
    <3>3. EndOf(q) + 1 \in S
      BY <2>1, <3>1, <3>2
    <3>4. EndOf(q) + 1 = p
      BY <2>3
    <3> QED
      BY <3>3, <3>4
  <2> QED
    BY <1>1, <2>2, <2>3
<1>2. ASSUME NEW p \in Nat, f[p]
      PROVE  Body(p)
  <2> DEFINE T == {r \in Nat : Body(r)}
  <2>1. 1 \in T
    OBVIOUS
  <2>2. ASSUME NEW q \in T, q >= 1
        PROVE  EndOf(q) + 1 \in T
    <3>1. q \in Nat /\ Body(q)
      OBVIOUS
    <3>2. f[q]
      BY <1>1, <3>1
    <3> HIDE DEF f
    <3>3. EndOf(q) \in Nat /\ q <= EndOf(q)
      BY <2>2, <3>1, EndsLater
    <3>4. q \in 1..(EndOf(q) + 1) - 1 /\ EndOf(q) = (EndOf(q) + 1) - 1
      BY <2>2, <3>1, <3>3
    <3>5. Body(EndOf(q) + 1)
      BY <3>2, <3>4
    <3> QED
      BY <3>3, <3>5
  <2>3. T \in SUBSET Nat /\ Closing(T)
    BY <2>1, <2>2
  <2> HIDE DEF T
  <2>4. p \in T
    BY <1>2, <2>3
  <2> QED
    BY <2>4 DEF T
<1> HIDE DEF Closing
<1>3. \A p \in Nat : f[p] = Body(p)
  <2> SUFFICES ASSUME NEW p \in Nat PROVE f[p] = Body(p)
    OBVIOUS
  <2>1. f[p] \in BOOLEAN /\ Body(p) \in BOOLEAN
    OBVIOUS
  <2>2. f[p] <=> Body(p)
    BY <1>1, <1>2
  <2> QED
    BY <2>1, <2>2
<1>4. f = [p \in Nat |-> f[p]]
  OBVIOUS
<1> HIDE DEF f
<1>5. f = [p \in Nat |-> p = 1 \/ \E q \in 1..p - 1 : f[q] /\ EndOf(q) = p - 1]
  BY <1>3, <1>4
<1>6. LexemeAt = [p \in Nat |-> p = 1 \/ \E q \in 1..p - 1 : LexemeAt[q] /\ EndOf(q) = p - 1]
  BY <1>5 DEF LexemeAt
<1> QED
  BY <1>6
-----------------------------------------------------------------------------
(* Where statements begin.                                                 *)

\* A function of the naturals is given by its first value and by the value
\* that follows each: the pairs that are in every set closed under this are
\* such a function.
LEMMA StepByStep ==
  ASSUME NEW v0 \in Nat, NEW Then \in [Nat -> [Nat -> Nat]]
  PROVE  \E f \in [Nat -> Nat] : f[0] = v0 /\ \A n \in Nat : f[n + 1] = Then[n][f[n]]
<1> DEFINE Solves(g, n) == /\ g \in [0..n -> Nat] /\ g[0] = v0
                           /\ \A k \in 0..n - 1 : g[k + 1] = Then[k][g[k]]
           Unsolved == {n \in Nat : \A g \in [0..n -> Nat] : ~Solves(g, n)}
<1>1. Unsolved = {}
  <2> SUFFICES ASSUME Unsolved # {} PROVE FALSE
    OBVIOUS
  <2>1. PICK n \in Unsolved : \A m \in Unsolved : n <= m
    BY LeastNat
  <2>2. n # 0
    <3> SUFFICES ASSUME n = 0 PROVE FALSE
      OBVIOUS
    <3> DEFINE g == [k \in 0..0 |-> v0]
    <3>1. g \in [0..0 -> Nat] /\ g[0] = v0 /\ 0..0 - 1 = {}
      OBVIOUS
    <3>2. Solves(g, 0)
      BY <3>1
    <3> QED
      BY <2>1, <3>1, <3>2
  <2>n. n \in Nat /\ n - 1 \in Nat /\ n - 1 < n
    BY <2>1, <2>2
  <2>3. n - 1 \in Nat /\ n - 1 \notin Unsolved /\ n \in Nat
    <3> HIDE DEF Unsolved
    <3> QED
      BY <2>1, <2>n
  <2>4. PICK g \in [0..n - 1 -> Nat] : Solves(g, n - 1)
    BY <2>3
  <2> DEFINE h == [k \in 0..n |-> IF k = n THEN Then[n - 1][g[n - 1]] ELSE g[k]]
  <2>5. g[n - 1] \in Nat
    BY <2>3, <2>4
  <2>t. Then[n - 1][g[n - 1]] \in Nat
    BY <2>3, <2>5
  <2>6. h \in [0..n -> Nat]
    <3> SUFFICES ASSUME NEW k \in 0..n PROVE h[k] \in Nat
      OBVIOUS
    <3>1. CASE k = n
      BY <2>t, <3>1
    <3>2. CASE k # n
      <4>1. k \in 0..n - 1
        BY <2>3, <3>2
      <4>2. g[k] \in Nat
        BY <4>1
      <4> QED
        BY <3>2, <4>2
    <3> QED
      BY <3>1, <3>2
  <2>7. h[0] = v0
    BY <2>2, <2>3, <2>4
  <2>8. ASSUME NEW k \in 0..n - 1
        PROVE  h[k + 1] = Then[k][h[k]]
    <3>1. CASE k = n - 1
      BY <2>3, <3>1
    <3>2. CASE k # n - 1
      <4>1. k \in 0..(n - 1) - 1 /\ k + 1 # n /\ k # n /\ k + 1 \in 0..n /\ k \in 0..n
        BY <2>3, <3>2
      <4>2. g[k + 1] = Then[k][g[k]]
        BY <2>4, <4>1
      <4> QED
        BY <4>1, <4>2
    <3> QED
      BY <3>1, <3>2
  <2> HIDE DEF h
  <2>9. Solves(h, n)
    BY <2>6, <2>7, <2>8
  <2> QED
    BY <2>1, <2>6, <2>9
<1>2. ASSUME NEW n \in Nat, NEW m \in Nat, NEW g, NEW h, Solves(g, n), Solves(h, m)
      PROVE  \A k \in 0..n : k <= m => g[k] = h[k]
  <2> DEFINE Differ == {k \in 0..n : k <= m /\ g[k] # h[k]}
  <2> SUFFICES ASSUME Differ # {} PROVE FALSE
    OBVIOUS
  <2>1. PICK k \in Differ : \A j \in Differ : k <= j
    <3>1. Differ \in SUBSET Nat
      OBVIOUS
    <3> QED
      BY <3>1, LeastNat
  <2>2. k \in Nat /\ k # 0 /\ k <= n /\ k <= m
    BY <1>2, <2>1
  <2>i. PICK j \in Nat : k = j + 1
    <3>1. k - 1 \in Nat /\ k = (k - 1) + 1
      BY <2>2
    <3> QED
      BY <3>1
  <2>3. k - 1 \in 0..n - 1 /\ k - 1 \in 0..m - 1 /\ (k - 1) + 1 = k /\ k - 1 < k
    BY <2>2, <2>i
  <2>4. g[k - 1] = h[k - 1]
    BY <2>1, <2>3
  <2>5. g[k] = Then[k - 1][g[k - 1]] /\ h[k] = Then[k - 1][h[k - 1]]
    BY <1>2, <2>3
  <2> QED
    BY <2>1, <2>4, <2>5
<1> DEFINE prefix == [n \in Nat |-> CHOOSE g \in [0..n -> Nat] : Solves(g, n)]
           f == [n \in Nat |-> prefix[n][n]]
<1>3. \A n \in Nat : prefix[n] \in [0..n -> Nat] /\ Solves(prefix[n], n)
  <2> SUFFICES ASSUME NEW n \in Nat PROVE prefix[n] \in [0..n -> Nat] /\ Solves(prefix[n], n)
    OBVIOUS
  <2>1. \E g \in [0..n -> Nat] : Solves(g, n)
    BY <1>1
  <2> HIDE DEF Solves
  <2> QED
    BY <2>1
<1> HIDE DEF prefix
<1>s. \A n \in Nat : /\ prefix[n] \in [0..n -> Nat] /\ prefix[n][0] = v0
                     /\ \A k \in 0..n - 1 : prefix[n][k + 1] = Then[k][prefix[n][k]]
  BY <1>3
<1>f. \A n \in Nat : f[n] = prefix[n][n]
  OBVIOUS
<1>g. DOMAIN f = Nat /\ f = [n \in Nat |-> f[n]]
  OBVIOUS
<1> HIDE DEF f
<1>4. f \in [Nat -> Nat] /\ f[0] = v0
  <2>1. ASSUME NEW n \in Nat
        PROVE  f[n] \in Nat
    <3>1. prefix[n] \in [0..n -> Nat]
      BY <1>s
    <3>2. n \in 0..n
      OBVIOUS
    <3>3. prefix[n][n] \in Nat
      BY <3>1, <3>2
    <3> QED
      BY <1>f, <3>3
  <2> QED
    BY <1>s, <1>f, <1>g, <2>1
<1>5. ASSUME NEW n \in Nat
      PROVE  f[n + 1] = Then[n][f[n]]
  <2>1. Solves(prefix[n], n) /\ Solves(prefix[n + 1], n + 1) /\ n + 1 \in Nat
    <3> HIDE DEF Solves
    <3> QED
      BY <1>3
  <2>2. prefix[n + 1][n + 1] = Then[n][prefix[n + 1][n]]
    <3>1. n + 1 \in Nat /\ n \in 0..(n + 1) - 1
      OBVIOUS
    <3> QED
      BY <1>s, <3>1
  <2>3. n \in 0..n /\ n <= n + 1
    OBVIOUS
  <2> HIDE DEF Solves
  <2>4. \A k \in 0..n : k <= n + 1 => prefix[n][k] = prefix[n + 1][k]
    <3>1. PICK g, h : g = prefix[n] /\ h = prefix[n + 1]
      OBVIOUS
    <3>2. Solves(g, n) /\ Solves(h, n + 1) /\ n \in Nat /\ n + 1 \in Nat
      BY <2>1, <3>1
    <3>3. \A k \in 0..n : k <= n + 1 => g[k] = h[k]
      BY <1>2, <3>2
    <3> QED
      BY <3>1, <3>3
  <2>5. prefix[n][n] = prefix[n + 1][n]
    BY <2>3, <2>4
  <2> QED
    BY <1>f, <2>1, <2>2, <2>5
<1> QED
  BY <1>4, <1>5

\* The character at p, which is in a statement that begins at a, ends it.
Cuts(a, p) == LexemeAt[p] /\ EndOf(p) = p /\ Ends(a, p)

\* StatementOf is the function that its definition describes.
LEMMA StatementIs ==
  /\ StatementOf[1] = 1
  /\ \A p \in Nat \ {0} :
       /\ StatementOf[p] \in Nat
       /\ StatementOf[p + 1] = IF Cuts(StatementOf[p], p) THEN p + 1 ELSE StatementOf[p]
<1> DEFINE Then == [n \in Nat |-> [v \in Nat |->
                      IF n # 0 /\ Cuts(v, n) THEN n + 1 ELSE IF n = 0 THEN 1 ELSE v]]
<1>1. Then \in [Nat -> [Nat -> Nat]]
  OBVIOUS
<1>n. 1 \in Nat
  OBVIOUS
<1>2. \A n \in Nat, v \in Nat :
        Then[n][v] = IF n # 0 /\ Cuts(v, n) THEN n + 1 ELSE IF n = 0 THEN 1 ELSE v
  OBVIOUS
<1> HIDE DEF Then
<1>3. PICK f \in [Nat -> Nat] : f[0] = 1 /\ \A n \in Nat : f[n + 1] = Then[n][f[n]]
  BY <1>1, <1>n, StepByStep
<1>4. \A n \in Nat : f[n + 1] = IF n # 0 /\ Cuts(f[n], n) THEN n + 1
                                ELSE IF n = 0 THEN 1 ELSE f[n]
  BY <1>2, <1>3
<1>5. f[1] = 1
  BY <1>4
<1>6. ASSUME NEW p \in Nat
      PROVE  f[p] = IF p <= 1 THEN 1 ELSE IF Cuts(f[p - 1], p - 1) THEN p ELSE f[p - 1]
  <2>1. CASE p <= 1
    <3>1. p = 0 \/ p = 1
      BY <2>1
    <3> QED
      BY <1>3, <1>5, <2>1, <3>1
  <2>2. CASE p > 1
    <3>1. p - 1 \in Nat /\ p - 1 # 0 /\ (p - 1) + 1 = p
      BY <2>2
    <3> QED
      BY <1>4, <2>2, <3>1
  <2> QED
    BY <2>1, <2>2
<1>7. f = [p \in Nat |-> IF p <= 1 THEN 1
                         ELSE IF Cuts(f[p - 1], p - 1) THEN p ELSE f[p - 1]]
  BY <1>6
<1>8. f = [p \in Nat |->
             IF p <= 1 THEN 1
             ELSE IF LexemeAt[p - 1] /\ EndOf(p - 1) = p - 1 /\ Ends(f[p - 1], p - 1)
                  THEN p ELSE f[p - 1]]
  BY <1>7 DEF Cuts
<1>9. StatementOf = [p \in Nat |->
             IF p <= 1 THEN 1
             ELSE IF LexemeAt[p - 1] /\ EndOf(p - 1) = p - 1 /\ Ends(StatementOf[p - 1], p - 1)
                  THEN p ELSE StatementOf[p - 1]]
  BY <1>8 DEF StatementOf
<1>10. \A p \in Nat : StatementOf[p] = IF p <= 1 THEN 1
                         ELSE IF Cuts(StatementOf[p - 1], p - 1) THEN p ELSE StatementOf[p - 1]
  BY <1>9 DEF Cuts
<1>a. ASSUME NEW p \in Nat \ {0}
      PROVE  StatementOf[p + 1] = IF Cuts(StatementOf[p], p) THEN p + 1 ELSE StatementOf[p]
  <2>1. p + 1 \in Nat /\ ~(p + 1 <= 1) /\ (p + 1) - 1 = p
    OBVIOUS
  <2> QED
    BY <1>10, <2>1
<1>b. \A p \in Nat : StatementOf[p] \in Nat
  <2> DEFINE Other == {p \in Nat : StatementOf[p] \notin Nat}
  <2> SUFFICES ASSUME Other # {} PROVE FALSE
    OBVIOUS
  <2>1. PICK p \in Other : \A q \in Other : p <= q
    BY LeastNat
  <2>2. p \in Nat /\ ~(p <= 1)
    BY <1>10, <2>1
  <2>3. p - 1 \in Nat /\ p - 1 \notin Other
    BY <2>1, <2>2
  <2> QED
    BY <1>10, <2>1, <2>2, <2>3
<1> QED
  BY <1>10, <1>a, <1>b
-----------------------------------------------------------------------------
(* Lexemes and statements follow each other.                               *)

\* After a lexeme the next one begins.
LEMMA LexemeFollows ==
  ASSUME AScript, NEW p \in Nat \ {0}, LexemeAt[p]
  PROVE  LexemeAt[EndOf(p) + 1]
<1>1. EndOf(p) \in Nat /\ p <= EndOf(p)
  BY EndsLater
<1>2. EndOf(p) + 1 \in Nat /\ p \in 1..(EndOf(p) + 1) - 1 /\ EndOf(p) = (EndOf(p) + 1) - 1
  BY <1>1
<1> QED
  BY <1>2, LexemeIs

\* Lexemes do not overlap.
LEMMA LexemesApart ==
  ASSUME AScript, NEW p \in Nat \ {0}, NEW q \in Nat, LexemeAt[p], LexemeAt[q], p < q
  PROVE  EndOf(p) < q
<1> DEFINE Meets(a, b) == a < b /\ LexemeAt[a] /\ LexemeAt[b] /\ ~(EndOf(a) < b)
           Bad == {b \in Nat : \E a \in Nat \ {0} : Meets(a, b)}
<1>1. Bad = {}
  <2> SUFFICES ASSUME Bad # {} PROVE FALSE
    OBVIOUS
  <2>1. PICK b \in Bad : \A c \in Bad : b <= c
    <3>1. Bad \in SUBSET Nat
      OBVIOUS
    <3> HIDE DEF Bad
    <3> QED
      BY <3>1, LeastNat
  <2>2. b \in Nat
    OBVIOUS
  <2>3. PICK a \in Nat \ {0} : Meets(a, b)
    BY <2>1
  <2>4. \A c \in Nat : c < b => \A d \in Nat \ {0} : ~Meets(d, c)
    BY <2>1, <2>2
  <2>5. b # 1
    BY <2>3
  <2>6. PICK c \in 1..b - 1 : LexemeAt[c] /\ EndOf(c) = b - 1
    BY <2>2, <2>3, <2>5, LexemeIs
  <2>7. c \in Nat \ {0} /\ c < b /\ EndOf(a) \in Nat
    BY <2>2, <2>6, EndsLater
  <2>8. CASE c = a
    BY <2>2, <2>3, <2>6, <2>8
  <2>9. CASE a < c
    <3>1. ~Meets(a, c)
      BY <2>4, <2>7
    <3>2. EndOf(a) < c
      BY <2>3, <2>6, <2>9, <3>1
    <3> QED
      BY <2>2, <2>3, <2>7, <3>2
  <2>a. CASE c < a
    <3>1. ~Meets(c, a)
      BY <2>3, <2>4, <2>7
    <3>2. EndOf(c) < a
      BY <2>3, <2>6, <2>a, <3>1
    <3> QED
      BY <2>2, <2>3, <2>6, <3>2
  <2> QED
    BY <2>3, <2>7, <2>8, <2>9, <2>a
<1> QED
  BY <1>1, EndsLater

\* A statement begins before what belongs to it, and what is between its
\* beginning and a place of it belongs to it too.
LEMMA StatementHolds ==
  ASSUME NEW p \in Nat \ {0}
  PROVE  /\ StatementOf[p] \in 1..p
         /\ \A r \in StatementOf[p]..p : StatementOf[r] = StatementOf[p]
<1> DEFINE Good(a) == /\ StatementOf[a] \in 1..a
                      /\ \A r \in StatementOf[a]..a : StatementOf[r] = StatementOf[a]
           Bad == {a \in Nat \ {0} : ~Good(a)}
<1> SUFFICES Bad = {}
  OBVIOUS
<1> SUFFICES ASSUME Bad # {} PROVE FALSE
  OBVIOUS
<1>1. PICK b \in Bad : \A c \in Bad : b <= c
  <2>1. Bad \in SUBSET Nat
    OBVIOUS
  <2> HIDE DEF Bad
  <2> QED
    BY <2>1, LeastNat
<1>2. b \in Nat /\ b # 0
  OBVIOUS
<1>3. b # 1
  <2> SUFFICES ASSUME b = 1 PROVE FALSE
    OBVIOUS
  <2>1. StatementOf[1] = 1
    BY StatementIs
  <2> QED
    BY <1>1, <2>1
<1>4. b - 1 \in Nat \ {0} /\ b - 1 < b /\ (b - 1) + 1 = b
  BY <1>2, <1>3
<1>5. Good(b - 1)
  <2>1. b - 1 \notin Bad
    <3> HIDE DEF Bad
    <3> QED
      BY <1>1, <1>2, <1>4
  <2> QED
    BY <1>4, <2>1
<1>6. StatementOf[b] = IF Cuts(StatementOf[b - 1], b - 1) THEN b ELSE StatementOf[b - 1]
  BY <1>4, StatementIs
<1>7. CASE StatementOf[b] = b
  BY <1>1, <1>2, <1>7
<1>8. CASE StatementOf[b] = StatementOf[b - 1]
  <2>1. StatementOf[b] \in 1..b
    BY <1>2, <1>4, <1>5, <1>8
  <2>2. ASSUME NEW r \in StatementOf[b]..b
        PROVE  StatementOf[r] = StatementOf[b]
    <3>1. CASE r = b
      BY <3>1
    <3>2. CASE r # b
      <4>1. r \in StatementOf[b - 1]..b - 1
        BY <1>2, <1>8, <2>1, <2>2, <3>2
      <4> QED
        BY <1>5, <1>8, <4>1
    <3> QED
      BY <3>1, <3>2
  <2> QED
    BY <1>1, <2>1, <2>2
<1> QED
  BY <1>6, <1>7, <1>8

\* As long as nothing ends the statement it goes on.
LEMMA StatementGoesOn ==
  ASSUME NEW p \in Nat \ {0}, NEW s \in Nat, p <= s,
         \A r \in p..s - 1 : ~Cuts(StatementOf[p], r)
  PROVE  StatementOf[s] = StatementOf[p]
<1> DEFINE Bad == {r \in p..s : StatementOf[r] # StatementOf[p]}
<1> SUFFICES ASSUME Bad # {} PROVE FALSE
  OBVIOUS
<1>1. PICK b \in Bad : \A c \in Bad : b <= c
  <2>1. Bad \in SUBSET Nat
    OBVIOUS
  <2> HIDE DEF Bad
  <2> QED
    BY <2>1, LeastNat
<1>2. b \in p..s /\ StatementOf[b] # StatementOf[p]
  BY <1>1
<1>3. b \in Nat /\ b # p /\ b - 1 \in p..s - 1 /\ b - 1 \in Nat \ {0} /\ (b - 1) + 1 = b
  BY <1>2
<1>4. b - 1 \notin Bad
  <2> HIDE DEF Bad
  <2> QED
    BY <1>1, <1>3
<1>5. StatementOf[b - 1] = StatementOf[p]
  BY <1>3, <1>4
<1>6. ~Cuts(StatementOf[b - 1], b - 1)
  BY <1>3, <1>5
<1> QED
  BY <1>2, <1>3, <1>5, <1>6, StatementIs

\* A lexeme that opens something ends no statement.
LEMMA OpeningEndsNothing ==
  ASSUME AScript, NEW p \in Positions, Opening(p), NEW a
  PROVE  ~Ends(a, p)
<1>1. Positions = 1..Len(script) /\ Len(script) \in Nat /\ At(p) = script[p]
      /\ Positions \subseteq Nat
  BY ScriptPlaces
<1>2. At(p) # ";"
  BY OpeningIs DEF Opening
<1>3. ASSUME At(p) = "/", AloneOnLine(p)
      PROVE  FALSE
  <2>1. At(p + 1) = "*"
    BY <1>3, OpeningIs DEF Opening, OpensBlockComment
  <2>2. p + 1 \in Positions /\ script[p + 1] = "*"
    BY <2>1 DEF At
  <2>3. p + 1 # p /\ p + 1..p - 1 = {} /\ p + 1..p + 1 = {p + 1}
    BY <1>1
  <2>4. script[p + 1] \in Blanks
    BY <1>3, <2>2, <2>3 DEF AloneOnLine
  <2> QED
    BY <2>2, <2>4 DEF Blanks
<1> QED
  BY <1>2, <1>3 DEF Ends

\* The statement a lexeme belongs to goes on after it unless the lexeme is a
\* character that ends it.
LEMMA StatementOver ==
  ASSUME AScript, NEW p \in Positions, LexemeAt[p], ~Ends(StatementOf[p], p)
  PROVE  StatementOf[EndOf(p) + 1] = StatementOf[p]
<1>1. p \in Nat \ {0} /\ EndOf(p) \in Nat /\ p <= EndOf(p)
  BY ScriptPlaces, EndsLater
<1>2. ASSUME NEW r \in p..(EndOf(p) + 1) - 1, Cuts(StatementOf[p], r)
      PROVE  FALSE
  <2>1. r \in Nat /\ LexemeAt[r] /\ p <= r /\ r <= EndOf(p) /\ Ends(StatementOf[p], r)
    BY <1>1, <1>2 DEF Cuts
  <2>2. r # p
    BY <2>1
  <2>3. EndOf(p) < r
    BY <1>1, <2>1, <2>2, LexemesApart
  <2> QED
    BY <1>1, <2>1, <2>3
<1>3. EndOf(p) + 1 \in Nat /\ p <= EndOf(p) + 1
  BY <1>1
<1> QED
  BY <1>1, <1>2, <1>3, StatementGoesOn
-----------------------------------------------------------------------------
(* Reading what is open.                                                   *)

\* In a line comment.
LEMMA LineGoesOn ==
  ASSUME AScript, NEW p \in Positions, NEW a \in Positions, NEW i, i.what = "line",
         OpenSince(p, a, i)
  PROVE  /\ Opening(p)
         /\ At(a) = "newline" => EndOf(p) = a
         /\ At(a) # "newline" => OpenSince(p, a + 1, i)
<1>1. /\ OpensLineComment(p) /\ p + 2 <= a
      /\ \A r \in p + 2..a - 1 : script[r] # "newline"
  BY DEF OpenSince
<1>2. Positions \subseteq Nat /\ At(a) = script[a]
  BY ScriptPlaces
<1>3. ASSUME At(a) = "newline"
      PROVE  EndOf(p) = a
  <2> DEFINE S == {r \in Positions : r > p + 1 /\ script[r] = "newline"}
  <2>1. EndOf(p) = FirstOf(S)
    BY <1>1, EndsAt
  <2>2. a \in S
    <3>1. a > p + 1 /\ script[a] = "newline"
      BY <1>1, <1>2, <1>3
    <3> QED
      BY <3>1
  <2>3. \A r \in S : a <= r
    <3> SUFFICES ASSUME NEW r \in S, r < a PROVE FALSE
      BY <1>2
    <3>1. r \in p + 2..a - 1
      BY <1>2
    <3> QED
      BY <1>1, <3>1
  <2>4. S \in SUBSET Positions
    OBVIOUS
  <2> HIDE DEF S
  <2> QED
    BY <2>1, <2>2, <2>3, <2>4, FirstIs
<1>4. ASSUME At(a) # "newline"
      PROVE  OpenSince(p, a + 1, i)
  <2>1. \A r \in p + 2..(a + 1) - 1 : script[r] # "newline"
    BY <1>1, <1>2, <1>4
  <2>2. p + 2 <= a + 1
    BY <1>1, <1>2
  <2> QED
    BY <1>1, <2>1, <2>2 DEF OpenSince
<1> QED
  BY <1>1, <1>3, <1>4 DEF Opening

\* In a block comment.
LEMMA BlockGoesOn ==
  ASSUME AScript, NEW p \in Positions, NEW a \in Positions, NEW i, i.what = "block",
         OpenSince(p, a, i)
  PROVE  /\ Opening(p)
         /\ At(a) = "*" /\ At(a + 1) = "/" => EndOf(p) = a + 1 /\ a + 1 \in Positions
         /\ ~(At(a) = "*" /\ At(a + 1) = "/") => OpenSince(p, a + 1, i)
<1>1. /\ OpensBlockComment(p) /\ p + 2 <= a
      /\ \A r \in p + 2..a - 1 : ~(At(r) = "*" /\ At(r + 1) = "/")
  BY DEF OpenSince
<1>2. /\ Positions \subseteq Nat /\ Positions = 1..Len(script) /\ Len(script) \in Nat
      /\ \A r \in Positions : At(r) = script[r]
  BY ScriptPlaces
<1>3. ASSUME At(a) = "*", At(a + 1) = "/"
      PROVE  EndOf(p) = a + 1 /\ a + 1 \in Positions
  <2> DEFINE S == {r \in Positions : r > p + 2 /\ script[r - 1] = "*" /\ script[r] = "/"}
  <2>1. EndOf(p) = FirstOf(S)
    BY <1>1, EndsAt
  <2>2. a + 1 \in Positions /\ script[a + 1] = "/" /\ script[a] = "*"
    BY <1>2, <1>3 DEF At
  <2>3. a + 1 \in S
    <3>1. a + 1 > p + 2 /\ (a + 1) - 1 = a
      BY <1>1, <1>2
    <3> QED
      BY <2>2, <3>1
  <2>4. \A r \in S : a + 1 <= r
    <3> SUFFICES ASSUME NEW r \in S, r < a + 1 PROVE FALSE
      BY <1>2
    <3>1. r - 1 \in p + 2..a - 1 /\ r - 1 \in Positions /\ (r - 1) + 1 = r /\ r \in Positions
      BY <1>2
    <3>2. At(r - 1) = "*" /\ At((r - 1) + 1) = "/"
      BY <1>2, <3>1
    <3> QED
      BY <1>1, <3>1, <3>2
  <2>5. S \in SUBSET Positions
    OBVIOUS
  <2> HIDE DEF S
  <2> QED
    BY <2>1, <2>2, <2>3, <2>4, <2>5, FirstIs
<1>4. ASSUME ~(At(a) = "*" /\ At(a + 1) = "/")
      PROVE  OpenSince(p, a + 1, i)
  <2>1. \A r \in p + 2..(a + 1) - 1 : ~(At(r) = "*" /\ At(r + 1) = "/")
    <3> SUFFICES ASSUME NEW r \in p + 2..(a + 1) - 1, At(r) = "*" /\ At(r + 1) = "/"
                 PROVE  FALSE
      OBVIOUS
    <3>1. r # a
      BY <1>4
    <3>2. r \in p + 2..a - 1
      BY <1>2, <3>1
    <3> QED
      BY <1>1, <3>2
  <2>2. p + 2 <= a + 1
    BY <1>1, <1>2
  <2> QED
    BY <1>1, <2>1, <2>2 DEF OpenSince
<1> QED
  BY <1>1, <1>3, <1>4 DEF Opening

\* The quotes up to the place after r.
LEMMA QuotesCount ==
  ASSUME AScript, NEW p \in Positions, NEW r \in Positions, p < r
  PROVE  /\ QuotesIn(p, r + 1) = IF script[r] = At(p) THEN QuotesIn(p, r) \union {r}
                                 ELSE QuotesIn(p, r)
         /\ Cardinality(QuotesIn(p, r)) \in Nat
         /\ Cardinality(QuotesIn(p, r + 1)) =
              IF script[r] = At(p) THEN Cardinality(QuotesIn(p, r)) + 1
              ELSE Cardinality(QuotesIn(p, r))
<1>1. p \in Nat /\ r \in Nat
  BY ScriptPlaces
<1>2. QuotesIn(p, r + 1) = IF script[r] = At(p) THEN QuotesIn(p, r) \union {r}
                           ELSE QuotesIn(p, r)
  BY <1>1 DEF QuotesIn
<1>3. IsFiniteSet(QuotesIn(p, r))
  <2>1. IsFiniteSet(p + 1..r - 1)
    BY <1>1, FS_Interval
  <2>2. QuotesIn(p, r) \in SUBSET (p + 1..r - 1)
    BY DEF QuotesIn
  <2> QED
    BY <2>1, <2>2, FS_Subset
<1>4. r \notin QuotesIn(p, r)
  BY <1>1 DEF QuotesIn
<1> QED
  BY <1>2, <1>3, <1>4, FS_AddElement, FS_CardinalityType

\* In a quoted text.
LEMMA QuoteGoesOn ==
  ASSUME AScript, NEW p \in Positions, NEW a \in Positions, NEW i, i.what = "quote",
         OpenSince(p, a, i)
  PROVE  /\ Opening(p) /\ i.by[1] = At(p)
         /\ At(a) # At(p) => OpenSince(p, a + 1, i)
         /\ At(a) = At(p) /\ At(a + 1) = At(a) => OpenSince(p, a + 2, i) /\ a + 1 \in Positions
         /\ At(a) = At(p) /\ At(a + 1) # At(a) => EndOf(p) = a
<1>1. /\ OpensQuote(p) /\ i.by = <<At(p)>> /\ p + 1 <= a
      /\ Cardinality(QuotesIn(p, a)) % 2 = 0
      /\ \A r \in p + 1..a - 1 : ~ClosesQuote(p, r)
  BY DEF OpenSince
<1>2. /\ Positions \subseteq Nat /\ Positions = 1..Len(script) /\ Len(script) \in Nat
      /\ \A r \in Positions : At(r) = script[r]
  BY ScriptPlaces
<1>3. ASSUME At(a) # At(p)
      PROVE  OpenSince(p, a + 1, i)
  <2>p. p < a /\ script[a] # At(p)
    BY <1>1, <1>2, <1>3
  <2>q. Cardinality(QuotesIn(p, a + 1)) = Cardinality(QuotesIn(p, a))
    BY <2>p, QuotesCount
  <2>1. Cardinality(QuotesIn(p, a + 1)) % 2 = 0
    BY <1>1, <2>q
  <2>2. ~ClosesQuote(p, a)
    BY <1>2, <1>3 DEF ClosesQuote
  <2>3. \A r \in p + 1..(a + 1) - 1 : ~ClosesQuote(p, r)
    <3> SUFFICES ASSUME NEW r \in p + 1..(a + 1) - 1 PROVE ~ClosesQuote(p, r)
      OBVIOUS
    <3>1. r = a \/ r \in p + 1..a - 1
      BY <1>2
    <3> QED
      BY <1>1, <2>2, <3>1
  <2>4. p + 1 <= a + 1
    BY <1>1, <1>2
  <2> QED
    BY <1>1, <2>1, <2>3, <2>4 DEF OpenSince
<1>4. ASSUME At(a) = At(p), At(a + 1) = At(a)
      PROVE  OpenSince(p, a + 2, i) /\ a + 1 \in Positions
  <2>1. At(a) = "'"
    BY <1>1, <1>4 DEF OpensQuote
  <2>2. a + 1 \in Positions
    BY <1>4, <2>1 DEF At
  <2>p. p < a /\ p < a + 1 /\ script[a] = At(p) /\ script[a + 1] = At(p)
    BY <1>1, <1>2, <1>4, <2>2
  <2>3. /\ Cardinality(QuotesIn(p, a)) \in Nat
        /\ Cardinality(QuotesIn(p, a + 1)) = Cardinality(QuotesIn(p, a)) + 1
    BY <2>p, QuotesCount
  <2>4. Cardinality(QuotesIn(p, (a + 1) + 1)) = Cardinality(QuotesIn(p, a + 1)) + 1
    BY <2>2, <2>p, QuotesCount
  <2>5. Cardinality(QuotesIn(p, a + 1)) % 2 # 0
    BY <1>1, <2>3
  <2>6. Cardinality(QuotesIn(p, a + 2)) % 2 = 0
    <3>1. (a + 1) + 1 = a + 2
      BY <1>2
    <3> QED
      BY <1>1, <2>3, <2>4, <3>1
  <2>7. ~ClosesQuote(p, a) /\ ~ClosesQuote(p, a + 1)
    BY <1>4, <2>5 DEF ClosesQuote
  <2>8. \A r \in p + 1..(a + 2) - 1 : ~ClosesQuote(p, r)
    <3> SUFFICES ASSUME NEW r \in p + 1..(a + 2) - 1 PROVE ~ClosesQuote(p, r)
      OBVIOUS
    <3>1. r = a \/ r = a + 1 \/ r \in p + 1..a - 1
      BY <1>2
    <3> QED
      BY <1>1, <2>7, <3>1
  <2>9. p + 1 <= a + 2
    BY <1>1, <1>2
  <2> QED
    BY <1>1, <2>2, <2>6, <2>8, <2>9 DEF OpenSince
<1>5. ASSUME At(a) = At(p), At(a + 1) # At(a)
      PROVE  EndOf(p) = a
  <2> DEFINE S == {r \in Positions : r > p /\ ClosesQuote(p, r)}
  <2>1. EndOf(p) = FirstOf(S)
    BY <1>1, EndsAt
  <2>2. a \in S
    BY <1>1, <1>2, <1>5 DEF ClosesQuote
  <2>3. \A r \in S : a <= r
    <3> SUFFICES ASSUME NEW r \in S, r < a PROVE FALSE
      BY <1>2
    <3>1. r \in p + 1..a - 1
      BY <1>2
    <3> QED
      BY <1>1, <3>1
  <2>4. S \in SUBSET Positions
    OBVIOUS
  <2> HIDE DEF S
  <2> QED
    BY <2>1, <2>2, <2>3, <2>4, FirstIs
<1>6. i.by[1] = At(p)
  BY <1>1
<1> QED
  BY <1>1, <1>3, <1>4, <1>5, <1>6 DEF Opening
\* A tag of a dollar quote.
LEMMA TagIs ==
  ASSUME AScript, NEW p \in Positions, NEW q \in TagEnds(p)
  PROVE  /\ SubSeq(script, p, q) \in Seq(Letters) /\ Len(SubSeq(script, p, q)) = q - p + 1
         /\ p < q /\ q \in Positions
<1>1. p < q /\ q \in Positions
  BY OneTag
<1>2. /\ Positions \subseteq Nat /\ Positions = 1..Len(script) /\ Len(script) \in Nat
      /\ \A r \in Positions : script[r] \in Letters
  BY ScriptPlaces
<1>3. p \in Int /\ q \in Int /\ p <= q /\ \A r \in p..q : script[r] \in Letters
  BY <1>1, <1>2
<1> QED
  BY <1>1, <1>3, SubSeqProperties

\* In a body between dollar quotes.
LEMMA DollarGoesOn ==
  ASSUME AScript, NEW p \in Positions, NEW a \in Positions, NEW i, i.what = "dollar",
         OpenSince(p, a, i)
  PROVE  /\ Opening(p) /\ Len(i.by) \in Nat \ {0}
         /\ StartsWith(i.by, a) => /\ EndOf(p) = a + Len(i.by) - 1
                                   /\ a + Len(i.by) - 1 \in Positions
         /\ ~StartsWith(i.by, a) => OpenSince(p, a + 1, i)
<1>1. OpensDollarQuote(p) /\ mode = "kingbase"
  BY DEF OpenSince, OpensDollarQuote
<1>2. PICK q \in TagEnds(p) : /\ i.by = SubSeq(script, p, q) /\ q + 1 <= a
                              /\ \A s \in q + 1..a - 1 : ~StartsWith(i.by, s)
  BY DEF OpenSince
<1>3. /\ Positions \subseteq Nat /\ Positions = 1..Len(script) /\ Len(script) \in Nat
  BY ScriptPlaces
<1>4. Len(i.by) = q - p + 1 /\ p < q /\ q \in Positions
  BY <1>2, TagIs
<1>5. Len(i.by) \in Nat \ {0} /\ p + Len(i.by) = q + 1
  BY <1>3, <1>4
<1>6. ASSUME StartsWith(i.by, a)
      PROVE  EndOf(p) = a + Len(i.by) - 1 /\ a + Len(i.by) - 1 \in Positions
  <2> DEFINE S == {r \in Positions : \E s \in p + Len(i.by)..r :
                     r = s + Len(i.by) - 1 /\ StartsWith(i.by, s)}
  <2>1. EndOf(p) = FirstOf(S)
    BY <1>1, <1>2, EndsAtTag
  <2>2. a + Len(i.by) - 1 \in Positions
    BY <1>6 DEF StartsWith
  <2>3. a + Len(i.by) - 1 \in S
    <3>0. p + Len(i.by) <= a /\ a \in Nat /\ p \in Nat
      BY <1>2, <1>3, <1>5
    <3>1. a \in p + Len(i.by)..a + Len(i.by) - 1
      BY <1>5, <3>0
    <3> QED
      BY <1>6, <2>2, <3>1
  <2>4. \A r \in S : a + Len(i.by) - 1 <= r
    <3> SUFFICES ASSUME NEW r \in S, r < a + Len(i.by) - 1 PROVE FALSE
      BY <1>3, <1>5
    <3>1. PICK s \in p + Len(i.by)..r : r = s + Len(i.by) - 1 /\ StartsWith(i.by, s)
      OBVIOUS
    <3>2. s \in q + 1..a - 1
      BY <1>3, <1>5, <3>1
    <3> QED
      BY <1>2, <3>1, <3>2
  <2>5. S \in SUBSET Positions
    OBVIOUS
  <2> HIDE DEF S
  <2> QED
    BY <2>1, <2>2, <2>3, <2>4, <2>5, FirstIs
<1>7. ASSUME ~StartsWith(i.by, a)
      PROVE  OpenSince(p, a + 1, i)
  <2>1. \A s \in q + 1..(a + 1) - 1 : ~StartsWith(i.by, s)
    <3> SUFFICES ASSUME NEW s \in q + 1..(a + 1) - 1 PROVE ~StartsWith(i.by, s)
      OBVIOUS
    <3>1. s = a \/ s \in q + 1..a - 1
      BY <1>3, <1>4
    <3> QED
      BY <1>2, <1>7, <3>1
  <2>2. q + 1 <= a + 1
    BY <1>2, <1>3, <1>4
  <2> QED
    BY <1>1, <1>2, <2>1, <2>2 DEF OpenSince
<1> QED
  BY <1>1, <1>5, <1>6, <1>7 DEF Opening

\* What has just been opened is open.
LEMMA OpensHere ==
  ASSUME AScript, NEW p \in Positions
  PROVE  /\ OpensLineComment(p)  => /\ OpenSince(p, p + 2, Open("line", <<>>))
                                    /\ p + 1 \in Positions
         /\ OpensBlockComment(p) => /\ OpenSince(p, p + 2, Open("block", <<>>))
                                    /\ p + 1 \in Positions
         /\ OpensQuote(p) => OpenSince(p, p + 1, Open("quote", <<At(p)>>))
         /\ OpensDollarQuote(p) =>
              \A q \in TagEnds(p) :
                /\ OpenSince(p, p + (q - p + 1), Open("dollar", SubSeq(script, p, q)))
                /\ p < q /\ q \in Positions
<1>1. /\ Positions \subseteq Nat /\ Positions = 1..Len(script) /\ Len(script) \in Nat
      /\ \A r \in Positions : At(r) = script[r]
  BY ScriptPlaces
<1>2. p + 2..(p + 2) - 1 = {} /\ p + 1..(p + 1) - 1 = {} /\ p + 2 <= p + 2 /\ p + 1 <= p + 1
  BY <1>1
<1>3. ASSUME OpensLineComment(p)
      PROVE  OpenSince(p, p + 2, Open("line", <<>>)) /\ p + 1 \in Positions
  <2>1. p + 1 \in Positions
    BY <1>3 DEF OpensLineComment, At
  <2>2. Open("line", <<>>).what = "line"
    BY DEF Open
  <2> QED
    BY <1>2, <1>3, <2>1, <2>2 DEF OpenSince
<1>4. ASSUME OpensBlockComment(p)
      PROVE  OpenSince(p, p + 2, Open("block", <<>>)) /\ p + 1 \in Positions
  <2>1. p + 1 \in Positions
    BY <1>4 DEF OpensBlockComment, At
  <2>2. Open("block", <<>>).what = "block"
    BY DEF Open
  <2> QED
    BY <1>2, <1>4, <2>1, <2>2 DEF OpenSince
<1>5. ASSUME OpensQuote(p)
      PROVE  OpenSince(p, p + 1, Open("quote", <<At(p)>>))
  <2>1. QuotesIn(p, p + 1) = {}
    BY <1>2 DEF QuotesIn
  <2>2. Cardinality(QuotesIn(p, p + 1)) % 2 = 0
    <3>1. Cardinality(QuotesIn(p, p + 1)) = 0
      BY <2>1, FS_EmptySet
    <3> QED
      BY <3>1
  <2>3. Open("quote", <<At(p)>>).what = "quote" /\ Open("quote", <<At(p)>>).by = <<At(p)>>
    BY DEF Open
  <2> QED
    BY <1>2, <1>5, <2>2, <2>3 DEF OpenSince
<1>6. ASSUME OpensDollarQuote(p), NEW q \in TagEnds(p)
      PROVE  /\ OpenSince(p, p + (q - p + 1), Open("dollar", SubSeq(script, p, q)))
             /\ p < q /\ q \in Positions
  <2>1. p < q /\ q \in Positions
    BY TagIs
  <2>2. p + (q - p + 1) = q + 1 /\ q + 1..(q + 1) - 1 = {} /\ q + 1 <= q + 1
    BY <1>1, <2>1
  <2> DEFINE i == Open("dollar", SubSeq(script, p, q))
  <2>3. i.what = "dollar" /\ i.by = SubSeq(script, p, q)
    BY DEF Open
  <2> HIDE DEF i
  <2>4. OpenSince(p, q + 1, i)
    BY <1>6, <2>2, <2>3 DEF OpenSince
  <2> QED
    BY <2>1, <2>2, <2>4 DEF i
<1> QED
  BY <1>3, <1>4, <1>5, <1>6

\* What is still open at the end of the script ends there.
LEMMA OpenAtTheEnd ==
  ASSUME AScript, NEW p \in Positions, NEW i, OpenSince(p, Len(script) + 1, i)
  PROVE  Opening(p) /\ EndOf(p) = Len(script)
<1>1. /\ Positions \subseteq Nat /\ Positions = 1..Len(script) /\ Len(script) \in Nat
      /\ \A r \in Positions : At(r) = script[r]
  BY ScriptPlaces
<1>2. CASE /\ i.what = "line" /\ OpensLineComment(p)
           /\ \A r \in p + 2..(Len(script) + 1) - 1 : script[r] # "newline"
  <2> DEFINE S == {r \in Positions : r > p + 1 /\ script[r] = "newline"}
  <2>1. EndOf(p) = FirstOf(S)
    BY <1>2, EndsAt
  <2>2. ASSUME NEW r \in S
        PROVE  FALSE
    <3>1. r \in p + 2..(Len(script) + 1) - 1 /\ script[r] = "newline"
      BY <1>1
    <3> QED
      BY <1>2, <3>1
  <2>3. S \in SUBSET Positions /\ S = {}
    BY <2>2
  <2> HIDE DEF S
  <2> QED
    BY <1>2, <2>1, <2>3, FirstThere DEF Opening
<1>3. CASE /\ i.what = "block" /\ OpensBlockComment(p)
           /\ \A r \in p + 2..(Len(script) + 1) - 1 : ~(At(r) = "*" /\ At(r + 1) = "/")
  <2> DEFINE S == {r \in Positions : r > p + 2 /\ script[r - 1] = "*" /\ script[r] = "/"}
  <2>1. EndOf(p) = FirstOf(S)
    BY <1>3, EndsAt
  <2>2. ASSUME NEW r \in S
        PROVE  FALSE
    <3>1. r - 1 \in p + 2..(Len(script) + 1) - 1 /\ r - 1 \in Positions /\ (r - 1) + 1 = r
      BY <1>1
    <3>2. At(r - 1) = "*" /\ At((r - 1) + 1) = "/"
      BY <1>1, <3>1
    <3> QED
      BY <1>3, <3>1, <3>2
  <2>3. S \in SUBSET Positions /\ S = {}
    BY <2>2
  <2> HIDE DEF S
  <2> QED
    BY <1>3, <2>1, <2>3, FirstThere DEF Opening
<1>4. CASE /\ i.what = "quote" /\ OpensQuote(p)
           /\ \A r \in p + 1..(Len(script) + 1) - 1 : ~ClosesQuote(p, r)
  <2> DEFINE S == {r \in Positions : r > p /\ ClosesQuote(p, r)}
  <2>1. EndOf(p) = FirstOf(S)
    BY <1>4, EndsAt
  <2>2. ASSUME NEW r \in S
        PROVE  FALSE
    <3>1. r \in p + 1..(Len(script) + 1) - 1 /\ ClosesQuote(p, r)
      BY <1>1
    <3> QED
      BY <1>4, <3>1
  <2>3. S \in SUBSET Positions /\ S = {}
    BY <2>2
  <2> HIDE DEF S
  <2> QED
    BY <1>4, <2>1, <2>3, FirstThere DEF Opening
<1>5. CASE /\ i.what = "dollar" /\ OpensDollarQuote(p)
           /\ \E q \in TagEnds(p) :
                /\ i.by = SubSeq(script, p, q)
                /\ \A s \in q + 1..(Len(script) + 1) - 1 : ~StartsWith(i.by, s)
  <2>q. PICK q \in TagEnds(p) :
          /\ i.by = SubSeq(script, p, q)
          /\ \A s \in q + 1..(Len(script) + 1) - 1 : ~StartsWith(i.by, s)
    BY <1>5
  <2>k. mode = "kingbase"
    BY <1>5 DEF OpensDollarQuote
  <2>l. Len(i.by) = q - p + 1 /\ p < q /\ q \in Positions
    BY <2>q, TagIs
  <2> DEFINE S == {r \in Positions : \E s \in p + Len(i.by)..r :
                     r = s + Len(i.by) - 1 /\ StartsWith(i.by, s)}
  <2>1. EndOf(p) = FirstOf(S)
    BY <2>q, <2>k, EndsAtTag
  <2>2. ASSUME NEW r \in S
        PROVE  FALSE
    <3>1. PICK s \in p + Len(i.by)..r : r = s + Len(i.by) - 1 /\ StartsWith(i.by, s)
      OBVIOUS
    <3>2. s \in q + 1..(Len(script) + 1) - 1
      BY <1>1, <2>l, <3>1
    <3> QED
      BY <2>q, <3>1, <3>2
  <2>3. S \in SUBSET Positions /\ S = {}
    BY <2>2
  <2> HIDE DEF S
  <2> QED
    BY <1>5, <2>1, <2>3, FirstThere DEF Opening
<1> QED
  BY <1>2, <1>3, <1>4, <1>5 DEF OpenSince
-----------------------------------------------------------------------------
(* The statements that are sent.                                           *)

\* A text that is not blank is one statement, another is none.
LEMMA RangeOfTrimmed ==
  ASSUME AScript, NEW a, NEW b
  PROVE  Range(Trimmed(a, b)) = IF Solid(a, b) = {} THEN {} ELSE {Trimmed(a, b)[1]}
<1>1. CASE Solid(a, b) = {}
  <2>1. Trimmed(a, b) = <<>>
    BY <1>1, TrimmedIs
  <2> QED
    BY <1>1, <2>1 DEF Range
<1>2. CASE Solid(a, b) # {}
  <2>1. PICK t \in Spans : Trimmed(a, b) = <<t>>
    BY <1>2, TrimmedIs
  <2>2. DOMAIN <<t>> = {1} /\ <<t>>[1] = t
    OBVIOUS
  <2> QED
    BY <1>2, <2>1, <2>2 DEF Range
<1> QED
  BY <1>1, <1>2

\* When the character at a ends the statement that begins at f, this is the
\* one statement that ended since f.
LEMMA EndedHere ==
  ASSUME AScript, NEW a \in Positions, NEW f, f = StatementOf[a], Cuts(f, a)
  PROVE  /\ EndedBefore(a + 1) = EndedBefore(f) \union Range(Trimmed(f, a - 1))
         /\ StatementOf[a + 1] = a + 1
<1>1. a \in Nat \ {0}
  BY ScriptPlaces
<1>2. StatementOf[a + 1] = a + 1
  BY <1>1, StatementIs
<1>3. f \in 1..a /\ \A r \in f..a : StatementOf[r] = f
  BY <1>1, StatementHolds
<1> DEFINE EndedOne(q) == StatementOf[q + 1] = q + 1 /\ Solid(StatementOf[q], q - 1) # {}
           What(q) == Trimmed(StatementOf[q], q - 1)[1]
<1>4. ASSUME NEW q \in 1..(a + 1) - 1, q \notin 1..f - 1, EndedOne(q)
      PROVE  q = a
  <2> SUFFICES ASSUME q # a PROVE FALSE
    OBVIOUS
  <2>1. q + 1 \in f..a /\ q + 1 # f
    BY <1>1, <1>3, <1>4
  <2> QED
    BY <1>3, <1>4, <2>1
<1>5. 1..f - 1 \subseteq 1..(a + 1) - 1 /\ a \in 1..(a + 1) - 1 /\ (a + 1) - 1 = a
  BY <1>1, <1>3
<1>6. EndedOne(a) <=> Solid(f, a - 1) # {}
  BY <1>2
<1>7. What(a) = Trimmed(f, a - 1)[1]
  OBVIOUS
<1> HIDE DEF EndedOne, What
<1>8. {What(q) : q \in {r \in 1..(a + 1) - 1 : EndedOne(r)}} =
        {What(q) : q \in {r \in 1..f - 1 : EndedOne(r)}} \union (IF EndedOne(a) THEN {What(a)} ELSE {})
  BY <1>4, <1>5
<1>9. \A g : EndedBefore(g) = {What(q) : q \in {r \in 1..g - 1 : EndedOne(r)}}
  BY DEF EndedBefore, What, EndedOne
<1>10. Range(Trimmed(f, a - 1)) = IF EndedOne(a) THEN {What(a)} ELSE {}
  BY <1>6, <1>7, RangeOfTrimmed
<1> QED
  BY <1>2, <1>8, <1>9, <1>10

\* The statements of a script are those that ended in it and what is left at
\* its end.
LEMMA EndedAtTheEnd ==
  ASSUME AScript, NEW f, f = StatementOf[Len(script) + 1]
  PROVE  Statements = EndedBefore(f) \union Range(Trimmed(f, (Len(script) + 1) - 1))
<1> DEFINE a == Len(script) + 1
<1>1. a \in Nat \ {0} /\ Len(script) \in Nat
  BY ScriptPlaces
<1>3. f \in 1..a /\ \A r \in f..a : StatementOf[r] = f
  BY <1>1, StatementHolds
<1> DEFINE EndedOne(q) == StatementOf[q + 1] = q + 1 /\ Solid(StatementOf[q], q - 1) # {}
           EndsOne(q) == (q = a \/ StatementOf[q + 1] = q + 1) /\ Solid(StatementOf[q], q - 1) # {}
           What(q) == Trimmed(StatementOf[q], q - 1)[1]
<1>4. ASSUME NEW q \in 1..a, q \notin 1..f - 1, EndsOne(q)
      PROVE  q = a
  <2> SUFFICES ASSUME q # a PROVE FALSE
    OBVIOUS
  <2>1. q + 1 \in f..a /\ q + 1 # f
    BY <1>1, <1>3, <1>4
  <2> QED
    BY <1>3, <1>4, <2>1
<1>5. 1..f - 1 \subseteq 1..a /\ a \in 1..a /\ a \notin 1..f - 1
  BY <1>1, <1>3
<1>6. EndsOne(a) <=> Solid(f, a - 1) # {}
  OBVIOUS
<1>7. What(a) = Trimmed(f, a - 1)[1]
  OBVIOUS
<1>8. \A q \in 1..f - 1 : EndsOne(q) <=> EndedOne(q)
  BY <1>5
<1>9. \A g : EndedBefore(g) = {What(q) : q \in {r \in 1..g - 1 : EndedOne(r)}}
  BY DEF EndedBefore
<1>10. Statements = {What(q) : q \in {r \in 1..a : EndsOne(r)}}
  BY DEF Statements
<1>a. Range(Trimmed(f, a - 1)) = IF EndsOne(a) THEN {What(a)} ELSE {}
  BY <1>6, <1>7, RangeOfTrimmed
<1> HIDE DEF EndedOne, What, EndsOne
<1>b. {What(q) : q \in {r \in 1..a : EndsOne(r)}} =
        {What(q) : q \in {r \in 1..f - 1 : EndedOne(r)}} \union (IF EndsOne(a) THEN {What(a)} ELSE {})
  BY <1>4, <1>5, <1>8
<1> QED
  BY <1>9, <1>10, <1>a, <1>b

\* What is sent comes after what was sent.
LEMMA PushKeepsOrder ==
  ASSUME AScript, NEW f \in Nat, NEW p \in Nat, f <= p, NEW b \in Seq(Spans),
         NEW c, c = b \o Trimmed(f, p - 1),
         InOrder(b), \A n \in DOMAIN b : b[n].last < f
  PROVE  /\ c \in Seq(Spans) /\ Range(c) = Range(b) \union Range(Trimmed(f, p - 1))
         /\ InOrder(c) /\ \A n \in DOMAIN c : c[n].last < p + 1
<1>1. Len(b) \in Nat /\ DOMAIN b = 1..Len(b) /\ \A n \in 1..Len(b) : b[n] \in Spans
  BY LenProperties, ElementOfSeq
<1>2. \A t \in Spans : t.first \in Nat /\ t.last \in Nat
  BY ScriptPlaces DEF Spans
<1>3. CASE Solid(f, p - 1) = {}
  <2>1. Trimmed(f, p - 1) = <<>>
    BY <1>3, TrimmedIs
  <2>2. c = b
    BY <2>1, ConcatEmptySeq
  <2>3. Range(<<>>) = {}
    BY DEF Range
  <2>4. \A n \in DOMAIN b : b[n].last < p + 1
    BY <1>1, <1>2
  <2> QED
    BY <2>1, <2>2, <2>3, <2>4
<1>4. CASE Solid(f, p - 1) # {}
  <2>1. PICK t \in Spans : /\ Trimmed(f, p - 1) = <<t>>
                           /\ f <= t.first /\ t.first <= t.last /\ t.last <= p - 1
    BY <1>4, TrimmedIs
  <2>2. <<t>> \in Seq(Spans) /\ Len(<<t>>) = 1 /\ <<t>>[1] = t /\ DOMAIN <<t>> = {1}
    BY <2>1
  <2>c. PICK u : u = <<t>>
    OBVIOUS
  <2>d. u \in Seq(Spans) /\ Len(u) = 1 /\ c = b \o u
    BY <2>1, <2>2, <2>c
  <2>e. /\ b \o u \in Seq(Spans) /\ Len(b \o u) = Len(b) + Len(u)
        /\ \A n \in 1..Len(b) + Len(u) :
             (b \o u)[n] = IF n <= Len(b) THEN b[n] ELSE u[n - Len(b)]
    BY <2>d, ConcatProperties, Zenon
  <2>3. /\ c \in Seq(Spans) /\ Len(c) = Len(b) + 1
        /\ \A n \in 1..Len(b) + 1 : c[n] = IF n <= Len(b) THEN b[n] ELSE <<t>>[n - Len(b)]
    BY <2>c, <2>d, <2>e
  <2>4. /\ DOMAIN c = 1..Len(b) + 1 /\ c[Len(b) + 1] = t
        /\ \A n \in 1..Len(b) : c[n] = b[n]
    <3>1. DOMAIN c = 1..Len(b) + 1
      BY <2>3, LenProperties
    <3>2. (Len(b) + 1) - Len(b) = 1 /\ Len(b) + 1 \in 1..Len(b) + 1 /\ ~(Len(b) + 1 <= Len(b))
      BY <1>1
    <3>3. c[Len(b) + 1] = t
      BY <2>2, <2>3, <3>2
    <3>4. \A n \in 1..Len(b) : n \in 1..Len(b) + 1 /\ n <= Len(b)
      BY <1>1
    <3> QED
      BY <2>3, <3>1, <3>3, <3>4
  <2>5. Range(c) = Range(b) \union {t}
    <3>1. 1..Len(b) + 1 = 1..Len(b) \union {Len(b) + 1}
      BY <1>1
    <3> QED
      BY <1>1, <2>4, <3>1 DEF Range
  <2>6. Range(Trimmed(f, p - 1)) = {t}
    BY <2>1, <2>2 DEF Range
  <2>7. \A n \in DOMAIN c : c[n].last < p + 1
    <3> SUFFICES ASSUME NEW n \in DOMAIN c PROVE c[n].last < p + 1
      OBVIOUS
    <3>1. CASE n \in 1..Len(b)
      BY <1>1, <1>2, <2>4, <3>1
    <3>2. CASE n = Len(b) + 1
      BY <1>2, <2>1, <2>4, <3>2
    <3> QED
      BY <1>1, <2>4, <3>1, <3>2
  <2>8. InOrder(c)
    <3> SUFFICES ASSUME NEW n \in 1..Len(c) - 1 PROVE c[n].last < c[n + 1].first
      BY DEF InOrder
    <3>1. n \in 1..Len(b)
      BY <1>1, <2>3
    <3>2. CASE n = Len(b)
      <4>1. b[n].last < f /\ c[n] = b[n] /\ c[n + 1] = t
        BY <1>1, <2>4, <3>1, <3>2
      <4>2. b[n].last \in Nat /\ t.first \in Nat
        BY <1>1, <1>2, <3>1
      <4> QED
        BY <2>1, <4>1, <4>2
    <3>3. CASE n # Len(b)
      <4> DEFINE k == Len(b)
      <4>n. k \in Nat /\ n \in 1..k /\ n # k
        BY <1>1, <3>1, <3>3
      <4> HIDE DEF k
      <4>m. n \in 1..k - 1 /\ n + 1 \in 1..k
        BY <4>n
      <4>1. n \in 1..Len(b) - 1 /\ n + 1 \in 1..Len(b)
        BY <4>m DEF k
      <4> QED
        BY <2>4, <3>1, <4>1 DEF InOrder
    <3> QED
      BY <3>2, <3>3
  <2> QED
    BY <2>3, <2>5, <2>6, <2>7, <2>8
<1> QED
  BY <1>3, <1>4
\* The script and the mode do not change, and with them what follows from them.
LEMMA ScriptStays ==
  ASSUME AScript, UNCHANGED <<script, mode>>, ReadSoFar(at', from', inside', batches')
  PROVE  SqlBatchesInv'
<1>1. script' = script /\ mode' = mode
  OBVIOUS
<1>2. AScript'
  BY <1>1 DEF AScript
<1>3. /\ LexemeAt' = LexemeAt /\ Positions' = Positions
  BY <1>1 DEF LexemeAt, EndOf, OpensLineComment, OpensBlockComment, OpensQuote,
              OpensDollarQuote, FirstOf, TagEnds, StartsWith, At, Positions
<1>4. StatementOf' = StatementOf
  BY <1>1 DEF StatementOf, LexemeAt, EndOf, OpensLineComment, OpensBlockComment, OpensQuote,
              OpensDollarQuote, FirstOf, TagEnds, StartsWith, At, Positions, Ends, AloneOnLine,
              Routine, Trimmed, Solid
<1>5. Statements' = Statements
  BY <1>1, <1>4 DEF Statements, Trimmed, Solid, Positions
<1>6. Spans' = Spans
  BY <1>3 DEF Spans
<1>7. EndedBefore(from)' = EndedBefore(from')
  BY <1>1, <1>4 DEF EndedBefore, Trimmed, Solid, Positions
<1>8. Pushed(from, batches)' <=> Pushed(from', batches')
  BY <1>7 DEF Pushed, InOrder
<1>9. Reading(at, from, inside)' <=> Reading(at', from', inside')
  BY <1>1, <1>3, <1>4 DEF Reading, OpenSince, ClosesQuote, QuotesIn, OpensLineComment,
              OpensBlockComment, OpensQuote,
              OpensDollarQuote, TagEnds, StartsWith, At, Positions, Plain, Open
<1> QED
  BY <1>1, <1>2, <1>5, <1>6, <1>8, <1>9 DEF SqlBatchesInv, ReadSoFar, InOrder
-----------------------------------------------------------------------------
(* The steps.                                                              *)

\* The parts of the invariant at a place of the script.
LEMMA PlaceFacts ==
  ASSUME SqlBatchesInv, at \in Positions
  PROVE  /\ AScript /\ at \in Nat \ {0} /\ Len(script) \in Nat /\ at <= Len(script)
         /\ from \in 1..at /\ inside.what \in {"code", "line", "block", "quote", "dollar"}
         /\ batches \in Seq(Spans) /\ Reading(at, from, inside) /\ Pushed(from, batches)
<1>1. AScript /\ ReadSoFar(at, from, inside, batches)
  BY DEF SqlBatchesInv
<1>2. Positions = 1..Len(script) /\ Len(script) \in Nat
  BY <1>1, ScriptPlaces
<1>3. at <= Len(script) + 1
  BY <1>2
<1> QED
  BY <1>1, <1>2, <1>3 DEF ReadSoFar

\* In code a lexeme of the statement begins at the place that is read; in what
\* is open it began at a place of the script.
LEMMA InCode ==
  ASSUME NEW a, NEW f, NEW i, Reading(a, f, i)
  PROVE  /\ i.what = "code" => LexemeAt[a] /\ f = StatementOf[a]
         /\ i.what # "code" => \E p \in Positions : /\ LexemeAt[p] /\ f = StatementOf[p]
                                                    /\ OpenSince(p, a, i)
<1>1. Plain.what = "code"
  BY DEF Plain, Open
<1>2. \A p : OpenSince(p, a, i) => i.what # "code"
  BY DEF OpenSince
<1> QED
  BY <1>1, <1>2 DEF Reading

\* The place moves on, in what is open or out of it, and nothing is sent.
LEMMA MovesOn ==
  ASSUME SqlBatchesInv, at \in Positions, NEW n \in Nat, at + n <= Len(script) + 1,
         Advances(n), UNCHANGED <<from, batches>>,
         inside'.what \in {"code", "line", "block", "quote", "dollar"},
         Reading(at + n, from, inside')
  PROVE  SqlBatchesInv'
<1>1. /\ AScript /\ at \in Nat \ {0} /\ Len(script) \in Nat /\ from \in 1..at
      /\ batches \in Seq(Spans) /\ Pushed(from, batches)
  BY PlaceFacts
<1>2. at' = at + n /\ from' = from /\ batches' = batches /\ UNCHANGED <<script, mode>>
  BY DEF Advances
<1>3. at + n \in 1..Len(script) + 2 /\ from \in 1..Len(script) + 2 /\ from <= at + n
      /\ at + n # Len(script) + 2
  BY <1>1
<1>4. ReadSoFar(at', from', inside', batches')
  BY <1>1, <1>2, <1>3 DEF ReadSoFar
<1> QED
  BY <1>1, <1>2, <1>4, ScriptStays

\* What was open at p ends before the place n further on, which is in code.
LEMMA ClosesThere ==
  ASSUME SqlBatchesInv, at \in Positions, NEW n \in Nat \ {0}, at + n <= Len(script) + 1,
         Advances(n), UNCHANGED <<from, batches>>, inside' = Plain,
         NEW p \in Positions, LexemeAt[p], from = StatementOf[p],
         Opening(p), EndOf(p) = at + n - 1
  PROVE  SqlBatchesInv'
<1>1. AScript /\ p \in Nat \ {0} /\ at \in Nat
  BY PlaceFacts, ScriptPlaces
<1>2. ~Ends(StatementOf[p], p)
  BY <1>1, OpeningEndsNothing
<1>3. LexemeAt[EndOf(p) + 1] /\ StatementOf[EndOf(p) + 1] = StatementOf[p]
  BY <1>1, <1>2, LexemeFollows, StatementOver
<1>4. EndOf(p) + 1 = at + n
  BY <1>1
<1>5. Reading(at + n, from, inside')
  BY <1>3, <1>4 DEF Reading
<1>6. inside'.what = "code"
  BY DEF Plain, Open
<1> QED
  BY <1>5, <1>6, MovesOn

\* A step in a line comment.
LEMMA InLineCommentKeeps ==
  ASSUME SqlBatchesInv, at \in Positions, InLineComment
  PROVE  SqlBatchesInv'
<1>1. /\ inside.what = "line" /\ Advances(1) /\ UNCHANGED <<from, batches>>
      /\ inside' = IF At(at) = "newline" THEN Plain ELSE inside
  BY DEF InLineComment
<1>2. AScript /\ Reading(at, from, inside) /\ at + 1 <= Len(script) + 1 /\ at + 1 - 1 = at
  BY PlaceFacts
<1>3. PICK p \in Positions : /\ LexemeAt[p] /\ from = StatementOf[p]
                             /\ OpenSince(p, at, inside)
  BY <1>1, <1>2, InCode
<1>4. /\ Opening(p) /\ (At(at) = "newline" => EndOf(p) = at)
      /\ (At(at) # "newline" => OpenSince(p, at + 1, inside))
  BY <1>1, <1>2, <1>3, LineGoesOn
<1>5. CASE At(at) = "newline"
  BY <1>1, <1>2, <1>3, <1>4, <1>5, ClosesThere
<1>6. CASE At(at) # "newline"
  <2>1. inside' = inside /\ Reading(at + 1, from, inside')
    BY <1>1, <1>3, <1>4, <1>6 DEF Reading
  <2> QED
    BY <1>1, <1>2, <2>1, MovesOn
<1> QED
  BY <1>5, <1>6

\* A step in a block comment.
LEMMA InBlockCommentKeeps ==
  ASSUME SqlBatchesInv, at \in Positions, InBlockComment
  PROVE  SqlBatchesInv'
<1>1. inside.what = "block" /\ UNCHANGED <<from, batches>>
  BY DEF InBlockComment
<1>2. /\ AScript /\ Reading(at, from, inside) /\ at + 1 <= Len(script) + 1
      /\ at \in Nat /\ Len(script) \in Nat /\ Positions = 1..Len(script)
  BY PlaceFacts, ScriptPlaces
<1>3. PICK p \in Positions : /\ LexemeAt[p] /\ from = StatementOf[p]
                             /\ OpenSince(p, at, inside)
  BY <1>1, <1>2, InCode
<1>4. /\ Opening(p)
      /\ (At(at) = "*" /\ At(at + 1) = "/") => (EndOf(p) = at + 1 /\ at + 1 \in Positions)
      /\ ~(At(at) = "*" /\ At(at + 1) = "/") => OpenSince(p, at + 1, inside)
  BY <1>1, <1>2, <1>3, BlockGoesOn
<1>5. CASE At(at) = "*" /\ At(at + 1) = "/"
  <2>1. Advances(2) /\ inside' = Plain
    BY <1>5 DEF InBlockComment
  <2>2. EndOf(p) = at + 2 - 1 /\ at + 2 <= Len(script) + 1
    BY <1>2, <1>4, <1>5
  <2> QED
    BY <1>1, <1>3, <1>4, <2>1, <2>2, ClosesThere
<1>6. CASE ~(At(at) = "*" /\ At(at + 1) = "/")
  <2>1. Advances(1) /\ inside' = inside
    BY <1>6 DEF InBlockComment
  <2>2. Reading(at + 1, from, inside')
    BY <1>3, <1>4, <1>6, <2>1 DEF Reading
  <2> QED
    BY <1>1, <1>2, <2>1, <2>2, MovesOn
<1> QED
  BY <1>5, <1>6

\* A step in a quoted text.
LEMMA InQuoteKeeps ==
  ASSUME SqlBatchesInv, at \in Positions, InQuote
  PROVE  SqlBatchesInv'
<1>1. inside.what = "quote"
  BY DEF InQuote
<1>2. /\ AScript /\ Reading(at, from, inside) /\ at + 1 <= Len(script) + 1
      /\ at \in Nat /\ Len(script) \in Nat /\ Positions = 1..Len(script)
  BY PlaceFacts, ScriptPlaces
<1>3. PICK p \in Positions : /\ LexemeAt[p] /\ from = StatementOf[p]
                             /\ OpenSince(p, at, inside)
  BY <1>1, <1>2, InCode
<1>4. /\ Opening(p) /\ inside.by[1] = At(p)
      /\ At(at) # At(p) => OpenSince(p, at + 1, inside)
      /\ (At(at) = At(p) /\ At(at + 1) = At(at))
           => (OpenSince(p, at + 2, inside) /\ at + 1 \in Positions)
      /\ (At(at) = At(p) /\ At(at + 1) # At(at)) => EndOf(p) = at
  BY <1>1, <1>2, <1>3, QuoteGoesOn
<1>5. CASE At(at) # At(p)
  <2>1. Advances(1) /\ UNCHANGED <<from, batches>> /\ inside' = inside
    BY <1>4, <1>5 DEF InQuote, Stays
  <2>2. Reading(at + 1, from, inside')
    BY <1>3, <1>4, <1>5, <2>1 DEF Reading
  <2> QED
    BY <1>1, <1>2, <2>1, <2>2, MovesOn
<1>6. CASE At(at) = At(p) /\ At(at + 1) = At(at)
  <2>1. Advances(2) /\ UNCHANGED <<from, batches>> /\ inside' = inside
    BY <1>4, <1>6 DEF InQuote, Stays
  <2>2. Reading(at + 2, from, inside')
    BY <1>3, <1>4, <1>6, <2>1 DEF Reading
  <2>3. at + 2 <= Len(script) + 1
    BY <1>2, <1>4, <1>6
  <2> QED
    BY <1>1, <1>2, <2>1, <2>2, <2>3, MovesOn
<1>7. CASE At(at) = At(p) /\ At(at + 1) # At(at)
  <2>1. Advances(1) /\ UNCHANGED <<from, batches>> /\ inside' = Plain
    BY <1>4, <1>7 DEF InQuote
  <2>2. EndOf(p) = at + 1 - 1
    BY <1>2, <1>4, <1>7
  <2> QED
    BY <1>2, <1>3, <1>4, <2>1, <2>2, ClosesThere
<1> QED
  BY <1>5, <1>6, <1>7

\* A step in a body between dollar quotes.
LEMMA InDollarQuoteKeeps ==
  ASSUME SqlBatchesInv, at \in Positions, InDollarQuote
  PROVE  SqlBatchesInv'
<1>1. inside.what = "dollar" /\ UNCHANGED <<from, batches>>
  BY DEF InDollarQuote
<1>2. /\ AScript /\ Reading(at, from, inside) /\ at + 1 <= Len(script) + 1
      /\ at \in Nat /\ Len(script) \in Nat /\ Positions = 1..Len(script)
  BY PlaceFacts, ScriptPlaces
<1>3. PICK p \in Positions : /\ LexemeAt[p] /\ from = StatementOf[p]
                             /\ OpenSince(p, at, inside)
  BY <1>1, <1>2, InCode
<1>4. /\ Opening(p) /\ Len(inside.by) \in Nat \ {0}
      /\ StartsWith(inside.by, at) => (/\ EndOf(p) = at + Len(inside.by) - 1
                                       /\ at + Len(inside.by) - 1 \in Positions)
      /\ ~StartsWith(inside.by, at) => OpenSince(p, at + 1, inside)
  BY <1>1, <1>2, <1>3, DollarGoesOn
<1>5. CASE StartsWith(inside.by, at)
  <2>1. Advances(Len(inside.by)) /\ inside' = Plain
    BY <1>5 DEF InDollarQuote
  <2>2. EndOf(p) = at + Len(inside.by) - 1 /\ at + Len(inside.by) <= Len(script) + 1
    BY <1>2, <1>4, <1>5
  <2> QED
    BY <1>1, <1>3, <1>4, <2>1, <2>2, ClosesThere
<1>6. CASE ~StartsWith(inside.by, at)
  <2>1. Advances(1) /\ inside' = inside
    BY <1>6 DEF InDollarQuote
  <2>2. Reading(at + 1, from, inside')
    BY <1>3, <1>4, <1>6, <2>1 DEF Reading
  <2> QED
    BY <1>1, <1>2, <2>1, <2>2, MovesOn
<1> QED
  BY <1>5, <1>6

\* A comment, a quoted text or a body begins.
LEMMA OpensKeeps ==
  ASSUME SqlBatchesInv, at \in Positions,
         BeginsLineComment \/ BeginsBlockComment \/ BeginsQuote \/ BeginsDollarQuote
  PROVE  SqlBatchesInv'
<1>1. /\ AScript /\ Reading(at, from, inside) /\ at + 1 <= Len(script) + 1
      /\ at \in Nat /\ Len(script) \in Nat /\ Positions = 1..Len(script)
  BY PlaceFacts, ScriptPlaces
<1>2. inside.what = "code" => LexemeAt[at] /\ from = StatementOf[at]
  BY <1>1, InCode
<1>3. inside = Plain
  BY DEF BeginsLineComment, BeginsBlockComment, BeginsQuote, BeginsDollarQuote
<1>4. LexemeAt[at] /\ from = StatementOf[at]
  BY <1>2, <1>3 DEF Plain, Open
<1>5. ASSUME NEW w \in {"line", "block", "quote", "dollar"}, NEW by, NEW n \in Nat,
             Opens(w, by, n), at + n <= Len(script) + 1,
             OpenSince(at, at + n, Open(w, by))
      PROVE  SqlBatchesInv'
  <2>1. /\ Advances(n) /\ inside' = Open(w, by) /\ UNCHANGED <<from, batches>>
    BY <1>5 DEF Opens
  <2>2. Reading(at + n, from, inside')
    BY <1>4, <1>5, <2>1 DEF Reading
  <2>3. inside'.what = w
    BY <2>1 DEF Open
  <2> QED
    BY <1>5, <2>1, <2>2, <2>3, MovesOn
<1>6. CASE BeginsLineComment
  <2>1. OpensLineComment(at) /\ Opens("line", <<>>, 2)
    BY <1>6 DEF BeginsLineComment
  <2>2. OpenSince(at, at + 2, Open("line", <<>>)) /\ at + 1 \in Positions
    BY <1>1, <2>1, OpensHere
  <2>3. at + 2 <= Len(script) + 1
    BY <1>1, <2>2
  <2> QED
    BY <1>5, <2>1, <2>2, <2>3
<1>7. CASE BeginsBlockComment
  <2>1. OpensBlockComment(at) /\ Opens("block", <<>>, 2)
    BY <1>7 DEF BeginsBlockComment
  <2>2. OpenSince(at, at + 2, Open("block", <<>>)) /\ at + 1 \in Positions
    BY <1>1, <2>1, OpensHere
  <2>3. at + 2 <= Len(script) + 1
    BY <1>1, <2>2
  <2> QED
    BY <1>5, <2>1, <2>2, <2>3
<1>8. CASE BeginsQuote
  <2>1. OpensQuote(at) /\ Opens("quote", <<At(at)>>, 1)
    BY <1>8 DEF BeginsQuote
  <2>2. OpenSince(at, at + 1, Open("quote", <<At(at)>>))
    BY <1>1, <2>1, OpensHere
  <2> QED
    BY <1>1, <1>5, <2>1, <2>2
<1>9. CASE BeginsDollarQuote
  <2>1. PICK q \in TagEnds(at) : Opens("dollar", SubSeq(script, at, q), q - at + 1)
    BY <1>9 DEF BeginsDollarQuote
  <2>2. OpensDollarQuote(at)
    BY <1>9 DEF BeginsDollarQuote
  <2>3. /\ OpenSince(at, at + (q - at + 1), Open("dollar", SubSeq(script, at, q)))
        /\ at < q /\ q \in Positions
    BY <1>1, <2>2, OpensHere
  <2>4. q - at + 1 \in Nat /\ at + (q - at + 1) <= Len(script) + 1
    BY <1>1, <2>3
  <2> QED
    BY <1>5, <2>1, <2>3, <2>4
<1> QED
  BY <1>6, <1>7, <1>8, <1>9

\* A character in code that ends no statement.
LEMMA ReadsOnKeeps ==
  ASSUME SqlBatchesInv, at \in Positions, ReadsOn
  PROVE  SqlBatchesInv'
<1>1. /\ AScript /\ Reading(at, from, inside) /\ at + 1 <= Len(script) + 1
      /\ at \in Nat \ {0}
  BY PlaceFacts
<1>2. inside.what = "code" => LexemeAt[at] /\ from = StatementOf[at]
  BY <1>1, InCode
<1>3. inside = Plain /\ ~Opening(at) /\ ~Ends(from, at) /\ Stays(1)
  BY DEF ReadsOn, Opening
<1>4. LexemeAt[at] /\ from = StatementOf[at]
  BY <1>2, <1>3 DEF Plain, Open
<1>5. EndOf(at) = at
  BY <1>3 DEF EndOf, Opening
<1>6. LexemeAt[at + 1] /\ StatementOf[at + 1] = from
  BY <1>1, <1>3, <1>4, <1>5, LexemeFollows, StatementOver
<1>7. Advances(1) /\ UNCHANGED <<from, batches>> /\ inside' = Plain
  BY <1>3 DEF Stays
<1>8. Reading(at + 1, from, inside') /\ inside'.what = "code"
  BY <1>6, <1>7 DEF Reading, Plain, Open
<1> QED
  BY <1>1, <1>7, <1>8, MovesOn
\* What is sent here comes after what was sent.
LEMMA PushNow ==
  ASSUME AScript, from \in Nat, at \in Nat, from <= at, batches \in Seq(Spans),
         NEW c, c = batches \o Trimmed(from, at - 1), Pushed(from, batches)
  PROVE  /\ c \in Seq(Spans) /\ Range(c) = Range(batches) \union Range(Trimmed(from, at - 1))
         /\ InOrder(c) /\ \A n \in DOMAIN c : c[n].last < at + 1
<1>1. PICK b, f, p : b = batches /\ f = from /\ p = at
  OBVIOUS
<1>2. f \in Nat /\ p \in Nat /\ f <= p /\ b \in Seq(Spans) /\ c = b \o Trimmed(f, p - 1)
  BY <1>1
<1>3. InOrder(b) /\ \A n \in DOMAIN b : b[n].last < f
  BY <1>1 DEF Pushed
<1>4. /\ c \in Seq(Spans) /\ Range(c) = Range(b) \union Range(Trimmed(f, p - 1))
      /\ InOrder(c) /\ \A n \in DOMAIN c : c[n].last < p + 1
  BY <1>2, <1>3, PushKeepsOrder
<1> QED
  BY <1>1, <1>4

\* A character ends a statement, which is sent.
LEMMA EndsStatementKeeps ==
  ASSUME SqlBatchesInv, at \in Positions, EndsStatement
  PROVE  SqlBatchesInv'
<1>1. /\ AScript /\ Reading(at, from, inside) /\ at + 1 <= Len(script) + 1
      /\ at \in Nat \ {0} /\ Len(script) \in Nat /\ from \in 1..at
      /\ batches \in Seq(Spans) /\ Pushed(from, batches)
  BY PlaceFacts
<1>2. inside.what = "code" => LexemeAt[at] /\ from = StatementOf[at]
  BY <1>1, InCode
<1>3. inside = Plain /\ Ends(from, at)
  BY DEF EndsStatement
<1>4. LexemeAt[at] /\ from = StatementOf[at]
  BY <1>2, <1>3 DEF Plain, Open
<1>5. ~Opening(at)
  BY <1>1, <1>3, OpeningEndsNothing
<1>6. EndOf(at) = at
  BY <1>5 DEF EndOf, Opening
<1>7. Cuts(from, at)
  BY <1>3, <1>4, <1>6 DEF Cuts
<1>8. LexemeAt[at + 1]
  BY <1>1, <1>4, <1>6, LexemeFollows
<1>9. /\ EndedBefore(at + 1) = EndedBefore(from) \union Range(Trimmed(from, at - 1))
      /\ StatementOf[at + 1] = at + 1
  BY <1>1, <1>4, <1>7, EndedHere
<1>10. PICK c : c = batches \o Trimmed(from, at - 1)
  OBVIOUS
<1>11. /\ at' = at + 1 /\ from' = at + 1 /\ inside' = Plain /\ batches' = c
       /\ UNCHANGED <<script, mode>>
  BY <1>3, <1>10 DEF EndsStatement, Advances, Push
<1>12. from \in Nat /\ at \in Nat /\ from <= at
  BY <1>1
<1>13. Range(batches) = EndedBefore(from) /\ InOrder(batches)
       /\ \A n \in DOMAIN batches : batches[n].last < from
  BY <1>1 DEF Pushed
<1>14. /\ c \in Seq(Spans) /\ Range(c) = Range(batches) \union Range(Trimmed(from, at - 1))
       /\ InOrder(c) /\ \A n \in DOMAIN c : c[n].last < at + 1
  BY <1>1, <1>10, <1>12, PushNow
<1>15. Pushed(at + 1, c)
  BY <1>9, <1>13, <1>14 DEF Pushed
<1>16. Reading(at + 1, at + 1, Plain)
  BY <1>8, <1>9 DEF Reading
<1>17. /\ at + 1 \in 1..Len(script) + 2 /\ at + 1 # Len(script) + 2 /\ Plain.what = "code"
       /\ at + 1 <= at + 1
  BY <1>1 DEF Plain, Open
<1>18. ReadSoFar(at', from', inside', batches')
  BY <1>11, <1>14, <1>15, <1>16, <1>17 DEF ReadSoFar
<1> QED
  BY <1>1, <1>11, <1>18, ScriptStays

\* The end of the script, where what is left is sent, whatever is open.
LEMMA EndsScriptKeeps ==
  ASSUME SqlBatchesInv, EndsScript
  PROVE  SqlBatchesInv'
<1>1. AScript /\ ReadSoFar(at, from, inside, batches) /\ at = Len(script) + 1
  BY DEF SqlBatchesInv, EndsScript
<1>2. Len(script) \in Nat
  BY <1>1, ScriptPlaces
<1>3. /\ from \in 1..Len(script) + 2 /\ from <= at /\ batches \in Seq(Spans)
      /\ inside.what \in {"code", "line", "block", "quote", "dollar"}
      /\ Reading(at, from, inside) /\ Pushed(from, batches)
  BY <1>1, <1>2 DEF ReadSoFar
<1>4. from = StatementOf[at]
  <2>1. CASE inside.what = "code"
    BY <1>3, <2>1, InCode
  <2>2. CASE inside.what # "code"
    <3>1. PICK p \in Positions : /\ LexemeAt[p] /\ from = StatementOf[p]
                                 /\ OpenSince(p, at, inside)
      BY <1>3, <2>2, InCode
    <3>2. Opening(p) /\ EndOf(p) = Len(script)
      BY <1>1, <3>1, OpenAtTheEnd
    <3>3. ~Ends(StatementOf[p], p)
      BY <1>1, <3>2, OpeningEndsNothing
    <3>4. StatementOf[EndOf(p) + 1] = StatementOf[p]
      BY <1>1, <3>1, <3>3, StatementOver
    <3> QED
      BY <1>1, <3>1, <3>2, <3>4
  <2> QED
    BY <2>1, <2>2
<1>5. Statements = EndedBefore(from) \union Range(Trimmed(from, at - 1))
  BY <1>1, <1>4, EndedAtTheEnd
<1>6. PICK c : c = batches \o Trimmed(from, at - 1)
  OBVIOUS
<1>7. /\ at' = at + 1 /\ from' = at + 1 /\ inside' = inside /\ batches' = c
      /\ UNCHANGED <<script, mode>>
  BY <1>6 DEF EndsScript, Advances, Push
<1>8. from \in Nat /\ at \in Nat /\ from <= at
  BY <1>1, <1>2, <1>3
<1>9. Range(batches) = EndedBefore(from) /\ InOrder(batches)
      /\ \A n \in DOMAIN batches : batches[n].last < from
  BY <1>3 DEF Pushed
<1>10. /\ c \in Seq(Spans) /\ Range(c) = Range(batches) \union Range(Trimmed(from, at - 1))
       /\ InOrder(c)
  BY <1>1, <1>3, <1>6, <1>8, PushNow
<1>11. Range(c) = Statements
  BY <1>5, <1>9, <1>10
<1>12. at + 1 \in 1..Len(script) + 2 /\ ~(at + 1 <= Len(script) + 1)
  BY <1>1, <1>2
<1>13. ReadSoFar(at', from', inside', batches')
  BY <1>3, <1>7, <1>10, <1>11, <1>12 DEF ReadSoFar
<1> QED
  BY <1>1, <1>7, <1>13, ScriptStays

\* Every step keeps the invariant.
LEMMA SqlBatchesStep ==
  ASSUME SqlBatchesInv, [SqlBatchesNext]_batchVars
  PROVE  SqlBatchesInv'
<1>1. CASE /\ at \in Positions
           /\ InLineComment \/ InBlockComment \/ InQuote \/ InDollarQuote
  BY <1>1, InLineCommentKeeps, InBlockCommentKeeps, InQuoteKeeps, InDollarQuoteKeeps
<1>2. CASE /\ at \in Positions
           /\ BeginsLineComment \/ BeginsBlockComment \/ BeginsQuote \/ BeginsDollarQuote
  BY <1>2, OpensKeeps
<1>3. CASE at \in Positions /\ EndsStatement
  BY <1>3, EndsStatementKeeps
<1>4. CASE at \in Positions /\ ReadsOn
  BY <1>4, ReadsOnKeeps
<1>5. CASE EndsScript
  BY <1>5, EndsScriptKeeps
<1>6. CASE UNCHANGED batchVars
  <2>1. /\ at' = at /\ from' = from /\ inside' = inside /\ batches' = batches
        /\ UNCHANGED <<script, mode>>
    BY <1>6 DEF batchVars
  <2>2. AScript /\ ReadSoFar(at, from, inside, batches)
    BY DEF SqlBatchesInv
  <2>3. ReadSoFar(at', from', inside', batches')
    BY <2>1, <2>2
  <2> QED
    BY <2>1, <2>2, <2>3, ScriptStays
<1> QED
  BY <1>1, <1>2, <1>3, <1>4, <1>5, <1>6 DEF SqlBatchesNext

\* A script of at most n characters is a sequence of them.
LEMMA BoundedIsSeq ==
  ASSUME NEW S, NEW n \in Nat, NEW s \in BoundedSeq(S, n)
  PROVE  s \in Seq(S)
<1>1. PICK m \in 0..n : s \in [1..m -> S]
  BY DEF BoundedSeq, SeqOf
<1> QED
  BY <1>1, SeqDef

\* The invariant holds at the beginning.
LEMMA SqlBatchesStarts ==
  ASSUME SqlBatchesInit
  PROVE  SqlBatchesInv
<1>1. /\ at = 1 /\ from = 1 /\ inside = Plain /\ batches = <<>>
      /\ mode \in {"default", "kingbase", "dameng"}
  BY DEF SqlBatchesInit
<1>2. AScript
  <2>1. PICK n \in Nat : script \in BoundedSeq(Alphabet(mode), n)
    BY SqlBatchesAssumption DEF SqlBatchesInit
  <2>2. script \in Seq(Alphabet(mode))
    BY <2>1, BoundedIsSeq
  <2>3. Alphabet(mode) \subseteq Letters
    BY <1>1 DEF Letters
  <2>4. script \in Seq(Letters)
    BY <2>2, <2>3, SeqMonotonic
  <2> QED
    BY <1>1, <2>4 DEF AScript
<1>3. Len(script) \in Nat
  BY <1>2, ScriptPlaces
<1>4. LexemeAt[1] /\ StatementOf[1] = 1
  BY <1>2, LexemeIs, StatementIs
<1>5. Reading(1, 1, Plain) /\ Plain.what = "code"
  BY <1>4 DEF Reading, Plain, Open
<1>6. Pushed(1, <<>>)
  <2>1. Range(<<>>) = {} /\ 1..1 - 1 = {} /\ DOMAIN <<>> = {} /\ 1..Len(<<>>) - 1 = {}
    BY DEF Range
  <2>2. EndedBefore(1) = {}
    BY <2>1 DEF EndedBefore
  <2> QED
    BY <2>1, <2>2 DEF Pushed, InOrder
<1>7. <<>> \in Seq(Spans)
  OBVIOUS
<1> QED
  BY <1>1, <1>2, <1>3, <1>5, <1>6, <1>7 DEF SqlBatchesInv, ReadSoFar

\* The invariant gives the types.
LEMMA SqlBatchesTyped ==
  ASSUME SqlBatchesInv
  PROVE  SqlBatchesTypeOK
<1>1. AScript /\ ReadSoFar(at, from, inside, batches)
  BY DEF SqlBatchesInv
<1>2. \A n \in DOMAIN batches : batches[n] \in Spans
  <2>1. batches \in Seq(Spans)
    BY <1>1 DEF ReadSoFar
  <2> QED
    BY <2>1, LenProperties, ElementOfSeq
<1>3. \A n \in DOMAIN batches : batches[n].first \in Positions /\ batches[n].last \in Positions
  BY <1>2 DEF Spans
<1> QED
  BY <1>1, <1>3 DEF SqlBatchesTypeOK, AScript, ReadSoFar

\* The invariant gives the property.
LEMMA SqlBatchesRight ==
  ASSUME SqlBatchesInv
  PROVE  BatchesAreStatements
<1>1. AScript /\ ReadSoFar(at, from, inside, batches)
  BY DEF SqlBatchesInv
<1>2. Len(script) \in Nat
  BY <1>1, ScriptPlaces
<1>3. at = Len(script) + 2 \/ at <= Len(script) + 1
  BY <1>1, <1>2 DEF ReadSoFar
<1>4. InOrder(batches)
  BY <1>1, <1>3 DEF ReadSoFar, Pushed
<1> QED
  BY <1>1, <1>4 DEF BatchesAreStatements, ReadSoFar, InOrder

\* The invariant holds in every state (parseSqlScriptBatches).
LEMMA SqlBatchesAlways == SqlBatchesSpec => []SqlBatchesInv
<1>1. SqlBatchesInit => SqlBatchesInv
  BY SqlBatchesStarts
<1>2. SqlBatchesInv /\ [SqlBatchesNext]_batchVars => SqlBatchesInv'
  BY SqlBatchesStep
<1> QED
  BY <1>1, <1>2, PTL DEF SqlBatchesSpec

\* The loop stays in the script and the statements it has cut out are places
\* of it, for every length of a script.
THEOREM SqlBatchesTypeCorrect == SqlBatchesSpec => []SqlBatchesTypeOK
<1>1. SqlBatchesInv => SqlBatchesTypeOK
  BY SqlBatchesTyped
<1> QED
  BY <1>1, SqlBatchesAlways, PTL

\* Every script, however long and however its comments, strings and quoted
\* bodies are nested, doubled or left open, is split where its statements end
\* and nowhere else, and the statements are sent in their order
\* (parseSqlScriptBatches).
THEOREM ScriptIsSplitRight == SqlBatchesSpec => []BatchesAreStatements
<1>1. SqlBatchesInv => BatchesAreStatements
  BY SqlBatchesRight
<1> QED
  BY <1>1, SqlBatchesAlways, PTL
=============================================================================
