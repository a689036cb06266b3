--------------------------- MODULE Extension_proofs ---------------------------
(***************************************************************************)
(* Proofs about the parts of the extension, for every value of their       *)
(* constants: the servers of the port forwards, the cached SSH clients,    *)
(* the pages of ViewManager, the stored connections, the connection tree   *)
(* and the FTP client; and, with Queries_proofs, about all parts together, *)
(* the specification the run checks.                                       *)
(***************************************************************************)
EXTENDS MCExtension, Queries_proofs

-----------------------------------------------------------------------------
(* The inductive invariant.  It is stated for any value of the variables,  *)
(* since "update" takes one forward down and asks for another in one step. *)

TunnelStages == {"starting", "throwing", "listening", "failed", "rejected", "closed"}

Tunnel == [stage : TunnelStages, forward : ForwardIds, service : ServiceIds,
           create : BOOLEAN, overtaken : BOOLEAN]

Marks == [ServiceIds -> [ForwardIds -> TunnelIds \union {NoTunnel}]]

\* A mark names the server that listens for its service and forward.
MarkOK(ts, mark, n) ==
  \A s \in ServiceIds, f \in ForwardIds :
    LET t == mark[s][f]
    IN t # NoTunnel => /\ t \in 1..n
                       /\ ts[t].stage = "listening"
                       /\ ts[t].forward = f
                       /\ ts[t].service = s

\* A server that listens is marked; a tunnel that is to be or is shown as
\* running is in the list, unless it was overtaken or its service left behind;
\* and a configuration that is refused never gets as far as a server.
TunnelOK(t, ts, mark, st, sv) ==
  LET c == ts[t]
  IN /\ c.stage = "listening" => mark[c.service][c.forward] = t
     /\ (c.stage = "listening" \/ (c.stage = "starting" /\ ~c.create)) =>
          c.overtaken \/ sv # c.service \/ st[c.forward] > 0
     /\ c.stage \in {"starting", "listening"} => c.forward \notin refused
     /\ c.stage = "throwing" => c.forward \in refused
     /\ c.service <= sv

TunnelsSound(ts, mark, st, n, sv) ==
  /\ ts \in [1..n -> Tunnel]
  /\ mark \in Marks
  /\ st \in [ForwardIds -> Nat]
  /\ n \in 0..MaxTunnels
  /\ sv \in ServiceIds
  /\ MarkOK(ts, mark, n)
  /\ \A t \in 1..n : TunnelOK(t, ts, mark, st, sv)

ForwardsInv ==
  /\ portOf \in [ForwardIds -> LocalPorts]
  /\ refused \subseteq ForwardIds
  /\ TunnelsSound(tunnels, tunelMark, stored, asked, service)

-----------------------------------------------------------------------------
\* The invariant of forwards says what the theorems say.
LEMMA ForwardsInvImplies == ForwardsInv => ForwardsTypeOK /\ ForwardsAreControlled
  <1> SUFFICES ASSUME ForwardsInv PROVE ForwardsTypeOK /\ ForwardsAreControlled
    OBVIOUS
  <1>1. ForwardsTypeOK
    BY DEF ForwardsInv, TunnelsSound, ForwardsTypeOK, Tunnel, TunnelStages, Marks
  <1>2. ForwardsAreControlled
    <2>1. DOMAIN tunnels = 1..asked
      BY DEF ForwardsInv, TunnelsSound
    <2>2. \A s \in ServiceIds, f \in ForwardIds :
            tunelMark[s][f] # NoTunnel => /\ Listening(tunelMark[s][f])
                                          /\ tunnels[tunelMark[s][f]].forward = f
      BY DEF ForwardsInv, TunnelsSound, MarkOK, Listening, Stage
    <2>3. \A t \in DOMAIN tunnels : Listening(t) =>
            /\ tunelMark[tunnels[t].service][tunnels[t].forward] = t
            /\ \/ tunnels[t].overtaken
               \/ service # tunnels[t].service
               \/ stored[tunnels[t].forward] > 0
      BY <2>1 DEF ForwardsInv, TunnelsSound, TunnelOK, Listening, Stage
    <2>4. QED
      BY <2>2, <2>3 DEF ForwardsAreControlled
  <1>3. QED
    BY <1>1, <1>2

\* No service is made yet, and nothing runs.
LEMMA InitForwards == ForwardsInit => ForwardsInv
  BY ForwardsAssumption
  DEF ForwardsInit, ForwardsInv, TunnelsSound, MarkOK, Marks, ServiceIds, TunnelIds, NoTunnel

-----------------------------------------------------------------------------
(* The two halves of a command.                                            *)

\* A forward is taken down: its server is closed if it is marked, and what is
\* still being made is overtaken.  The list may lose it.
LEMMA TakenDownSound ==
  ASSUME ForwardsInv, NEW f \in ForwardIds, NEW st \in [ForwardIds -> Nat],
         \A g \in ForwardIds \ {f} : st[g] = stored[g]
  PROVE  TunnelsSound(Closed(f, Overtaken(f)), Unmarked(f), st, asked, service)
  <1> DEFINE ts == Closed(f, Overtaken(f))
             mark == Unmarked(f)
             m == Marked(f)
  <1>1. /\ tunnels \in [1..asked -> Tunnel] /\ tunelMark \in Marks
        /\ asked \in 0..MaxTunnels /\ service \in ServiceIds
        /\ DOMAIN tunnels = 1..asked /\ asked \in Nat
    BY ForwardsAssumption DEF ForwardsInv, TunnelsSound
  <1>2. \A t \in 1..asked :
          /\ tunnels[t] \in Tunnel
          /\ Overtaken(f)[t] \in Tunnel
          /\ Overtaken(f)[t].stage = tunnels[t].stage
          /\ Overtaken(f)[t].forward = tunnels[t].forward
          /\ Overtaken(f)[t].service = tunnels[t].service
          /\ Overtaken(f)[t].create = tunnels[t].create
          /\ tunnels[t].overtaken => Overtaken(f)[t].overtaken
          /\ tunnels[t].stage = "starting" /\ tunnels[t].forward = f => Overtaken(f)[t].overtaken
    BY <1>1 DEF Overtaken, Tunnel, Stage
  <1>3. Overtaken(f) \in [1..asked -> Tunnel]
    BY <1>1, <1>2 DEF Overtaken
  <1>4. m = tunelMark[service][f] /\ (m # NoTunnel =>
          m \in 1..asked /\ tunnels[m].stage = "listening" /\ tunnels[m].forward = f
          /\ tunnels[m].service = service)
    BY <1>1 DEF Marked, ForwardsInv, TunnelsSound, MarkOK
  <1>5. /\ ts \in [1..asked -> Tunnel]
        /\ \A t \in 1..asked :
             /\ t # m => ts[t] = Overtaken(f)[t]
             /\ t = m => /\ ts[t].stage = "closed"
                         /\ ts[t].forward = tunnels[t].forward
                         /\ ts[t].service = tunnels[t].service
    <2>1. CASE m = NoTunnel
      <3>1. ts = Overtaken(f) /\ m \notin 1..asked
        BY <2>1 DEF Closed, NoTunnel
      <3>2. QED
        BY <1>3, <3>1
    <2>2. CASE m # NoTunnel
      <3>1. ts = [Overtaken(f) EXCEPT ![m].stage = "closed"]
        BY <2>2 DEF Closed
      <3>2. m \in 1..asked
        BY <1>4, <2>2
      <3> HIDE DEF m
      <3>3. QED
        BY <1>2, <1>3, <3>1, <3>2 DEF Tunnel, TunnelStages
    <2>3. QED
      BY <2>1, <2>2
  <1>6. /\ mark \in Marks /\ mark[service][f] = NoTunnel
        /\ \A s \in ServiceIds, g \in ForwardIds :
             s # service \/ g # f => mark[s][g] = tunelMark[s][g]
    BY <1>1 DEF Unmarked, Marks
  <1> HIDE DEF ts, mark, m
  <1>7. MarkOK(ts, mark, asked)
    <2>1. ASSUME NEW s \in ServiceIds, NEW g \in ForwardIds, mark[s][g] # NoTunnel
          PROVE  /\ mark[s][g] \in 1..asked
                 /\ ts[mark[s][g]].stage = "listening"
                 /\ ts[mark[s][g]].forward = g
                 /\ ts[mark[s][g]].service = s
      <3>1. (s # service \/ g # f) /\ mark[s][g] = tunelMark[s][g]
        BY <1>6, <2>1
      <3>2. /\ mark[s][g] \in 1..asked
            /\ tunnels[mark[s][g]].stage = "listening"
            /\ tunnels[mark[s][g]].forward = g
            /\ tunnels[mark[s][g]].service = s
        BY <2>1, <3>1 DEF ForwardsInv, TunnelsSound, MarkOK
      <3>3. mark[s][g] # m
        BY <1>4, <2>1, <3>1, <3>2
      <3>4. QED
        BY <1>2, <1>5, <3>2, <3>3
    <2>2. QED
      BY <2>1 DEF MarkOK
  <1>8. ASSUME NEW t \in 1..asked PROVE TunnelOK(t, ts, mark, st, service)
    <2>1. TunnelOK(t, tunnels, tunelMark, stored, service)
      BY DEF ForwardsInv, TunnelsSound
    <2>2. CASE t = m
      BY <1>5, <2>1, <2>2 DEF TunnelOK
    <2>3. CASE t # m
      <3>1. ts[t] = Overtaken(f)[t] /\ tunnels[t] \in Tunnel
        BY <1>2, <1>5, <2>3
      <3>2. tunnels[t].stage = "listening" =>
              /\ tunelMark[tunnels[t].service][tunnels[t].forward] = t
              /\ tunnels[t].service # service \/ tunnels[t].forward # f
        BY <1>4, <2>1, <2>3 DEF TunnelOK
      <3>3. tunnels[t].service \in ServiceIds /\ tunnels[t].forward \in ForwardIds
        BY <3>1 DEF Tunnel
      <3>4. tunnels[t].stage = "listening" =>
              mark[tunnels[t].service][tunnels[t].forward] = t
        BY <1>6, <3>2, <3>3
      <3>5. tunnels[t].forward # f => st[tunnels[t].forward] = stored[tunnels[t].forward]
        BY <3>3
      <3>6. QED
        BY <1>2, <2>1, <3>1, <3>2, <3>4, <3>5 DEF TunnelOK
    <2>4. QED
      BY <2>2, <2>3
  <1>9. QED
    BY <1>1, <1>5, <1>6, <1>7, <1>8 DEF TunnelsSound, ts, mark

\* forward() is called: a tunnel is to be made for the service of the page.
LEMMA AskedSound ==
  ASSUME NEW ts, NEW mark, NEW st, TunnelsSound(ts, mark, st, asked, service),
         NEW f \in ForwardIds, NEW create \in BOOLEAN, create \/ st[f] > 0,
         asked < MaxTunnels
  PROVE  TunnelsSound(Asked(f, create, ts), mark, st, asked + 1, service)
  <1>0. PICK n, next : n = asked + 1 /\ next = Asked(f, create, ts)
    OBVIOUS
  <1>1. /\ ts \in [1..asked -> Tunnel] /\ asked \in Nat /\ n \in 1..MaxTunnels
        /\ DOMAIN ts = 1..asked /\ 1..n = 1..asked \union {n} /\ n \notin 1..asked
        /\ service \in ServiceIds
    BY <1>0, ForwardsAssumption DEF TunnelsSound
  <1>2. /\ next[n] = [stage |-> IF f \in refused THEN "throwing" ELSE "starting",
                      forward |-> f, service |-> service, create |-> create,
                      overtaken |-> FALSE]
        /\ \A t \in 1..asked : next[t] = ts[t]
    BY <1>0, <1>1 DEF Asked
  <1>3. next[n] \in Tunnel
    BY <1>1, <1>2 DEF Tunnel, TunnelStages
  <1>4. next \in [1..n -> Tunnel]
    <2>1. \A t \in 1..n : next[t] \in Tunnel
      BY <1>1, <1>2, <1>3
    <2>2. next = [t \in 1..n |-> next[t]]
      BY <1>0, <1>1 DEF Asked
    <2>3. QED
      BY <2>1, <2>2
  <1>5. MarkOK(next, mark, n)
    BY <1>1, <1>2 DEF TunnelsSound, MarkOK
  <1>6. TunnelOK(n, next, mark, st, service)
    BY <1>1, <1>2 DEF TunnelOK, ServiceIds
  <1>7. \A t \in 1..asked : TunnelOK(t, next, mark, st, service)
    BY <1>2 DEF TunnelsSound, TunnelOK
  <1>8. TunnelsSound(next, mark, st, n, service)
    <2>1. \A t \in 1..n : TunnelOK(t, next, mark, st, service)
      BY <1>1, <1>6, <1>7
    <2>2. mark \in Marks /\ st \in [ForwardIds -> Nat] /\ n \in 0..MaxTunnels
      BY <1>1, ForwardsAssumption DEF TunnelsSound
    <2>3. QED
      BY <1>1, <1>4, <1>5, <2>1, <2>2 DEF TunnelsSound
  <1>9. QED
    BY <1>0, <1>8

-----------------------------------------------------------------------------
(* The steps.                                                              *)

\* updateForward closes the server of the old forward and makes the new one.
LEMMA UpdateInv ==
  ASSUME ForwardsInv, NEW old \in ForwardIds, NEW f \in ForwardIds, Update(old, f)
  PROVE  ForwardsInv'
  <1>0. PICK ts, mark, st :
          /\ ts = Closed(old, Overtaken(old)) /\ mark = Unmarked(old)
          /\ st = [stored EXCEPT ![old] = stored[old] - 1]
    OBVIOUS
  <1>1. stored \in [ForwardIds -> Nat] /\ stored[old] > 0 /\ asked < MaxTunnels
    BY DEF ForwardsInv, TunnelsSound, Update
  <1>2. st \in [ForwardIds -> Nat] /\ \A g \in ForwardIds \ {old} : st[g] = stored[g]
    BY <1>0, <1>1
  <1>3. TunnelsSound(ts, mark, st, asked, service)
    BY <1>0, <1>2, TakenDownSound
  <1>4. /\ stored' = st /\ tunelMark' = mark /\ UNCHANGED <<portOf, refused, service>>
        /\ IF st[f] > 0 THEN tunnels' = ts /\ asked' = asked
           ELSE tunnels' = Asked(f, TRUE, ts) /\ asked' = asked + 1
    BY <1>0 DEF Update
  <1>5. TunnelsSound(Asked(f, TRUE, ts), mark, st, asked + 1, service)
    BY <1>1, <1>3, AskedSound
  <1>6. TunnelsSound(tunnels', tunelMark', stored', asked', service)
    BY <1>3, <1>4, <1>5
  <1>7. QED
    BY <1>4, <1>6 DEF ForwardsInv, TunnelsSound, MarkOK, TunnelOK

\* createForward and start: the service that starts a forward has its server.
LEMMA AddOrStartInv ==
  ASSUME ForwardsInv, NEW f \in ForwardIds, Add(f) \/ StartForward(f)
  PROVE  ForwardsInv'
  <1>1. PICK create \in BOOLEAN :
          /\ create \/ stored[f] > 0
          /\ tunnels' = Asked(f, create, tunnels)
    BY DEF Add, StartForward
  <1>2. /\ asked < MaxTunnels /\ asked' = asked + 1
        /\ UNCHANGED <<portOf, refused, service, tunelMark, stored>>
    BY DEF Add, StartForward
  <1>3. TunnelsSound(tunnels', tunelMark, stored, asked', service)
    BY <1>1, <1>2, AskedSound DEF ForwardsInv
  <1>4. QED
    BY <1>2, <1>3 DEF ForwardsInv, TunnelsSound, MarkOK, TunnelOK

\* stop and remove: the server closes, or there was none.
LEMMA StopOrRemoveInv ==
  ASSUME ForwardsInv, NEW f \in ForwardIds, StopForward(f) \/ RemoveForward(f)
  PROVE  ForwardsInv'
  <1>1. /\ tunnels' = Closed(f, Overtaken(f)) /\ tunelMark' = Unmarked(f)
        /\ UNCHANGED <<portOf, refused, service, asked>>
    BY DEF StopForward, RemoveForward
  <1>2. stored' \in [ForwardIds -> Nat] /\ \A g \in ForwardIds \ {f} : stored'[g] = stored[g]
    <2>1. stored \in [ForwardIds -> Nat]
      BY DEF ForwardsInv, TunnelsSound
    <2>2. stored' = stored \/ (stored[f] > 0 /\ stored' = [stored EXCEPT ![f] = stored[f] - 1])
      BY DEF StopForward, RemoveForward
    <2>3. QED
      BY <2>1, <2>2
  <1>3. TunnelsSound(tunnels', tunelMark', stored', asked, service)
    BY <1>1, <1>2, TakenDownSound
  <1>4. QED
    BY <1>1, <1>3 DEF ForwardsInv, TunnelsSound, MarkOK, TunnelOK

\* The page is opened from a new node, with a service object of its own.
LEMMA OpenFromNewNodeInv ==
  ASSUME ForwardsInv, OpenFromNewNode
  PROVE  ForwardsInv'
  <1>1. /\ service' \in ServiceIds /\ service \in ServiceIds /\ service' = service + 1
        /\ UNCHANGED <<portOf, refused, tunelMark, stored, tunnels, asked>>
    BY ForwardsAssumption DEF OpenFromNewNode, ForwardsInv, TunnelsSound, ServiceIds
  <1>2. \A t \in 1..asked : tunnels[t].service \in ServiceIds
    BY DEF ForwardsInv, TunnelsSound, Tunnel
  <1>3. \A t \in 1..asked : TunnelOK(t, tunnels, tunelMark, stored, service')
    BY <1>1, <1>2 DEF ForwardsInv, TunnelsSound, TunnelOK, ServiceIds
  <1>4. QED
    BY <1>1, <1>3 DEF ForwardsInv, TunnelsSound, MarkOK, TunnelOK

\* The callback of listen: no server of the forward listens, for it would hold
\* the port, so the mark that is set hides no other.
LEMMA ServerListensInv ==
  ASSUME ForwardsInv, NEW t \in DOMAIN tunnels, ServerListens(t)
  PROVE  ForwardsInv'
  <1>0. PICK f, s : f = tunnels[t].forward /\ s = tunnels[t].service
    OBVIOUS
  <1>1. /\ t \in 1..asked /\ tunnels[t] \in Tunnel /\ tunnels \in [1..asked -> Tunnel]
        /\ DOMAIN tunnels = 1..asked
        /\ f \in ForwardIds /\ s \in ServiceIds /\ tunnels[t].stage = "starting"
        /\ asked \in 0..MaxTunnels /\ t \in TunnelIds
    BY <1>0, ForwardsAssumption
    DEF ForwardsInv, TunnelsSound, Tunnel, ServerListens, Stage, TunnelIds
  <1>2. /\ tunnels' = [tunnels EXCEPT ![t].stage = "listening"]
        /\ tunelMark' = [tunelMark EXCEPT ![s][f] = t]
        /\ stored' = IF tunnels[t].create THEN [stored EXCEPT ![f] = stored[f] + 1] ELSE stored
        /\ UNCHANGED <<portOf, refused, service, asked>>
    BY <1>0 DEF ServerListens, MarkedFor, StoredFor
  <1>3. \A u \in 1..asked : tunnels[u].stage = "listening" => tunnels[u].forward # f
    BY <1>0, <1>1 DEF ServerListens, PortTaken, Listening, Stage
  <1>4. /\ tunnels' \in [1..asked -> Tunnel]
        /\ tunnels'[t].stage = "listening" /\ tunnels'[t].forward = f
        /\ tunnels'[t].service = s /\ tunnels'[t].create = tunnels[t].create
        /\ tunnels'[t].overtaken = tunnels[t].overtaken
        /\ \A u \in 1..asked : u # t => tunnels'[u] = tunnels[u]
    BY <1>0, <1>1, <1>2 DEF Tunnel, TunnelStages
  <1>5. /\ tunelMark' \in Marks /\ tunelMark'[s][f] = t
        /\ \A r \in ServiceIds, g \in ForwardIds :
             r # s \/ g # f => tunelMark'[r][g] = tunelMark[r][g]
    BY <1>1, <1>2 DEF ForwardsInv, TunnelsSound, Marks
  <1>6. /\ stored' \in [ForwardIds -> Nat]
        /\ tunnels[t].create => stored'[f] > 0
        /\ \A g \in ForwardIds : stored[g] > 0 => stored'[g] > 0
    BY <1>1, <1>2 DEF ForwardsInv, TunnelsSound
  <1>7. MarkOK(tunnels', tunelMark', asked)
    <2>1. ASSUME NEW r \in ServiceIds, NEW g \in ForwardIds, tunelMark'[r][g] # NoTunnel
          PROVE  /\ tunelMark'[r][g] \in 1..asked
                 /\ tunnels'[tunelMark'[r][g]].stage = "listening"
                 /\ tunnels'[tunelMark'[r][g]].forward = g
                 /\ tunnels'[tunelMark'[r][g]].service = r
      <3>1. CASE r = s /\ g = f
        BY <1>1, <1>4, <1>5, <3>1
      <3>2. CASE r # s \/ g # f
        <4>1. /\ tunelMark'[r][g] = tunelMark[r][g] /\ tunelMark[r][g] \in 1..asked
              /\ tunnels[tunelMark[r][g]].stage = "listening"
              /\ tunnels[tunelMark[r][g]].forward = g
              /\ tunnels[tunelMark[r][g]].service = r
          BY <1>5, <2>1, <3>2 DEF ForwardsInv, TunnelsSound, MarkOK
        <4>2. tunelMark[r][g] # t
          BY <1>1, <4>1
        <4>3. QED
          BY <1>4, <4>1, <4>2
      <3>3. QED
        BY <3>1, <3>2
    <2>2. QED
      BY <2>1 DEF MarkOK
  <1>8. ASSUME NEW u \in 1..asked PROVE TunnelOK(u, tunnels', tunelMark', stored', service)
    <2>1. TunnelOK(u, tunnels, tunelMark, stored, service) /\ tunnels[u] \in Tunnel
      BY <1>1 DEF ForwardsInv, TunnelsSound
    <2>2. tunnels[u].service \in ServiceIds /\ tunnels[u].forward \in ForwardIds
      BY <2>1 DEF Tunnel
    <2>3. CASE u = t
      <3>1. stored[f] > 0 => stored'[f] > 0
        BY <1>1, <1>6
      <3>2. tunelMark'[tunnels'[t].service][tunnels'[t].forward] = t
        BY <1>4, <1>5
      <3>3. f \notin refused /\ s <= service
        BY <1>0, <1>1, <2>1, <2>3 DEF TunnelOK
      <3>4. tunnels[t].create \/ tunnels[t].overtaken \/ service # s \/ stored[f] > 0
        BY <1>0, <1>1, <2>1, <2>3 DEF TunnelOK
      <3>5. tunnels'[t].overtaken \/ service # s \/ stored'[f] > 0
        BY <1>4, <1>6, <3>1, <3>4
      <3>6. TunnelOK(t, tunnels', tunelMark', stored', service)
        BY <1>4, <3>2, <3>3, <3>5 DEF TunnelOK
      <3>7. QED
        BY <2>3, <3>6
    <2>4. CASE u # t
      <3>1. tunnels'[u] = tunnels[u]
        BY <1>4, <2>4
      <3>2. tunnels[u].stage = "listening" =>
              tunelMark'[tunnels[u].service][tunnels[u].forward]
                = tunelMark[tunnels[u].service][tunnels[u].forward]
        BY <1>3, <1>5, <2>2
      <3>3. QED
        BY <1>6, <2>1, <2>2, <3>1, <3>2 DEF TunnelOK
    <2>5. QED
      BY <2>3, <2>4
  <1>9. TunnelsSound(tunnels', tunelMark', stored', asked, service)
    <2>1. asked \in 0..MaxTunnels /\ service \in ServiceIds
      BY DEF ForwardsInv, TunnelsSound
    <2>2. QED
      BY <1>4, <1>5, <1>6, <1>7, <1>8, <2>1 DEF TunnelsSound
  <1>10. QED
    BY <1>2, <1>9 DEF ForwardsInv, TunnelsSound, MarkOK, TunnelOK

\* A server that was starting fails.
LEMMA ServerFailsInv ==
  ASSUME ForwardsInv, NEW t \in DOMAIN tunnels, ServerFails(t)
  PROVE  ForwardsInv'
  <1>1. /\ t \in 1..asked /\ tunnels \in [1..asked -> Tunnel]
        /\ tunnels' = [tunnels EXCEPT ![t].stage = "failed"]
        /\ tunnels[t].stage = "starting"
        /\ UNCHANGED <<portOf, refused, service, tunelMark, stored, asked>>
    BY DEF ForwardsInv, TunnelsSound, ServerFails, Stage
  <1>2. /\ tunnels' \in [1..asked -> Tunnel]
        /\ tunnels'[t].stage = "failed" /\ tunnels'[t].service = tunnels[t].service
        /\ \A u \in 1..asked : u # t => tunnels'[u] = tunnels[u]
    BY <1>1 DEF Tunnel, TunnelStages
  <1>3. MarkOK(tunnels', tunelMark, asked)
    <2>1. \A s \in ServiceIds, f \in ForwardIds : tunelMark[s][f] # NoTunnel =>
            tunelMark[s][f] \in 1..asked /\ tunelMark[s][f] # t
      BY <1>1 DEF ForwardsInv, TunnelsSound, MarkOK
    <2>2. QED
      BY <1>2, <2>1 DEF ForwardsInv, TunnelsSound, MarkOK
  <1>4. \A u \in 1..asked : TunnelOK(u, tunnels', tunelMark, stored, service)
    BY <1>1, <1>2 DEF ForwardsInv, TunnelsSound, TunnelOK
  <1>5. TunnelsSound(tunnels', tunelMark, stored, asked, service)
    BY <1>2, <1>3, <1>4 DEF ForwardsInv, TunnelsSound
  <1>6. QED
    BY <1>1, <1>5 DEF ForwardsInv, TunnelsSound, MarkOK, TunnelOK

\* The mark that is deleted marks nothing: no server of a refused forward
\* listens.
LEMMA ConfigThrownInv ==
  ASSUME ForwardsInv, NEW t \in DOMAIN tunnels, ConfigThrown(t)
  PROVE  ForwardsInv'
  <1>0. PICK f, s : f = tunnels[t].forward /\ s = tunnels[t].service
    OBVIOUS
  <1>1. /\ t \in 1..asked /\ tunnels[t] \in Tunnel /\ tunnels \in [1..asked -> Tunnel]
        /\ DOMAIN tunnels = 1..asked
        /\ f \in ForwardIds /\ s \in ServiceIds /\ tunnels[t].stage = "throwing"
        /\ f \in refused
    BY <1>0 DEF ForwardsInv, TunnelsSound, TunnelOK, Tunnel, ConfigThrown, Stage
  <1>2. /\ tunnels' = [tunnels EXCEPT ![t].stage = "rejected"]
        /\ tunelMark' = [tunelMark EXCEPT ![s][f] = NoTunnel]
        /\ stored' = IF tunnels[t].create THEN [stored EXCEPT ![f] = stored[f] + 1] ELSE stored
        /\ UNCHANGED <<portOf, refused, service, asked>>
    BY <1>0 DEF ConfigThrown, StoredFor
  <1>3. \A u \in 1..asked : tunnels[u].stage = "listening" => tunnels[u].forward # f
    BY <1>1 DEF ForwardsInv, TunnelsSound, TunnelOK
  <1>4. /\ tunnels' \in [1..asked -> Tunnel]
        /\ tunnels'[t].stage = "rejected" /\ tunnels'[t].service = s
        /\ \A u \in 1..asked : u # t => tunnels'[u] = tunnels[u]
    BY <1>0, <1>1, <1>2 DEF Tunnel, TunnelStages
  <1>5. /\ tunelMark' \in Marks /\ tunelMark'[s][f] = NoTunnel
        /\ \A r \in ServiceIds, g \in ForwardIds :
             r # s \/ g # f => tunelMark'[r][g] = tunelMark[r][g]
    BY <1>1, <1>2 DEF ForwardsInv, TunnelsSound, Marks
  <1>6. /\ stored' \in [ForwardIds -> Nat]
        /\ \A g \in ForwardIds : stored[g] > 0 => stored'[g] > 0
    BY <1>1, <1>2 DEF ForwardsInv, TunnelsSound
  <1>7. MarkOK(tunnels', tunelMark', asked)
    <2>1. ASSUME NEW r \in ServiceIds, NEW g \in ForwardIds, tunelMark'[r][g] # NoTunnel
          PROVE  /\ tunelMark'[r][g] \in 1..asked
                 /\ tunnels'[tunelMark'[r][g]].stage = "listening"
                 /\ tunnels'[tunelMark'[r][g]].forward = g
                 /\ tunnels'[tunelMark'[r][g]].service = r
      <3>1. tunelMark'[r][g] = tunelMark[r][g]
        BY <1>5, <2>1
      <3>2. /\ tunelMark[r][g] \in 1..asked
            /\ tunnels[tunelMark[r][g]].stage = "listening"
            /\ tunnels[tunelMark[r][g]].forward = g
            /\ tunnels[tunelMark[r][g]].service = r
        BY <2>1, <3>1 DEF ForwardsInv, TunnelsSound, MarkOK
      <3>3. tunelMark[r][g] # t
        BY <1>1, <3>2
      <3>4. QED
        BY <1>4, <3>1, <3>2, <3>3
    <2>2. QED
      BY <2>1 DEF MarkOK
  <1>8. ASSUME NEW u \in 1..asked PROVE TunnelOK(u, tunnels', tunelMark', stored', service)
    <2>1. TunnelOK(u, tunnels, tunelMark, stored, service) /\ tunnels[u] \in Tunnel
      BY <1>1 DEF ForwardsInv, TunnelsSound
    <2>2. tunnels[u].service \in ServiceIds /\ tunnels[u].forward \in ForwardIds
      BY <2>1 DEF Tunnel
    <2>3. CASE u = t
      BY <1>0, <1>4, <2>1, <2>3 DEF TunnelOK
    <2>4. CASE u # t
      <3>1. tunnels'[u] = tunnels[u]
        BY <1>4, <2>4
      <3>2. tunnels[u].stage = "listening" =>
              tunelMark'[tunnels[u].service][tunnels[u].forward]
                = tunelMark[tunnels[u].service][tunnels[u].forward]
        BY <1>3, <1>5, <2>2
      <3>3. QED
        BY <1>6, <2>1, <2>2, <3>1, <3>2 DEF TunnelOK
    <2>5. QED
      BY <2>3, <2>4
  <1>9. TunnelsSound(tunnels', tunelMark', stored', asked, service)
    BY <1>4, <1>5, <1>6, <1>7, <1>8 DEF ForwardsInv, TunnelsSound
  <1>10. QED
    BY <1>2, <1>9 DEF ForwardsInv, TunnelsSound, MarkOK, TunnelOK

\* Every step of forwarding keeps forwards controlled.
LEMMA ForwardsStepInv ==
  ASSUME ForwardsInv, [ForwardsNext]_forwardVars
  PROVE  ForwardsInv'
  <1>1. CASE UNCHANGED forwardVars
    BY <1>1 DEF forwardVars, ForwardsInv, TunnelsSound, MarkOK, TunnelOK
  <1>2. ASSUME NEW f \in ForwardIds, NEW old \in ForwardIds, Update(old, f) PROVE ForwardsInv'
    BY <1>2, UpdateInv
  <1>3. ASSUME NEW f \in ForwardIds,
               Add(f) \/ StartForward(f) \/ StopForward(f) \/ RemoveForward(f)
        PROVE  ForwardsInv'
    BY <1>3, AddOrStartInv, StopOrRemoveInv
  <1>4. CASE OpenFromNewNode
    BY <1>4, OpenFromNewNodeInv
  <1>5. ASSUME NEW t \in DOMAIN tunnels, ServerListens(t) \/ ServerFails(t) \/ ConfigThrown(t)
        PROVE  ForwardsInv'
    BY <1>5, ServerListensInv, ServerFailsInv, ConfigThrownInv
  <1>6. QED
    BY <1>1, <1>2, <1>3, <1>4, <1>5 DEF ForwardsNext

-----------------------------------------------------------------------------
\* The variables of the services, the list and the tunnels keep their types
\* (ForwardService).
THEOREM ForwardsTypeCorrect == ForwardsSpec => []ForwardsTypeOK
  <1>1. ForwardsInv /\ [ForwardsNext]_forwardVars => ForwardsInv'
    BY ForwardsStepInv
  <1>2. QED
    BY InitForwards, <1>1, ForwardsInvImplies, PTL DEF ForwardsSpec

\* For every set of forwards and ports and every number of tunnels and
\* services: what the page shows as running listens, and a server that listens
\* is marked by its service, so that it can be stopped, and is in the list
\* unless it was removed while it started or its service left behind
\* (forward, closeTunnel, stop, remove and the commands of the page).
THEOREM ForwardsStayControlled == ForwardsSpec => []ForwardsAreControlled
  <1>1. ForwardsInv /\ [ForwardsNext]_forwardVars => ForwardsInv'
    BY ForwardsStepInv
  <1>2. QED
    BY InitForwards, <1>1, ForwardsInvImplies, PTL DEF ForwardsSpec

-----------------------------------------------------------------------------
(* The inductive invariant.  ClientsAreCached says of a client that is     *)
(* alone with its connection that it stays in the table; to keep that, two *)
(* clients of a connection that live at the same time must both have been  *)
(* marked as overlapped, since the end of one forgets the other.           *)

ClientStages == Alive \union {"ended"}

TableInRange == \A k \in SshKeys : activeClient[k] \in 0..made

LivesWith(c, d) ==
  /\ client[c].key = client[d].key
  /\ client[c].stage \in Alive
  /\ client[d].stage \in Alive

OverlapsMarked ==
  \A c, d \in DOMAIN client :
    c # d /\ LivesWith(c, d) => client[c].overlapped /\ client[d].overlapped

ClientsInv == ClientsTypeOK /\ TableInRange /\ OverlapsMarked /\ ClientsAreCached

-----------------------------------------------------------------------------
(* What staging a client changes.                                          *)

\* A client that is given another stage keeps its connection and its mark,
\* and the other clients are left alone.
LEMMA StagedClients ==
  ASSUME ClientsTypeOK, NEW c \in DOMAIN client, NEW stage \in ClientStages,
         client' = Staged(c, stage)
  PROVE  /\ client' \in [1..made -> [key : SshKeys, stage : ClientStages, overlapped : BOOLEAN]]
         /\ DOMAIN client' = DOMAIN client
         /\ client'[c].stage = stage
         /\ \A d \in DOMAIN client : /\ client'[d].key = client[d].key
                                     /\ client'[d].overlapped = client[d].overlapped
                                     /\ d # c => client'[d] = client[d]
  BY DEF ClientsTypeOK, Staged, ClientStages, Alive

\* A client that was alive and is given another stage makes no new pair of
\* clients that live together.
LEMMA StagedKeepsMarks ==
  ASSUME ClientsTypeOK, OverlapsMarked, NEW c \in DOMAIN client, NEW stage \in ClientStages,
         client[c].stage \in Alive, client' = Staged(c, stage)
  PROVE  OverlapsMarked'
  <1>1. /\ DOMAIN client' = DOMAIN client
        /\ \A d \in DOMAIN client : /\ client'[d].key = client[d].key
                                    /\ client'[d].overlapped = client[d].overlapped
                                    /\ d # c => client'[d] = client[d]
    BY StagedClients
  <1>2. \A d \in DOMAIN client : client'[d].stage \in Alive => client[d].stage \in Alive
    BY <1>1
  <1>3. QED
    BY <1>1, <1>2 DEF OverlapsMarked, LivesWith

-----------------------------------------------------------------------------
(* The steps.                                                              *)

\* No client is there yet.
LEMMA InitClients == ClientsInit => ClientsInv
  BY SshClientsAssumption
  DEF ClientsInit, ClientsInv, ClientsTypeOK, TableInRange, OverlapsMarked, ClientsAreCached,
      NoClient, Alive

\* A new client is alive beside those of its connection that are, and all of
\* them are marked.
LEMMA MakeClientInv ==
  ASSUME ClientsInv, NEW k \in SshKeys, MakeClient(k)
  PROVE  ClientsInv'
  <1> USE SshClientsAssumption
  <1>0. PICK n : n = made + 1
    OBVIOUS
  <1>1. /\ DOMAIN client = 1..made /\ made \in Nat /\ n \in 1..MaxClients
        /\ DOMAIN client' = 1..n /\ 1..made \union {n} = 1..n /\ n \notin 1..made
        /\ made' = n
    BY <1>0 DEF ClientsInv, ClientsTypeOK, MakeClient
  <1>2. client'[n] = [key |-> k, stage |-> "connecting", overlapped |-> OthersAlive(k)]
    BY <1>0, <1>1 DEF MakeClient
  <1>3. \A c \in 1..made :
          /\ client[c] \in [key : SshKeys, stage : ClientStages, overlapped : BOOLEAN]
          /\ client'[c] = [client[c] EXCEPT
               !.overlapped = @ \/ (client[c].key = k /\ client[c].stage \in Alive)]
    BY <1>0, <1>1 DEF MakeClient, ClientsInv, ClientsTypeOK, ClientStages
  <1>4. \A c \in 1..made :
          /\ client'[c].key = client[c].key /\ client'[c].stage = client[c].stage
          /\ client'[c].overlapped = (client[c].overlapped
               \/ (client[c].key = k /\ client[c].stage \in Alive))
          /\ client'[c] \in [key : SshKeys, stage : ClientStages, overlapped : BOOLEAN]
    BY <1>3
  <1>5. OthersAlive(k) \in BOOLEAN
    BY DEF OthersAlive
  <1>6. ClientsTypeOK'
    <2>1. client'[n] \in [key : SshKeys, stage : ClientStages, overlapped : BOOLEAN]
      BY <1>2, <1>5 DEF ClientStages, Alive
    <2>2. \A c \in 1..n : client'[c] \in [key : SshKeys, stage : ClientStages, overlapped : BOOLEAN]
      BY <1>1, <1>4, <2>1
    <2>3. client' \in [1..n -> [key : SshKeys, stage : ClientStages, overlapped : BOOLEAN]]
      BY <1>0, <1>1, <2>2 DEF MakeClient
    <2>4. QED
      BY <1>1, <2>3 DEF MakeClient, ClientsInv, ClientsTypeOK, ClientStages
  <1>7. TableInRange'
    BY <1>1 DEF ClientsInv, TableInRange, MakeClient
  <1>8. OverlapsMarked'
    <2>1. \A c \in 1..made :
            LivesWith(c, n)' => client'[c].overlapped /\ client'[n].overlapped
      BY <1>1, <1>2, <1>4 DEF LivesWith, OthersAlive
    <2>2. \A c, d \in 1..made :
            c # d /\ LivesWith(c, d)' => client'[c].overlapped /\ client'[d].overlapped
      BY <1>1, <1>4 DEF ClientsInv, OverlapsMarked, LivesWith
    <2>3. QED
      BY <1>1, <2>1, <2>2 DEF OverlapsMarked, LivesWith
  <1>9. ClientsAreCached'
    <2>1. \A j \in SshKeys : activeClient'[j] = activeClient[j] /\ activeClient[j] \in 0..made
      BY DEF ClientsInv, TableInRange, MakeClient
    <2>2. client'[n].stage # "open"
      BY <1>2
    <2>3. QED
      BY <1>1, <1>4, <2>1, <2>2 DEF ClientsInv, ClientsAreCached, NoClient
  <1>10. QED
    BY <1>6, <1>7, <1>8, <1>9 DEF ClientsInv

\* ready, and the refusal of SFTP: a client that is in no table
LEMMA BeforeOpenInv ==
  ASSUME ClientsInv, NEW c \in DOMAIN client, ClientReady(c) \/ SftpRefused(c)
  PROVE  ClientsInv'
  <1>1. PICK stage \in ClientStages \ {"open"} : client' = Staged(c, stage)
    BY DEF ClientReady, SftpRefused, ClientStages, Alive
  <1>2. client[c].stage \in Alive \ {"open"} /\ UNCHANGED <<activeClient, made>>
    BY DEF ClientReady, SftpRefused, Alive
  <1>3. OverlapsMarked'
    BY <1>1, <1>2, StagedKeepsMarks DEF ClientsInv
  <1>4. /\ client' \in [1..made -> [key : SshKeys, stage : ClientStages, overlapped : BOOLEAN]]
        /\ DOMAIN client' = DOMAIN client
        /\ client'[c].stage = stage
        /\ \A d \in DOMAIN client : /\ client'[d].key = client[d].key
                                    /\ client'[d].overlapped = client[d].overlapped
                                    /\ d # c => client'[d] = client[d]
    BY <1>1, StagedClients DEF ClientsInv
  <1>5. ClientsTypeOK' /\ TableInRange'
    BY <1>2, <1>4 DEF ClientsInv, ClientsTypeOK, TableInRange, ClientStages
  <1>6. \A k \in SshKeys : activeClient[k] # NoClient =>
          activeClient[k] # c /\ activeClient[k] \in DOMAIN client
    BY <1>2, <1>4 DEF ClientsInv, TableInRange, ClientsAreCached, ClientsTypeOK, NoClient
  <1>7. ClientsAreCached'
    BY <1>1, <1>2, <1>4, <1>6 DEF ClientsInv, ClientsAreCached
  <1>8. QED
    BY <1>3, <1>5, <1>7 DEF ClientsInv

\* SFTP opens: a client of the connection that was open is put out of the
\* table, and has been marked.
LEMMA SftpOpenedInv ==
  ASSUME ClientsInv, NEW c \in DOMAIN client, SftpOpened(c)
  PROVE  ClientsInv'
  <1>0. PICK k : k = client[c].key
    OBVIOUS
  <1>1. /\ client' = Staged(c, "open") /\ client[c].stage = "sftp" /\ made' = made
        /\ "open" \in ClientStages /\ client[c].stage \in Alive
    BY DEF SftpOpened, ClientStages, Alive
  <1>2. OverlapsMarked'
    BY <1>1, StagedKeepsMarks DEF ClientsInv
  <1>3. /\ client' \in [1..made -> [key : SshKeys, stage : ClientStages, overlapped : BOOLEAN]]
        /\ DOMAIN client' = DOMAIN client
        /\ client'[c].stage = "open"
        /\ \A d \in DOMAIN client : /\ client'[d].key = client[d].key
                                    /\ client'[d].overlapped = client[d].overlapped
                                    /\ d # c => client'[d] = client[d]
    BY <1>1, StagedClients DEF ClientsInv
  <1>4. k \in SshKeys /\ made \in Nat /\ DOMAIN client = 1..made /\ c \in 1..made
    BY <1>0 DEF ClientsInv, ClientsTypeOK
  <1>5. /\ activeClient'[k] = c
        /\ \A j \in SshKeys \ {k} : activeClient'[j] = activeClient[j]
        /\ activeClient' \in [SshKeys -> 0..MaxClients]
    BY <1>0, <1>4, SshClientsAssumption DEF SftpOpened, ClientsInv, ClientsTypeOK
  <1>6. ClientsTypeOK' /\ TableInRange'
    <2>1. ClientsTypeOK'
      BY <1>1, <1>3, <1>4, <1>5 DEF ClientsInv, ClientsTypeOK, ClientStages
    <2>2. \A j \in SshKeys : activeClient'[j] \in 0..made'
      <3>1. \A j \in SshKeys : j = k \/ j \in SshKeys \ {k}
        OBVIOUS
      <3>2. activeClient'[k] \in 0..made'
        BY <1>1, <1>4, <1>5
      <3>3. \A j \in SshKeys \ {k} : activeClient'[j] \in 0..made'
        BY <1>1, <1>5 DEF ClientsInv, TableInRange
      <3>4. QED
        BY <3>1, <3>2, <3>3
    <2>3. QED
      BY <2>1, <2>2 DEF TableInRange
  <1>7. \A j \in SshKeys \ {k} : activeClient[j] # NoClient =>
          activeClient[j] # c /\ activeClient[j] \in DOMAIN client
    BY <1>0, <1>4 DEF ClientsInv, TableInRange, ClientsAreCached, NoClient
  <1>8. \A d \in DOMAIN client : d # c /\ client[d].key = k /\ client[d].stage = "open"
          => client[d].overlapped
    BY <1>0, <1>1 DEF ClientsInv, OverlapsMarked, LivesWith, Alive
  <1>9. \A d \in DOMAIN client : client[d].key \in SshKeys
    BY DEF ClientsInv, ClientsTypeOK
  <1>10. ClientsAreCached'
    <2>1. \A j \in SshKeys : activeClient'[j] # NoClient =>
            /\ client'[activeClient'[j]].key = j
            /\ client'[activeClient'[j]].stage = "open"
      <3>1. client'[activeClient'[k]].key = k /\ client'[activeClient'[k]].stage = "open"
        BY <1>0, <1>3, <1>5
      <3>2. \A j \in SshKeys \ {k} : activeClient'[j] # NoClient =>
              /\ client'[activeClient'[j]].key = j
              /\ client'[activeClient'[j]].stage = "open"
        BY <1>3, <1>5, <1>7 DEF ClientsInv, ClientsAreCached
      <3>3. QED
        BY <3>1, <3>2
    <2>2. \A d \in DOMAIN client' : client'[d].stage = "open" =>
            client'[d].overlapped \/ activeClient'[client'[d].key] = d
      <3>1. \A d \in DOMAIN client : d # c /\ client[d].key # k /\ client[d].stage = "open"
              => client[d].overlapped \/ activeClient'[client[d].key] = d
        BY <1>5, <1>9 DEF ClientsInv, ClientsAreCached
      <3>2. QED
        BY <1>0, <1>3, <1>5, <1>8, <3>1
    <2>3. QED
      BY <2>1, <2>2 DEF ClientsAreCached
  <1>11. QED
    BY <1>2, <1>6, <1>10 DEF ClientsInv

\* error and end: the connection's entry is cleared, whoever is in it.
LEMMA ForgottenInv ==
  ASSUME ClientsInv, NEW c \in DOMAIN client, ClientFails(c) \/ ClientEnds(c)
  PROVE  ClientsInv'
  <1>0. PICK k : k = client[c].key
    OBVIOUS
  <1>1. PICK stage \in ClientStages \ {"open"} : client' = Staged(c, stage)
    BY DEF ClientFails, ClientEnds, ClientStages, Alive
  <1>2. /\ client[c].stage \in Alive /\ made' = made
        /\ activeClient' = [activeClient EXCEPT ![k] = NoClient]
    BY <1>0 DEF ClientFails, ClientEnds, Alive, Forgotten
  <1>3. OverlapsMarked'
    BY <1>1, <1>2, StagedKeepsMarks DEF ClientsInv
  <1>4. /\ client' \in [1..made -> [key : SshKeys, stage : ClientStages, overlapped : BOOLEAN]]
        /\ DOMAIN client' = DOMAIN client
        /\ client'[c].stage = stage
        /\ \A d \in DOMAIN client : /\ client'[d].key = client[d].key
                                    /\ client'[d].overlapped = client[d].overlapped
                                    /\ d # c => client'[d] = client[d]
    BY <1>1, StagedClients DEF ClientsInv
  <1>5. k \in SshKeys /\ made \in Nat /\ DOMAIN client = 1..made
    BY <1>0 DEF ClientsInv, ClientsTypeOK
  <1>6. /\ activeClient'[k] = NoClient
        /\ \A j \in SshKeys \ {k} : activeClient'[j] = activeClient[j]
        /\ activeClient' \in [SshKeys -> 0..MaxClients]
    BY <1>2, <1>5, SshClientsAssumption DEF ClientsInv, ClientsTypeOK, NoClient
  <1>7. ClientsTypeOK' /\ TableInRange'
    <2>1. ClientsTypeOK'
      BY <1>2, <1>4, <1>5, <1>6 DEF ClientsInv, ClientsTypeOK, ClientStages
    <2>2. \A j \in SshKeys : activeClient'[j] \in 0..made'
      BY <1>2, <1>4, <1>5, <1>6 DEF ClientsInv, TableInRange, NoClient
    <2>3. QED
      BY <2>1, <2>2 DEF TableInRange
  <1>8. \A j \in SshKeys \ {k} : activeClient[j] # NoClient =>
          activeClient[j] # c /\ activeClient[j] \in DOMAIN client
    BY <1>0, <1>5 DEF ClientsInv, TableInRange, ClientsAreCached, NoClient
  <1>9. \A d \in DOMAIN client : d # c /\ client[d].key = k /\ client[d].stage = "open"
          => client[d].overlapped
    BY <1>0, <1>2 DEF ClientsInv, OverlapsMarked, LivesWith, Alive
  <1>10. \A d \in DOMAIN client : client[d].key \in SshKeys
    BY DEF ClientsInv, ClientsTypeOK
  <1>11. ClientsAreCached'
    <2>1. \A j \in SshKeys : activeClient'[j] # NoClient =>
            /\ client'[activeClient'[j]].key = j
            /\ client'[activeClient'[j]].stage = "open"
      BY <1>1, <1>4, <1>5, <1>6, <1>8, <1>9, <1>10 DEF ClientsInv, ClientsAreCached
    <2>2. \A d \in DOMAIN client' : client'[d].stage = "open" =>
            client'[d].overlapped \/ activeClient'[client'[d].key] = d
      BY <1>1, <1>4, <1>5, <1>6, <1>8, <1>9, <1>10 DEF ClientsInv, ClientsAreCached
    <2>3. QED
      BY <2>1, <2>2 DEF ClientsAreCached
  <1>12. QED
    BY <1>3, <1>7, <1>11 DEF ClientsInv

\* closeSSH: the client in the table is told to end and leaves it.
LEMMA CloseSshInv ==
  ASSUME ClientsInv, NEW k \in SshKeys, CloseSsh(k)
  PROVE  ClientsInv'
  <1>0. PICK c : c = activeClient[k]
    OBVIOUS
  <1>1. /\ c \in DOMAIN client /\ client[c].key = k /\ client[c].stage = "open"
        /\ made \in Nat /\ DOMAIN client = 1..made
    BY <1>0 DEF CloseSsh, ClientsInv, TableInRange, ClientsAreCached, ClientsTypeOK, NoClient
  <1>2. /\ client' = Staged(c, "ending") /\ made' = made
        /\ "ending" \in ClientStages /\ client[c].stage \in Alive
    BY <1>0, <1>1 DEF CloseSsh, ClientStages, Alive
  <1>3. OverlapsMarked'
    BY <1>1, <1>2, StagedKeepsMarks DEF ClientsInv
  <1>4. /\ client' \in [1..made -> [key : SshKeys, stage : ClientStages, overlapped : BOOLEAN]]
        /\ DOMAIN client' = DOMAIN client
        /\ client'[c].stage = "ending"
        /\ \A d \in DOMAIN client : /\ client'[d].key = client[d].key
                                    /\ client'[d].overlapped = client[d].overlapped
                                    /\ d # c => client'[d] = client[d]
    BY <1>1, <1>2, StagedClients DEF ClientsInv
  <1>5. /\ activeClient'[k] = NoClient
        /\ \A j \in SshKeys \ {k} : activeClient'[j] = activeClient[j]
        /\ activeClient' \in [SshKeys -> 0..MaxClients]
    BY <1>0, SshClientsAssumption DEF CloseSsh, ClientsInv, ClientsTypeOK, NoClient
  <1>6. ClientsTypeOK' /\ TableInRange'
    <2>1. ClientsTypeOK'
      BY <1>1, <1>2, <1>4, <1>5 DEF ClientsInv, ClientsTypeOK, ClientStages
    <2>2. \A j \in SshKeys : activeClient'[j] \in 0..made'
      BY <1>1, <1>2, <1>4, <1>5 DEF ClientsInv, TableInRange, NoClient
    <2>3. QED
      BY <2>1, <2>2 DEF TableInRange
  <1>7. \A j \in SshKeys \ {k} : activeClient[j] # NoClient =>
          activeClient[j] # c /\ activeClient[j] \in DOMAIN client
    BY <1>0, <1>1 DEF ClientsInv, TableInRange, ClientsAreCached, NoClient
  <1>8. \A d \in DOMAIN client : d # c /\ client[d].key = k /\ client[d].stage = "open"
          => client[d].overlapped
    BY <1>0 DEF ClientsInv, ClientsAreCached
  <1>9. \A d \in DOMAIN client : client[d].key \in SshKeys
    BY DEF ClientsInv, ClientsTypeOK
  <1>10. ClientsAreCached'
    <2>1. \A j \in SshKeys : activeClient'[j] # NoClient =>
            /\ client'[activeClient'[j]].key = j
            /\ client'[activeClient'[j]].stage = "open"
      BY <1>4, <1>5, <1>7, <1>8, <1>9 DEF ClientsInv, ClientsAreCached
    <2>2. \A d \in DOMAIN client' : client'[d].stage = "open" =>
            client'[d].overlapped \/ activeClient'[client'[d].key] = d
      BY <1>4, <1>5, <1>7, <1>8, <1>9 DEF ClientsInv, ClientsAreCached
    <2>3. QED
      BY <2>1, <2>2 DEF ClientsAreCached
  <1>11. QED
    BY <1>3, <1>6, <1>10 DEF ClientsInv

\* Every step of ClientManager keeps the table of clients right.
LEMMA ClientsStepInv ==
  ASSUME ClientsInv, [ClientsNext]_clientVars
  PROVE  ClientsInv'
  <1>1. CASE UNCHANGED clientVars
    BY <1>1 DEF clientVars, ClientsInv, ClientsTypeOK, TableInRange, OverlapsMarked, LivesWith,
                ClientsAreCached
  <1>2. ASSUME NEW k \in SshKeys, MakeClient(k) \/ CloseSsh(k)
        PROVE  ClientsInv'
    BY <1>2, MakeClientInv, CloseSshInv
  <1>3. ASSUME NEW c \in DOMAIN client,
               ClientReady(c) \/ SftpOpened(c) \/ SftpRefused(c) \/ ClientFails(c) \/ ClientEnds(c)
        PROVE  ClientsInv'
    BY <1>3, BeforeOpenInv, SftpOpenedInv, ForgottenInv
  <1>4. QED
    BY <1>1, <1>2, <1>3 DEF ClientsNext

-----------------------------------------------------------------------------
\* The variables of the table and of the clients keep their types
\* (ClientManager.activeClient).
THEOREM ClientsTypeCorrect == ClientsSpec => []ClientsTypeOK
  <1>1. ClientsInv /\ [ClientsNext]_clientVars => ClientsInv'
    BY ClientsStepInv
  <1>2. ClientsInv => ClientsTypeOK
    BY DEF ClientsInv
  <1>3. QED
    BY InitClients, <1>1, <1>2, PTL DEF ClientsSpec

\* For every set of connections and every number of clients: the table of
\* clients holds open ones only, and an open client that was never alive beside
\* another of its connection is in it, so that closeSSH can end it (getSSH,
\* closeSSH and the handlers of "error" and "end").
THEOREM ClientsStayCached == ClientsSpec => []ClientsAreCached
  <1>1. ClientsInv /\ [ClientsNext]_clientVars => ClientsInv'
    BY ClientsStepInv
  <1>2. ClientsInv => ClientsAreCached
    BY DEF ClientsInv
  <1>3. QED
    BY InitClients, <1>1, <1>2, PTL DEF ClientsSpec

-----------------------------------------------------------------------------
(* The inductive invariant.  SinglePage speaks of pages whose html has     *)
(* been read; until then the handlers of a page are those of the calls     *)
(* that came after the one that made it.                                   *)

PageStages   == {"none", "reading", "unread", "shown"}
Outcomes == {"pending", "resolved", "rejected", "never"}

PageRecord ==
  [stage : PageStages, type : ViewTypes, open : BOOLEAN, visible : BOOLEAN,
   creating : BOOLEAN, handlers : Seq(ViewCalls), joined : BOOLEAN]

PagesTyped ==
  /\ viewStatu \in [ViewTypes -> 0..MaxViewCalls]
  /\ newest \in [ViewTypes -> 0..MaxViewCalls]
  /\ answer \in Seq(Outcomes)
  /\ page \in Seq(PageRecord)
  /\ Len(page) = Len(answer)
  /\ Len(answer) <= MaxViewCalls

\* What the table names is a page of its type.
TableNamesPages ==
  \A t \in ViewTypes : viewStatu[t] # NoPage =>
    viewStatu[t] \in DOMAIN page /\ page[viewStatu[t]].type = t

\* The handlers a page has before and after its html is read
HandlersSoFar(c) ==
  LET p == page[c]
      n == newest[p.type]
  IN /\ p.stage = "reading" => IF p.joined THEN p.handlers = <<n>>
                               ELSE p.handlers = <<>> /\ n = c
     /\ p.stage = "shown" => IF p.joined THEN p.handlers[1] = n /\ Len(p.handlers) > 0
                             ELSE p.handlers = <<n>>

OpenPage(c) == page[c].open =>
                 /\ viewStatu[page[c].type] = c
                 /\ page[c].stage # "none"
                 /\ HandlersSoFar(c)

PagesInv == PagesTyped /\ TableNamesPages /\ \A c \in DOMAIN page : OpenPage(c)

-----------------------------------------------------------------------------
\* A page put behind the others leaves them where they are.
LEMMA AppendedPage ==
  ASSUME NEW S, NEW s \in Seq(S), NEW x \in S
  PROVE  /\ Append(s, x) \in Seq(S)
         /\ Len(Append(s, x)) = Len(s) + 1
         /\ DOMAIN Append(s, x) = 1..(Len(s) + 1)
         /\ DOMAIN s = 1..Len(s) /\ Len(s) \in Nat
         /\ Append(s, x)[Len(s) + 1] = x
         /\ \A i \in 1..Len(s) : Append(s, x)[i] = s[i]
  OBVIOUS

\* The invariant gives the types that the run checks and the property.
LEMMA PagesInvImplies == PagesInv => ViewsTypeOK /\ SinglePage
  <1> SUFFICES ASSUME PagesInv PROVE ViewsTypeOK /\ SinglePage
    OBVIOUS
  <1>1. \A c \in DOMAIN page : page[c] \in PageRecord
    BY DEF PagesInv, PagesTyped
  <1>2. DOMAIN page = DOMAIN answer
    BY DEF PagesInv, PagesTyped
  <1>3. ViewsTypeOK
    BY <1>1, <1>2 DEF PagesInv, PagesTyped, ViewsTypeOK, PageRecord, PageStages, Outcomes
  <1>4. SinglePage
    BY <1>1 DEF PagesInv, OpenPage, HandlersSoFar, SinglePage, TypeOfPage
  <1>5. QED
    BY <1>3, <1>4

\* No page is open yet.
LEMMA InitPages == ViewsInit => PagesInv
  BY ExtensionViewsAssumption
  DEF ViewsInit, PagesInv, PagesTyped, TableNamesPages, NoPage

-----------------------------------------------------------------------------
(* The calls.                                                              *)

\* A call gets the next number and is the newest for its type.
LEMMA CalledTypes ==
  ASSUME PagesInv, NEW t \in ViewTypes, NEW outcome \in Outcomes, Called(t, outcome)
  PROVE  /\ Call \in 1..MaxViewCalls /\ Call = Len(page) + 1
         /\ DOMAIN page = 1..Len(page) /\ Len(page) \in Nat
         /\ answer' \in Seq(Outcomes) /\ Len(answer') = Call
         /\ newest' \in [ViewTypes -> 0..MaxViewCalls]
         /\ newest'[t] = Call
         /\ \A u \in ViewTypes \ {t} : newest'[u] = newest[u]
  <1>1. /\ Call = Len(answer) + 1 /\ Len(page) = Len(answer)
        /\ answer \in Seq(Outcomes) /\ page \in Seq(PageRecord)
        /\ newest \in [ViewTypes -> 0..MaxViewCalls]
    BY DEF PagesInv, PagesTyped, Call
  <1>2. Call \in 1..MaxViewCalls
    BY DEF Called, ViewCalls
  <1>3. DOMAIN page = 1..Len(page) /\ Len(page) \in Nat
    BY <1>1
  <1>4. answer' \in Seq(Outcomes) /\ Len(answer') = Call
    BY <1>1, AppendedPage DEF Called
  <1>5. /\ newest' \in [ViewTypes -> 0..MaxViewCalls]
        /\ newest'[t] = Call
        /\ \A u \in ViewTypes \ {t} : newest'[u] = newest[u]
    <2>1. newest' = [newest EXCEPT ![t] = Call] /\ Call \in 0..MaxViewCalls
      BY <1>2, ExtensionViewsAssumption DEF Called
    <2> HIDE DEF Call
    <2>2. QED
      BY <1>1, <2>1
  <1>6. QED
    BY <1>1, <1>2, <1>3, <1>4, <1>5

\* A new page takes the place of the one of its type, which is disposed.
LEMMA MakePageInv ==
  ASSUME PagesInv, NEW t \in ViewTypes, NEW second \in BOOLEAN, MakePage(t, second)
  PROVE  PagesInv'
  <1> DEFINE kept == [c \in DOMAIN page |->
                        IF c = Status(t) THEN [page[c] EXCEPT !.open = FALSE] ELSE page[c]]
  <1>0. PICK n : n = Call
    OBVIOUS
  <1>1. /\ n \in 1..MaxViewCalls /\ n = Len(page) + 1
        /\ DOMAIN page = 1..Len(page) /\ Len(page) \in Nat
        /\ answer' \in Seq(Outcomes) /\ Len(answer') = n
        /\ newest' \in [ViewTypes -> 0..MaxViewCalls]
        /\ newest'[t] = n
        /\ \A u \in ViewTypes \ {t} : newest'[u] = newest[u]
    BY <1>0, CalledTypes DEF MakePage, Outcomes
  <1>2. /\ page' = Append(kept, MadePage(t)) /\ viewStatu' = [viewStatu EXCEPT ![t] = n]
        /\ Status(t) = viewStatu[t]
    BY <1>0 DEF MakePage, Status
  <1>3. \A c \in DOMAIN page : page[c] \in PageRecord
    BY DEF PagesInv, PagesTyped
  <1>4. kept \in Seq(PageRecord) /\ Len(kept) = Len(page)
    <2>1. \A c \in 1..Len(page) : kept[c] \in PageRecord
      BY <1>1, <1>3 DEF PageRecord
    <2>2. kept \in [1..Len(page) -> PageRecord]
      BY <1>1, <2>1
    <2> HIDE DEF kept
    <2>3. QED
      BY <1>1, <2>2
  <1>5. MadePage(t) \in PageRecord
    BY DEF MadePage, PageRecord, PageStages
  <1>6. /\ page' \in Seq(PageRecord) /\ Len(page') = n /\ DOMAIN page' = 1..n
        /\ page'[n] = MadePage(t)
        /\ \A c \in 1..Len(page) : page'[c] = kept[c]
    <2> HIDE DEF kept
    <2>1. QED
      BY <1>1, <1>2, <1>4, <1>5, AppendedPage
  <1>7. /\ viewStatu' \in [ViewTypes -> 0..MaxViewCalls] /\ viewStatu'[t] = n
        /\ \A u \in ViewTypes \ {t} : viewStatu'[u] = viewStatu[u]
    BY <1>1, <1>2, ExtensionViewsAssumption DEF PagesInv, PagesTyped
  <1>8. \A c \in 1..Len(page) :
          /\ page'[c].type = page[c].type /\ page[c].type \in ViewTypes
          /\ page'[c].open => page'[c] = page[c] /\ c # viewStatu[t]
    BY <1>1, <1>2, <1>3, <1>6 DEF PageRecord
  <1>9. PagesTyped'
    BY <1>1, <1>6, <1>7 DEF PagesTyped
  <1>10. TableNamesPages'
    <2>1. page'[n].type = t /\ n \in DOMAIN page'
      BY <1>1, <1>6 DEF MadePage
    <2>2. \A u \in ViewTypes \ {t} : viewStatu'[u] # NoPage =>
            viewStatu'[u] \in DOMAIN page' /\ page'[viewStatu'[u]].type = u
      BY <1>1, <1>6, <1>7, <1>8 DEF PagesInv, TableNamesPages
    <2>3. QED
      BY <1>7, <2>1, <2>2 DEF TableNamesPages
  <1>11. OpenPage(n)'
    <2>1. /\ page'[n].stage = "reading" /\ page'[n].type = t
          /\ page'[n].handlers = <<>> /\ page'[n].joined = FALSE
      BY <1>6 DEF MadePage
    <2>2. QED
      BY <1>1, <1>7, <2>1 DEF OpenPage, HandlersSoFar
  <1>12. ASSUME NEW c \in 1..Len(page) PROVE OpenPage(c)'
    <2>1. OpenPage(c)
      BY <1>1 DEF PagesInv
    <2>2. page'[c].open => page'[c] = page[c] /\ page[c].type \in ViewTypes \ {t}
      BY <1>8, <2>1 DEF OpenPage
    <2>3. QED
      BY <1>1, <1>7, <2>1, <2>2 DEF OpenPage, HandlersSoFar
  <1>13. \A c \in DOMAIN page' : OpenPage(c)'
    <2>1. \A c \in DOMAIN page' : c = n \/ c \in 1..Len(page)
      BY <1>1, <1>6
    <2>2. QED
      BY <1>11, <1>12, <2>1
  <1>14. QED
    BY <1>9, <1>10, <1>13 DEF PagesInv

\* A call that makes no page takes a number; a page of another type keeps its
\* newest call.
LEMMA NoPageMade ==
  ASSUME PagesInv, NEW t \in ViewTypes, NEW outcome \in Outcomes, Called(t, outcome),
         NEW kept \in Seq(PageRecord), Len(kept) = Len(page),
         page' = Append(kept, NotMade(t)), UNCHANGED viewStatu,
         \A c \in DOMAIN page : kept[c].type = page[c].type,
         \A c \in DOMAIN page : c # viewStatu[t] => kept[c] = page[c],
         viewStatu[t] # NoPage => OpenPage(viewStatu[t])'
  PROVE  PagesInv'
  <1>0. PICK n : n = Call
    OBVIOUS
  <1>1. /\ n \in 1..MaxViewCalls /\ n = Len(page) + 1
        /\ DOMAIN page = 1..Len(page) /\ Len(page) \in Nat
        /\ answer' \in Seq(Outcomes) /\ Len(answer') = n
        /\ newest' \in [ViewTypes -> 0..MaxViewCalls]
        /\ \A u \in ViewTypes \ {t} : newest'[u] = newest[u]
    BY <1>0, CalledTypes
  <1>2. NotMade(t) \in PageRecord /\ ~NotMade(t).open
    BY DEF NotMade, PageRecord, PageStages
  <1>3. /\ page' \in Seq(PageRecord) /\ Len(page') = n /\ DOMAIN page' = 1..n
        /\ page'[n] = NotMade(t)
        /\ \A c \in 1..Len(page) : page'[c] = kept[c]
    BY <1>1, <1>2, AppendedPage
  <1>4. PagesTyped'
    BY <1>1, <1>3 DEF PagesInv, PagesTyped
  <1>5. TableNamesPages'
    BY <1>1, <1>3 DEF PagesInv, TableNamesPages
  <1>6. OpenPage(n)'
    BY <1>2, <1>3 DEF OpenPage
  <1>7. ASSUME NEW c \in 1..Len(page) PROVE OpenPage(c)'
    <2>1. CASE c = viewStatu[t]
      <3>1. viewStatu[t] # NoPage
        BY <2>1 DEF NoPage
      <3>2. QED
        BY <2>1, <3>1
    <2>2. CASE c # viewStatu[t]
      <3>1. OpenPage(c) /\ page[c] \in PageRecord /\ page'[c] = page[c]
        <4>1. c \in DOMAIN page
          BY <1>1
        <4>2. page'[c] = page[c]
          BY <1>3, <2>2, <4>1
        <4>3. QED
          BY <4>1, <4>2 DEF PagesInv, PagesTyped
      <3>2. page[c].open => page[c].type \in ViewTypes \ {t}
        BY <2>2, <3>1 DEF OpenPage, PageRecord
      <3>3. QED
        BY <1>1, <3>1, <3>2 DEF OpenPage, HandlersSoFar
    <2>3. QED
      BY <2>1, <2>2
  <1>8. \A c \in DOMAIN page' : OpenPage(c)'
    <2>1. \A c \in DOMAIN page' : c = n \/ c \in 1..Len(page)
      BY <1>1, <1>3
    <2>2. QED
      BY <1>6, <1>7, <2>1
  <1>9. QED
    BY <1>4, <1>5, <1>8 DEF PagesInv

\* The handler of the call takes the place of those there were.
LEMMA ReusePageInv ==
  ASSUME PagesInv, NEW t \in ViewTypes, NEW second \in BOOLEAN, ReusePage(t, second)
  PROVE  PagesInv'
  <1>0. PICK n, s, r :
          /\ n = Call /\ s = Status(t)
          /\ r = [page[s] EXCEPT !.visible = TRUE, !.handlers = <<n>>,
                     !.joined = page[s].joined \/ page[s].stage = "reading"]
    OBVIOUS
  <1> DEFINE kept == [page EXCEPT ![s] = r]
  <1>1. /\ s = viewStatu[t] /\ s # NoPage /\ page[s].open /\ Called(t, "never")
        /\ UNCHANGED viewStatu /\ "never" \in Outcomes
    BY <1>0 DEF ReusePage, Status, Outcomes
  <1>2. s \in DOMAIN page /\ page[s].type = t /\ OpenPage(s)
    BY <1>1 DEF PagesInv, TableNamesPages
  <1>3. /\ n \in 1..MaxViewCalls /\ n = Len(page) + 1 /\ newest'[t] = n
        /\ DOMAIN page = 1..Len(page) /\ Len(page) \in Nat
    BY <1>0, <1>1, CalledTypes
  <1>4. page' = Append(kept, NotMade(t))
    BY <1>0 DEF ReusePage, Reused, HandledBy
  <1>5. /\ page[s] \in PageRecord /\ r \in PageRecord
        /\ r.type = t /\ r.open = page[s].open /\ r.stage = page[s].stage
        /\ r.handlers = <<n>>
        /\ r.joined = (page[s].joined \/ page[s].stage = "reading")
    <2>1. page[s] \in PageRecord
      BY <1>2 DEF PagesInv, PagesTyped
    <2>2. <<n>> \in Seq(ViewCalls)
      BY <1>3 DEF ViewCalls
    <2>3. QED
      BY <1>0, <1>2, <2>1, <2>2 DEF PageRecord
  <1>6. kept \in Seq(PageRecord) /\ Len(kept) = Len(page)
    <2>1. page \in Seq(PageRecord)
      BY DEF PagesInv, PagesTyped
    <2>2. QED
      BY <1>2, <1>5, <2>1
  <1>7. /\ kept[s] = r
        /\ \A c \in DOMAIN page : c # s => kept[c] = page[c]
    BY <1>2
  <1> HIDE DEF kept
  <1>8. OpenPage(s)'
    <2>1. page'[s] = r
      <3>1. NotMade(t) \in PageRecord
        BY DEF NotMade, PageRecord, PageStages
      <3>2. \A c \in 1..Len(page) : page'[c] = kept[c]
        BY <1>4, <1>6, <3>1, AppendedPage
      <3>3. QED
        BY <1>2, <1>3, <1>7, <3>2
    <2>2. page[s].stage # "none"
      BY <1>1, <1>2 DEF OpenPage
    <2>3. HandlersSoFar(s)'
      <3>1. page'[s].handlers = <<newest'[page'[s].type]>>
        BY <1>3, <1>5, <2>1
      <3>2. page'[s].handlers[1] = newest'[page'[s].type] /\ Len(page'[s].handlers) > 0
        BY <3>1
      <3>3. page'[s].stage = "reading" => page'[s].joined
        BY <1>5, <2>1
      <3>4. QED
        BY <3>1, <3>2, <3>3 DEF HandlersSoFar
    <2>4. QED
      BY <1>1, <1>5, <2>1, <2>2, <2>3 DEF OpenPage
  <1>9. \A c \in DOMAIN page : kept[c].type = page[c].type
    BY <1>2, <1>5, <1>7
  <1>10. QED
    BY <1>1, <1>4, <1>6, <1>7, <1>8, <1>9, NoPageMade

\* No page of the type is open.
LEMMA AskDisposedPageInv ==
  ASSUME PagesInv, NEW t \in ViewTypes, AskDisposedPage(t)
  PROVE  PagesInv'
  <1>1. /\ viewStatu[t] # NoPage /\ ~page[viewStatu[t]].open /\ Called(t, "rejected")
        /\ page' = Append(page, NotMade(t)) /\ UNCHANGED viewStatu
        /\ "rejected" \in Outcomes
    BY DEF AskDisposedPage, Status, Outcomes
  <1>2. viewStatu[t] \in DOMAIN page /\ page \in Seq(PageRecord)
    BY <1>1 DEF PagesInv, TableNamesPages, PagesTyped
  <1>3. page'[viewStatu[t]] = page[viewStatu[t]]
    <2>1. NotMade(t) \in PageRecord
      BY DEF NotMade, PageRecord, PageStages
    <2>2. QED
      BY <1>1, <1>2, <2>1, AppendedPage
  <1>4. OpenPage(viewStatu[t])'
    BY <1>1, <1>3 DEF OpenPage
  <1>5. QED
    BY <1>1, <1>2, <1>4, NoPageMade

-----------------------------------------------------------------------------
(* What becomes of a page.                                                 *)

\* A page that changes keeps its place.
LEMMA ChangedPage ==
  ASSUME PagesTyped, NEW c \in DOMAIN page, NEW r \in PageRecord,
         page' = [page EXCEPT ![c] = r]
  PROVE  /\ page' \in Seq(PageRecord) /\ Len(page') = Len(page)
         /\ DOMAIN page' = DOMAIN page
         /\ page'[c] = r
         /\ \A d \in DOMAIN page : d # c => page'[d] = page[d]
  BY DEF PagesTyped

\* The step of one page disturbs no other if its type stays and the table does.
LEMMA OnePageInv ==
  ASSUME PagesInv, NEW c \in DOMAIN page, NEW r \in PageRecord,
         page' = [page EXCEPT ![c] = r], r.type = page[c].type,
         answer' \in Seq(Outcomes), Len(answer') = Len(answer),
         UNCHANGED <<viewStatu, newest>>, OpenPage(c)'
  PROVE  PagesInv'
  <1>1. /\ page' \in Seq(PageRecord) /\ Len(page') = Len(page)
        /\ DOMAIN page' = DOMAIN page
        /\ page'[c] = r
        /\ \A d \in DOMAIN page : d # c => page'[d] = page[d]
    BY ChangedPage DEF PagesInv
  <1>2. PagesTyped'
    BY <1>1 DEF PagesInv, PagesTyped
  <1>3. TableNamesPages'
    BY <1>1 DEF PagesInv, TableNamesPages
  <1>4. \A d \in DOMAIN page : d # c => OpenPage(d)'
    BY <1>1 DEF PagesInv, OpenPage, HandlersSoFar
  <1>5. QED
    BY <1>1, <1>2, <1>3, <1>4 DEF PagesInv

\* One outcome changes.
LEMMA ChangedAnswer ==
  ASSUME PagesInv, NEW c \in DOMAIN page, NEW outcome \in Outcomes,
         answer' = [answer EXCEPT ![c] = outcome]
  PROVE  answer' \in Seq(Outcomes) /\ Len(answer') = Len(answer)
  BY DEF PagesInv, PagesTyped

\* The html of a page is read, and the page shows it.
LEMMA HtmlReadInv ==
  ASSUME PagesInv, NEW c \in DOMAIN page, HtmlRead(c)
  PROVE  PagesInv'
  <1> DEFINE p == page[c]
  <1>1. /\ p \in PageRecord /\ OpenPage(c) /\ p.stage = "reading"
        /\ c \in ViewCalls /\ UNCHANGED <<viewStatu, newest>>
    <2>1. page \in Seq(PageRecord) /\ Len(page) <= MaxViewCalls /\ OpenPage(c)
      BY DEF PagesInv, PagesTyped
    <2>2. p \in PageRecord /\ c \in ViewCalls
      BY <2>1, ExtensionViewsAssumption DEF ViewCalls
    <2>3. QED
      BY <2>1, <2>2 DEF HtmlRead
  <1>2. CASE p.open
    <2>1. PICK r : r = [p EXCEPT !.stage = "shown", !.handlers = Append(p.handlers, c)]
      OBVIOUS
    <2>2. page' = [page EXCEPT ![c] = r] /\ answer' = [answer EXCEPT ![c] = "resolved"]
      BY <1>2, <2>1 DEF HtmlRead
    <2>3. /\ r \in PageRecord /\ r.type = p.type /\ r.stage = "shown"
          /\ r.joined = p.joined /\ r.handlers = Append(p.handlers, c) /\ r.open = p.open
      <3>1. p.handlers \in Seq(ViewCalls)
        BY <1>1 DEF PageRecord
      <3>2. Append(p.handlers, c) \in Seq(ViewCalls)
        BY <1>1, <3>1
      <3>3. QED
        BY <1>1, <2>1, <3>2 DEF PageRecord, PageStages
    <2>4. page'[c] = r
      BY <2>2, <2>3, ChangedPage DEF PagesInv
    <2>5. IF p.joined THEN r.handlers[1] = newest[p.type] /\ Len(r.handlers) > 0
          ELSE r.handlers = <<newest[p.type]>>
      <3>1. IF p.joined THEN p.handlers = <<newest[p.type]>>
            ELSE p.handlers = <<>> /\ newest[p.type] = c
        BY <1>1, <1>2 DEF OpenPage, HandlersSoFar
      <3>2. \A m : Append(<<m>>, c)[1] = m /\ Len(Append(<<m>>, c)) > 0
        OBVIOUS
      <3>3. Append(<<>>, c) = <<c>>
        OBVIOUS
      <3>4. QED
        BY <2>3, <3>1, <3>2, <3>3
    <2>6. OpenPage(c)'
      BY <1>1, <1>2, <2>3, <2>4, <2>5 DEF OpenPage, HandlersSoFar
    <2>7. answer' \in Seq(Outcomes) /\ Len(answer') = Len(answer)
      BY <2>2, ChangedAnswer DEF Outcomes
    <2>8. QED
      BY <1>1, <2>2, <2>3, <2>6, <2>7, OnePageInv
  <1>3. CASE ~p.open
    <2>1. PICK r : r = [p EXCEPT !.stage = "unread"]
      OBVIOUS
    <2>2. page' = [page EXCEPT ![c] = r] /\ answer' = [answer EXCEPT ![c] = "never"]
      BY <1>3, <2>1 DEF HtmlRead
    <2>3. r \in PageRecord /\ r.type = p.type /\ ~r.open
      BY <1>1, <1>3, <2>1 DEF PageRecord, PageStages
    <2>4. OpenPage(c)'
      BY <2>2, <2>3, ChangedPage DEF OpenPage, PagesInv
    <2>5. answer' \in Seq(Outcomes) /\ Len(answer') = Len(answer)
      BY <2>2, ChangedAnswer DEF Outcomes
    <2>6. QED
      BY <1>1, <2>2, <2>3, <2>4, <2>5, OnePageInv
  <1>4. QED
    BY <1>2, <1>3

\* The html cannot be read, and its page stays as it is.
LEMMA HtmlUnreadInv ==
  ASSUME PagesInv, NEW c \in DOMAIN page, HtmlUnread(c)
  PROVE  PagesInv'
  <1>1. PICK r : r = [page[c] EXCEPT !.stage = "unread"]
    OBVIOUS
  <1>2. /\ page' = [page EXCEPT ![c] = r] /\ answer' = [answer EXCEPT ![c] = "rejected"]
        /\ UNCHANGED <<viewStatu, newest>>
    BY <1>1 DEF HtmlUnread
  <1>3. page[c] \in PageRecord /\ OpenPage(c)
    BY DEF PagesInv, PagesTyped
  <1>4. r \in PageRecord /\ r.type = page[c].type /\ r.open = page[c].open /\ r.stage = "unread"
    BY <1>1, <1>3 DEF PageRecord, PageStages
  <1>5. OpenPage(c)'
    BY <1>2, <1>3, <1>4, ChangedPage DEF OpenPage, HandlersSoFar, PagesInv
  <1>6. answer' \in Seq(Outcomes) /\ Len(answer') = Len(answer)
    BY <1>2, ChangedAnswer DEF Outcomes
  <1>7. QED
    BY <1>2, <1>4, <1>5, <1>6, OnePageInv

\* The first init, and hiding or showing: neither is read by the invariant.
LEMMA ShowingInv ==
  ASSUME PagesInv, NEW c \in DOMAIN page, PageStarts(c) \/ HideOrShow(c)
  PROVE  PagesInv'
  <1>1. page[c] \in PageRecord /\ OpenPage(c)
    BY DEF PagesInv, PagesTyped
  <1>2. PICK r \in PageRecord :
          /\ page' = [page EXCEPT ![c] = r]
          /\ r.type = page[c].type /\ r.open = page[c].open /\ r.stage = page[c].stage
          /\ r.joined = page[c].joined /\ r.handlers = page[c].handlers
    <2>1. CASE PageStarts(c)
      <3>1. PICK r : r = [page[c] EXCEPT !.creating = FALSE]
        OBVIOUS
      <3>2. r \in PageRecord /\ page' = [page EXCEPT ![c] = r]
        BY <1>1, <2>1, <3>1 DEF PageStarts, PageRecord
      <3>3. QED
        BY <1>1, <3>1, <3>2 DEF PageRecord
    <2>2. CASE HideOrShow(c)
      <3>1. PICK r : r = [page[c] EXCEPT !.visible = ~@]
        OBVIOUS
      <3>2. r \in PageRecord /\ page' = [page EXCEPT ![c] = r]
        BY <1>1, <2>2, <3>1 DEF HideOrShow, PageRecord
      <3>3. QED
        BY <1>1, <3>1, <3>2 DEF PageRecord
    <2>3. QED
      BY <2>1, <2>2
  <1>3. UNCHANGED <<viewStatu, answer, newest>>
    BY DEF PageStarts, HideOrShow
  <1>4. OpenPage(c)'
    BY <1>1, <1>2, <1>3, ChangedPage DEF OpenPage, HandlersSoFar, PagesInv
  <1>5. QED
    BY <1>2, <1>3, <1>4, OnePageInv DEF PagesInv, PagesTyped

\* The page that was open was the only one of its type.
LEMMA ClosePageInv ==
  ASSUME PagesInv, NEW c \in DOMAIN page, ClosePage(c)
  PROVE  PagesInv'
  <1>1. page[c] \in PageRecord /\ OpenPage(c) /\ page[c].open
    BY DEF PagesInv, PagesTyped, ClosePage
  <1>2. PICK r : r = [page[c] EXCEPT !.open = FALSE]
    OBVIOUS
  <1>3. /\ r \in PageRecord /\ r.type = page[c].type /\ ~r.open
        /\ page' = [page EXCEPT ![c] = r]
        /\ UNCHANGED <<answer, newest>>
    BY <1>1, <1>2 DEF ClosePage, PageRecord
  <1>4. /\ page' \in Seq(PageRecord) /\ Len(page') = Len(page)
        /\ DOMAIN page' = DOMAIN page
        /\ page'[c] = r
        /\ \A d \in DOMAIN page : d # c => page'[d] = page[d]
    BY <1>3, ChangedPage DEF PagesInv
  <1>5. PICK t \in ViewTypes : t = page[c].type
    BY <1>1 DEF PageRecord
  <1>6. /\ viewStatu' \in [ViewTypes -> 0..MaxViewCalls]
        /\ viewStatu'[t] \in {viewStatu[t], NoPage}
        /\ \A u \in ViewTypes \ {t} : viewStatu'[u] = viewStatu[u]
    BY <1>5, ExtensionViewsAssumption DEF ClosePage, TypeOfPage, PagesInv, PagesTyped, NoPage
  <1>7. PagesTyped'
    BY <1>3, <1>4, <1>6 DEF PagesInv, PagesTyped
  <1>8. TableNamesPages'
    <2>1. \A d \in DOMAIN page : page'[d].type = page[d].type
      BY <1>3, <1>4
    <2>2. QED
      BY <1>4, <1>6, <2>1 DEF PagesInv, TableNamesPages
  <1>9. ASSUME NEW d \in DOMAIN page PROVE OpenPage(d)'
    <2>1. CASE d = c
      BY <1>3, <1>4, <2>1 DEF OpenPage
    <2>2. CASE d # c
      <3>1. OpenPage(d) /\ page'[d] = page[d] /\ page[d] \in PageRecord
        BY <1>4, <2>2 DEF PagesInv, PagesTyped
      <3>2. page[d].open => page[d].type \in ViewTypes \ {t}
        BY <1>1, <1>5, <2>2, <3>1 DEF OpenPage, PageRecord
      <3>3. QED
        BY <1>3, <1>6, <3>1, <3>2 DEF OpenPage, HandlersSoFar
    <2>3. QED
      BY <2>1, <2>2
  <1>10. QED
    BY <1>4, <1>7, <1>8, <1>9 DEF PagesInv

\* Every step of ViewManager keeps the pages of a type single.
LEMMA PagesStepInv ==
  ASSUME PagesInv, [ViewsNext]_viewVars
  PROVE  PagesInv'
  <1>1. CASE UNCHANGED viewVars
    BY <1>1 DEF viewVars, PagesInv, PagesTyped, TableNamesPages, OpenPage, HandlersSoFar
  <1>2. ASSUME NEW t \in ViewTypes, NEW second \in BOOLEAN,
               MakePage(t, second) \/ ReusePage(t, second)
        PROVE  PagesInv'
    BY <1>2, MakePageInv, ReusePageInv
  <1>3. ASSUME NEW t \in ViewTypes, AskDisposedPage(t) PROVE PagesInv'
    BY <1>3, AskDisposedPageInv
  <1>4. ASSUME NEW c \in DOMAIN page,
               HtmlRead(c) \/ HtmlUnread(c) \/ PageStarts(c) \/ HideOrShow(c) \/ ClosePage(c)
        PROVE  PagesInv'
    BY <1>4, HtmlReadInv, HtmlUnreadInv, ShowingInv, ClosePageInv
  <1>5. QED
    BY <1>1, <1>2, <1>3, <1>4 DEF ViewsNext

-----------------------------------------------------------------------------
\* The variables of the table and of the pages keep their types
\* (ViewManager.viewStatu).
THEOREM ViewsTypeCorrect == ViewsSpec => []ViewsTypeOK
  <1>1. PagesInv /\ [ViewsNext]_viewVars => PagesInv'
    BY PagesStepInv
  <1>2. QED
    BY InitPages, <1>1, PagesInvImplies, PTL DEF ViewsSpec

\* For every set of types of pages and every number of calls: one page of a
\* type is open, it is the one a later call finds, and what it posts is
\* handled once, by the handler of the newest call (createWebviewPanel,
\* onDidDispose).
THEOREM PagesStaySingle == ViewsSpec => []SinglePage
  <1>1. PagesInv /\ [ViewsNext]_viewVars => PagesInv'
    BY PagesStepInv
  <1>2. QED
    BY InitPages, <1>1, PagesInvImplies, PTL DEF ViewsSpec

-----------------------------------------------------------------------------
(* ConnectionStore.                                                        *)

Option == [shown : BOOLEAN, key : Keys \union {NoValue},
           wasScope : Scopes \union {NoValue}, wasKind : Kinds \union {NoValue},
           scope : Scopes, kind : Kinds, rev : Revs]

SaveRecord == [page : Pages, stage : {"connecting", "left"}, option : Option]

Maps == [Places -> [Keys -> Configs \union {NoValue}]]

\* An option that was stored knows its key and its place.
WasStored(o) == o.wasScope # NoValue => o.wasKind # NoValue /\ o.key # NoValue

StoreTyped ==
  /\ storedAt \in Maps /\ tree \in Maps
  /\ opening \subseteq Places \X Keys \X Configs /\ deleting \subseteq Places \X Keys
  /\ form \in [Pages -> Option]
  /\ \A g \in Pages : WasStored(form[g]) /\ (form[g].wasScope = NoValue => form[g].key = NoValue)
  /\ saves \in [DOMAIN saves -> SaveRecord] /\ DOMAIN saves \subseteq 1..tried
  /\ \A n \in DOMAIN saves : saves[n].option.key \in 1..keys /\ WasStored(saves[n].option)
  /\ tried \in 0..MaxSaves /\ keys \in 0..MaxKeys /\ revs \in Revs
  /\ meant \in [Keys -> Meanings \union {NoValue}]
  /\ crossed \in BOOLEAN

\* A key nobody but the save that made it has
Free(k) ==
  /\ \A p \in Places : storedAt[p][k] = NoValue /\ tree[p][k] = NoValue
  /\ \A r \in opening : r[2] # k
  /\ \A r \in deleting : r[2] # k
  /\ \A g \in Pages : form[g].key # k
  /\ meant[k] = NoValue

KeysAhead == \A k \in Keys : k > keys => Free(k)

\* A save of what was never stored has a key of its own.
FirstSave(n) ==
  saves[n].option.wasScope = NoValue =>
    /\ saves[n].stage = "connecting"
    /\ Free(saves[n].option.key)
    /\ \A m \in DOMAIN saves \ {n} : saves[m].option.key # saves[n].option.key

Leaves(n, k) == saves[n].stage = "left" /\ saves[n].option.key = k
Moving(k)    == \E n \in DOMAIN saves : Leaves(n, k)
MovesOnce    == \A m, n \in DOMAIN saves : \A k \in Keys : Leaves(m, k) /\ Leaves(n, k) => m = n

PlacesOf(k) == {p \in Places : storedAt[p][k] # NoValue}

SavedRight(k) ==
  IF Moving(k) \/ meant[k] = NoValue THEN PlacesOf(k) = {}
  ELSE PlacesOf(k) = {meant[k].place} /\ storedAt[meant[k].place][k] = meant[k].config

StoreSound ==
  /\ KeysAhead /\ MovesOnce
  /\ \A n \in DOMAIN saves : FirstSave(n)
  /\ \A k \in Keys : SavedRight(k)

StoreInv == StoreTyped /\ (~crossed => StoreSound)

\* The invariant gives the types and the property.
LEMMA StoreInvImplies == StoreInv => StoreTypeOK /\ SavedOnce
  <1> SUFFICES ASSUME StoreInv PROVE StoreTypeOK /\ SavedOnce
    OBVIOUS
  <1>1. SavedOnce
    BY DEF StoreInv, StoreSound, SavedRight, SavedOnce, PlacesOf, Moving, Leaves
  <1>2. \A g \in Pages : OptionTypeOK(form[g])
    BY DEF StoreInv, StoreTyped, Option, OptionTypeOK
  <1>3. ASSUME NEW n \in DOMAIN saves
        PROVE  /\ saves[n].page \in Pages /\ saves[n].stage \in {"connecting", "left"}
               /\ OptionTypeOK(saves[n].option) /\ saves[n].option.key \in Keys
    <2>1. saves[n] \in SaveRecord /\ saves[n].option.key \in 1..keys /\ keys \in 0..MaxKeys
      BY DEF StoreInv, StoreTyped
    <2>2. saves[n].option.key \in Keys
      BY <2>1, ConnectionStoreAssumption DEF Keys
    <2> QED
      BY <2>1, <2>2 DEF SaveRecord, Option, OptionTypeOK
  <1>4. StoreTypeOK
    BY <1>2, <1>3 DEF StoreInv, StoreTyped, StoreTypeOK, Maps
  <1> QED
    BY <1>1, <1>4

\* Nothing is stored, and no form is open.
LEMMA InitStore == StoreInit => StoreInv
  <1> SUFFICES ASSUME StoreInit PROVE StoreInv
    OBVIOUS
  <1>1. DOMAIN saves = {} /\ saves \in [DOMAIN saves -> SaveRecord]
    BY DEF StoreInit
  <1>2. NewForm \in Option /\ WasStored(NewForm)
    BY ConnectionStoreAssumption DEF NewForm, Option, Scopes, Kinds, Revs, WasStored
  <1>3. StoreTyped
    <2>1. storedAt \in Maps /\ tree \in Maps
      BY DEF StoreInit, Maps
    <2>2. form \in [Pages -> Option]
      BY <1>2 DEF StoreInit
    <2>3. \A g \in Pages : WasStored(form[g]) /\ form[g].key = NoValue
      BY <1>2 DEF StoreInit, NewForm
    <2>4. tried \in 0..MaxSaves /\ keys \in 0..MaxKeys /\ revs \in Revs
      BY ConnectionStoreAssumption DEF StoreInit, Revs
    <2>5. meant \in [Keys -> Meanings \union {NoValue}]
      BY DEF StoreInit
    <2> QED
      BY <1>1, <2>1, <2>2, <2>3, <2>4, <2>5 DEF StoreInit, StoreTyped
  <1>4. \A k \in Keys : Free(k)
    BY ConnectionStoreAssumption DEF StoreInit, Free, NewForm, Keys
  <1>5. StoreSound
    BY <1>1, <1>4 DEF StoreInit, StoreSound, KeysAhead, MovesOnce, SavedRight, Moving, PlacesOf
  <1> QED
    BY <1>3, <1>5 DEF StoreInv

\* What is put at one place leaves the others.
LEMMA PutAt ==
  ASSUME StoreTyped, NEW p \in Places, NEW k \in Keys, NEW c \in Configs \union {NoValue}, Put(p, k, c)
  PROVE  /\ storedAt' \in Maps
         /\ \A q \in Places, j \in Keys :
              storedAt'[q][j] = IF q = p /\ j = k THEN c ELSE storedAt[q][j]
  <1>1. storedAt \in Maps /\ storedAt' = [storedAt EXCEPT ![p][k] = c]
    BY DEF StoreTyped, Put
  <1>2. storedAt' \in Maps
    BY <1>1 DEF Maps
  <1>3. ASSUME NEW q \in Places, NEW j \in Keys
        PROVE  storedAt'[q][j] = IF q = p /\ j = k THEN c ELSE storedAt[q][j]
    BY <1>1 DEF Maps
  <1> QED
    BY <1>2, <1>3

\* A configuration, and what it means, is a value.
LEMMA ValuesAreValues ==
  /\ \A c \in Configs : c # NoValue
  /\ \A m \in Meanings : m # NoValue
  /\ \A k \in Keys : k # NoValue
  /\ \A s \in Scopes \union Kinds : s # NoValue
  BY ConnectionStoreAssumption

\* A save under way has a key that was given out, and what was stored under
\* it.
LEMMA KeysOfSaves ==
  ASSUME StoreTyped, NEW n \in DOMAIN saves
  PROVE  /\ saves[n] \in SaveRecord /\ saves[n].option \in Option /\ saves[n].option.key \in Keys
         /\ saves[n].option.key <= keys /\ WasStored(saves[n].option)
  <1>1. saves[n] \in SaveRecord /\ saves[n].option.key \in 1..keys /\ keys \in 0..MaxKeys
    BY DEF StoreTyped
  <1>2. saves[n].option.key \in Keys /\ saves[n].option.key <= keys
    BY <1>1, ConnectionStoreAssumption DEF Keys
  <1> QED
    BY <1>1, <1>2 DEF StoreTyped, SaveRecord

\* Steps that store nothing, begin no save, and give no free key away
LEMMA NothingStored ==
  ASSUME StoreInv, ~crossed, UNCHANGED <<storedAt, meant, keys>>,
         DOMAIN saves' \subseteq DOMAIN saves,
         \A n \in DOMAIN saves' : saves'[n] = saves[n],
         \A n \in DOMAIN saves \ DOMAIN saves' : saves[n].stage = "connecting",
         \A k \in Keys : Free(k) => Free(k)'
  PROVE  StoreSound'
  <1>1. StoreSound
    BY DEF StoreInv
  <1>2. KeysAhead'
    BY <1>1 DEF StoreSound, KeysAhead
  <1>3. \A n \in DOMAIN saves' : \A k : Leaves(n, k)' = Leaves(n, k)
    BY DEF Leaves
  <1>4. MovesOnce'
    BY <1>1, <1>3 DEF StoreSound, MovesOnce
  <1>5. ASSUME NEW n \in DOMAIN saves' PROVE FirstSave(n)'
    <2>1. saves[n].option.key \in Keys
      BY KeysOfSaves DEF StoreInv
    <2>2. FirstSave(n)
      BY <1>1 DEF StoreSound
    <2> QED
      BY <2>1, <2>2 DEF FirstSave
  <1>6. ASSUME NEW k \in Keys PROVE SavedRight(k)'
    <2>1. Moving(k)' = Moving(k)
      BY <1>3 DEF Moving, Leaves
    <2>2. PlacesOf(k)' = PlacesOf(k)
      BY DEF PlacesOf
    <2>3. SavedRight(k)
      BY <1>1 DEF StoreSound
    <2> QED
      BY <2>1, <2>2, <2>3 DEF SavedRight
  <1> QED
    BY <1>2, <1>4, <1>5, <1>6 DEF StoreSound

\* The rows are read again: they are what is stored now.
LEMMA ReadTreeInv ==
  ASSUME StoreInv, ~crossed, ReadTree
  PROVE  StoreInv'
  <1>1. StoreTyped'
    BY DEF ReadTree, StoreInv, StoreTyped
  <1>2. \A k \in Keys : Free(k) => Free(k)'
    BY DEF ReadTree, Free
  <1>3. StoreSound'
    BY <1>2, NothingStored DEF ReadTree
  <1> QED
    BY <1>1, <1>3 DEF StoreInv

\* A row that is shown has a key that is not free.
LEMMA OpenRowInv ==
  ASSUME StoreInv, ~crossed, NEW p \in Places, NEW k \in Keys, OpenRow(p, k) \/ AskDelete(p, k)
  PROVE  StoreInv'
  <1>1. tree[p][k] \in Configs /\ ~Free(k)
    BY DEF OpenRow, AskDelete, Row, StoreInv, StoreTyped, Maps, Free
  <1>2. /\ opening' \subseteq opening \union {<<p, k, tree[p][k]>>}
        /\ deleting' \subseteq deleting \union {<<p, k>>}
        /\ UNCHANGED <<storedAt, tree, form, saves, tried, keys, revs, meant, crossed>>
    BY DEF OpenRow, AskDelete
  <1>3. StoreTyped'
    BY <1>1, <1>2 DEF StoreInv, StoreTyped
  <1>4. ASSUME NEW j \in Keys, Free(j) PROVE Free(j)'
    <2>1. j # k
      BY <1>1, <1>4
    <2>2. \A r \in opening' : r[2] # j
      BY <1>2, <1>4, <2>1 DEF Free
    <2>3. \A r \in deleting' : r[2] # j
      BY <1>2, <1>4, <2>1 DEF Free
    <2> QED
      BY <1>2, <1>4, <2>2, <2>3 DEF Free
  <1>5. StoreSound'
    BY <1>2, <1>4, NothingStored
  <1> QED
    BY <1>3, <1>5 DEF StoreInv

\* A row fails to connect: it stores nothing.
LEMMA RowFailsInv ==
  ASSUME StoreInv, ~crossed, NEW r \in opening, RowFails(r)
  PROVE  StoreInv'
  <1>1. StoreTyped'
    BY DEF RowFails, StoreInv, StoreTyped
  <1>2. \A k \in Keys : Free(k) => Free(k)'
    BY DEF RowFails, Free
  <1>3. StoreSound'
    BY <1>2, NothingStored DEF RowFails
  <1> QED
    BY <1>1, <1>3 DEF StoreInv

\* A page is given another option, which has no free key.
LEMMA FormChanges ==
  ASSUME StoreInv, ~crossed, NEW g \in Pages, NEW o \in Option, WasStored(o),
         o.wasScope = NoValue => o.key = NoValue,
         \A k \in Keys : Free(k) => o.key # k,
         form' = [form EXCEPT ![g] = o], revs' \in Revs, crossed' \in BOOLEAN,
         UNCHANGED <<storedAt, tree, opening, deleting, saves, tried, keys, meant>>
  PROVE  StoreInv'
  <1>1. form' \in [Pages -> Option]
    BY DEF StoreInv, StoreTyped
  <1>2. \A h \in Pages : form'[h] = IF h = g THEN o ELSE form[h]
    BY DEF StoreInv, StoreTyped
  <1>3. StoreTyped'
    BY <1>1, <1>2 DEF StoreInv, StoreTyped, WasStored
  <1>4. \A k \in Keys : Free(k) => Free(k)'
    BY <1>2 DEF Free
  <1>5. StoreSound'
    BY <1>4, NothingStored
  <1> QED
    BY <1>3, <1>5 DEF StoreInv

\* Forms are opened, typed in and closed; nothing is stored by it.
LEMMA FormInv ==
  ASSUME StoreInv, ~crossed, NEW g \in Pages,
         \/ OpenAddForm \/ TypeConfig(g) \/ CloseForm(g)
         \/ \E p \in Places : ChoosePlace(g, p)
  PROVE  StoreInv'
  <1> DEFINE UnchangedApart == UNCHANGED <<storedAt, tree, opening, deleting, saves, tried, keys, meant>>
  <1>1. \A h \in Pages : /\ form[h] \in Option /\ WasStored(form[h])
                         /\ form[h].wasScope = NoValue => form[h].key = NoValue
                         /\ \A k \in Keys : Free(k) => form[h].key # k
    BY DEF StoreInv, StoreTyped, Free
  <1>2. CASE OpenAddForm
    <2> DEFINE o == [form["connect"] EXCEPT !.shown = TRUE]
    <2>1. form["connect"] \in Option /\ "connect" \in Pages
      BY <1>1 DEF Pages
    <2>2. /\ o \in Option /\ o.wasScope = form["connect"].wasScope /\ o.key = form["connect"].key
          /\ o.wasKind = form["connect"].wasKind
      BY <2>1 DEF Option
    <2>3. form' = [form EXCEPT !["connect"] = o]
      BY <1>2 DEF OpenAddForm
    <2>4. revs' \in Revs /\ crossed' \in BOOLEAN /\ UnchangedApart
      BY <1>2 DEF OpenAddForm, StoreInv, StoreTyped
    <2> HIDE DEF o
    <2> QED
      BY <1>1, <2>1, <2>2, <2>3, <2>4, FormChanges DEF WasStored
  <1>3. CASE TypeConfig(g)
    <2> DEFINE o == [form[g] EXCEPT !.rev = revs + 1]
    <2>1. revs + 1 \in Revs
      BY <1>3, ConnectionStoreAssumption DEF TypeConfig, StoreInv, StoreTyped, Revs
    <2>2. /\ o \in Option /\ o.wasScope = form[g].wasScope /\ o.key = form[g].key
          /\ o.wasKind = form[g].wasKind
      BY <1>1, <2>1 DEF Option
    <2>3. form' = [form EXCEPT ![g] = o]
      BY <1>3 DEF TypeConfig
    <2>4. revs' \in Revs /\ crossed' \in BOOLEAN /\ UnchangedApart
      BY <1>3, <2>1 DEF TypeConfig, StoreInv, StoreTyped
    <2> HIDE DEF o
    <2> QED
      BY <1>1, <2>2, <2>3, <2>4, FormChanges DEF WasStored
  <1>4. CASE CloseForm(g)
    <2>1. NewForm \in Option /\ WasStored(NewForm) /\ NewForm.key = NoValue
      BY ConnectionStoreAssumption DEF NewForm, Option, Scopes, Kinds, Revs, WasStored
    <2>2. form' = [form EXCEPT ![g] = NewForm]
      BY <1>4 DEF CloseForm
    <2>3. revs' \in Revs /\ crossed' \in BOOLEAN /\ UnchangedApart
      BY <1>4 DEF CloseForm, StoreInv, StoreTyped
    <2>4. \A k \in Keys : NewForm.key # k
      BY <2>1, ValuesAreValues
    <2> QED
      BY <2>1, <2>2, <2>3, <2>4, FormChanges
  <1>5. ASSUME NEW p \in Places, ChoosePlace(g, p)
        PROVE  StoreInv'
    <2> DEFINE o == [form[g] EXCEPT !.scope = p[1], !.kind = p[2]]
    <2>1. p[1] \in Scopes /\ p[2] \in Kinds
      BY DEF Places
    <2>2. /\ o \in Option /\ o.wasScope = form[g].wasScope /\ o.key = form[g].key
          /\ o.wasKind = form[g].wasKind
      BY <1>1, <2>1 DEF Option
    <2>3. form' = [form EXCEPT ![g] = o]
      BY <1>5, <1>1 DEF ChoosePlace, StoreInv, StoreTyped
    <2>4. revs' \in Revs /\ crossed' \in BOOLEAN /\ UnchangedApart
      BY <1>5 DEF ChoosePlace, StoreInv, StoreTyped
    <2> HIDE DEF o
    <2> QED
      BY <1>1, <2>2, <2>3, <2>4, FormChanges DEF WasStored
  <1> QED
    BY <1>2, <1>3, <1>4, <1>5

\* A form is opened on a row, with what the row has of its connection.
LEMMA OpenEditFormInv ==
  ASSUME StoreInv, ~crossed, NEW p \in Places, NEW k \in Keys, OpenEditForm(p, k)
  PROVE  StoreInv'
  <1> DEFINE o == [shown |-> TRUE, key |-> k, wasScope |-> p[1], wasKind |-> p[2],
                   scope |-> p[1], kind |-> p[2], rev |-> tree[p][k].rev]
  <1>1. tree[p][k] \in Configs /\ ~Free(k)
    BY DEF OpenEditForm, Row, StoreInv, StoreTyped, Maps, Free
  <1>2. p[1] \in Scopes /\ p[2] \in Kinds /\ tree[p][k].rev \in Revs
    BY <1>1 DEF Places, Configs
  <1>3. o \in Option /\ o.key = k /\ WasStored(o) /\ o.wasScope # NoValue
    BY <1>2, ValuesAreValues DEF Option, WasStored
  <1>4. form' = [form EXCEPT !["edit"] = o] /\ "edit" \in Pages
    BY DEF OpenEditForm, Pages
  <1>5. /\ revs' \in Revs /\ crossed' \in BOOLEAN
        /\ UNCHANGED <<storedAt, tree, opening, deleting, saves, tried, keys, meant>>
    BY DEF OpenEditForm, StoreInv, StoreTyped
  <1> HIDE DEF o
  <1> QED
    BY <1>1, <1>3, <1>4, <1>5, FormChanges

\* A row writes, or removes, what is stored under its key.  If nothing crossed
\* it was there, so it was nowhere else and nobody was moving it.
LEMMA RowWrites ==
  ASSUME StoreInv, ~crossed, ~crossed', NEW p \in Places, NEW k \in Keys, storedAt[p][k] # NoValue,
         NEW c \in Configs \union {NoValue}, Put(p, k, c),
         meant' = [meant EXCEPT ![k] = IF c = NoValue THEN NoValue
                                       ELSE [place |-> p, config |-> c]],
         opening' \subseteq opening, deleting' \subseteq deleting,
         UNCHANGED <<tree, form, saves, tried, keys, revs>>
  PROVE  StoreSound'
  <1> DEFINE m == IF c = NoValue THEN NoValue ELSE [place |-> p, config |-> c]
  <1>1. StoreSound /\ StoreTyped
    BY DEF StoreInv
  <1>2. \A q \in Places, j \in Keys :
          storedAt'[q][j] = IF q = p /\ j = k THEN c ELSE storedAt[q][j]
    BY <1>1, PutAt
  <1>3. \A j \in Keys : meant'[j] = IF j = k THEN m ELSE meant[j]
    BY <1>1 DEF StoreTyped
  <1>4. ~Free(k)
    BY DEF Free
  <1>5. ASSUME NEW j \in Keys, Free(j) PROVE Free(j)'
    <2>1. j # k
      BY <1>4, <1>5
    <2> QED
      BY <1>2, <1>3, <1>5, <2>1 DEF Free
  <1>6. KeysAhead'
    BY <1>1, <1>5 DEF StoreSound, KeysAhead
  <1>7. MovesOnce'
    BY <1>1 DEF StoreSound, MovesOnce, Leaves
  <1>8. ASSUME NEW n \in DOMAIN saves' PROVE FirstSave(n)'
    <2>1. saves[n].option.key \in Keys /\ FirstSave(n)
      BY <1>1, KeysOfSaves DEF StoreSound
    <2> QED
      BY <1>5, <2>1 DEF FirstSave
  <1>9. \A j \in Keys : Moving(j)' = Moving(j)
    BY DEF Moving, Leaves
  <1>10. ASSUME NEW j \in Keys PROVE SavedRight(j)'
    <2>1. SavedRight(j)
      BY <1>1 DEF StoreSound
    <2>2. CASE j # k
      <3>1. PlacesOf(j)' = PlacesOf(j)
        BY <1>2, <2>2 DEF PlacesOf
      <3>2. \A q \in Places : storedAt'[q][j] = storedAt[q][j]
        BY <1>2, <2>2
      <3>3. meant[j] # NoValue => meant[j].place \in Places
        BY <1>1 DEF StoreTyped, Meanings
      <3> QED
        BY <1>3, <1>9, <2>1, <2>2, <3>1, <3>2, <3>3 DEF SavedRight
    <2>3. CASE j = k
      <3>1. PlacesOf(k) # {}
        BY DEF PlacesOf
      <3>2. ~Moving(k) /\ PlacesOf(k) = {p}
        BY <2>1, <2>3, <3>1 DEF SavedRight, PlacesOf
      <3>3. CASE c = NoValue
        <4>1. PlacesOf(k)' = {}
          BY <1>2, <3>2, <3>3 DEF PlacesOf
        <4> QED
          BY <1>3, <2>3, <3>3, <4>1 DEF SavedRight
      <3>4. CASE c # NoValue
        <4>1. PlacesOf(k)' = {p}
          BY <1>2, <3>2, <3>4 DEF PlacesOf
        <4>2. m \in Meanings /\ m # NoValue /\ m.place = p /\ m.config = c
          BY <3>4, ValuesAreValues DEF Meanings
        <4>3. storedAt'[p][k] = c /\ meant'[k] = m
          BY <1>2, <1>3
        <4> HIDE DEF m
        <4> QED
          BY <1>9, <2>3, <3>2, <4>1, <4>2, <4>3 DEF SavedRight
      <3> QED
        BY <3>3, <3>4
    <2> QED
      BY <2>2, <2>3
  <1> QED
    BY <1>6, <1>7, <1>8, <1>10 DEF StoreSound

\* A row stores its connection in its own place.
LEMMA WriteRowInv ==
  ASSUME StoreInv, ~crossed, NEW p \in Places, NEW k \in Keys, NEW config \in Configs,
         NEW disable \in BOOLEAN, WriteRow(p, k, config, disable),
         opening' \subseteq opening, UNCHANGED <<tree, deleting, form, saves, tried, keys, revs>>
  PROVE  StoreInv'
  <1> DEFINE c == Config(config.rev, disable)
             m == [place |-> p, config |-> c]
  <1>1. c \in Configs /\ c # NoValue
    BY ValuesAreValues DEF Config, Configs
  <1>2. Put(p, k, c) /\ meant' = [meant EXCEPT ![k] = m]
    BY DEF WriteRow
  <1>3. crossed' = (storedAt[p][k] = NoValue \/ storedAt[p][k].rev # config.rev)
    BY DEF WriteRow
  <1> HIDE DEF c
  <1>4. storedAt' \in Maps
    BY <1>1, <1>2, PutAt DEF StoreInv
  <1>5. meant' \in [Keys -> Meanings \union {NoValue}]
    BY <1>1, <1>2 DEF StoreInv, StoreTyped, Meanings
  <1>6. crossed' \in BOOLEAN
    BY <1>3
  <1>7. StoreTyped'
    BY <1>4, <1>5, <1>6 DEF StoreInv, StoreTyped
  <1>8. ASSUME ~crossed' PROVE StoreSound'
    <2>1. storedAt[p][k] # NoValue
      BY <1>3, <1>8
    <2>2. meant' = [meant EXCEPT ![k] = IF c = NoValue THEN NoValue ELSE m]
      BY <1>1, <1>2
    <2>3. c \in Configs \union {NoValue} /\ deleting' \subseteq deleting
      BY <1>1
    <2> QED
      BY <1>2, <1>8, <2>1, <2>2, <2>3, RowWrites
  <1> QED
    BY <1>7, <1>8 DEF StoreInv

\* A row is opened or switched off, and stores its connection.
LEMMA RowsInv ==
  ASSUME StoreInv, ~crossed,
         \/ \E p \in Places, k \in Keys : ToggleRow(p, k)
         \/ \E r \in opening : RowOpened(r)
  PROVE  StoreInv'
  <1>1. ASSUME NEW p \in Places, NEW k \in Keys, ToggleRow(p, k)
        PROVE  StoreInv'
    <2>1. tree[p][k] \in Configs
      BY <1>1 DEF ToggleRow, Row, StoreInv, StoreTyped, Maps
    <2>2. tree[p][k].disable \in BOOLEAN
      BY <2>1 DEF Configs
    <2>3. (~tree[p][k].disable) \in BOOLEAN
      BY <2>2, Zenon
    <2> QED
      BY <1>1, <2>1, <2>3, WriteRowInv DEF ToggleRow
  <1>2. ASSUME NEW r \in opening, RowOpened(r)
        PROVE  StoreInv'
    <2>1. r[1] \in Places /\ r[2] \in Keys /\ r[3] \in Configs
      BY DEF StoreInv, StoreTyped
    <2>2. WriteRow(r[1], r[2], r[3], FALSE) /\ opening' \subseteq opening
      BY <1>2 DEF RowOpened
    <2>3. UNCHANGED <<tree, deleting, form, saves, tried, keys, revs>>
      BY <1>2 DEF RowOpened
    <2> QED
      BY <2>1, <2>2, <2>3, WriteRowInv
  <1> QED
    BY <1>1, <1>2

\* A deletion is confirmed: the connection is in no place.
LEMMA ConfirmDeleteInv ==
  ASSUME StoreInv, ~crossed, NEW p \in Places, NEW k \in Keys, ConfirmDelete(p, k)
  PROVE  StoreInv'
  <1>1. Put(p, k, NoValue) /\ meant' = [meant EXCEPT ![k] = NoValue]
    BY DEF ConfirmDelete
  <1>2. crossed' = (storedAt[p][k] = NoValue)
    BY DEF ConfirmDelete
  <1>3. deleting' = {} /\ UNCHANGED <<tree, opening, form, saves, tried, keys, revs>>
    BY DEF ConfirmDelete
  <1>4. storedAt' \in Maps
    BY <1>1, PutAt DEF StoreInv
  <1>5. StoreTyped'
    BY <1>1, <1>2, <1>3, <1>4 DEF StoreInv, StoreTyped
  <1>6. ASSUME ~crossed' PROVE StoreSound'
    <2>1. meant' = [meant EXCEPT ![k] = IF NoValue = NoValue THEN NoValue
                                        ELSE [place |-> p, config |-> NoValue]]
      BY <1>1
    <2>2. storedAt[p][k] # NoValue /\ opening' \subseteq opening /\ deleting' \subseteq deleting
      BY <1>2, <1>3, <1>6
    <2>3. NoValue \in Configs \union {NoValue}
      OBVIOUS
    <2> QED
      BY <1>1, <1>3, <1>6, <2>1, <2>2, <2>3, RowWrites
  <1> QED
    BY <1>5, <1>6 DEF StoreInv

\* A save that ends is forgotten.
LEMMA WithoutSave ==
  ASSUME StoreTyped, NEW n \in DOMAIN saves, saves' = Without(n)
  PROVE  /\ DOMAIN saves' = DOMAIN saves \ {n}
         /\ \A m \in DOMAIN saves' : saves'[m] = saves[m]
         /\ saves' \in [DOMAIN saves' -> SaveRecord]
  <1>1. saves' = [m \in (DOMAIN saves) \ {n} |-> saves[m]]
    BY DEF Without
  <1>2. \A m \in DOMAIN saves : saves[m] \in SaveRecord
    BY DEF StoreTyped
  <1>3. DOMAIN saves' = DOMAIN saves \ {n} /\ \A m \in DOMAIN saves' : saves'[m] = saves[m]
    BY <1>1
  <1>4. saves' \in [(DOMAIN saves) \ {n} -> SaveRecord]
    BY <1>1, <1>2
  <1> QED
    BY <1>3, <1>4

\* The connection of a form fails: nothing is stored.
LEMMA ConnectFailsInv ==
  ASSUME StoreInv, ~crossed, NEW n \in DOMAIN saves, ConnectFails(n)
  PROVE  StoreInv'
  <1>1. saves[n].stage = "connecting" /\ saves' = Without(n)
    BY DEF ConnectFails
  <1>2. /\ DOMAIN saves' = DOMAIN saves \ {n}
        /\ \A m \in DOMAIN saves' : saves'[m] = saves[m]
        /\ saves' \in [DOMAIN saves' -> SaveRecord]
    BY <1>1, WithoutSave DEF StoreInv
  <1>3. UNCHANGED <<storedAt, tree, opening, deleting, form, tried, keys, revs, meant, crossed>>
    BY DEF ConnectFails
  <1>4. StoreTyped'
    BY <1>2, <1>3 DEF StoreInv, StoreTyped
  <1>5. \A k \in Keys : Free(k) => Free(k)'
    BY <1>3 DEF Free
  <1>6. StoreSound'
    <2>1. \A m \in DOMAIN saves \ DOMAIN saves' : saves[m].stage = "connecting"
      BY <1>1, <1>2
    <2> QED
      BY <1>2, <1>3, <1>5, <2>1, NothingStored
  <1> QED
    BY <1>4, <1>6 DEF StoreInv

\* A save begins, under a new key if the option has none.
LEMMA TryConnectInv ==
  ASSUME StoreInv, ~crossed, NEW g \in Pages, TryConnect(g)
  PROVE  StoreInv'
  <1>o. PICK o : o = form[g]
    OBVIOUS
  <1>k. PICK k : k = KeyOf(o)
    OBVIOUS
  <1>s. PICK s : s = [page |-> g, stage |-> "connecting", option |-> [o EXCEPT !.key = k]]
    OBVIOUS
  <1>n. PICK n : n = tried + 1
    OBVIOUS
  <1>1. o \in Option /\ WasStored(o) /\ (o.wasScope = NoValue => o.key = NoValue)
    BY <1>o DEF StoreInv, StoreTyped
  <1>2. /\ k \in Keys /\ k <= keys' /\ keys <= keys' /\ keys' \in 0..MaxKeys
        /\ o.key = NoValue => Free(k) \/ ~StoreSound
        /\ o.key = NoValue => k > keys
        /\ o.key # NoValue => k = o.key
    <2>1. CASE o.key = NoValue
      <3>1. k = keys + 1 /\ keys' = keys + 1 /\ keys < MaxKeys
        BY <1>o, <1>k, <2>1 DEF TryConnect, KeyOf
      <3>2. k \in Keys /\ k > keys /\ keys' \in 0..MaxKeys /\ k <= keys' /\ keys <= keys'
        BY <3>1, ConnectionStoreAssumption DEF StoreInv, StoreTyped, Keys
      <3> QED
        BY <2>1, <3>2 DEF StoreSound, KeysAhead
    <2>2. CASE o.key # NoValue
      <3>1. k = o.key /\ keys' = keys /\ k \in Keys
        BY <1>o, <1>k, <1>1, <2>2 DEF TryConnect, KeyOf, Option
      <3>2. keys \in 0..MaxKeys /\ StoreSound
        BY DEF StoreInv, StoreTyped
      <3>3. ~(k > keys)
        BY <1>o, <2>2, <3>1, <3>2 DEF StoreSound, KeysAhead, Free
      <3> QED
        BY <2>2, <3>1, <3>2, <3>3, ConnectionStoreAssumption DEF Keys
    <2> QED
      BY <2>1, <2>2
  <1>3. /\ s \in SaveRecord /\ s.stage = "connecting" /\ s.option.key = k
        /\ s.option.wasScope = o.wasScope /\ WasStored(s.option)
    <2>1. [o EXCEPT !.key = k] \in Option
      BY <1>1, <1>2 DEF Option
    <2>2. k # NoValue
      BY <1>2, ValuesAreValues
    <2>3. /\ s.option.key = k /\ s.option.wasScope = o.wasScope /\ s.option.wasKind = o.wasKind
      BY <1>s, <1>1 DEF Option
    <2> QED
      BY <1>s, <1>1, <2>1, <2>2, <2>3 DEF SaveRecord, WasStored
  <1>4. tried \in 0..MaxSaves /\ n \in 0..MaxSaves /\ n \notin DOMAIN saves /\ tried' = n
        /\ DOMAIN saves \subseteq 1..n /\ n \in 1..n
    BY <1>n, ConnectionStoreAssumption DEF StoreInv, StoreTyped, TryConnect, SavesLeft
  <1>5. saves' = [m \in (DOMAIN saves) \union {n} |-> IF m = n THEN s ELSE saves[m]]
    BY <1>o, <1>k, <1>s, <1>4 DEF TryConnect, WithSave
  <1>6. /\ DOMAIN saves' = DOMAIN saves \union {n} /\ saves'[n] = s
        /\ \A m \in DOMAIN saves : saves'[m] = saves[m]
    BY <1>4, <1>5
  <1>7. saves' \in [DOMAIN saves' -> SaveRecord]
    <2>1. \A m \in DOMAIN saves : saves[m] \in SaveRecord
      BY KeysOfSaves DEF StoreInv
    <2>2. \A m \in DOMAIN saves \union {n} : (IF m = n THEN s ELSE saves[m]) \in SaveRecord
      BY <1>3, <2>1
    <2> QED
      BY <1>5, <1>6, <2>2
  <1>8. UNCHANGED <<storedAt, tree, opening, deleting, form, revs, meant>> /\ crossed' \in BOOLEAN
    BY DEF TryConnect, StoreInv, StoreTyped
  <1>9. \A m \in DOMAIN saves' : saves'[m].option.key \in 1..keys' /\ WasStored(saves'[m].option)
    <2>1. \A m \in DOMAIN saves : /\ saves[m].option.key \in Keys /\ saves[m].option.key <= keys
                                  /\ WasStored(saves[m].option)
      BY KeysOfSaves DEF StoreInv
    <2>2. keys \in Nat /\ keys' \in Nat /\ \A j \in Keys : j \in Nat /\ j >= 1
      BY <1>2, ConnectionStoreAssumption DEF StoreInv, StoreTyped, Keys
    <2> QED
      BY <1>2, <1>3, <1>6, <2>1, <2>2
  <1>10. StoreTyped'
    BY <1>2, <1>4, <1>6, <1>7, <1>8, <1>9 DEF StoreInv, StoreTyped
  <1>11. StoreSound'
    <2>1. StoreSound
      BY DEF StoreInv
    <2>2. \A j \in Keys : Free(j) = Free(j)'
      BY <1>8 DEF Free
    <2>3. KeysAhead'
      <3>1. \A j \in Keys : j > keys' => j > keys
        BY <1>2 DEF StoreInv, StoreTyped, Keys
      <3> QED
        BY <2>1, <2>2, <3>1 DEF StoreSound, KeysAhead
    <2>4. \A m \in DOMAIN saves : \A j : Leaves(m, j)' = Leaves(m, j)
      BY <1>6 DEF Leaves
    <2>5. \A j : ~Leaves(n, j)'
      BY <1>3, <1>6 DEF Leaves
    <2>6. MovesOnce'
      BY <1>6, <2>1, <2>4, <2>5 DEF StoreSound, MovesOnce
    <2>7. ASSUME NEW m \in DOMAIN saves' PROVE FirstSave(m)'
      <3>1. CASE m = n
        <4>1. s.option.wasScope = NoValue => \A i \in DOMAIN saves : saves[i].option.key # k
          <5> SUFFICES ASSUME s.option.wasScope = NoValue, NEW i \in DOMAIN saves
                       PROVE  saves[i].option.key # k
            OBVIOUS
          <5>1. k > keys
            BY <1>1, <1>2, <1>3
          <5>2. saves[i].option.key <= keys /\ saves[i].option.key \in Keys
            BY KeysOfSaves DEF StoreInv
          <5> QED
            BY <1>2, <5>1, <5>2 DEF StoreInv, StoreTyped, Keys
        <4>2. s.option.wasScope = NoValue => Free(k)'
          BY <1>1, <1>2, <1>3, <2>1, <2>2
        <4> QED
          BY <1>3, <1>6, <3>1, <4>1, <4>2 DEF FirstSave
      <3>2. CASE m # n
        <4>1. m \in DOMAIN saves /\ saves'[m] = saves[m] /\ FirstSave(m)
          BY <1>6, <2>1, <3>2 DEF StoreSound
        <4>2. saves[m].option.key \in Keys /\ saves[m].option.key <= keys
          BY <4>1, KeysOfSaves DEF StoreInv
        <4>3. saves[m].option.wasScope = NoValue => k # saves[m].option.key
          <5>1. CASE o.key = NoValue
            BY <1>2, <4>2, <5>1 DEF StoreInv, StoreTyped, Keys
          <5>2. CASE o.key # NoValue
            BY <1>o, <1>2, <4>1, <5>2 DEF FirstSave, Free
          <5> QED
            BY <5>1, <5>2
        <4> QED
          BY <1>3, <1>6, <2>2, <4>1, <4>2, <4>3 DEF FirstSave
      <3> QED
        BY <3>1, <3>2
    <2>8. ASSUME NEW j \in Keys PROVE SavedRight(j)'
      <3>1. Moving(j)' = Moving(j)
        BY <1>6, <2>4, <2>5 DEF Moving
      <3>2. PlacesOf(j)' = PlacesOf(j) /\ SavedRight(j)
        BY <1>8, <2>1 DEF PlacesOf, StoreSound
      <3> QED
        BY <1>8, <3>1, <3>2 DEF SavedRight
    <2> QED
      BY <2>3, <2>6, <2>7, <2>8 DEF StoreSound
  <1> QED
    BY <1>10, <1>11 DEF StoreInv

\* A connection is stored where it was or when it is nowhere, and nobody else
\* is moving it.
LEMMA StoredInv ==
  ASSUME StoreInv, ~crossed, NEW n \in DOMAIN saves, Stored(n),
         UNCHANGED <<tree, opening, deleting, tried, keys, revs>>, crossed' \in BOOLEAN,
         ~crossed' => /\ PlacesOf(saves[n].option.key) \subseteq {Place(saves[n].option)}
                      /\ \A m \in DOMAIN saves \ {n} : ~Leaves(m, saves[n].option.key)
  PROVE  StoreInv'
  <1>o. PICK o : o = saves[n].option
    OBVIOUS
  <1>k. PICK k : k = o.key
    OBVIOUS
  <1>g. PICK g : g = saves[n].page
    OBVIOUS
  <1>p. PICK p : p = Place(o)
    OBVIOUS
  <1>c. PICK c : c = Config(o.rev, FALSE)
    OBVIOUS
  <1>m. PICK m : m = [place |-> p, config |-> c]
    OBVIOUS
  <1>1. /\ o \in Option /\ g \in Pages /\ k \in Keys /\ k <= keys
    BY <1>o, <1>k, <1>g, KeysOfSaves DEF StoreInv, SaveRecord
  <1>2. /\ p \in Places /\ c \in Configs /\ m \in Meanings /\ m.place = p /\ m.config = c
        /\ k # NoValue /\ c # NoValue /\ m # NoValue
    <2>1. p \in Places /\ c \in Configs
      BY <1>p, <1>c, <1>1 DEF Option, Place, Places, Config, Configs
    <2> QED
      BY <1>1, <1>m, <2>1, ValuesAreValues DEF Meanings
  <1>3. /\ Put(p, k, c) /\ meant' = [meant EXCEPT ![k] = m] /\ saves' = Without(n)
    BY <1>o, <1>k, <1>p, <1>c, <1>m DEF Stored
  <1>4. /\ storedAt' \in Maps
        /\ \A q \in Places, j \in Keys :
             storedAt'[q][j] = IF q = p /\ j = k THEN c ELSE storedAt[q][j]
    BY <1>1, <1>2, <1>3, PutAt DEF StoreInv
  <1>5. /\ meant' \in [Keys -> Meanings \union {NoValue}]
        /\ \A j \in Keys : meant'[j] = IF j = k THEN m ELSE meant[j]
    BY <1>1, <1>2, <1>3 DEF StoreInv, StoreTyped
  <1>6. /\ DOMAIN saves' = DOMAIN saves \ {n}
        /\ \A i \in DOMAIN saves' : saves'[i] = saves[i]
        /\ saves' \in [DOMAIN saves' -> SaveRecord]
    BY <1>3, WithoutSave DEF StoreInv
  <1>7. /\ form' \in [Pages -> Option]
        /\ \A h \in Pages : WasStored(form'[h]) /\ (form'[h].wasScope = NoValue => form'[h].key = NoValue)
        /\ \A h \in Pages : form'[h].key \in {form[h].key, k}
    <2>0. form \in [Pages -> Option]
          /\ \A h \in Pages : WasStored(form[h]) /\ (form[h].wasScope = NoValue => form[h].key = NoValue)
      BY DEF StoreInv, StoreTyped
    <2>1. CASE form[g].shown
      <3>1. PICK f : f = [form[g] EXCEPT !.key = k, !.wasKind = o.kind, !.wasScope = form[g].scope]
        OBVIOUS
      <3>2. form' = [form EXCEPT ![g] = f]
        BY <1>o, <1>k, <1>g, <1>1, <2>0, <2>1, <3>1 DEF Stored
      <3>3. /\ f \in Option /\ f.key = k /\ f.wasKind = o.kind /\ f.wasScope = form[g].scope
        BY <1>1, <2>0, <3>1 DEF Option
      <3>4. f.wasKind # NoValue /\ f.wasScope # NoValue
        BY <1>1, <2>0, <3>3, ValuesAreValues DEF Option
      <3>5. \A h \in Pages : form'[h] = IF h = g THEN f ELSE form[h]
        BY <2>0, <3>2
      <3> QED
        BY <1>1, <1>2, <2>0, <3>2, <3>3, <3>4, <3>5 DEF WasStored
    <2>2. CASE ~form[g].shown
      <3>1. form' = form
        BY <1>g, <2>2 DEF Stored
      <3> QED
        BY <2>0, <3>1
    <2> QED
      BY <2>1, <2>2
  <1>8. StoreTyped'
    BY <1>4, <1>5, <1>6, <1>7 DEF StoreInv, StoreTyped
  <1>9. ASSUME ~crossed' PROVE StoreSound'
    <2>1. StoreSound /\ StoreTyped
      BY DEF StoreInv
    <2>2. ASSUME NEW j \in Keys, j # k, Free(j) PROVE Free(j)'
      BY <1>4, <1>5, <1>7, <2>2 DEF Free
    <2>3. KeysAhead'
      <3>1. \A j \in Keys : j > keys => j # k
        BY <1>1, ConnectionStoreAssumption DEF StoreInv, StoreTyped, Keys
      <3> QED
        BY <2>1, <2>2, <3>1 DEF StoreSound, KeysAhead
    <2>4. \A i \in DOMAIN saves' : \A j : Leaves(i, j)' = Leaves(i, j)
      BY <1>6 DEF Leaves
    <2>5. MovesOnce'
      BY <1>6, <2>1, <2>4 DEF StoreSound, MovesOnce
    <2>6. ASSUME NEW i \in DOMAIN saves' PROVE FirstSave(i)'
      <3>1. i \in DOMAIN saves /\ i # n /\ saves'[i] = saves[i] /\ FirstSave(i)
        BY <1>6, <2>1 DEF StoreSound
      <3>2. saves[i].option.key \in Keys
        BY <2>1, <3>1, KeysOfSaves
      <3>3. saves[i].option.wasScope = NoValue => saves[i].option.key # k
        BY <1>o, <1>k, <3>1 DEF FirstSave
      <3>4. saves[i].option.wasScope = NoValue => Free(saves[i].option.key)'
        BY <2>2, <3>1, <3>2, <3>3 DEF FirstSave
      <3> QED
        BY <1>6, <3>1, <3>4 DEF FirstSave
    <2>7. ASSUME NEW j \in Keys PROVE SavedRight(j)'
      <3>1. SavedRight(j)
        BY <2>1 DEF StoreSound
      <3>2. CASE j # k
        <4>1. ~Leaves(n, j)
          BY <1>o, <1>k, <3>2 DEF Leaves
        <4>2. Moving(j)' = Moving(j)
          BY <1>6, <2>4, <4>1 DEF Moving
        <4>3. PlacesOf(j)' = PlacesOf(j) /\ \A q \in Places : storedAt'[q][j] = storedAt[q][j]
          BY <1>4, <3>2 DEF PlacesOf
        <4>4. meant[j] # NoValue => meant[j].place \in Places
          BY <2>1 DEF StoreTyped, Meanings
        <4> QED
          BY <1>5, <3>1, <3>2, <4>2, <4>3, <4>4 DEF SavedRight
      <3>3. CASE j = k
        <4>1. ~Moving(k)'
          BY <1>o, <1>k, <1>6, <1>9, <2>4 DEF Moving
        <4>2. PlacesOf(k) \subseteq {p}
          BY <1>o, <1>k, <1>p, <1>9
        <4>3. PlacesOf(k)' = {p}
          BY <1>1, <1>2, <1>4, <4>2 DEF PlacesOf
        <4>4. storedAt'[p][k] = c /\ meant'[k] = m
          BY <1>1, <1>2, <1>4, <1>5
        <4> QED
          BY <1>2, <3>3, <4>1, <4>3, <4>4 DEF SavedRight
      <3> QED
        BY <3>2, <3>3
    <2> QED
      BY <2>3, <2>5, <2>6, <2>7 DEF StoreSound
  <1> QED
    BY <1>8, <1>9 DEF StoreInv

\* A connection is saved in the place it is in.
LEMMA SaveInPlaceInv ==
  ASSUME StoreInv, ~crossed, NEW n \in DOMAIN saves, SaveInPlace(n)
  PROVE  StoreInv'
  <1>o. PICK o : o = saves[n].option
    OBVIOUS
  <1>1. o \in Option /\ o.key \in Keys /\ WasStored(o) /\ StoreSound
    BY <1>o, KeysOfSaves DEF StoreInv
  <1>2. crossed' = OutOfDate(o) /\ (o.wasScope = NoValue \/ Unchanged(o))
    BY <1>o DEF SaveInPlace, OutOfDate
  <1>3. OutOfDate(o) \in BOOLEAN
    BY DEF OutOfDate
  <1>4. SavedRight(o.key) /\ FirstSave(n)
    BY <1>1 DEF StoreSound
  <1>5. ASSUME ~crossed'
        PROVE  /\ PlacesOf(o.key) \subseteq {Place(o)}
               /\ \A m \in DOMAIN saves \ {n} : ~Leaves(m, o.key)
    <2>1. CASE o.wasScope = NoValue
      BY <1>o, <1>4, <2>1 DEF FirstSave, Free, PlacesOf, Leaves
    <2>2. CASE o.wasScope # NoValue
      <3>1. <<o.wasScope, o.wasKind>> = Place(o) /\ Place(o) \in Places
        BY <1>1, <1>2, <2>2 DEF Unchanged, Place, Option, Places
      <3>2. storedAt[Place(o)][o.key] # NoValue
        BY <1>2, <1>5, <2>2, <3>1 DEF OutOfDate
      <3>3. Place(o) \in PlacesOf(o.key)
        BY <3>1, <3>2 DEF PlacesOf
      <3>4. ~Moving(o.key) /\ PlacesOf(o.key) = {Place(o)}
        BY <1>4, <3>3 DEF SavedRight
      <3> QED
        BY <3>4 DEF Moving
    <2> QED
      BY <2>1, <2>2
  <1>6. Stored(n) /\ UNCHANGED <<tree, opening, deleting, tried, keys, revs>>
    BY DEF SaveInPlace
  <1> QED
    BY <1>o, <1>2, <1>3, <1>5, <1>6, StoredInv

\* A connection that left its old place is stored in the new one.
LEMMA SaveMovesInv ==
  ASSUME StoreInv, ~crossed, NEW n \in DOMAIN saves, SaveMoves(n)
  PROVE  StoreInv'
  <1>o. PICK o : o = saves[n].option
    OBVIOUS
  <1>1. o.key \in Keys /\ StoreSound
    BY <1>o, KeysOfSaves DEF StoreInv
  <1>2. Leaves(n, o.key)
    BY <1>o DEF SaveMoves, Leaves
  <1>3. PlacesOf(o.key) = {}
    <2>1. SavedRight(o.key)
      BY <1>1 DEF StoreSound
    <2> QED
      BY <1>2, <2>1 DEF SavedRight, Moving
  <1>4. \A m \in DOMAIN saves \ {n} : ~Leaves(m, o.key)
    BY <1>1, <1>2 DEF StoreSound, MovesOnce
  <1>5. Stored(n) /\ UNCHANGED <<tree, opening, deleting, tried, keys, revs, crossed>>
    BY DEF SaveMoves
  <1>6. crossed' \in BOOLEAN
    BY <1>5 DEF StoreInv, StoreTyped
  <1> QED
    BY <1>o, <1>3, <1>4, <1>5, <1>6, StoredInv

\* A connection leaves its old place, before it is stored in the new one.
LEMMA SaveLeavesPlaceInv ==
  ASSUME StoreInv, ~crossed, NEW n \in DOMAIN saves, SaveLeavesPlace(n)
  PROVE  StoreInv'
  <1>o. PICK o : o = saves[n].option
    OBVIOUS
  <1>k. PICK k : k = o.key
    OBVIOUS
  <1>p. PICK p : p = LeftPlace(o)
    OBVIOUS
  <1>s. PICK s : s = [saves[n] EXCEPT !.stage = "left"]
    OBVIOUS
  <1>1. /\ o \in Option /\ k \in Keys /\ k <= keys /\ WasStored(o) /\ saves[n] \in SaveRecord
        /\ o.wasScope # NoValue
    BY <1>o, <1>k, KeysOfSaves DEF StoreInv, SaveLeavesPlace
  <1>2. p \in Places
    BY <1>p, <1>1 DEF LeftPlace, WasStored, Option, Places
  <1>3. Put(p, k, NoValue) /\ crossed' = OutOfDate(o)
    BY <1>o, <1>k, <1>p DEF SaveLeavesPlace, OutOfDate
  <1>4. saves' = [saves EXCEPT ![n] = s]
    BY <1>s DEF SaveLeavesPlace
  <1>5. s \in SaveRecord /\ s.stage = "left" /\ s.option = o
    BY <1>s, <1>o, <1>1 DEF SaveRecord
  <1>6. /\ DOMAIN saves' = DOMAIN saves /\ saves' \in [DOMAIN saves' -> SaveRecord]
        /\ saves'[n] = s /\ \A m \in DOMAIN saves \ {n} : saves'[m] = saves[m]
    BY <1>4, <1>5 DEF StoreInv, StoreTyped
  <1>7. /\ storedAt' \in Maps
        /\ \A q \in Places, j \in Keys :
             storedAt'[q][j] = IF q = p /\ j = k THEN NoValue ELSE storedAt[q][j]
    BY <1>1, <1>2, <1>3, PutAt DEF StoreInv
  <1>8. UNCHANGED <<tree, opening, deleting, form, tried, keys, revs, meant>>
    BY DEF SaveLeavesPlace
  <1>9. StoreTyped'
    <2>1. crossed' \in BOOLEAN
      BY <1>3 DEF OutOfDate
    <2>2. \A m \in DOMAIN saves : saves'[m].option = saves[m].option
      BY <1>o, <1>5, <1>6
    <2> QED
      BY <1>6, <1>7, <1>8, <2>1, <2>2 DEF StoreInv, StoreTyped
  <1>10. ASSUME ~crossed' PROVE StoreSound'
    <2>1. StoreSound /\ StoreTyped /\ SavedRight(k)
      BY <1>1 DEF StoreInv, StoreSound
    <2>2. p \in PlacesOf(k)
      BY <1>k, <1>p, <1>1, <1>2, <1>3, <1>10 DEF OutOfDate, LeftPlace, PlacesOf
    <2>3. ~Moving(k) /\ PlacesOf(k) = {p}
      BY <2>1, <2>2 DEF SavedRight
    <2>4. ASSUME NEW j \in Keys, Free(j) PROVE Free(j)'
      BY <1>7, <1>8, <2>4 DEF Free
    <2>5. KeysAhead'
      BY <1>8, <2>1, <2>4 DEF StoreSound, KeysAhead
    <2>6. /\ \A m \in DOMAIN saves \ {n} : \A j : Leaves(m, j)' = Leaves(m, j)
          /\ \A m \in DOMAIN saves \ {n} : ~Leaves(m, k)
      BY <1>6, <2>3 DEF Leaves, Moving
    <2>7. saves'[n].stage = "left" /\ saves'[n].option.key = k
      BY <1>k, <1>5, <1>6
    <2>8. MovesOnce'
      BY <1>6, <2>1, <2>6, <2>7 DEF StoreSound, MovesOnce, Leaves
    <2>9. ASSUME NEW i \in DOMAIN saves' PROVE FirstSave(i)'
      <3>0. \A m \in DOMAIN saves : saves'[m].option = saves[m].option
        BY <1>o, <1>5, <1>6
      <3>1. CASE i = n
        BY <1>o, <1>1, <1>5, <1>6, <3>1 DEF FirstSave
      <3>2. CASE i # n
        <4>1. i \in DOMAIN saves /\ saves'[i] = saves[i] /\ FirstSave(i)
          BY <1>6, <2>1, <3>2 DEF StoreSound
        <4>2. saves[i].option.key \in Keys
          BY <2>1, <4>1, KeysOfSaves
        <4> QED
          BY <1>6, <2>4, <3>0, <4>1, <4>2 DEF FirstSave
      <3> QED
        BY <3>1, <3>2
    <2>10. ASSUME NEW j \in Keys PROVE SavedRight(j)'
      <3>1. SavedRight(j)
        BY <2>1 DEF StoreSound
      <3>2. CASE j # k
        <4>1. ~Leaves(n, j) /\ saves'[n].option.key # j
          BY <1>o, <1>k, <2>7, <3>2 DEF Leaves
        <4>2. Moving(j)' = Moving(j)
          BY <1>6, <2>6, <4>1 DEF Moving, Leaves
        <4>3. PlacesOf(j)' = PlacesOf(j) /\ \A q \in Places : storedAt'[q][j] = storedAt[q][j]
          BY <1>7, <3>2 DEF PlacesOf
        <4>4. meant[j] # NoValue => meant[j].place \in Places
          BY <2>1 DEF StoreTyped, Meanings
        <4> QED
          BY <1>8, <3>1, <3>2, <4>2, <4>3, <4>4 DEF SavedRight
      <3>3. CASE j = k
        <4>1. Moving(k)'
          BY <1>6, <2>7 DEF Moving, Leaves
        <4>2. PlacesOf(k)' = {}
          BY <1>1, <1>2, <1>7, <2>3 DEF PlacesOf
        <4> QED
          BY <3>3, <4>1, <4>2 DEF SavedRight
      <3> QED
        BY <3>2, <3>3
    <2> QED
      BY <2>5, <2>8, <2>9, <2>10 DEF StoreSound
  <1> QED
    BY <1>9, <1>10 DEF StoreInv

\* Every step of rows, forms and saves
LEMMA StoreStepInv ==
  ASSUME StoreInv, [StoreNext]_storeVars
  PROVE  StoreInv'
  <1>1. CASE UNCHANGED storeVars
    <2>1. StoreTyped'
      BY <1>1 DEF storeVars, StoreInv, StoreTyped
    <2>2. \A k \in Keys : Free(k) => Free(k)'
      BY <1>1 DEF storeVars, Free
    <2>3. ~crossed => StoreSound'
      BY <1>1, <2>2, NothingStored DEF storeVars
    <2> QED
      BY <1>1, <2>1, <2>3 DEF storeVars, StoreInv
  <1>2. CASE StoreNext
    <2>0. ~crossed
      BY <1>2 DEF StoreNext
    <2>1. CASE ReadTree
      BY <2>0, <2>1, ReadTreeInv
    <2>2. ASSUME NEW p \in Places, NEW k \in Keys,
                 ToggleRow(p, k) \/ OpenRow(p, k) \/ AskDelete(p, k) \/ ConfirmDelete(p, k)
                 \/ OpenEditForm(p, k)
          PROVE  StoreInv'
      BY <2>0, <2>2, RowsInv, OpenRowInv, ConfirmDeleteInv, OpenEditFormInv
    <2>3. ASSUME NEW r \in opening, RowOpened(r) \/ RowFails(r)
          PROVE  StoreInv'
      BY <2>0, <2>3, RowsInv, RowFailsInv
    <2>4. CASE OpenAddForm
      <3>1. "edit" \in Pages
        BY DEF Pages
      <3> QED
        BY <2>0, <2>4, <3>1, FormInv
    <2>5. ASSUME NEW g \in Pages,
                 \/ TypeConfig(g) \/ CloseForm(g) \/ TryConnect(g)
                 \/ \E p \in Places : ChoosePlace(g, p)
          PROVE  StoreInv'
      <3>1. CASE TryConnect(g)
        BY <2>0, <3>1, TryConnectInv
      <3>2. CASE TypeConfig(g) \/ CloseForm(g) \/ \E p \in Places : ChoosePlace(g, p)
        BY <2>0, <3>2, FormInv
      <3> QED
        BY <2>5, <3>1, <3>2
    <2>6. ASSUME NEW n \in DOMAIN saves,
                 ConnectFails(n) \/ SaveInPlace(n) \/ SaveLeavesPlace(n) \/ SaveMoves(n)
          PROVE  StoreInv'
      BY <2>0, <2>6, ConnectFailsInv, SaveInPlaceInv, SaveLeavesPlaceInv, SaveMovesInv
    <2> QED
      BY <1>2, <2>1, <2>2, <2>3, <2>4, <2>5, <2>6 DEF StoreNext
  <1> QED
    BY <1>1, <1>2

\* Stored connections, rows, forms and saves keep their types.
THEOREM StoreTypeCorrect == StoreSpec => []StoreTypeOK
  <1>1. StoreInv /\ [StoreNext]_storeVars => StoreInv'
    BY StoreStepInv
  <1> QED
    BY InitStore, <1>1, StoreInvImplies, PTL DEF StoreSpec

\* For every number of connections, saves and configurations, a connection is
\* stored in one place, the one chosen last and as it was saved last, until a
\* copy that is out of date is written (addConnection, Node.indent).
THEOREM ConnectionsStoredOnce == StoreSpec => []SavedOnce
  <1>1. StoreInv /\ [StoreNext]_storeVars => StoreInv'
    BY StoreStepInv
  <1> QED
    BY InitStore, <1>1, StoreInvImplies, PTL DEF StoreSpec

-----------------------------------------------------------------------------
(* DbTree.  What makes up for a stale listing: a statement that is done and *)
(* will clear it, or the reload of the filter there is.                    *)

AwaitedCalls == [by : {"tree", "node", "refresh", "reload"}, keyword : SUBSET Names,
                 got : Listings, late : BOOLEAN]

MakesUp ==
  \/ \E m \in commands : m.done
  \/ \E c \in DOMAIN calls : c.by = "reload" /\ c.keyword = keyword

CacheRight ==
  ~wrong => cache = Nothing \/ cache = Listed(server \intersect keyword) \/ MakesUp

\* What makes the tree list the row again
ListsAgain ==
  \/ told # {}
  \/ \E m \in commands : m.done
  \/ \E c \in DOMAIN calls : c.by # "node"

ShownRight == ~wrong => shown \in Truth \/ ListsAgain

DbTreeInv == IsABag(calls) /\ DbTreeTypeOK /\ CacheRight /\ ShownRight

\* One more call in the bag of those that await the server
LEMMA BagWithCall ==
  ASSUME NEW B, IsABag(B), NEW d
  PROVE  /\ IsABag(B (+) SetToBag({d}))
         /\ DOMAIN (B (+) SetToBag({d})) = DOMAIN B \union {d}
  <1> DEFINE S == SetToBag({d})
             U == B (+) S
  <1>1. S = [e \in {d} |-> 1] /\ DOMAIN S = {d} /\ S[d] = 1
    BY DEF SetToBag
  <1>2. U = [e \in DOMAIN B \union DOMAIN S |->
               (IF e \in DOMAIN B THEN B[e] ELSE 0) + (IF e \in DOMAIN S THEN S[e] ELSE 0)]
    BY Zenon DEF (+)
  <1>3. DOMAIN U = DOMAIN B \union {d}
    BY <1>1, <1>2
  <1> HIDE DEF U, S
  <1>a. \A e \in DOMAIN B : B[e] \in Nat /\ B[e] > 0
    BY DEF IsABag
  <1>b. \A e \in DOMAIN U : U[e] = (IF e \in DOMAIN B THEN B[e] ELSE 0)
                                   + (IF e \in DOMAIN S THEN S[e] ELSE 0)
    BY <1>2
  <1>4. \A e \in DOMAIN U : U[e] \in Nat /\ U[e] > 0
    BY <1>1, <1>3, <1>a, <1>b
  <1>5. IsABag(U)
    BY <1>2, <1>3, <1>4 DEF IsABag
  <1> QED
    BY <1>3, <1>5 DEF U, S

\* One call less: the other calls stay.
LEMMA BagWithoutCall ==
  ASSUME NEW B, IsABag(B), NEW c \in DOMAIN B
  PROVE  /\ IsABag(B (-) SetToBag({c}))
         /\ DOMAIN (B (-) SetToBag({c})) \subseteq DOMAIN B
         /\ DOMAIN B \ {c} \subseteq DOMAIN (B (-) SetToBag({c}))
  <1> DEFINE S == SetToBag({c})
             U == B (-) S
             R == [e \in DOMAIN B |-> IF e \in DOMAIN S THEN B[e] - S[e] ELSE B[e]]
  <1>1. S = [e \in {c} |-> 1] /\ DOMAIN S = {c} /\ S[c] = 1
    BY DEF SetToBag
  <1>2. U = [e \in {d \in DOMAIN R : R[d] > 0} |-> R[e]]
    BY Zenon DEF (-)
  <1>3. \A e \in DOMAIN B : R[e] \in Nat /\ (e # c => R[e] = B[e] /\ R[e] > 0)
    BY <1>1 DEF IsABag
  <1>4. DOMAIN U = {d \in DOMAIN B : R[d] > 0}
    BY <1>2
  <1> HIDE DEF U, R
  <1>a. \A e \in DOMAIN U : U[e] = R[e] /\ R[e] > 0 /\ e \in DOMAIN B
    BY <1>2, <1>4
  <1>5. \A e \in DOMAIN U : U[e] \in Nat /\ U[e] > 0
    BY <1>3, <1>a
  <1>6. IsABag(U)
    BY <1>2, <1>4, <1>5 DEF IsABag
  <1> QED
    BY <1>3, <1>4, <1>6 DEF U

\* The bag of the calls after one begins, goes on or returns
LEMMA AwaitsCall ==
  ASSUME DbTreeInv, NEW c \in AwaitedCalls, Awaits(c)
  PROVE  /\ IsABag(calls')
         /\ DOMAIN calls' = DOMAIN calls \union {c}
         /\ DOMAIN calls' \subseteq AwaitedCalls
  <1>1. IsABag(calls) /\ DOMAIN calls \subseteq AwaitedCalls
    BY DEF DbTreeInv, DbTreeTypeOK, BagToSet, AwaitedCalls
  <1>2. calls' = calls (+) SetToBag({c})
    BY DEF Awaits
  <1>3. IsABag(calls') /\ DOMAIN calls' = DOMAIN calls \union {c}
    BY <1>1, <1>2, BagWithCall
  <1> QED
    BY <1>1, <1>3

\* A call goes on as another one; the others stay.
LEMMA BecomesCall ==
  ASSUME DbTreeInv, NEW c \in DOMAIN calls, NEW d \in AwaitedCalls, Becomes(c, d)
  PROVE  /\ IsABag(calls')
         /\ DOMAIN calls' \subseteq AwaitedCalls
         /\ (DOMAIN calls \ {c}) \union {d} \subseteq DOMAIN calls'
  <1> DEFINE less == calls (-) SetToBag({c})
  <1>1. IsABag(calls) /\ DOMAIN calls \subseteq AwaitedCalls
    BY DEF DbTreeInv, DbTreeTypeOK, BagToSet, AwaitedCalls
  <1>2. calls' = less (+) SetToBag({d})
    BY DEF Becomes
  <1>3. IsABag(less) /\ DOMAIN less \subseteq DOMAIN calls /\ DOMAIN calls \ {c} \subseteq DOMAIN less
    BY <1>1, BagWithoutCall
  <1> HIDE DEF less
  <1>4. IsABag(calls') /\ DOMAIN calls' = DOMAIN less \union {d}
    BY <1>2, <1>3, BagWithCall
  <1> QED
    BY <1>1, <1>3, <1>4

\* A call returns; the others stay.
LEMMA ReturnsCall ==
  ASSUME DbTreeInv, NEW c \in DOMAIN calls, Returns(c)
  PROVE  /\ IsABag(calls')
         /\ DOMAIN calls' \subseteq AwaitedCalls
         /\ DOMAIN calls \ {c} \subseteq DOMAIN calls'
  <1>1. IsABag(calls) /\ DOMAIN calls \subseteq AwaitedCalls
    BY DEF DbTreeInv, DbTreeTypeOK, BagToSet, AwaitedCalls
  <1> QED
    BY <1>1, BagWithoutCall DEF Returns

\* The listings the tree and the cache hold are listings.
LEMMA ListingsTyped ==
  /\ \A n \in SUBSET Names : Listed(n) \in Listings
  /\ \A note \in Notes : Info(note) \in Listings
  /\ Nothing \in Listings
  /\ \A by \in {"tree", "node", "refresh", "reload"}, k \in SUBSET Names :
        NewCall(by, k) \in AwaitedCalls
  BY DEF Listed, Info, Nothing, Listings, Notes, NewCall, AwaitedCalls

\* Nothing is listed and nothing is under way.
LEMMA InitDbTree == DbTreeInit => DbTreeInv
  <1> SUFFICES ASSUME DbTreeInit PROVE DbTreeInv
    OBVIOUS
  <1>1. DOMAIN calls = {} /\ IsABag(calls)
    BY DEF DbTreeInit, EmptyBag, SetToBag, IsABag
  <1>2. DbTreeTypeOK
    <2>1. row.kind \in {"connection", "catalog", "tables"} /\ row.ownId \in BOOLEAN
      BY DEF DbTreeInit
    <2>2. cache \in Listings /\ shown \in Listings
      BY ListingsTyped DEF DbTreeInit
    <2>3. inputs \in 0..MaxInputs
      BY DbTreeAssumption DEF DbTreeInit
    <2> QED
      BY <1>1, <2>1, <2>2, <2>3 DEF DbTreeInit, DbTreeTypeOK, BagToSet
  <1>3. CacheRight /\ ShownRight
    BY DEF DbTreeInit, CacheRight, ShownRight, ListsAgain
  <1> QED
    BY <1>1, <1>2, <1>3 DEF DbTreeInv

\* The root is listed: what is remembered of the row is used, or a call
\* begins.
LEMMA ListRootInv ==
  ASSUME DbTreeInv, ListRoot
  PROVE  DbTreeInv'
  <1>1. NewCall("node", keyword) \in AwaitedCalls
    BY ListingsTyped DEF DbTreeInv, DbTreeTypeOK
  <1>2. /\ IsABag(calls') /\ DOMAIN calls' \subseteq AwaitedCalls
        /\ DOMAIN calls \subseteq DOMAIN calls'
    <2>1. CASE row.kind = "connection" /\ cache = Nothing
      BY <1>1, <2>1, AwaitsCall DEF ListRoot
    <2>2. CASE ~(row.kind = "connection" /\ cache = Nothing)
      BY <2>2 DEF ListRoot, DbTreeInv, DbTreeTypeOK, BagToSet, AwaitedCalls
    <2> QED
      BY <2>1, <2>2
  <1>3. DbTreeTypeOK'
    BY <1>2 DEF ListRoot, DbTreeInv, DbTreeTypeOK, BagToSet, AwaitedCalls
  <1>4. CacheRight'
    BY <1>2 DEF ListRoot, DbTreeInv, CacheRight, MakesUp
  <1>5. ShownRight'
    BY DEF ListRoot, ShownRight, ListsAgain
  <1> QED
    BY <1>2, <1>3, <1>4, <1>5 DEF DbTreeInv

\* What is remembered is what the row should show, if the cache is right.
LEMMA RememberedIsTrue ==
  ASSUME DbTreeInv, cache = Listed(server \intersect keyword)
  PROVE  Remembered \in Truth
  <1>1. cache.names = server \intersect keyword
    BY DEF Listed
  <1> QED
    BY <1>1 DEF Remembered, Truth, Listed

\* A row is listed: from what is remembered, or by a call.
LEMMA ListRowInv ==
  ASSUME DbTreeInv, ListRow
  PROVE  DbTreeInv'
  <1>1. NewCall("tree", keyword) \in AwaitedCalls
    BY ListingsTyped DEF DbTreeInv, DbTreeTypeOK
  <1>2. CASE IsRemembered
    <2>1. Remembered \in Listings
      <3>1. cache.names \subseteq Names
        BY DEF DbTreeInv, DbTreeTypeOK, Listings
      <3> QED
        BY <3>1, ListingsTyped DEF Remembered, Notes
    <2>2. DbTreeTypeOK'
      BY <1>2, <2>1 DEF ListRow, DbTreeInv, DbTreeTypeOK
    <2>3. CacheRight'
      BY <1>2 DEF ListRow, DbTreeInv, CacheRight, MakesUp
    <2>4. ShownRight'
      <3>1. ~wrong => cache = Listed(server \intersect keyword) \/ MakesUp
        BY <1>2 DEF DbTreeInv, CacheRight, IsRemembered
      <3>2. ~wrong => Remembered \in Truth \/ MakesUp
        BY <3>1, RememberedIsTrue
      <3>3. MakesUp => ListsAgain'
        BY <1>2 DEF ListRow, MakesUp, ListsAgain
      <3>4. wrong' = wrong /\ shown' = Remembered /\ Truth' = Truth
        BY <1>2 DEF ListRow, Truth
      <3> QED
        BY <3>2, <3>3, <3>4 DEF ShownRight
    <2> QED
      BY <1>2, <2>2, <2>3, <2>4 DEF DbTreeInv, ListRow
  <1>3. CASE ~IsRemembered
    <2>1. Awaits(NewCall("tree", keyword))
      BY <1>3 DEF ListRow
    <2>2. /\ IsABag(calls') /\ DOMAIN calls' \subseteq AwaitedCalls
          /\ DOMAIN calls' = DOMAIN calls \union {NewCall("tree", keyword)}
      BY <1>1, <2>1, AwaitsCall
    <2>3. DbTreeTypeOK'
      BY <1>3, <2>2 DEF ListRow, DbTreeInv, DbTreeTypeOK, BagToSet, AwaitedCalls
    <2>4. CacheRight'
      BY <1>3, <2>2 DEF ListRow, DbTreeInv, CacheRight, MakesUp
    <2>5. ShownRight'
      <3>1. NewCall("tree", keyword).by # "node"
        BY DEF NewCall
      <3> QED
        BY <2>2, <3>1 DEF ShownRight, ListsAgain
    <2> QED
      BY <2>2, <2>3, <2>4, <2>5 DEF DbTreeInv
  <1> QED
    BY <1>2, <1>3

\* A call that has heard from the server, or is late, is still awaited.
LEMMA CallGoesOn ==
  ASSUME DbTreeInv, NEW c \in DOMAIN calls, NEW d \in AwaitedCalls, Becomes(c, d),
         d.by = c.by, d.keyword = c.keyword,
         keyword' = keyword, commands' = commands
  PROVE  /\ MakesUp => MakesUp'
         /\ c.by # "node" => ListsAgain'
         /\ ListsAgain /\ told' = told => ListsAgain'
  <1>1. (DOMAIN calls \ {c}) \union {d} \subseteq DOMAIN calls'
    BY BecomesCall
  <1>2. MakesUp => MakesUp'
    BY <1>1 DEF MakesUp
  <1>3. c.by # "node" => ListsAgain'
    BY <1>1 DEF ListsAgain
  <1>4. ListsAgain /\ told' = told => ListsAgain'
    BY <1>1 DEF ListsAgain
  <1> QED
    BY <1>2, <1>3, <1>4

\* The server lists what it has at this moment.
LEMMA ServerListsInv ==
  ASSUME DbTreeInv, NEW c \in DOMAIN calls, ServerLists(c)
  PROVE  DbTreeInv'
  <1> DEFINE d == [c EXCEPT !.got = Listed(server)]
  <1>1. c \in AwaitedCalls /\ server \subseteq Names
    BY DEF DbTreeInv, DbTreeTypeOK, BagToSet, AwaitedCalls
  <1>2. Listed(server) \in Listings
    BY <1>1, ListingsTyped
  <1>3. d \in AwaitedCalls /\ d.by = c.by /\ d.keyword = c.keyword
    BY <1>1, <1>2 DEF AwaitedCalls
  <1>4. Becomes(c, d)
    BY DEF ServerLists
  <1> HIDE DEF d
  <1>5. IsABag(calls') /\ DOMAIN calls' \subseteq AwaitedCalls
    BY <1>3, <1>4, BecomesCall
  <1>6. keyword' = keyword /\ commands' = commands /\ told' = told
    BY DEF ServerLists
  <1>7. (MakesUp => MakesUp') /\ (ListsAgain => ListsAgain')
    BY <1>3, <1>4, <1>6, CallGoesOn
  <1>8. DbTreeTypeOK'
    BY <1>5 DEF ServerLists, DbTreeInv, DbTreeTypeOK, BagToSet, AwaitedCalls
  <1>9. CacheRight' /\ ShownRight'
    BY <1>7 DEF ServerLists, DbTreeInv, CacheRight, ShownRight, Truth
  <1> QED
    BY <1>5, <1>8, <1>9 DEF DbTreeInv

\* A listing takes too long: the tree shows an error, the call goes on.
LEMMA TimesOutInv ==
  ASSUME DbTreeInv, NEW c \in DOMAIN calls, TimesOut(c)
  PROVE  DbTreeInv'
  <1> DEFINE d == [c EXCEPT !.late = TRUE]
  <1>1. c \in AwaitedCalls /\ c.by = "tree"
    BY DEF DbTreeInv, DbTreeTypeOK, BagToSet, AwaitedCalls, TimesOut
  <1>2. d \in AwaitedCalls /\ d.by = c.by /\ d.keyword = c.keyword
    BY <1>1 DEF AwaitedCalls
  <1>3. Becomes(c, d)
    BY DEF TimesOut
  <1> HIDE DEF d
  <1>4. IsABag(calls') /\ DOMAIN calls' \subseteq AwaitedCalls
    BY <1>2, <1>3, BecomesCall
  <1>5. keyword' = keyword /\ commands' = commands
    BY DEF TimesOut
  <1>6. (MakesUp => MakesUp') /\ ListsAgain'
    BY <1>1, <1>2, <1>3, <1>5, CallGoesOn
  <1>7. Info("timeout") \in Listings
    BY ListingsTyped DEF Notes
  <1>8. DbTreeTypeOK'
    BY <1>4, <1>7 DEF TimesOut, DbTreeInv, DbTreeTypeOK, BagToSet, AwaitedCalls
  <1>9. CacheRight' /\ ShownRight'
    BY <1>6 DEF TimesOut, DbTreeInv, CacheRight, ShownRight
  <1> QED
    BY <1>4, <1>8, <1>9 DEF DbTreeInv

\* Whoever a call answers, something still lists the row, or the tree shows
\* the answer.
LEMMA AnswerTold ==
  ASSUME NEW c \in AwaitedCalls, NEW listing, Tell(c), Shows(c, listing), c.by # "node"
  PROVE  shown' = listing \/ told' # {}
  BY DEF Tell, Shows, AwaitedCalls

\* A listing comes back: it is remembered, and shown if it is awaited.
LEMMA ListingAnsweredInv ==
  ASSUME DbTreeInv, NEW c \in DOMAIN calls, ListingAnswered(c)
  PROVE  DbTreeInv'
  <1> DEFINE listing == Listed(c.got.names \intersect c.keyword)
             old     == c.got # Listed(server) \/ c.keyword # keyword
  <1>1. c \in AwaitedCalls
    BY DEF DbTreeInv, DbTreeTypeOK, BagToSet, AwaitedCalls
  <1>2. /\ Returns(c) /\ cache' = listing /\ Tell(c) /\ Shows(c, listing)
        /\ wrong' = (wrong \/ (old /\ Left(c)))
        /\ UNCHANGED <<row, server, keyword, commands, inputs>>
    BY DEF ListingAnswered
  <1>3. listing \in Listings
    BY <1>1, ListingsTyped DEF AwaitedCalls
  <1>4. ~old => listing = Listed(server \intersect keyword) /\ listing \in Truth
    <2>1. ~old => c.got.names = server /\ c.keyword = keyword
      BY DEF Listed
    <2>2. Listed(server \intersect keyword) \in Truth
      BY DEF Truth
    <2> QED
      BY <2>1, <2>2
  <1> HIDE DEF listing, old
  <1>5. /\ IsABag(calls') /\ DOMAIN calls' \subseteq AwaitedCalls
        /\ DOMAIN calls \ {c} \subseteq DOMAIN calls'
    BY <1>2, ReturnsCall
  <1>6. told' \subseteq {"root", "row"} /\ told \subseteq told'
    BY <1>2 DEF DbTreeInv, DbTreeTypeOK, Tell
  <1>7. shown' \in Listings
    BY <1>2, <1>3 DEF DbTreeInv, DbTreeTypeOK, Shows
  <1>8. wrong' \in BOOLEAN
    BY <1>2 DEF DbTreeInv, DbTreeTypeOK
  <1>9. DbTreeTypeOK'
    BY <1>2, <1>3, <1>5, <1>6, <1>7, <1>8 DEF DbTreeInv, DbTreeTypeOK, BagToSet, AwaitedCalls
  <1>10. ~Left(c) => MakesUp' /\ ListsAgain'
    <2>1. ~Left(c) => \/ \E m \in commands : m.done
                      \/ \E d \in DOMAIN calls \ {c} : d.by = "reload" /\ d.keyword = keyword
      BY DEF Left, BagToSet
    <2> QED
      BY <1>2, <1>5, <2>1 DEF MakesUp, ListsAgain
  <1>11. CacheRight'
    BY <1>2, <1>4, <1>10 DEF CacheRight
  <1>12. ShownRight'
    <2> SUFFICES ASSUME ~wrong', ~ListsAgain' PROVE shown' \in Truth'
      BY DEF ShownRight
    <2>1. ~wrong /\ ~old /\ Truth' = Truth
      BY <1>2, <1>10 DEF Truth
    <2>2. CASE c.by = "node"
      <3>1. told' = told /\ shown' = shown
        BY <1>2, <2>2 DEF Tell, Shows, ListsAgain
      <3>2. ~ListsAgain
        BY <1>2, <1>5, <2>2, <3>1 DEF ListsAgain
      <3> QED
        BY <2>1, <3>1, <3>2 DEF DbTreeInv, ShownRight
    <2>3. CASE c.by # "node"
      <3>1. told' = {}
        BY DEF ListsAgain
      <3>2. shown' = listing
        BY <1>1, <1>2, <2>3, <3>1, AnswerTold
      <3> QED
        BY <1>4, <2>1, <3>2
    <2> QED
      BY <2>2, <2>3
  <1> QED
    BY <1>5, <1>9, <1>11, <1>12 DEF DbTreeInv

\* A listing fails.
LEMMA ListingFailsInv ==
  ASSUME DbTreeInv, NEW c \in DOMAIN calls, ListingFails(c)
  PROVE  DbTreeInv'
  <1>1. IsABag(calls') /\ DOMAIN calls' \subseteq AwaitedCalls
    BY ReturnsCall DEF ListingFails
  <1>2. Info("error") \in Listings
    BY ListingsTyped DEF Notes
  <1>3. shown' \in Listings
    BY <1>2 DEF ListingFails, Shows, DbTreeInv, DbTreeTypeOK
  <1>4. told' \subseteq {"root", "row"}
    BY DEF ListingFails, Tell, DbTreeInv, DbTreeTypeOK
  <1>5. inputs' \in 0..MaxInputs
    BY DbTreeAssumption DEF ListingFails, Input, DbTreeInv, DbTreeTypeOK
  <1>6. DbTreeTypeOK'
    BY <1>1, <1>3, <1>4, <1>5
       DEF ListingFails, DbTreeInv, DbTreeTypeOK, BagToSet, AwaitedCalls
  <1>7. CacheRight' /\ ShownRight'
    BY DEF ListingFails, CacheRight, ShownRight
  <1> QED
    BY <1>1, <1>6, <1>7 DEF DbTreeInv

\* A row is refreshed: it is listed again, whatever is remembered.
LEMMA RefreshRowInv ==
  ASSUME DbTreeInv, RefreshRow
  PROVE  DbTreeInv'
  <1>1. NewCall("refresh", keyword) \in AwaitedCalls /\ Awaits(NewCall("refresh", keyword))
    BY ListingsTyped DEF DbTreeInv, DbTreeTypeOK, RefreshRow
  <1>2. /\ IsABag(calls') /\ DOMAIN calls' \subseteq AwaitedCalls
        /\ DOMAIN calls' = DOMAIN calls \union {NewCall("refresh", keyword)}
    BY <1>1, AwaitsCall
  <1>3. inputs' \in 0..MaxInputs
    BY DbTreeAssumption DEF RefreshRow, Input, DbTreeInv, DbTreeTypeOK
  <1>4. DbTreeTypeOK'
    BY <1>2, <1>3 DEF RefreshRow, DbTreeInv, DbTreeTypeOK, BagToSet, AwaitedCalls
  <1>5. CacheRight'
    BY <1>2 DEF RefreshRow, DbTreeInv, CacheRight, MakesUp
  <1>6. ShownRight'
    <2>1. NewCall("refresh", keyword).by # "node"
      BY DEF NewCall
    <2> QED
      BY <1>2, <2>1 DEF ShownRight, ListsAgain
  <1> QED
    BY <1>2, <1>4, <1>5, <1>6 DEF DbTreeInv

\* Whatever else happens, what is cleared is listed again.
LEMMA ClearedIsRight ==
  ASSUME DbTreeInv, NEW underWay \in BOOLEAN, ClearsAll(underWay)
  PROVE  /\ cache' \in Listings /\ told' \subseteq {"root", "row"} /\ wrong' \in BOOLEAN
         /\ CacheRight' /\ ShownRight'
  <1>1. cache' \in Listings
    BY ListingsTyped DEF ClearsAll
  <1>2. told' \subseteq {"root", "row"} /\ "root" \in told' /\ wrong' \in BOOLEAN
    BY DEF ClearsAll, DbTreeInv, DbTreeTypeOK
  <1>3. CacheRight' /\ ShownRight'
    BY <1>2 DEF ClearsAll, CacheRight, ShownRight, ListsAgain
  <1> QED
    BY <1>1, <1>2, <1>3

\* The tree is refreshed: nothing stays remembered.
LEMMA RefreshAllInv ==
  ASSUME DbTreeInv, RefreshAll
  PROVE  DbTreeInv'
  <1> DEFINE underWay == calls # EmptyBag \/ commands # {}
  <1>1. underWay \in BOOLEAN /\ ClearsAll(underWay)
    BY DEF RefreshAll
  <1> HIDE DEF underWay
  <1>2. /\ cache' \in Listings /\ told' \subseteq {"root", "row"} /\ wrong' \in BOOLEAN
        /\ CacheRight' /\ ShownRight'
    BY <1>1, ClearedIsRight
  <1>3. inputs' \in 0..MaxInputs
    BY DbTreeAssumption DEF RefreshAll, Input, DbTreeInv, DbTreeTypeOK
  <1>4. DbTreeTypeOK' /\ IsABag(calls')
    BY <1>2, <1>3 DEF RefreshAll, DbTreeInv, DbTreeTypeOK
  <1> QED
    BY <1>2, <1>4 DEF DbTreeInv

\* The tables are filtered by another word.
LEMMA FilterTablesInv ==
  ASSUME DbTreeInv, NEW k \in SUBSET Names, FilterTables(k)
  PROVE  DbTreeInv'
  <1>1. NewCall("reload", k) \in AwaitedCalls /\ Awaits(NewCall("reload", k))
    BY ListingsTyped DEF FilterTables
  <1>2. /\ IsABag(calls') /\ DOMAIN calls' \subseteq AwaitedCalls
        /\ DOMAIN calls' = DOMAIN calls \union {NewCall("reload", k)}
    BY <1>1, AwaitsCall
  <1>3. inputs' \in 0..MaxInputs /\ cache' \in Listings
    BY DbTreeAssumption, ListingsTyped DEF FilterTables, Input, DbTreeInv, DbTreeTypeOK
  <1>4. DbTreeTypeOK'
    BY <1>2, <1>3 DEF FilterTables, DbTreeInv, DbTreeTypeOK, BagToSet, AwaitedCalls
  <1>5. CacheRight'
    BY DEF FilterTables, CacheRight
  <1>6. ShownRight'
    <2>1. NewCall("reload", k).by # "node"
      BY DEF NewCall
    <2> QED
      BY <1>2, <2>1 DEF ShownRight, ListsAgain
  <1> QED
    BY <1>2, <1>4, <1>5, <1>6 DEF DbTreeInv

\* A command sends its statement.
LEMMA SendsStatementInv ==
  ASSUME DbTreeInv, NEW what \in {"create", "drop", "page"}, NEW name \in Names,
         SendsStatement(what, name)
  PROVE  DbTreeInv'
  <1>1. inputs' \in 0..MaxInputs
    BY DbTreeAssumption DEF SendsStatement, Input, DbTreeInv, DbTreeTypeOK
  <1>2. /\ commands' \subseteq [op : {"create", "drop", "page"}, name : Names, done : BOOLEAN]
        /\ commands \subseteq commands'
    <2>1. PICK m : m = [op |-> what, name |-> name, done |-> FALSE]
      OBVIOUS
    <2>2. m \in [op : {"create", "drop", "page"}, name : Names, done : BOOLEAN]
      BY <2>1
    <2>3. commands' = commands \union {m}
      BY <2>1 DEF SendsStatement
    <2> QED
      BY <2>2, <2>3 DEF DbTreeInv, DbTreeTypeOK
  <1>3. DbTreeTypeOK' /\ IsABag(calls')
    BY <1>1, <1>2 DEF SendsStatement, DbTreeInv, DbTreeTypeOK
  <1>4. (MakesUp => MakesUp') /\ (ListsAgain => ListsAgain')
    BY <1>2 DEF SendsStatement, MakesUp, ListsAgain
  <1>5. CacheRight' /\ ShownRight'
    BY <1>4 DEF SendsStatement, DbTreeInv, CacheRight, ShownRight, Truth
  <1> QED
    BY <1>3, <1>5 DEF DbTreeInv

\* What a statement has done on the server stays to be told.
LEMMA ServerRunsInv ==
  ASSUME DbTreeInv, NEW m \in commands, ServerRuns(m)
  PROVE  DbTreeInv'
  <1> DEFINE d == [m EXCEPT !.done = TRUE]
  <1>1. m \in [op : {"create", "drop", "page"}, name : Names, done : BOOLEAN]
    BY DEF DbTreeInv, DbTreeTypeOK
  <1>2. d \in [op : {"create", "drop", "page"}, name : Names, done : BOOLEAN] /\ d.done
    BY <1>1
  <1>3. commands' = (commands \ {m}) \union {d}
    BY DEF ServerRuns
  <1> HIDE DEF d
  <1>4. MakesUp' /\ ListsAgain'
    BY <1>2, <1>3 DEF MakesUp, ListsAgain
  <1>5. server' \subseteq Names
    BY <1>1 DEF ServerRuns, DbTreeInv, DbTreeTypeOK
  <1>6. DbTreeTypeOK' /\ IsABag(calls')
    BY <1>2, <1>3, <1>5 DEF ServerRuns, DbTreeInv, DbTreeTypeOK
  <1>7. CacheRight' /\ ShownRight'
    BY <1>4 DEF CacheRight, ShownRight
  <1> QED
    BY <1>6, <1>7 DEF DbTreeInv

\* The statement of a command is refused.
LEMMA StatementFailsInv ==
  ASSUME DbTreeInv, NEW m \in commands, StatementFails(m)
  PROVE  DbTreeInv'
  <1>1. inputs' \in 0..MaxInputs
    BY DbTreeAssumption DEF StatementFails, Input, DbTreeInv, DbTreeTypeOK
  <1>2. DbTreeTypeOK' /\ IsABag(calls')
    BY <1>1 DEF StatementFails, DbTreeInv, DbTreeTypeOK
  <1>3. (MakesUp => MakesUp') /\ (ListsAgain => ListsAgain')
    BY DEF StatementFails, MakesUp, ListsAgain
  <1>4. CacheRight' /\ ShownRight'
    BY <1>3 DEF StatementFails, DbTreeInv, CacheRight, ShownRight, Truth
  <1> QED
    BY <1>2, <1>4 DEF DbTreeInv

\* The command of a statement that is done has the row listed, or all of it.
LEMMA DoneInv ==
  ASSUME DbTreeInv, NEW m \in commands, Done(m)
  PROVE  DbTreeInv'
  <1> DEFINE underWay == calls # EmptyBag \/ commands # {m}
  <1>1. commands' \subseteq commands /\ UNCHANGED <<row, server, keyword, shown, calls, inputs>>
    BY DEF Done
  <1>2. /\ cache' \in Listings /\ told' \subseteq {"root", "row"} /\ wrong' \in BOOLEAN
        /\ CacheRight' /\ ShownRight'
    <2>1. CASE m.op = "page"
      <3>1. underWay \in BOOLEAN /\ ClearsAll(underWay)
        BY <2>1 DEF Done
      <3> HIDE DEF underWay
      <3> QED
        BY <3>1, ClearedIsRight
    <2>2. CASE m.op # "page"
      <3>1. /\ cache' = IF Forgets(m) THEN Nothing ELSE cache
            /\ told' = told \union {"row"}
            /\ wrong' = (wrong \/ ~Forgets(m))
        BY <2>2 DEF Done
      <3>2. cache' \in Listings /\ told' \subseteq {"root", "row"} /\ wrong' \in BOOLEAN
        BY <3>1, ListingsTyped DEF DbTreeInv, DbTreeTypeOK
      <3>3. CacheRight' /\ ShownRight'
        BY <3>1 DEF CacheRight, ShownRight, ListsAgain
      <3> QED
        BY <3>2, <3>3
    <2> QED
      BY <2>1, <2>2
  <1>3. DbTreeTypeOK' /\ IsABag(calls')
    BY <1>1, <1>2 DEF DbTreeInv, DbTreeTypeOK
  <1> QED
    BY <1>2, <1>3 DEF DbTreeInv

\* Every step of the tree, its calls and its commands
LEMMA DbTreeStepInv ==
  ASSUME DbTreeInv, [DbTreeNext]_treeVars
  PROVE  DbTreeInv'
  <1>1. CASE UNCHANGED treeVars
    BY <1>1 DEF treeVars, DbTreeInv, DbTreeTypeOK, CacheRight, ShownRight, MakesUp, ListsAgain,
       Truth
  <1>2. CASE ListRoot \/ ListRow \/ RefreshRow \/ RefreshAll
    BY <1>2, ListRootInv, ListRowInv, RefreshRowInv, RefreshAllInv
  <1>3. ASSUME NEW what \in {"create", "drop", "page"}, NEW n \in Names, SendsStatement(what, n)
        PROVE  DbTreeInv'
    BY <1>3, SendsStatementInv
  <1>4. ASSUME NEW c \in BagToSet(calls),
               ServerLists(c) \/ TimesOut(c) \/ ListingAnswered(c) \/ ListingFails(c)
        PROVE  DbTreeInv'
    BY <1>4, ServerListsInv, TimesOutInv, ListingAnsweredInv, ListingFailsInv DEF BagToSet
  <1>5. ASSUME NEW k \in SUBSET Names, FilterTables(k)
        PROVE  DbTreeInv'
    BY <1>5, FilterTablesInv
  <1>6. ASSUME NEW m \in commands, ServerRuns(m) \/ StatementFails(m) \/ Done(m)
        PROVE  DbTreeInv'
    BY <1>6, ServerRunsInv, StatementFailsInv, DoneInv
  <1> QED
    BY <1>1, <1>2, <1>3, <1>4, <1>5, <1>6 DEF DbTreeNext

\* The rows, listings and statements of the connection tree keep their types.
THEOREM DbTreeTypeCorrect == DbTreeSpec => []DbTreeTypeOK
  <1>1. DbTreeInv /\ [DbTreeNext]_treeVars => DbTreeInv'
    BY DbTreeStepInv
  <1>2. DbTreeInv => DbTreeTypeOK
    BY DEF DbTreeInv
  <1> QED
    BY InitDbTree, <1>1, <1>2, PTL DEF DbTreeSpec

\* For every set of names and whatever listings, timeouts, refreshes, filters
\* and statements cross, the tree at rest shows what is on the server, with the
\* exceptions TreeShowsServer names (getChildren of the provider and the nodes,
\* DatabaseCache).
THEOREM TreeComesRight == DbTreeSpec => []TreeShowsServer
  <1>1. DbTreeInv /\ [DbTreeNext]_treeVars => DbTreeInv'
    BY DbTreeStepInv
  <1>2. DbTreeInv => TreeShowsServer
    <2> SUFFICES ASSUME DbTreeInv, TreeIsQuiet, ~wrong PROVE shown \in Truth
      BY DEF TreeShowsServer
    <2>1. DOMAIN calls = {}
      BY DEF TreeIsQuiet, EmptyBag, SetToBag
    <2>2. ~ListsAgain
      BY <2>1 DEF TreeIsQuiet, ListsAgain
    <2> QED
      BY <2>2 DEF DbTreeInv, ShownRight
  <1> QED
    BY InitDbTree, <1>1, <1>2, PTL DEF DbTreeSpec
-----------------------------------------------------------------------------
(* The FTP client.  The invariant is of the time in which no command of    *)
(* another operation crossed the making of a data connection; then one     *)
(* operation at a time holds the server's data port.                       *)

OpCmds    == {"PASV", "DATA", "ABOR", "MODE", "PLAIN"}
FtpReqs   == {r \in Requests : r.cmd \in OpCmds => r.op \in FtpOps}
FtpSocks  == {"none", "connecting", "accepted", "open", "sent", "ended", "broken", "gone"}
FtpRecord == [kind : OpKinds, outcome : {"idle", "called", "ok", "err"}, sock : FtpSocks,
              seen : {"none", "first", "last"}, got : FtpOps \union {NoOp}]

FtpTyped ==
  /\ conn \in {"login", "ready", "refused", "lost"}
  /\ curReq \in FtpReqs \union {NoReq}
  /\ queue \in Seq(FtpReqs) /\ wire \in Seq(FtpReqs)
  /\ answers \in Seq([to : Requests, code : Codes])
  /\ op \in [FtpOps -> FtpRecord]
  /\ pasvSocket \in FtpOps \union {NoOp}
  /\ aborting \subseteq FtpOps /\ retried \subseteq FtpOps /\ noops \in 0..MaxNoops
  /\ port \in FtpOps \union {NoOp} /\ held \subseteq FtpOps
  /\ busy \in [op : FtpOps \union {NoOp}, port : FtpOps \union {NoOp}]
  /\ interleaved \in BOOLEAN

\* A transfer the server is at is the first on the wire.
Served == busy # NoTransfer => wire # <<>>

Making == {"connecting", "accepted"}

\* What is known of an operation, of record e, while request c of it is in the
\* queue or at the server
Fits(e, c) ==
  /\ e.outcome # "idle"
  /\ c \in OpCmds
  /\ c = "PASV"  => e.kind # "plain" /\ e.sock = "none" /\ e.seen = "none"
  /\ c = "DATA"  => /\ e.kind # "plain" /\ e.seen # "last"
                    /\ e.sock \in {"open", "sent", "ended", "broken", "gone"}
                    /\ e.kind = "put" => e.sock # "gone"
  /\ c = "ABOR"  => e.kind # "plain" /\ e.sock = "gone" /\ e.seen # "last"
  /\ c = "MODE"  => e.kind = "get" /\ e.seen = "last" /\ DataClosed(e.sock)
  /\ c = "PLAIN" => e.kind = "plain"

\* The operation that has, or is about to have, the data port
Holds(recs, cur, q, o) ==
  \/ recs[o].sock \in Making
  \/ cur.op = o /\ cur.cmd \in {"PASV", "DATA", "ABOR"}
  \/ \E i \in DOMAIN q : q[i].op = o /\ q[i].cmd \in {"DATA", "ABOR"}

\* Of each operation one request is in the queue or at the server, and those
\* that go on with a transfer are ahead of those that begin something.
InLine(recs, cur, q) ==
  \A i \in DOMAIN q : q[i].op \in FtpOps /\ Fits(recs[q[i].op], q[i].cmd) /\ q[i].op # cur.op
Serving(recs, cur) ==
  /\ cur.op \in FtpOps => Fits(recs[cur.op], cur.cmd)
  /\ cur.op \notin FtpOps => cur.cmd \notin OpCmds
Starting(c) == c \in {"PASV", "PLAIN"}
Ordered(q) ==
  \A i, j \in DOMAIN q :
    i < j => q[i].op # q[j].op /\ (Starting(q[i].cmd) => Starting(q[j].cmd))
OneHolds(recs, cur, q) ==
  \A o, p \in FtpOps : Holds(recs, cur, q, o) /\ Holds(recs, cur, q, p) => o = p

Lined(recs, cur, q) ==
  InLine(recs, cur, q) /\ Serving(recs, cur) /\ Ordered(q) /\ OneHolds(recs, cur, q)

\* What an operation's record says by itself: the data of a transfer that has
\* had its last reply are its own.
Carried(e, o) == e.got = o \/ (e.sock = "broken" /\ e.kind # "put")
Own(e, o, marked) ==
  /\ e.outcome = "idle" \/ e.kind = "plain" => e.sock = "none"
  /\ e.sock \in {"none", "connecting", "accepted"} => e.seen = "none"
  /\ e.seen = "last" => e.kind # "plain" /\ Carried(e, o)
  /\ e.outcome = "ok" /\ e.kind # "plain" =>
       /\ e.seen = "last"
       /\ e.kind = "list" => DataClosed(e.sock) /\ (e.sock = "broken" => o \in marked)

\* Where the current request is: on the way to the server, at a transfer, or on
\* the way back.
Preliminary(a)     == a.code = "prelim"
Over(a, e, o) == a.code = "err" \/ (a.code = "done" /\ Carried(e, o))

Transfers(e, o, w, a, b, p) ==
  \/ /\ Len(w) = 1 /\ w[1] = Req(o, "DATA") /\ a = <<>> /\ b = NoTransfer
     /\ e.seen = "none" /\ p = o
  \/ /\ Len(w) = 1 /\ w[1] = Req(o, "DATA") /\ b = [op |-> o, port |-> o]
     /\ \/ Len(a) = 1 /\ Preliminary(a[1]) /\ e.seen = "none"
        \/ a = <<>> /\ (e.kind = "list" => e.seen = "first")
  \/ /\ w = <<>> /\ b = NoTransfer
     /\ \/ Len(a) = 1 /\ Over(a[1], e, o)
        \/ Len(a) = 2 /\ Preliminary(a[1]) /\ Over(a[2], e, o) /\ e.seen = "none"

AtServer(recs, cur, w, a, b, p) ==
  /\ cur = NoReq => w = <<>> /\ a = <<>> /\ b = NoTransfer
  /\ cur.cmd = "DATA" => Transfers(recs[cur.op], cur.op, w, a, b, p)
  /\ cur # NoReq /\ cur.cmd # "DATA" =>
       /\ b = NoTransfer
       /\ \/ Len(w) = 1 /\ w[1] = cur /\ a = <<>>
          \/ /\ w = <<>> /\ Len(a) = 1
             /\ cur.cmd = "PASV" /\ a[1].code \notin {"err", "odd"} => p = cur.op

\* The server has the port open that a data connection is for.
Ported(c, recs, q, p) ==
  /\ c = "ready" => \A o \in FtpOps : recs[o].sock \in Making => p = o
  /\ \A i \in DOMAIN q : q[i].cmd = "DATA" =>
       recs[q[i].op].seen = "none" /\ (c = "ready" => p = q[i].op)

Phase(c, recs, cur, q) ==
  /\ c = "login" => /\ q = <<>> /\ cur.op = Login /\ cur.cmd \in LoginCmds
                    /\ \A o \in FtpOps : recs[o].outcome = "idle"
  /\ c \in {"refused", "lost"} => cur = NoReq
  /\ c = "ready" => cur.op # Login \/ cur = Noop

FtpSound ==
  /\ Lined(op, curReq, queue)
  /\ \A o \in FtpOps : Own(op[o], o, aborting)
  /\ AtServer(op, curReq, wire, answers, busy, port)
  /\ Ported(conn, op, queue, port)
  /\ Phase(conn, op, curReq, queue)

FtpInv == FtpTyped /\ Served /\ (~interleaved => FtpSound)

\* Facts about the constants and the types that the steps need
LEMMA ReqTypes ==
  /\ \A o \in FtpOps, c \in Cmds : Req(o, c) \in FtpReqs
  /\ \A c \in LoginCmds : Req(Login, c) \in FtpReqs
  /\ Noop \in FtpReqs /\ NoReq \notin FtpReqs
  /\ \A r \in FtpReqs : r.op \in FtpOps \union {Login} /\ r.cmd \in Cmds /\ r = Req(r.op, r.cmd)
                        /\ (r.cmd \in OpCmds => r.op \in FtpOps)
  BY FtpAssumption DEF FtpReqs, Requests, Req, Cmds, LoginCmds, OpCmds, Noop, NoReq

\* What Send leaves has its types.
LEMMA SendTypes ==
  ASSUME FtpTyped, NEW cur \in FtpReqs \union {NoReq}, NEW q \in Seq(FtpReqs), Send(cur, q)
  PROVE  /\ curReq' \in FtpReqs \union {NoReq} /\ queue' \in Seq(FtpReqs)
         /\ wire' \in Seq(FtpReqs) /\ aborting' \subseteq FtpOps /\ interleaved' \in BOOLEAN
  <1>1. CASE MaySend(cur, q) /\ conn \in {"login", "ready"}
    <2>1. q # <<>>
      BY <1>1 DEF MaySend
    <2>2. Head(q) \in FtpReqs /\ Tail(q) \in Seq(FtpReqs)
      BY <2>1, HeadTailProperties
    <2>3. /\ curReq' = Head(q) /\ queue' = Tail(q) /\ wire' = Append(wire, Head(q))
          /\ aborting' = IF Head(q).cmd = "ABOR" /\ pasvSocket # NoOp
                         THEN aborting \union {pasvSocket} ELSE aborting
      BY <1>1 DEF Send
    <2>4. interleaved' = (interleaved \/ \E o \in FtpOps \ {Head(q).op} :
                                             Connecting(o) /\ Head(q) # Noop)
      BY <1>1 DEF Send
    <2>5. interleaved' \in BOOLEAN
      BY <2>4
    <2>6. wire' \in Seq(FtpReqs)
      BY <2>2, <2>3 DEF FtpTyped
    <2> QED
      BY <2>2, <2>3, <2>5, <2>6 DEF FtpTyped
  <1>2. CASE ~(MaySend(cur, q) /\ conn \in {"login", "ready"})
    BY <1>2 DEF Send, FtpTyped
  <1> QED
    BY <1>1, <1>2

\* A request put in front of the queue or behind it
LEMMA QueueTypes ==
  ASSUME FtpTyped, NEW r \in FtpReqs
  PROVE  <<r>> \o queue \in Seq(FtpReqs) /\ Append(queue, r) \in Seq(FtpReqs)
  BY DEF FtpTyped

\* An operation's record is an operation's record after it, whoever it is of.
LEMMA WithTypes ==
  ASSUME FtpTyped, NEW o, NEW e, With(o, e), o \in FtpOps => e \in FtpRecord
  PROVE  op' \in [FtpOps -> FtpRecord]
  BY DEF FtpTyped, With

\* A caller that is told keeps its operation a record.
LEMMA EndedTypes ==
  ASSUME FtpTyped, NEW o \in FtpOps, NEW how \in {"ok", "err"}
  PROVE  Ended(o, how) \in FtpRecord
  BY DEF FtpTyped, Ended, FtpRecord

\* A record with other data connection or replies
LEMMA RecordTypes ==
  ASSUME NEW e \in FtpRecord, NEW s \in FtpSocks, NEW n \in {"none", "first", "last"},
         NEW g \in FtpOps \union {NoOp}
  PROVE  /\ [e EXCEPT !.sock = s] \in FtpRecord
         /\ [e EXCEPT !.got = g] \in FtpRecord
         /\ [e EXCEPT !.outcome = "called"] \in FtpRecord
         /\ [e EXCEPT !.sock = s, !.seen = n] \in FtpRecord
         /\ [e EXCEPT !.sock = s, !.got = g] \in FtpRecord
  BY DEF FtpRecord

\* What is left of the queues when their first has been taken
LEMMA TailTypes ==
  ASSUME FtpTyped
  PROVE  /\ answers # <<>> => /\ Tail(answers) \in Seq([to : Requests, code : Codes])
                              /\ Head(answers).code \in Codes
         /\ wire # <<>> => Tail(wire) \in Seq(FtpReqs) /\ Head(wire) \in FtpReqs
  <1>1. ASSUME answers # <<>>
        PROVE  Tail(answers) \in Seq([to : Requests, code : Codes]) /\ Head(answers).code \in Codes
    <2>1. /\ Tail(answers) \in Seq([to : Requests, code : Codes])
          /\ Head(answers) \in [to : Requests, code : Codes]
      BY <1>1, HeadTailProperties DEF FtpTyped
    <2> QED
      BY <2>1
  <1>2. ASSUME wire # <<>>
        PROVE  Tail(wire) \in Seq(FtpReqs) /\ Head(wire) \in FtpReqs
    BY <1>2, HeadTailProperties DEF FtpTyped
  <1> QED
    BY <1>1, <1>2

\* The invariant holds at first.
LEMMA FtpStarts == FtpInit => FtpInv
  <1> SUFFICES ASSUME FtpInit PROVE FtpInv
    OBVIOUS
  <1>1. curReq = Req(Login, "greeting") /\ curReq \in FtpReqs /\ curReq # NoReq
        /\ curReq.op = Login /\ curReq.cmd = "greeting" /\ Login \notin FtpOps
    BY ReqTypes, FtpAssumption DEF FtpInit, LoginCmds, Req
  <1>2. \A o \in FtpOps : /\ op[o].outcome = "idle" /\ op[o].sock = "none" /\ op[o].seen = "none"
                          /\ op[o] \in FtpRecord
    <2>1. PICK kind \in [FtpOps -> OpKinds] :
            op = [o \in FtpOps |-> [kind |-> kind[o], outcome |-> "idle", sock |-> "none",
                                    seen |-> "none", got |-> NoOp]]
      BY DEF FtpInit
    <2> QED
      BY <2>1 DEF FtpRecord, FtpSocks
  <1>3. op \in [FtpOps -> FtpRecord]
    <2>1. op = [o \in FtpOps |-> op[o]]
      BY DEF FtpInit
    <2> QED
      BY <1>2, <2>1
  <1>4. FtpTyped
    <2>1. queue = <<>> /\ answers = <<>> /\ wire = <<curReq>>
      BY DEF FtpInit
    <2>2. /\ queue \in Seq(FtpReqs) /\ answers \in Seq([to : Requests, code : Codes])
          /\ wire \in Seq(FtpReqs)
      BY <1>1, <2>1
    <2>3. busy \in [op : FtpOps \union {NoOp}, port : FtpOps \union {NoOp}]
      BY DEF FtpInit, NoTransfer
    <2>4. /\ conn = "login" /\ pasvSocket = NoOp /\ aborting = {} /\ retried = {} /\ noops = 0
          /\ port = NoOp /\ held = {} /\ interleaved = FALSE
      BY DEF FtpInit
    <2>5. noops \in 0..MaxNoops
      BY <2>4, FtpAssumption
    <2>6. /\ conn \in {"login", "ready", "refused", "lost"} /\ interleaved \in BOOLEAN
          /\ pasvSocket \in FtpOps \union {NoOp} /\ port \in FtpOps \union {NoOp}
          /\ aborting \subseteq FtpOps /\ retried \subseteq FtpOps /\ held \subseteq FtpOps
      BY <2>4
    <2> QED
      BY <1>1, <1>3, <2>2, <2>3, <2>5, <2>6 DEF FtpTyped
  <1>5. queue = <<>> /\ DOMAIN queue = {}
    BY DEF FtpInit
  <1>6. Lined(op, curReq, queue)
    <2>1. \A o \in FtpOps : ~Holds(op, curReq, queue, o)
      BY <1>1, <1>2, <1>5 DEF Holds, Making
    <2> QED
      BY <1>1, <1>5, <2>1 DEF Lined, InLine, Serving, Ordered, OneHolds, OpCmds
  <1>7. \A o \in FtpOps : Own(op[o], o, aborting)
    BY <1>2 DEF Own
  <1>8. AtServer(op, curReq, wire, answers, busy, port)
    <2>1. wire = <<curReq>> /\ answers = <<>> /\ busy = NoTransfer
      BY DEF FtpInit
    <2> QED
      BY <1>1, <2>1 DEF AtServer
  <1>9. Ported(conn, op, queue, port) /\ Phase(conn, op, curReq, queue)
    BY <1>1, <1>2, <1>5 DEF FtpInit, Ported, Phase, Making, LoginCmds
  <1>10. Served
    BY DEF FtpInit, Served
  <1> QED
    BY <1>4, <1>6, <1>7, <1>8, <1>9, <1>10 DEF FtpInv, FtpSound

-----------------------------------------------------------------------------
(* The steps of the client keep the types.                                 *)

\* A call queues a request.
LEMMA CallTypes ==
  ASSUME FtpTyped, NEW o \in FtpOps, CallFtp(o)
  PROVE  FtpTyped'
  <1> DEFINE c == IF op[o].kind = "plain" THEN "PLAIN" ELSE "PASV"
  <1>1. Req(o, c) \in FtpReqs
    BY ReqTypes DEF Cmds
  <1>2. PICK q \in Seq(FtpReqs) : q = Append(queue, Req(o, c))
    BY <1>1, QueueTypes
  <1>3. Send(curReq, q) /\ curReq \in FtpReqs \union {NoReq}
    BY <1>2 DEF CallFtp, FtpTyped
  <1>4. /\ curReq' \in FtpReqs \union {NoReq} /\ queue' \in Seq(FtpReqs)
        /\ wire' \in Seq(FtpReqs) /\ aborting' \subseteq FtpOps /\ interleaved' \in BOOLEAN
    BY <1>3, SendTypes
  <1>5. PICK e : e = [op[o] EXCEPT !.outcome = "called"] /\ With(o, e)
    BY DEF CallFtp
  <1>6. e \in FtpRecord
    BY <1>5 DEF FtpTyped, FtpRecord
  <1>7. op' \in [FtpOps -> FtpRecord]
    BY <1>5, <1>6, WithTypes
  <1>8. UNCHANGED <<conn, answers, pasvSocket, retried, noops, port, held, busy>>
    BY DEF CallFtp, serverVars
  <1> QED
    BY <1>4, <1>7, <1>8 DEF FtpTyped

\* A keepalive is a NOOP.
LEMMA KeepTypes ==
  ASSUME FtpTyped, KeepAlive
  PROVE  FtpTyped'
  <1>1. wire' \in Seq(FtpReqs) /\ curReq' \in FtpReqs
    BY ReqTypes DEF KeepAlive, FtpTyped
  <1>2. noops' \in 0..MaxNoops
    BY FtpAssumption DEF KeepAlive, FtpTyped
  <1>3. UNCHANGED <<conn, queue, answers, op, pasvSocket, aborting, retried, port, held, busy, interleaved>>
    BY DEF KeepAlive, serverVars
  <1> QED
    BY <1>1, <1>2, <1>3 DEF FtpTyped

\* What is read is the first of the replies.
LEMMA ReadTypes ==
  ASSUME FtpTyped, NEW cmds, Reads(cmds)
  PROVE  /\ answers # <<>> /\ answers' = Tail(answers)
         /\ answers' \in Seq([to : Requests, code : Codes]) /\ Code \in Codes
         /\ curReq \in FtpReqs /\ curReq # NoReq /\ curReq.cmd \in cmds /\ Owner = curReq.op
         /\ Owner \in FtpOps \union {Login} /\ (curReq.cmd \in OpCmds => Owner \in FtpOps)
  <1>1. answers # <<>> /\ curReq # NoReq /\ curReq.cmd \in cmds /\ answers' = Tail(answers)
    BY DEF Reads
  <1>2. answers' \in Seq([to : Requests, code : Codes]) /\ Code \in Codes
    BY <1>1, TailTypes DEF Code
  <1>3. curReq \in FtpReqs
    BY <1>1 DEF FtpTyped
  <1> QED
    BY <1>1, <1>2, <1>3, ReqTypes DEF Owner

\* The replies of the login
LEMMA LoginTypes ==
  ASSUME FtpTyped, LoginReply
  PROVE  FtpTyped'
  <1>1. answers' \in Seq([to : Requests, code : Codes])
    BY ReadTypes DEF LoginReply
  <1>2. UNCHANGED <<op, pasvSocket, retried, noops, port, held, busy>>
    BY DEF LoginReply, serverVars
  <1>3. /\ conn' \in {"login", "ready", "refused", "lost"}
        /\ curReq' \in FtpReqs \union {NoReq} /\ queue' \in Seq(FtpReqs)
        /\ wire' \in Seq(FtpReqs) /\ aborting' \subseteq FtpOps /\ interleaved' \in BOOLEAN
    <2>1. CASE conn' = "refused" /\ curReq' = NoReq /\ UNCHANGED <<queue, wire, aborting, interleaved>>
      BY <2>1 DEF FtpTyped
    <2>2. CASE conn' = "ready" /\ SendNext
      <3>1. Send(NoReq, queue) /\ queue \in Seq(FtpReqs)
        BY <2>2 DEF SendNext, FtpTyped
      <3> QED
        BY <2>2, <3>1, SendTypes
    <2>3. ASSUME NEW next \in {"USER", "PASS", "FEAT", "TYPE"},
                 Send(NoReq, Promoted(Login, next)), conn' = conn
          PROVE  <1>3
      <3>1. Req(Login, next) \in FtpReqs
        BY ReqTypes DEF LoginCmds
      <3>2. PICK q \in Seq(FtpReqs) : q = Promoted(Login, next)
        BY <3>1, QueueTypes DEF Promoted
      <3>3. conn' \in {"login", "ready", "refused", "lost"}
        BY <2>3 DEF FtpTyped
      <3>4. Send(NoReq, q)
        BY <2>3, <3>2
      <3> QED
        BY <3>3, <3>4, SendTypes
    <2> QED
      BY <2>1, <2>2, <2>3 DEF LoginReply
  <1> QED
    BY <1>1, <1>2, <1>3 DEF FtpTyped

\* The replies to what is one command
LEMMA SimpleTypes ==
  ASSUME FtpTyped, SimpleReply
  PROVE  FtpTyped'
  <1>1. answers' \in Seq([to : Requests, code : Codes])
    BY ReadTypes DEF SimpleReply
  <1>2. UNCHANGED <<conn, pasvSocket, retried, noops, port, held, busy>>
    BY DEF SimpleReply, serverVars
  <1>3. /\ curReq' \in FtpReqs \union {NoReq} /\ queue' \in Seq(FtpReqs)
        /\ wire' \in Seq(FtpReqs) /\ aborting' \subseteq FtpOps /\ interleaved' \in BOOLEAN
    <2>1. Send(NoReq, queue) /\ queue \in Seq(FtpReqs)
      BY DEF SimpleReply, SendNext, FtpTyped
    <2> QED
      BY <2>1, SendTypes
  <1>4. op' \in [FtpOps -> FtpRecord]
    <2>1. CASE op' = op
      BY <2>1 DEF FtpTyped
    <2>2. ASSUME NEW how \in {"ok", "err"}, With(Owner, Ended(Owner, how))
          PROVE  op' \in [FtpOps -> FtpRecord]
      <3>1. Owner \in FtpOps => Ended(Owner, how) \in FtpRecord
        BY EndedTypes
      <3> QED
        BY <2>2, <3>1, WithTypes
    <2> QED
      BY <2>1, <2>2 DEF SimpleReply
  <1> QED
    BY <1>1, <1>2, <1>3, <1>4 DEF FtpTyped

\* The reply to PASV
LEMMA PasvTypes ==
  ASSUME FtpTyped, PasvReply
  PROVE  FtpTyped'
  <1>1. answers' \in Seq([to : Requests, code : Codes]) /\ Owner \in FtpOps
    BY ReadTypes DEF PasvReply, OpCmds
  <1>2. UNCHANGED <<conn, pasvSocket, retried, noops, port, held, busy>>
    BY DEF PasvReply, serverVars
  <1>3. /\ curReq' \in FtpReqs \union {NoReq} /\ queue' \in Seq(FtpReqs)
        /\ wire' \in Seq(FtpReqs) /\ aborting' \subseteq FtpOps /\ interleaved' \in BOOLEAN
    <2>1. CASE SendNext
      <3>1. Send(NoReq, queue) /\ queue \in Seq(FtpReqs)
        BY <2>1 DEF SendNext, FtpTyped
      <3> QED
        BY <3>1, SendTypes
    <2>2. CASE curReq' = NoReq /\ UNCHANGED <<queue, wire, aborting, interleaved>>
      BY <2>2 DEF FtpTyped
    <2> QED
      BY <2>1, <2>2 DEF PasvReply
  <1>4. op' \in [FtpOps -> FtpRecord]
    <2>1. PICK e : e \in {Ended(Owner, "err"), [op[Owner] EXCEPT !.sock = "connecting"]} /\ With(Owner, e)
      BY DEF PasvReply
    <2>2. op[Owner] \in FtpRecord
      BY <1>1 DEF FtpTyped
    <2>3. [op[Owner] EXCEPT !.sock = "connecting"] \in FtpRecord
      BY <2>2 DEF FtpRecord, FtpSocks
    <2>4. e \in FtpRecord
      BY <1>1, <2>1, <2>3, EndedTypes
    <2> QED
      BY <2>1, <2>4, WithTypes
  <1> QED
    BY <1>1, <1>2, <1>3, <1>4 DEF FtpTyped

\* A reply to a transfer makes another record of it, of a data connection that
\* is what it was or closed.
LEMMA TransferTypes ==
  ASSUME FtpTyped, TransferReply
  PROVE  FtpTyped'
  <1>1. /\ answers' \in Seq([to : Requests, code : Codes]) /\ Owner \in FtpOps
    BY ReadTypes DEF TransferReply, OpCmds
  <1>2. UNCHANGED <<conn, retried, noops, port, held, busy>>
    BY DEF TransferReply, serverVars
  <1>3. /\ curReq' \in FtpReqs \union {NoReq} /\ queue' \in Seq(FtpReqs)
        /\ wire' \in Seq(FtpReqs) /\ aborting' \subseteq FtpOps /\ interleaved' \in BOOLEAN
    <2>1. CASE UNCHANGED <<curReq, queue, wire, aborting, interleaved>>
      BY <2>1 DEF FtpTyped
    <2>2. CASE Send(NoReq, queue)
      <3>1. queue \in Seq(FtpReqs)
        BY DEF FtpTyped
      <3> QED
        BY <2>2, <3>1, SendTypes
    <2>3. CASE Send(NoReq, Promoted(Owner, "MODE"))
      <3>1. Req(Owner, "MODE") \in FtpReqs
        BY <1>1, ReqTypes DEF Cmds
      <3>2. PICK q \in Seq(FtpReqs) : q = Promoted(Owner, "MODE")
        BY <3>1, QueueTypes DEF Promoted
      <3>3. Send(NoReq, q)
        BY <2>3, <3>2
      <3> QED
        BY <3>3, SendTypes
    <2> QED
      BY <2>1, <2>2, <2>3 DEF TransferReply
  <1>4. op' \in [FtpOps -> FtpRecord]
    <2>1. op[Owner] \in FtpRecord
      BY <1>1 DEF FtpTyped
    <2>2. PICK s : s = SockAfter(Owner)
      OBVIOUS
    <2>3. s \in FtpSocks
      BY <2>1, <2>2 DEF SockAfter, FtpRecord, FtpSocks
    <2>4. \A how \in {"ok", "err"} : /\ [Ended(Owner, how) EXCEPT !.sock = s] \in FtpRecord
                                     /\ [Ended(Owner, how) EXCEPT !.sock = s, !.seen = "last"] \in FtpRecord
      <3>1. ASSUME NEW how \in {"ok", "err"}
            PROVE  /\ [Ended(Owner, how) EXCEPT !.sock = s] \in FtpRecord
                   /\ [Ended(Owner, how) EXCEPT !.sock = s, !.seen = "last"] \in FtpRecord
        <4>1. PICK e \in FtpRecord : e = Ended(Owner, how)
          BY <1>1, EndedTypes
        <4> QED
          BY <2>3, <4>1 DEF FtpRecord
      <3> QED
        BY <3>1
    <2>5. Final(Owner, s) \in {"ok", "err"}
      BY DEF Final
    <2>6. [op[Owner] EXCEPT !.sock = s, !.seen = IF IsFirst(Owner) THEN "first" ELSE "last"] \in FtpRecord
      BY <2>1, <2>3 DEF FtpRecord
    <2>7. \/ With(Owner, [Ended(Owner, "err") EXCEPT !.sock = s])
          \/ With(Owner, [Ended(Owner, Final(Owner, s)) EXCEPT !.sock = s, !.seen = "last"])
          \/ With(Owner, [op[Owner] EXCEPT !.sock = s, !.seen = IF IsFirst(Owner) THEN "first" ELSE "last"])
      BY <2>2 DEF TransferReply
    <2>8. PICK e \in FtpRecord : With(Owner, e)
      BY <2>4, <2>5, <2>6, <2>7
    <2> QED
      BY <2>8, WithTypes
  <1>5. pasvSocket' \in FtpOps \union {NoOp}
    BY DEF TransferReply, FtpTyped
  <1> QED
    BY <1>1, <1>2, <1>3, <1>4, <1>5 DEF FtpTyped

\* A reply nobody waits for
LEMMA StrayTypes ==
  ASSUME FtpTyped, StrayReply
  PROVE  FtpTyped'
  <1>1. answers' \in Seq([to : Requests, code : Codes])
    BY TailTypes DEF StrayReply
  <1>2. UNCHANGED <<conn, curReq, queue, wire, op, pasvSocket, aborting, retried, noops, port,
                    held, busy, interleaved>>
    BY DEF StrayReply, serverVars
  <1> QED
    BY <1>1, <1>2 DEF FtpTyped

\* A data connection that has come about, or that was written to
LEMMA SocketTypes ==
  ASSUME FtpTyped, NEW o \in FtpOps, Accept(o) \/ InputEnds(o)
  PROVE  FtpTyped'
  <1>1. PICK s \in FtpSocks : With(o, [op[o] EXCEPT !.sock = s])
    BY DEF Accept, InputEnds, FtpSocks
  <1>2. [op[o] EXCEPT !.sock = s] \in FtpRecord
    BY DEF FtpTyped, FtpRecord
  <1>3. op' \in [FtpOps -> FtpRecord]
    BY <1>1, <1>2, WithTypes
  <1>4. held' \subseteq FtpOps
    BY DEF Accept, InputEnds, FtpTyped, serverVars
  <1>5. UNCHANGED <<conn, curReq, queue, wire, answers, pasvSocket, aborting, retried, noops,
                    port, busy, interleaved>>
    BY DEF Accept, InputEnds, serverVars
  <1> QED
    BY <1>3, <1>4, <1>5 DEF FtpTyped

\* The command that uses a data connection is queued, or an ABOR answers it.
LEMMA ConnectedTypes ==
  ASSUME FtpTyped, NEW o \in FtpOps, Connected(o)
  PROVE  FtpTyped'
  <1>1. PICK e : With(o, e) /\ e \in {[Ended(o, "ok") EXCEPT !.sock = "gone"], [op[o] EXCEPT !.sock = "open"]}
    BY DEF Connected
  <1>2. e \in FtpRecord
    <2>1. PICK r \in FtpRecord : r = Ended(o, "ok")
      BY EndedTypes
    <2>2. op[o] \in FtpRecord
      BY DEF FtpTyped
    <2>3. [r EXCEPT !.sock = "gone"] \in FtpRecord /\ [op[o] EXCEPT !.sock = "open"] \in FtpRecord
      BY <2>2 DEF FtpRecord, FtpSocks
    <2> QED
      BY <1>1, <2>1, <2>3
  <1>3. op' \in [FtpOps -> FtpRecord]
    BY <1>1, <1>2, WithTypes
  <1>4. PICK q \in Seq(FtpReqs) : Send(curReq, q)
    <2>1. Req(o, "DATA") \in FtpReqs
      BY ReqTypes DEF Cmds
    <2>2. Promoted(o, "DATA") \in Seq(FtpReqs)
      BY <2>1, QueueTypes DEF Promoted
    <2>3. queue \in Seq(FtpReqs)
      BY DEF FtpTyped
    <2>4. CASE Send(curReq, queue)
      BY <2>3, <2>4
    <2>5. CASE Send(curReq, Promoted(o, "DATA"))
      BY <2>2, <2>5
    <2> QED
      BY <2>4, <2>5 DEF Connected
  <1>5. /\ curReq' \in FtpReqs \union {NoReq} /\ queue' \in Seq(FtpReqs)
        /\ wire' \in Seq(FtpReqs) /\ aborting' \subseteq FtpOps /\ interleaved' \in BOOLEAN
    <2>1. curReq \in FtpReqs \union {NoReq}
      BY DEF FtpTyped
    <2> QED
      BY <1>4, <2>1, SendTypes
  <1>6. pasvSocket' \in FtpOps \union {NoOp}
    BY DEF Connected
  <1>7. UNCHANGED <<conn, answers, retried, noops, port, held, busy>>
    BY DEF Connected, serverVars
  <1> QED
    BY <1>3, <1>5, <1>6, <1>7 DEF FtpTyped

\* Another attempt, or an ABOR
LEMMA PasvFailsTypes ==
  ASSUME FtpTyped, NEW o \in FtpOps, PasvFails(o)
  PROVE  /\ op' \in [FtpOps -> FtpRecord] /\ retried' \subseteq FtpOps
         /\ curReq' \in FtpReqs \union {NoReq} /\ queue' \in Seq(FtpReqs)
         /\ wire' \in Seq(FtpReqs) /\ aborting' \subseteq FtpOps /\ interleaved' \in BOOLEAN
  <1>1. PICK s \in {"connecting", "gone"} : With(o, [op[o] EXCEPT !.sock = s])
    BY DEF PasvFails
  <1>2. [op[o] EXCEPT !.sock = s] \in FtpRecord
    BY DEF FtpTyped, FtpRecord, FtpSocks
  <1>3. op' \in [FtpOps -> FtpRecord]
    BY <1>1, <1>2, WithTypes
  <1>4. retried' \subseteq FtpOps
    BY DEF PasvFails, FtpTyped
  <1>5. CASE /\ curReq' = NoReq /\ interleaved' = (interleaved \/ curReq # NoReq)
             /\ UNCHANGED <<queue, wire, aborting>>
    <2>1. interleaved' \in BOOLEAN
      BY <1>5
    <2> QED
      BY <1>3, <1>4, <1>5, <2>1 DEF FtpTyped
  <1>6. CASE Send(curReq, Promoted(o, "ABOR"))
    <2>1. Req(o, "ABOR") \in FtpReqs
      BY ReqTypes DEF Cmds
    <2>2. PICK q \in Seq(FtpReqs) : q = Promoted(o, "ABOR")
      BY <2>1, QueueTypes DEF Promoted
    <2>3. Send(curReq, q) /\ curReq \in FtpReqs \union {NoReq}
      BY <1>6, <2>2 DEF FtpTyped
    <2> QED
      BY <1>3, <1>4, <2>3, SendTypes
  <1> QED
    BY <1>5, <1>6 DEF PasvFails

\* A data connection that does not come about
LEMMA FailsTypes ==
  ASSUME FtpTyped, NEW o \in FtpOps, DataConnectFails(o) \/ ConnectTimesOut(o)
  PROVE  FtpTyped'
  <1>1. /\ pasvSocket' \in FtpOps \union {NoOp} /\ held' \subseteq FtpOps
        /\ UNCHANGED <<conn, answers, noops, port, busy>>
    BY DEF DataConnectFails, ConnectTimesOut, FtpTyped, serverVars
  <1>2. CASE PasvFails(o)
    BY <1>1, <1>2, PasvFailsTypes DEF FtpTyped
  <1>3. CASE /\ With(o, [op[o] EXCEPT !.sock = "gone"])
             /\ UNCHANGED <<curReq, queue, wire, aborting, retried, interleaved>>
    <2>3. op[o] \in FtpRecord
      BY DEF FtpTyped
    <2>1. [op[o] EXCEPT !.sock = "gone"] \in FtpRecord
      BY <2>3 DEF FtpRecord, FtpSocks
    <2>2. op' \in [FtpOps -> FtpRecord]
      BY <1>3, <2>1, WithTypes
    <2> QED
      BY <1>1, <1>3, <2>2 DEF FtpTyped
  <1> QED
    BY <1>2, <1>3 DEF DataConnectFails, ConnectTimesOut

\* A data connection that ends or fails
LEMMA ClosesTypes ==
  ASSUME FtpTyped, NEW o \in FtpOps, NEW how \in {"ended", "broken"}, DataCloses(o, how)
  PROVE  FtpTyped'
  <1>1. PICK r \in FtpRecord, g \in FtpOps \union {NoOp} : With(o, [r EXCEPT !.sock = how, !.got = g])
    <2>1. op[o] \in FtpRecord
      BY DEF FtpTyped
    <2>2. Final(o, how) \in {"ok", "err"}
      BY DEF Final
    <2>3. Ended(o, Final(o, how)) \in FtpRecord
      BY <2>2, EndedTypes
    <2>4. PICK r : /\ r \in {op[o], Ended(o, Final(o, how))}
                   /\ With(o, [r EXCEPT !.sock = how,
                                        !.got = IF how = "broken" /\ op[o].kind # "put" THEN NoOp ELSE @])
      BY DEF DataCloses
    <2>5. r \in FtpRecord
      BY <2>1, <2>3, <2>4
    <2>6. PICK g : g = IF how = "broken" /\ op[o].kind # "put" THEN NoOp ELSE r.got
      OBVIOUS
    <2>7. g \in FtpOps \union {NoOp}
      BY <2>5, <2>6 DEF FtpRecord
    <2> QED
      BY <2>4, <2>5, <2>6, <2>7
  <1>2. [r EXCEPT !.sock = how, !.got = g] \in FtpRecord
    BY DEF FtpRecord, FtpSocks
  <1>3. op' \in [FtpOps -> FtpRecord]
    BY <1>1, <1>2, WithTypes
  <1>4. PICK q \in Seq(FtpReqs) : Send(curReq, q)
    <2>1. Req(o, "MODE") \in FtpReqs
      BY ReqTypes DEF Cmds
    <2>2. Promoted(o, "MODE") \in Seq(FtpReqs)
      BY <2>1, QueueTypes DEF Promoted
    <2>3. queue \in Seq(FtpReqs)
      BY DEF FtpTyped
    <2>4. CASE Send(curReq, queue)
      BY <2>3, <2>4
    <2>5. CASE Send(curReq, Promoted(o, "MODE"))
      BY <2>2, <2>5
    <2> QED
      BY <2>4, <2>5 DEF DataCloses
  <1>5. /\ curReq' \in FtpReqs \union {NoReq} /\ queue' \in Seq(FtpReqs)
        /\ wire' \in Seq(FtpReqs) /\ aborting' \subseteq FtpOps /\ interleaved' \in BOOLEAN
    <2>1. curReq \in FtpReqs \union {NoReq}
      BY DEF FtpTyped
    <2> QED
      BY <1>4, <2>1, SendTypes
  <1>6. pasvSocket' \in FtpOps \union {NoOp} /\ held' \subseteq FtpOps
    BY DEF DataCloses, FtpTyped
  <1>7. UNCHANGED <<conn, answers, retried, noops, port, busy>>
    BY DEF DataCloses
  <1> QED
    BY <1>3, <1>5, <1>6, <1>7 DEF FtpTyped

\* The control connection ends.
LEMMA LostTypes ==
  ASSUME FtpTyped, Lost
  PROVE  FtpTyped'
  <1>1. queue' \in Seq(FtpReqs) /\ wire' \in Seq(FtpReqs) /\ answers' \in Seq([to : Requests, code : Codes])
    BY DEF Lost
  <1>2. busy' \in [op : FtpOps \union {NoOp}, port : FtpOps \union {NoOp}]
    BY DEF Lost, NoTransfer
  <1>3. /\ conn' \in {"login", "ready", "refused", "lost"}
        /\ curReq' = NoReq /\ port' = NoOp /\ held' = {}
    BY DEF Lost
  <1>4. UNCHANGED <<op, pasvSocket, aborting, retried, noops, interleaved>>
    BY DEF Lost
  <1> QED
    BY <1>1, <1>2, <1>3, <1>4 DEF FtpTyped

-----------------------------------------------------------------------------
(* The steps of the server keep the types.                                 *)

\* What the server says is a reply.
LEMMA AnswerTypes ==
  ASSUME FtpTyped, wire # <<>>, NEW code \in Codes, Answer(code)
  PROVE  answers' \in Seq([to : Requests, code : Codes])
  <1>1. Head(wire) \in Requests
    BY TailTypes DEF FtpReqs
  <1>2. PICK a \in [to : Requests, code : Codes] : a = [to |-> Head(wire), code |-> code]
    BY <1>1
  <1>3. answers' = Append(answers, a)
    BY <1>2 DEF Answer
  <1> QED
    BY <1>3 DEF FtpTyped

\* Of the client, nothing changes but what a transfer brings.
LEMMA ServerTypes ==
  ASSUME FtpTyped, Served, ServerAnswers \/ ServerBegins \/ ServerEnds
  PROVE  FtpTyped'
  <1>1. wire # <<>>
    BY DEF ServerAnswers, ServerBegins, ServerEnds, Served
  <1>2. Tail(wire) \in Seq(FtpReqs) /\ Head(wire) \in FtpReqs
    BY <1>1, TailTypes
  <1>3. PICK code \in Codes : Answer(code)
    BY DEF ServerAnswers, ServerBegins, ServerEnds, Codes
  <1>4. answers' \in Seq([to : Requests, code : Codes])
    BY <1>1, <1>3, AnswerTypes
  <1>5. wire' \in Seq(FtpReqs)
    BY <1>2 DEF ServerAnswers, ServerBegins, ServerEnds, FtpTyped
  <1>6. UNCHANGED <<conn, curReq, queue, pasvSocket, aborting, retried, noops, interleaved>>
    BY DEF ServerAnswers, ServerBegins, ServerEnds, ClientVars
  <1>7. held' \subseteq FtpOps
    BY DEF ServerAnswers, ServerBegins, ServerEnds, FtpTyped
  <1>8. /\ Head(wire).op \in FtpOps \union {Login}
        /\ Head(wire).cmd \in {"PASV", "DATA"} => Head(wire).op \in FtpOps
    BY <1>2, ReqTypes DEF OpCmds
  <1>9. port' \in FtpOps \union {NoOp}
    BY <1>8 DEF ServerAnswers, ServerBegins, ServerEnds, FtpTyped
  <1>10. busy' \in [op : FtpOps \union {NoOp}, port : FtpOps \union {NoOp}]
    <2>1. CASE busy' = busy \/ busy' = NoTransfer
      BY <2>1 DEF FtpTyped, NoTransfer
    <2>2. CASE Head(wire).cmd = "DATA" /\ busy' = [op |-> Head(wire).op, port |-> port]
      BY <1>8, <2>2 DEF FtpTyped
    <2> QED
      BY <2>1, <2>2 DEF ServerAnswers, ServerBegins, ServerEnds
  <1>11. op' \in [FtpOps -> FtpRecord]
    <2>1. CASE op' = op
      BY <2>1 DEF FtpTyped
    <2>2. ASSUME NEW o, NEW g \in FtpOps \union {NoOp}, With(o, [op[o] EXCEPT !.got = g])
          PROVE  op' \in [FtpOps -> FtpRecord]
      <3>1. o \in FtpOps => [op[o] EXCEPT !.got = g] \in FtpRecord
        BY DEF FtpTyped, FtpRecord
      <3> QED
        BY <2>2, <3>1, WithTypes
    <2>3. busy.op \in FtpOps \union {NoOp} /\ busy.port \in FtpOps \union {NoOp}
      BY DEF FtpTyped
    <2>4. CASE ServerAnswers
      BY <2>1, <2>4 DEF ServerAnswers
    <2>5. CASE ServerBegins
      BY <1>8, <2>1, <2>2, <2>5 DEF ServerBegins
    <2>6. CASE ServerEnds
      BY <2>1, <2>2, <2>3, <2>6 DEF ServerEnds
    <2> QED
      BY <2>4, <2>5, <2>6
  <1> QED
    BY <1>4, <1>5, <1>6, <1>7, <1>9, <1>10, <1>11 DEF FtpTyped

\* No step but the server's and the loss of the connection shortens the wire.
LEMMA SendServes ==
  ASSUME FtpTyped, NEW cur \in FtpReqs \union {NoReq}, NEW q \in Seq(FtpReqs), Send(cur, q)
  PROVE  wire # <<>> => wire' # <<>>
  <1>1. CASE wire' = wire
    BY <1>1
  <1>2. CASE MaySend(cur, q) /\ wire' = Append(wire, Head(q))
    <2>1. Head(q) \in FtpReqs /\ wire \in Seq(FtpReqs)
      BY <1>2, HeadTailProperties DEF MaySend, FtpTyped
    <2> QED
      BY <1>2, <2>1
  <1> QED
    BY <1>1, <1>2 DEF Send

\* A step of the client leaves the transfer the server is at.
LEMMA ClientServes ==
  ASSUME FtpTyped, Served, busy' = busy,
         \/ UNCHANGED wire
         \/ \E r \in FtpReqs : wire' = Append(wire, r)
         \/ \E cur \in FtpReqs \union {NoReq}, q \in Seq(FtpReqs) : Send(cur, q)
  PROVE  Served'
  <1>1. CASE UNCHANGED wire
    BY <1>1 DEF Served
  <1>2. ASSUME NEW r \in FtpReqs, wire' = Append(wire, r)
        PROVE  Served'
    <2>1. wire' # <<>>
      BY <1>2 DEF FtpTyped
    <2> QED
      BY <2>1 DEF Served
  <1>3. ASSUME NEW cur \in FtpReqs \union {NoReq}, NEW q \in Seq(FtpReqs), Send(cur, q)
        PROVE  Served'
    <2>1. wire # <<>> => wire' # <<>>
      BY <1>3, SendServes
    <2> QED
      BY <2>1 DEF Served
  <1> QED
    BY <1>1, <1>2, <1>3

\* Every step keeps a transfer at the head of the wire.
LEMMA ServedStep ==
  ASSUME FtpTyped, Served, [FtpNext]_ftpVars
  PROVE  Served'
  <1> DEFINE Sending == \E cur \in FtpReqs \union {NoReq}, q \in Seq(FtpReqs) : Send(cur, q)
  <1>q. /\ queue \in Seq(FtpReqs) /\ curReq \in FtpReqs \union {NoReq}
        /\ \A r \in FtpReqs : <<r>> \o queue \in Seq(FtpReqs) /\ Append(queue, r) \in Seq(FtpReqs)
    BY QueueTypes DEF FtpTyped
  <1>p. \A o \in FtpOps, c \in Cmds : Promoted(o, c) \in Seq(FtpReqs)
    BY <1>q, ReqTypes DEF Promoted
  <1>1. CASE UNCHANGED ftpVars
    BY <1>1 DEF ftpVars, Served
  <1>2. CASE KeepAlive
    <2>1. wire' = Append(wire, Noop) /\ busy' = busy
      BY <1>2 DEF KeepAlive, serverVars
    <2> QED
      BY <2>1, ReqTypes, ClientServes
  <1>3. CASE Lost
    BY <1>3 DEF Lost, Served
  <1>4. CASE LoginReply
    <2>1. busy' = busy
      BY <1>4 DEF LoginReply, serverVars
    <2>2. ASSUME NEW next \in {"USER", "PASS", "FEAT", "TYPE"}, Send(NoReq, Promoted(Login, next))
          PROVE  Sending
      <3>1. Promoted(Login, next) \in Seq(FtpReqs)
        BY <1>q, ReqTypes DEF Promoted, LoginCmds
      <3> QED
        BY <2>2, <3>1
    <2>3. Sending \/ UNCHANGED wire
      <3>1. SendNext => Sending
        BY <1>q DEF SendNext
      <3> QED
        BY <1>4, <2>2, <3>1 DEF LoginReply
    <2> QED
      BY <2>1, <2>3, ClientServes
  <1>5. CASE SimpleReply \/ PasvReply
    <2>1. busy' = busy /\ (SendNext \/ UNCHANGED wire)
      BY <1>5 DEF SimpleReply, PasvReply, serverVars
    <2>2. Sending \/ UNCHANGED wire
      BY <2>1, <1>q DEF SendNext
    <2> QED
      BY <2>1, <2>2, ClientServes
  <1>6. CASE TransferReply
    <2>1. Owner \in FtpOps
      BY <1>6, ReadTypes DEF TransferReply, OpCmds
    <2>2. Promoted(Owner, "MODE") \in Seq(FtpReqs)
      BY <2>1, <1>p DEF Cmds
    <2>3. busy' = busy
      BY <1>6 DEF TransferReply, serverVars
    <2>4. UNCHANGED wire \/ Send(NoReq, queue) \/ Send(NoReq, Promoted(Owner, "MODE"))
      BY <1>6 DEF TransferReply
    <2>5. Sending \/ UNCHANGED wire
      BY <2>2, <2>4, <1>q
    <2> QED
      BY <2>3, <2>5, ClientServes
  <1>7. CASE StrayReply
    BY <1>7, ClientServes DEF StrayReply, serverVars
  <1>8. CASE ServerAnswers \/ ServerBegins \/ ServerEnds
    BY <1>8 DEF ServerAnswers, ServerBegins, ServerEnds, Served
  <1>9. ASSUME NEW o \in FtpOps, CallFtp(o) \/ Connected(o)
        PROVE  Served'
    <2>1. busy' = busy
      BY <1>9 DEF CallFtp, Connected, serverVars
    <2>2. \A c \in {"PLAIN", "PASV"} : Append(queue, Req(o, c)) \in Seq(FtpReqs)
      BY <1>q, ReqTypes DEF Cmds
    <2>3. Promoted(o, "DATA") \in Seq(FtpReqs)
      BY <1>p DEF Cmds
    <2>4. CASE CallFtp(o)
      <3>1. PICK c \in {"PLAIN", "PASV"} : Send(curReq, Append(queue, Req(o, c)))
        BY <2>4 DEF CallFtp
      <3>2. Sending
        BY <3>1, <2>2, <1>q
      <3> QED
        BY <2>1, <3>2, ClientServes
    <2>5. CASE Connected(o)
      <3>1. Send(curReq, queue) \/ Send(curReq, Promoted(o, "DATA"))
        BY <2>5 DEF Connected
      <3>2. Sending
        BY <3>1, <2>3, <1>q
      <3> QED
        BY <2>1, <3>2, ClientServes
    <2> QED
      BY <1>9, <2>4, <2>5
  <1>10. ASSUME NEW o \in FtpOps, Accept(o) \/ InputEnds(o)
         PROVE  Served'
    BY <1>10, ClientServes DEF Accept, InputEnds, serverVars
  <1>11. ASSUME NEW o \in FtpOps, DataConnectFails(o) \/ ConnectTimesOut(o)
         PROVE  Served'
    <2>1. busy' = busy /\ (UNCHANGED wire \/ Send(curReq, Promoted(o, "ABOR")))
      BY <1>11 DEF DataConnectFails, ConnectTimesOut, PasvFails, serverVars
    <2>2. Promoted(o, "ABOR") \in Seq(FtpReqs)
      BY <1>p DEF Cmds
    <2>3. Sending \/ UNCHANGED wire
      BY <2>1, <2>2, <1>q
    <2> QED
      BY <2>1, <2>3, ClientServes
  <1>12. ASSUME NEW o \in FtpOps, NEW how \in {"ended", "broken"}, DataCloses(o, how)
         PROVE  Served'
    <2>1. busy' = busy /\ (Send(curReq, queue) \/ Send(curReq, Promoted(o, "MODE")))
      BY <1>12 DEF DataCloses
    <2>2. Promoted(o, "MODE") \in Seq(FtpReqs)
      BY <1>p DEF Cmds
    <2>3. Sending
      BY <2>1, <2>2, <1>q
    <2> QED
      BY <2>1, <2>3, ClientServes
  <1> QED
    BY <1>1, <1>2, <1>3, <1>4, <1>5, <1>6, <1>7, <1>8, <1>9, <1>10, <1>11, <1>12 DEF FtpNext

\* Every step keeps the types.
LEMMA TypedStep ==
  ASSUME FtpTyped, Served, [FtpNext]_ftpVars
  PROVE  FtpTyped'
  <1>1. CASE UNCHANGED ftpVars
    BY <1>1 DEF ftpVars, serverVars, FtpTyped
  <1>2. ASSUME NEW o \in FtpOps,
               \/ CallFtp(o) \/ Accept(o) \/ Connected(o) \/ DataConnectFails(o)
               \/ ConnectTimesOut(o) \/ InputEnds(o)
        PROVE  FtpTyped'
    BY <1>2, CallTypes, SocketTypes, ConnectedTypes, FailsTypes
  <1>3. ASSUME NEW o \in FtpOps, NEW how \in {"ended", "broken"}, DataCloses(o, how)
        PROVE  FtpTyped'
    BY <1>3, ClosesTypes
  <1>4. CASE ServerAnswers \/ ServerBegins \/ ServerEnds
    BY <1>4, ServerTypes
  <1> QED
    BY <1>1, <1>2, <1>3, <1>4, KeepTypes, LostTypes, LoginTypes, SimpleTypes, PasvTypes,
       TransferTypes, StrayTypes DEF FtpNext

-----------------------------------------------------------------------------
(* The queue and the current request.                                      *)

\* A queue with a request put in front of it
LEMMA FrontOf ==
  ASSUME NEW r \in FtpReqs, NEW q \in Seq(FtpReqs), NEW s, s = <<r>> \o q
  PROVE  /\ s \in Seq(FtpReqs) /\ DOMAIN s = 1..Len(q) + 1 /\ s[1] = r
         /\ \A i \in DOMAIN s : i = 1 \/ (i - 1 \in DOMAIN q /\ s[i] = q[i - 1])
  <1>1. /\ s \in Seq(FtpReqs) /\ Len(s) = Len(q) + 1
        /\ \A i \in 1..Len(q) + 1 : s[i] = IF i <= 1 THEN r ELSE q[i - 1]
    OBVIOUS
  <1>2. Len(q) \in Nat /\ DOMAIN q = 1..Len(q) /\ DOMAIN s = 1..Len(q) + 1
    BY <1>1, LenProperties
  <1> QED
    BY <1>1, <1>2

\* An operation goes on, and its request or the one at the server may be done.
LEMMA LinedChange ==
  ASSUME NEW recs \in [FtpOps -> FtpRecord], NEW cur \in FtpReqs \union {NoReq}, NEW q,
         Lined(recs, cur, q), NEW o \in FtpOps, NEW e, NEW new, new = [recs EXCEPT ![o] = e],
         NEW next \in {cur, NoReq}, next.op = o => Fits(e, next.cmd),
         \A i \in DOMAIN q : q[i].op = o => Fits(e, q[i].cmd),
         e.sock \in Making => Holds(recs, cur, q, o)
  PROVE  Lined(new, next, q)
  <1>1. \A p \in FtpOps : new[p] = IF p = o THEN e ELSE recs[p]
    OBVIOUS
  <1>2. NoReq.op = NoOp /\ NoReq.cmd = "NOOP" /\ NoOp \notin FtpOps
    BY FtpAssumption DEF NoReq, Req
  <1>3. InLine(recs, cur, q) /\ Serving(recs, cur) /\ Ordered(q) /\ OneHolds(recs, cur, q)
    BY DEF Lined
  <1>4. InLine(new, next, q)
    BY <1>1, <1>2, <1>3 DEF InLine
  <1>5. Serving(new, next)
    BY <1>1, <1>2, <1>3 DEF Serving, OpCmds
  <1>6. ASSUME NEW p \in FtpOps, Holds(new, next, q, p) PROVE Holds(recs, cur, q, p)
    BY <1>1, <1>2, <1>6 DEF Holds
  <1>7. OneHolds(new, next, q)
    BY <1>3, <1>6 DEF OneHolds
  <1> QED
    BY <1>3, <1>4, <1>5, <1>7 DEF Lined

\* The request at the server may be done.
LEMMA LinedFree ==
  ASSUME NEW recs, NEW cur, NEW q, Lined(recs, cur, q)
  PROVE  Lined(recs, NoReq, q)
  <1>1. NoReq.op = NoOp /\ NoReq.cmd = "NOOP" /\ NoOp \notin FtpOps
    BY FtpAssumption DEF NoReq, Req
  <1>2. \A p \in FtpOps : Holds(recs, NoReq, q, p) => Holds(recs, cur, q, p)
    BY <1>1 DEF Holds
  <1> QED
    BY <1>1, <1>2 DEF Lined, InLine, Serving, OneHolds, OpCmds

\* An operation goes on once its last request is done.
LEMMA LinedOver ==
  ASSUME NEW recs \in [FtpOps -> FtpRecord], NEW cur \in FtpReqs \union {NoReq}, NEW q,
         Lined(recs, cur, q), NEW o \in FtpOps, NEW e, NEW new, new = [recs EXCEPT ![o] = e],
         \A i \in DOMAIN q : q[i].op # o, e.sock \notin Making
  PROVE  Lined(new, NoReq, q)
  <1>1. NoReq.op # o /\ NoReq \in {cur, NoReq}
    BY FtpAssumption DEF NoReq, Req
  <1> QED
    BY <1>1, LinedChange

\* An operation without requests goes on.
LEMMA LinedAside ==
  ASSUME NEW recs \in [FtpOps -> FtpRecord], NEW cur \in FtpReqs \union {NoReq}, NEW q,
         Lined(recs, cur, q), NEW o \in FtpOps, NEW e, NEW new, new = [recs EXCEPT ![o] = e],
         cur.op # o, \A i \in DOMAIN q : q[i].op # o, e.sock \notin Making
  PROVE  Lined(new, cur, q)
  <1>1. cur \in {cur, NoReq}
    OBVIOUS
  <1> QED
    BY <1>1, LinedChange

\* A request that goes on with a transfer may come first.
LEMMA FrontLined ==
  ASSUME NEW recs, NEW cur, NEW q \in Seq(FtpReqs), InLine(recs, cur, q), Ordered(q),
         NEW o \in FtpOps, NEW c \in {"DATA", "ABOR", "MODE"}, Fits(recs[o], c), cur.op # o,
         \A i \in DOMAIN q : q[i].op # o, NEW s, s = <<Req(o, c)>> \o q
  PROVE  InLine(recs, cur, s) /\ Ordered(s)
  <1>1. Req(o, c) \in FtpReqs /\ Req(o, c).op = o /\ Req(o, c).cmd = c
    BY ReqTypes DEF Cmds, Req
  <1>2. /\ DOMAIN s = 1..Len(q) + 1 /\ s[1] = Req(o, c)
        /\ \A i \in DOMAIN s : i = 1 \/ (i - 1 \in DOMAIN q /\ s[i] = q[i - 1])
    BY <1>1, FrontOf
  <1>3. InLine(recs, cur, s)
    BY <1>1, <1>2 DEF InLine
  <1>4. Ordered(s)
    <2> SUFFICES ASSUME NEW i \in DOMAIN s, NEW j \in DOMAIN s, i < j
                 PROVE  s[i].op # s[j].op /\ (Starting(s[i].cmd) => Starting(s[j].cmd))
      BY DEF Ordered
    <2>1. i \in Nat /\ j \in Nat /\ j # 1 /\ j - 1 \in DOMAIN q /\ s[j] = q[j - 1] /\ j - 1 \in Nat
      BY <1>2, LenProperties
    <2>2. CASE i = 1
      BY <1>1, <1>2, <2>1, <2>2 DEF Starting
    <2>3. CASE i # 1
      <3>1. i - 1 \in DOMAIN q /\ s[i] = q[i - 1] /\ i - 1 < j - 1
        BY <1>2, <2>1, <2>3
      <3> QED
        BY <2>1, <3>1 DEF Ordered
    <2> QED
      BY <2>2, <2>3
  <1> QED
    BY <1>3, <1>4

\* A transfer goes on: its request comes first.
LEMMA LinedFront ==
  ASSUME NEW recs, NEW cur \in FtpReqs \union {NoReq}, NEW q \in Seq(FtpReqs), Lined(recs, cur, q),
         NEW o \in FtpOps, NEW c \in {"DATA", "ABOR", "MODE"}, Fits(recs[o], c), cur.op # o,
         \A i \in DOMAIN q : q[i].op # o,
         c = "MODE" \/ Holds(recs, cur, q, o)
  PROVE  Lined(recs, cur, <<Req(o, c)>> \o q)
  <1>1. Req(o, c) \in FtpReqs /\ Req(o, c).op = o /\ Req(o, c).cmd = c
    BY ReqTypes DEF Cmds, Req
  <1>2. PICK s : s = <<Req(o, c)>> \o q
    OBVIOUS
  <1>3. /\ DOMAIN s = 1..Len(q) + 1 /\ s[1] = Req(o, c)
        /\ \A i \in DOMAIN s : i = 1 \/ (i - 1 \in DOMAIN q /\ s[i] = q[i - 1])
    BY <1>1, <1>2, FrontOf
  <1>4. InLine(recs, cur, q) /\ Serving(recs, cur) /\ Ordered(q) /\ OneHolds(recs, cur, q)
    BY DEF Lined
  <1>5. InLine(recs, cur, s) /\ Ordered(s)
    BY <1>2, <1>4, FrontLined
  <1>7. ASSUME NEW p \in FtpOps, Holds(recs, cur, s, p) PROVE Holds(recs, cur, q, p)
    <2>1. CASE \E i \in DOMAIN s : s[i].op = p /\ s[i].cmd \in {"DATA", "ABOR"}
      <3>1. PICK i \in DOMAIN s : s[i].op = p /\ s[i].cmd \in {"DATA", "ABOR"}
        BY <2>1
      <3>2. CASE i = 1
        BY <1>1, <1>3, <3>1, <3>2
      <3>3. CASE i - 1 \in DOMAIN q /\ s[i] = q[i - 1]
        BY <3>1, <3>3 DEF Holds
      <3> QED
        BY <1>3, <3>2, <3>3
    <2>2. CASE ~\E i \in DOMAIN s : s[i].op = p /\ s[i].cmd \in {"DATA", "ABOR"}
      BY <1>7, <2>2 DEF Holds
    <2> QED
      BY <2>1, <2>2
  <1>8. OneHolds(recs, cur, s)
    BY <1>4, <1>7 DEF OneHolds
  <1> QED
    BY <1>2, <1>4, <1>5, <1>8 DEF Lined

\* An operation begins: its request comes last.
LEMMA LinedBack ==
  ASSUME NEW recs, NEW cur \in FtpReqs \union {NoReq}, NEW q \in Seq(FtpReqs), Lined(recs, cur, q),
         NEW o \in FtpOps, NEW c \in {"PASV", "PLAIN"}, Fits(recs[o], c), cur.op # o,
         \A i \in DOMAIN q : q[i].op # o
  PROVE  Lined(recs, cur, Append(q, Req(o, c)))
  <1>1. Req(o, c) \in FtpReqs /\ Req(o, c).op = o /\ Req(o, c).cmd = c
    BY ReqTypes DEF Cmds, Req
  <1>2. PICK s : s = Append(q, Req(o, c))
    OBVIOUS
  <1>3. /\ DOMAIN q = 1..Len(q) /\ DOMAIN s = 1..Len(q) + 1 /\ s[Len(q) + 1] = Req(o, c)
        /\ Len(q) \in Nat /\ \A i \in DOMAIN q : s[i] = q[i]
    BY <1>1, <1>2, LenProperties
  <1>4. InLine(recs, cur, q) /\ Serving(recs, cur) /\ Ordered(q) /\ OneHolds(recs, cur, q)
    BY DEF Lined
  <1>5. InLine(recs, cur, s)
    <2>1. \A i \in DOMAIN s : i = Len(q) + 1 \/ i \in DOMAIN q
      BY <1>3
    <2> QED
      BY <1>1, <1>3, <1>4, <2>1 DEF InLine
  <1>6. Ordered(s)
    <2> SUFFICES ASSUME NEW i \in DOMAIN s, NEW j \in DOMAIN s, i < j
                 PROVE  s[i].op # s[j].op /\ (Starting(s[i].cmd) => Starting(s[j].cmd))
      BY DEF Ordered
    <2>1. i \in DOMAIN q /\ (j \in DOMAIN q \/ j = Len(q) + 1)
      BY <1>3
    <2> QED
      BY <1>1, <1>3, <1>4, <2>1 DEF Ordered, Starting
  <1>7. ASSUME NEW p \in FtpOps, Holds(recs, cur, s, p) PROVE Holds(recs, cur, q, p)
    <2>1. \A i \in DOMAIN s : s[i].cmd \in {"DATA", "ABOR"} => i \in DOMAIN q
      BY <1>1, <1>3
    <2> QED
      BY <1>3, <1>7, <2>1 DEF Holds
  <1>8. OneHolds(recs, cur, s)
    BY <1>4, <1>7 DEF OneHolds
  <1> QED
    BY <1>2, <1>4, <1>5, <1>6, <1>8 DEF Lined

\* What Send does: nothing, or it takes the head of the queue, and of another
\* operation no data connection is being made then.
HeadSent(cur, q) ==
  /\ cur = NoReq /\ q # <<>> /\ conn \in {"login", "ready"}
  /\ curReq' = Head(q) /\ queue' = Tail(q) /\ wire' = Append(wire, Head(q))
  /\ aborting \subseteq aborting'
  /\ ~interleaved' => /\ ~interleaved
                      /\ Head(q) # Noop => \A o \in FtpOps : Connecting(o) => o = Head(q).op

\* Send, seen from what it leaves
LEMMA SendCases ==
  ASSUME NEW cur, NEW q, Send(cur, q)
  PROVE  \/ HeadSent(cur, q)
         \/ curReq' = cur /\ queue' = q /\ UNCHANGED <<wire, aborting, interleaved>>
  <1>1. CASE MaySend(cur, q) /\ conn \in {"login", "ready"}
    BY <1>1 DEF Send, MaySend, HeadSent
  <1>2. CASE ~(MaySend(cur, q) /\ conn \in {"login", "ready"})
    BY <1>2 DEF Send
  <1> QED
    BY <1>1, <1>2

\* The head of the queue may become the current request.
LEMMA LinedTaken ==
  ASSUME NEW recs, NEW q \in Seq(FtpReqs), q # <<>>, Lined(recs, NoReq, q),
         \A o \in FtpOps : recs[o].sock \in Making => o = Head(q).op
  PROVE  Lined(recs, Head(q), Tail(q))
  <1>1. PICK h \in FtpReqs, t \in Seq(FtpReqs) : h = Head(q) /\ t = Tail(q)
    BY HeadTailProperties
  <1>2. /\ h = q[1] /\ 1 \in DOMAIN q
        /\ \A i \in DOMAIN t : i + 1 \in DOMAIN q /\ i + 1 > 1 /\ t[i] = q[i + 1]
    <2>1. Len(q) \in Nat \ {0} /\ DOMAIN q = 1..Len(q)
      BY EmptySeq, LenProperties
    <2>2. Len(t) = Len(q) - 1 /\ DOMAIN t = 1..Len(t) /\ \A i \in 1..Len(t) : t[i] = q[i + 1]
      BY <1>1, HeadTailProperties, LenProperties
    <2> QED
      BY <1>1, <2>1, <2>2
  <1>3. \A i, j \in DOMAIN t : i < j => i + 1 < j + 1
    BY LenProperties
  <1>4. InLine(recs, NoReq, q) /\ Ordered(q) /\ OneHolds(recs, NoReq, q)
    BY DEF Lined
  <1>5. InLine(recs, h, t)
    <2> SUFFICES ASSUME NEW i \in DOMAIN t
                 PROVE  t[i].op \in FtpOps /\ Fits(recs[t[i].op], t[i].cmd) /\ t[i].op # h.op
      BY DEF InLine
    <2>1. i + 1 \in DOMAIN q /\ 1 < i + 1 /\ t[i] = q[i + 1]
      BY <1>2
    <2> QED
      BY <1>2, <1>4, <2>1 DEF InLine, Ordered
  <1>6. h.op \in FtpOps /\ Serving(recs, h)
    BY <1>2, <1>4 DEF InLine, Serving
  <1>7. Ordered(t)
    <2> SUFFICES ASSUME NEW i \in DOMAIN t, NEW j \in DOMAIN t, i < j
                 PROVE  t[i].op # t[j].op /\ (Starting(t[i].cmd) => Starting(t[j].cmd))
      BY DEF Ordered
    <2>1. i + 1 \in DOMAIN q /\ j + 1 \in DOMAIN q /\ i + 1 < j + 1
      BY <1>2, <1>3
    <2>2. q[i + 1].op # q[j + 1].op /\ (Starting(q[i + 1].cmd) => Starting(q[j + 1].cmd))
      BY <1>4, <2>1 DEF Ordered
    <2> QED
      BY <1>2, <2>2
  <1>8. OneHolds(recs, h, t)
    <2> SUFFICES ASSUME NEW o \in FtpOps, NEW p \in FtpOps, Holds(recs, h, t, o), Holds(recs, h, t, p)
                 PROVE  o = p
      BY DEF OneHolds
    <2>1. CASE h.cmd = "PASV"
      <3>1. \A i \in DOMAIN t : t[i].cmd \notin {"DATA", "ABOR"}
        <4> SUFFICES ASSUME NEW i \in DOMAIN t PROVE t[i].cmd \notin {"DATA", "ABOR"}
          OBVIOUS
        <4>1. Starting(q[1].cmd) /\ 1 < i + 1 /\ i + 1 \in DOMAIN q
          BY <1>2, <2>1 DEF Starting
        <4>2. Starting(t[i].cmd)
          BY <1>2, <1>4, <4>1 DEF Ordered
        <4> QED
          BY <4>2 DEF Starting
      <3>2. o = h.op /\ p = h.op
        BY <1>1, <3>1 DEF Holds
      <3> QED
        BY <3>2
    <2>2. CASE h.cmd # "PASV"
      <3>1. ASSUME NEW r \in FtpOps, Holds(recs, h, t, r) PROVE Holds(recs, NoReq, q, r)
        <4>1. CASE recs[r].sock \in Making
          BY <4>1 DEF Holds
        <4>2. CASE h.op = r /\ h.cmd \in {"DATA", "ABOR"}
          BY <1>2, <4>2 DEF Holds
        <4>3. ASSUME NEW i \in DOMAIN t, t[i].op = r, t[i].cmd \in {"DATA", "ABOR"}
              PROVE  Holds(recs, NoReq, q, r)
          BY <1>2, <4>3 DEF Holds
        <4> QED
          BY <2>2, <3>1, <4>1, <4>2, <4>3 DEF Holds
      <3> QED
        BY <1>4, <3>1 DEF OneHolds
    <2> QED
      BY <2>1, <2>2
  <1> QED
    BY <1>1, <1>5, <1>6, <1>7, <1>8 DEF Lined

\* What is known of the queue, the wire and the port is known after Send.
LEMMA SendKeepsLine ==
  ASSUME FtpTyped, conn # "login", NEW recs, NEW cur \in FtpReqs \union {NoReq},
         NEW q \in Seq(FtpReqs), NEW a, NEW b, NEW p,
         Lined(recs, cur, q), AtServer(recs, cur, wire, a, b, p), Ported(conn, recs, q, p),
         Phase(conn, recs, cur, q), Send(cur, q), ~interleaved',
         \A o \in FtpOps : recs[o].sock \in Making => Connecting(o)
  PROVE  /\ Lined(recs, curReq', queue') /\ AtServer(recs, curReq', wire', a, b, p)
         /\ Ported(conn, recs, queue', p) /\ Phase(conn, recs, curReq', queue')
  <1>1. CASE curReq' = cur /\ queue' = q /\ wire' = wire
    BY <1>1
  <1>2. CASE HeadSent(cur, q)
    <2>1. PICK h \in FtpReqs, t \in Seq(FtpReqs) : h = Head(q) /\ t = Tail(q)
      BY <1>2, HeadTailProperties DEF HeadSent
    <2>2. cur = NoReq /\ q # <<>> /\ conn = "ready" /\ curReq' = h /\ queue' = t /\ wire' = Append(wire, h)
      BY <1>2, <2>1 DEF HeadSent
    <2>3. /\ h = q[1] /\ 1 \in DOMAIN q
          /\ \A i \in DOMAIN t : i + 1 \in DOMAIN q /\ t[i] = q[i + 1]
      <3>1. Len(q) \in Nat \ {0} /\ DOMAIN q = 1..Len(q)
        BY <2>2, EmptySeq, LenProperties
      <3>2. Len(t) = Len(q) - 1 /\ DOMAIN t = 1..Len(t) /\ \A i \in 1..Len(t) : t[i] = q[i + 1]
        BY <2>1, <2>2, HeadTailProperties, LenProperties
      <3> QED
        BY <2>1, <3>1, <3>2
    <2>4. h.op \in FtpOps /\ Fits(recs[h.op], h.cmd)
      BY <2>3 DEF Lined, InLine
    <2>5. h # Noop /\ h # NoReq /\ h.op # Login
      BY <2>4, FtpAssumption, ReqTypes DEF Noop, Req
    <2>6. \A o \in FtpOps : recs[o].sock \in Making => o = Head(q).op
      BY <1>2, <2>1, <2>5 DEF HeadSent
    <2>7. Lined(recs, curReq', queue')
      <3>1. Lined(recs, NoReq, q)
        BY <2>2
      <3> QED
        BY <2>1, <2>2, <2>6, <3>1, LinedTaken
    <2>8. wire = <<>> /\ a = <<>> /\ b = NoTransfer
      BY <2>2 DEF AtServer
    <2>9. Len(wire') = 1 /\ wire'[1] = h
      BY <2>2, <2>8
    <2>10. h = Req(h.op, h.cmd)
      BY ReqTypes
    <2>11. h.cmd = "DATA" => recs[h.op].seen = "none" /\ p = h.op
      BY <2>2, <2>3 DEF Ported
    <2>12. AtServer(recs, curReq', wire', a, b, p)
      <3>1. CASE h.cmd = "DATA"
        <4>1. Transfers(recs[h.op], h.op, wire', a, b, p)
          BY <2>8, <2>9, <2>10, <2>11, <3>1 DEF Transfers
        <4> QED
          BY <2>2, <2>5, <3>1, <4>1 DEF AtServer
      <3>2. CASE h.cmd # "DATA"
        BY <2>2, <2>5, <2>8, <2>9, <3>2 DEF AtServer
      <3> QED
        BY <3>1, <3>2
    <2>13. Ported(conn, recs, queue', p)
      BY <2>2, <2>3 DEF Ported
    <2>14. Phase(conn, recs, curReq', queue')
      BY <2>2, <2>5 DEF Phase
    <2> QED
      BY <2>7, <2>12, <2>13, <2>14
  <1> QED
    BY <1>1, <1>2, SendCases

\* A step of the client after the login: one operation changes, and Send looks
\* at what is queued then.
LEMMA ClientStep ==
  ASSUME FtpTyped, FtpSound, ~interleaved', conn # "login",
         NEW o \in FtpOps, NEW e, op' = [op EXCEPT ![o] = e], Own(e, o, aborting),
         NEW next \in {curReq, NoReq}, NEW q \in Seq(FtpReqs), Send(next, q),
         UNCHANGED <<conn, port, busy>>,
         Lined(op', next, q), AtServer(op', next, wire, answers', busy, port),
         Ported(conn, op', q, port), e.sock \in Making => Connecting(o)
  PROVE  FtpSound'
  <1>1. next \in FtpReqs \union {NoReq}
    BY DEF FtpTyped
  <1>2. \A r \in FtpOps : op'[r] = IF r = o THEN e ELSE op[r]
    BY DEF FtpTyped
  <1>3. \A r \in FtpOps : op'[r].sock \in Making => Connecting(r)
    BY <1>2 DEF Connecting, Making
  <1>4. Phase(conn, op', next, q)
    BY FtpAssumption DEF FtpSound, Phase, NoReq, Req
  <1>5. /\ Lined(op', curReq', queue') /\ AtServer(op', curReq', wire', answers', busy, port)
        /\ Ported(conn, op', queue', port) /\ Phase(conn, op', curReq', queue')
    BY <1>1, <1>3, <1>4, SendKeepsLine
  <1>6. aborting \subseteq aborting'
    BY SendCases DEF HeadSent
  <1>7. ASSUME NEW r \in FtpOps PROVE Own(op'[r], r, aborting')
    <2>1. CASE r = o
      BY <1>2, <1>6, <2>1 DEF Own
    <2>2. CASE r # o
      BY <1>2, <1>6, <2>2 DEF Own, FtpSound
    <2> QED
      BY <2>1, <2>2
  <1> QED
    BY <1>5, <1>7 DEF FtpSound

\* A step that sends nothing
LEMMA StillStep ==
  ASSUME FtpTyped, FtpSound, conn # "login",
         NEW o \in FtpOps, NEW e, op' = [op EXCEPT ![o] = e], Own(e, o, aborting),
         NEW next \in {curReq, NoReq}, curReq' = next,
         UNCHANGED <<conn, queue, aborting>>,
         Lined(op', next, queue), AtServer(op', next, wire', answers', busy', port'),
         Ported(conn, op', queue, port')
  PROVE  FtpSound'
  <1>1. \A r \in FtpOps : op'[r] = IF r = o THEN e ELSE op[r]
    BY DEF FtpTyped
  <1>2. Phase(conn, op', next, queue)
    BY FtpAssumption DEF FtpSound, Phase, NoReq, Req
  <1>3. ASSUME NEW r \in FtpOps PROVE Own(op'[r], r, aborting)
    BY <1>1 DEF FtpSound
  <1> QED
    BY <1>2, <1>3 DEF FtpSound

\* The record of an operation with a request in the queue or at the server
LEMMA Requested ==
  ASSUME FtpTyped, FtpSound, NEW o \in FtpOps
  PROVE  /\ curReq.op = o => Fits(op[o], curReq.cmd) /\ \A i \in DOMAIN queue : queue[i].op # o
         /\ \A i \in DOMAIN queue : queue[i].op = o => Fits(op[o], queue[i].cmd)
         /\ Own(op[o], o, aborting)
  BY DEF FtpSound, Lined, InLine, Serving

\* While its data connection is made an operation has no request, and nobody
\* else has one that goes on with a transfer.
LEMMA MakingAlone ==
  ASSUME FtpTyped, FtpSound, NEW o \in FtpOps, Connecting(o)
  PROVE  /\ curReq.op # o /\ \A i \in DOMAIN queue : queue[i].op # o /\ queue[i].cmd \notin {"DATA", "ABOR"}
         /\ op[o].outcome # "idle" /\ op[o].kind # "plain" /\ op[o].seen = "none"
         /\ conn # "login" /\ Holds(op, curReq, queue, o)
         /\ conn = "ready" => port = o
  <1>1. op[o].sock \in Making
    BY DEF Connecting, Making
  <1>2. Own(op[o], o, aborting)
    BY DEF FtpSound
  <1>3. op[o].outcome # "idle" /\ op[o].kind # "plain" /\ op[o].seen = "none"
    BY <1>1, <1>2 DEF Own, Making
  <1>4. \A c : ~Fits(op[o], c)
    BY <1>1, <1>3 DEF Fits, Making, OpCmds, DataClosed
  <1>5. curReq.op # o /\ \A i \in DOMAIN queue : queue[i].op # o
    BY <1>4, Requested
  <1>6. Holds(op, curReq, queue, o)
    BY <1>1 DEF Holds
  <1>7. \A i \in DOMAIN queue : queue[i].cmd \notin {"DATA", "ABOR"}
    <2> SUFFICES ASSUME NEW i \in DOMAIN queue, queue[i].cmd \in {"DATA", "ABOR"} PROVE FALSE
      OBVIOUS
    <2>1. queue[i].op \in FtpOps
      BY DEF FtpSound, Lined, InLine
    <2>2. Holds(op, curReq, queue, queue[i].op)
      BY DEF Holds
    <2>3. queue[i].op = o
      BY <1>6, <2>1, <2>2 DEF FtpSound, Lined, OneHolds
    <2> QED
      BY <1>5, <2>3
  <1>8. conn # "login"
    BY <1>3 DEF FtpSound, Phase
  <1>9. conn = "ready" => port = o
    BY <1>1 DEF FtpSound, Ported
  <1> QED
    BY <1>3, <1>5, <1>6, <1>7, <1>8, <1>9

\* The state of the server, when the operation that changes is not the one at it
LEMMA OtherAtServer ==
  ASSUME NEW recs \in [FtpOps -> FtpRecord], NEW o, NEW e, NEW new, new = [recs EXCEPT ![o] = e],
         NEW cur \in FtpReqs \union {NoReq}, cur.op # o, NEW w, NEW a, NEW b, NEW p, AtServer(recs, cur, w, a, b, p)
  PROVE  AtServer(new, cur, w, a, b, p)
  <1>1. cur.cmd = "DATA" => cur.op \in FtpOps
    BY ReqTypes DEF NoReq, Req, OpCmds
  <1>2. cur.cmd = "DATA" => new[cur.op] = recs[cur.op]
    BY <1>1
  <1> QED
    BY <1>2 DEF AtServer

\* What is queued in front is not at the server; a DATA needs its port.
LEMMA PortedFront ==
  ASSUME NEW c, NEW recs, NEW q \in Seq(FtpReqs), NEW p, Ported(c, recs, q, p),
         NEW r \in FtpReqs, r.cmd = "DATA" => recs[r.op].seen = "none" /\ (c = "ready" => p = r.op)
  PROVE  Ported(c, recs, <<r>> \o q, p)
  <1>1. PICK s : s = <<r>> \o q
    OBVIOUS
  <1>2. s[1] = r /\ \A i \in DOMAIN s : i = 1 \/ (i - 1 \in DOMAIN q /\ s[i] = q[i - 1])
    BY <1>1, FrontOf
  <1>3. Ported(c, recs, s, p)
    BY <1>2 DEF Ported
  <1> QED
    BY <1>1, <1>3

\* A change of one operation that is neither making a data connection anew nor
\* in the queue with a DATA and another reply
LEMMA PortedChange ==
  ASSUME NEW c, NEW recs \in [FtpOps -> FtpRecord], NEW q \in Seq(FtpReqs), NEW p, Ported(c, recs, q, p),
         NEW o \in FtpOps, NEW e, NEW new, new = [recs EXCEPT ![o] = e],
         e.sock \in Making /\ c = "ready" => p = o,
         e.seen = recs[o].seen \/ \A i \in DOMAIN q : q[i].op # o
  PROVE  Ported(c, new, q, p)
  <1>1. \A r \in FtpOps : new[r] = IF r = o THEN e ELSE recs[r]
    OBVIOUS
  <1>2. \A i \in DOMAIN q : q[i].cmd = "DATA" => q[i].op \in FtpOps
    <2>1. \A i \in DOMAIN q : q[i] \in FtpReqs
      BY LenProperties
    <2> QED
      BY <2>1, ReqTypes DEF OpCmds
  <1>3. \A r \in FtpOps : new[r].sock \in Making /\ c = "ready" => p = r
    BY <1>1 DEF Ported
  <1>4. \A i \in DOMAIN q : q[i].cmd = "DATA" => new[q[i].op].seen = recs[q[i].op].seen
    BY <1>1, <1>2
  <1> QED
    BY <1>3, <1>4 DEF Ported

-----------------------------------------------------------------------------
(* The steps of the client.                                                *)

\* A call
LEMMA CallSound ==
  ASSUME FtpTyped, FtpSound, ~interleaved', NEW o \in FtpOps, CallFtp(o)
  PROVE  FtpSound'
  <1>1. PICK e : e = [op[o] EXCEPT !.outcome = "called"]
    OBVIOUS
  <1>2. PICK c : c = IF op[o].kind = "plain" THEN "PLAIN" ELSE "PASV"
    OBVIOUS
  <1>3. op[o] \in FtpRecord /\ Own(op[o], o, aborting) /\ op[o].outcome = "idle"
    BY DEF FtpTyped, FtpSound, CallFtp
  <1>4. /\ e.outcome = "called" /\ e.kind = op[o].kind /\ e.sock = op[o].sock
        /\ e.seen = op[o].seen /\ e.got = op[o].got
    BY <1>1, <1>3 DEF FtpRecord
  <1>5. e.sock = "none" /\ e.seen = "none"
    BY <1>3, <1>4 DEF Own
  <1>6. Own(e, o, aborting)
    BY <1>4, <1>5 DEF Own
  <1>7. \A d : ~Fits(op[o], d)
    BY <1>3 DEF Fits
  <1>8. curReq.op # o /\ \A i \in DOMAIN queue : queue[i].op # o
    BY <1>7, Requested
  <1>9. op' = [op EXCEPT ![o] = e]
    BY <1>1 DEF CallFtp, With
  <1>10. /\ op \in [FtpOps -> FtpRecord] /\ curReq \in FtpReqs \union {NoReq}
         /\ queue \in Seq(FtpReqs) /\ Lined(op, curReq, queue)
    BY DEF FtpTyped, FtpSound
  <1>11. Lined(op', curReq, queue)
    <2>1. ~(e.sock \in Making) /\ curReq \in {curReq, NoReq}
      BY <1>5 DEF Making
    <2>2. curReq.op = o => Fits(e, curReq.cmd)
      BY <1>8
    <2>3. \A i \in DOMAIN queue : queue[i].op = o => Fits(e, queue[i].cmd)
      BY <1>8
    <2> QED
      BY <1>9, <1>10, <2>1, <2>2, <2>3, LinedChange
  <1>12. op'[o] = e /\ c \in {"PASV", "PLAIN"}
    BY <1>2, <1>9, <1>10
  <1>13. Fits(op'[o], c)
    BY <1>2, <1>4, <1>5, <1>12 DEF Fits, OpCmds
  <1>14. PICK q : q = Append(queue, Req(o, c))
    OBVIOUS
  <1>15. Lined(op', curReq, q)
    BY <1>8, <1>10, <1>11, <1>12, <1>13, <1>14, LinedBack
  <1>16. Req(o, c) \in FtpReqs /\ Req(o, c).cmd # "DATA"
    BY <1>12, ReqTypes DEF Cmds, Req
  <1>17. q \in Seq(FtpReqs)
    BY <1>14, <1>16, QueueTypes
  <1>18. AtServer(op', curReq, wire, answers', busy, port)
    <2>1. answers' = answers
      BY DEF CallFtp
    <2> QED
      BY <1>8, <1>9, <1>10, <2>1, OtherAtServer DEF FtpSound
  <1>19. Ported(conn, op', q, port)
    <2>1. Ported(conn, op', queue, port)
      BY <1>4, <1>5, <1>9, <1>10, PortedChange DEF FtpSound, Making
    <2>2. \A i \in DOMAIN q : q[i].cmd = "DATA" => i \in DOMAIN queue /\ q[i] = queue[i]
      BY <1>10, <1>14, <1>16, LenProperties
    <2> QED
      BY <2>1, <2>2 DEF Ported
  <1>20. Send(curReq, q) /\ UNCHANGED <<conn, port, busy>> /\ conn # "login"
    BY <1>2, <1>14 DEF CallFtp, serverVars
  <1> QED
    BY <1>5, <1>6, <1>9, <1>15, <1>17, <1>18, <1>19, <1>20, ClientStep DEF Making

\* A keepalive
LEMMA KeepSound ==
  ASSUME FtpTyped, FtpSound, KeepAlive
  PROVE  FtpSound'
  <1>1. /\ conn = "ready" /\ curReq = NoReq /\ queue = <<>> /\ curReq' = Noop /\ wire' = Append(wire, Noop)
        /\ UNCHANGED <<conn, queue, answers, op, aborting, port, busy>>
    BY DEF KeepAlive, serverVars
  <1>2. Noop.op = Login /\ Noop.cmd = "NOOP" /\ Login \notin FtpOps /\ Noop # NoReq
    BY FtpAssumption, ReqTypes DEF Noop, Req
  <1>3. wire = <<>> /\ answers = <<>> /\ busy = NoTransfer
    BY <1>1 DEF FtpSound, AtServer
  <1>4. AtServer(op', curReq', wire', answers', busy', port')
    <2>1. Len(wire') = 1 /\ wire'[1] = Noop
      BY <1>1, <1>3
    <2> QED
      BY <1>1, <1>2, <1>3, <2>1 DEF AtServer
  <1>5. Lined(op', curReq', queue')
    <2>1. Lined(op, NoReq, queue) /\ DOMAIN queue = {}
      BY <1>1 DEF FtpSound
    <2>2. \A o \in FtpOps : Holds(op, Noop, queue, o) => Holds(op, NoReq, queue, o)
      BY <1>2 DEF Holds
    <2> QED
      BY <1>1, <1>2, <2>1, <2>2 DEF Lined, InLine, Serving, Ordered, OneHolds, OpCmds
  <1>6. Phase(conn', op', curReq', queue')
    BY <1>1 DEF Phase
  <1>7. Ported(conn', op', queue', port') /\ \A o \in FtpOps : Own(op'[o], o, aborting')
    BY <1>1 DEF FtpSound
  <1> QED
    BY <1>4, <1>5, <1>6, <1>7 DEF FtpSound

\* A reply that was read was to the current request, and all there was of it
\* unless it is of a transfer.
LEMMA ReplySound ==
  ASSUME FtpTyped, FtpSound, NEW cmds, Reads(cmds), curReq.cmd # "DATA"
  PROVE  /\ wire = <<>> /\ answers' = <<>> /\ busy = NoTransfer
         /\ curReq.cmd = "PASV" /\ Code \notin {"err", "odd"} => port = curReq.op
  <1>1. curReq # NoReq /\ answers # <<>> /\ answers' = Tail(answers)
    BY DEF Reads
  <1>2. /\ busy = NoTransfer /\ wire = <<>> /\ Len(answers) = 1
        /\ curReq.cmd = "PASV" /\ answers[1].code \notin {"err", "odd"} => port = curReq.op
    BY <1>1 DEF FtpSound, AtServer
  <1>3. answers' = <<>> /\ Code = answers[1].code
    <2>1. answers \in Seq([to : Requests, code : Codes])
      BY DEF FtpTyped
    <2>2. Tail(answers) \in Seq([to : Requests, code : Codes]) /\ Len(Tail(answers)) = 0
      BY <1>1, <1>2, <2>1, HeadTailProperties
    <2>3. Tail(answers) = <<>>
      BY <2>2, EmptySeq
    <2> QED
      BY <1>1, <2>1, <2>3 DEF Code
  <1> QED
    BY <1>2, <1>3

\* Nothing is at the server when no request is current.
LEMMA NoneAtServer ==
  ASSUME NEW recs, NEW w, NEW a, NEW b, NEW p, w = <<>>, a = <<>>, b = NoTransfer
  PROVE  AtServer(recs, NoReq, w, a, b, p)
  BY DEF AtServer, NoReq, Req

\* The replies of the login
LEMMA LoginSound ==
  ASSUME FtpTyped, FtpSound, ~interleaved', LoginReply
  PROVE  FtpSound'
  <1>1. Reads(LoginCmds)
    BY DEF LoginReply
  <1>2. curReq # NoReq /\ curReq.cmd \in LoginCmds /\ curReq \in FtpReqs
    BY <1>1, ReadTypes
  <1>3. wire = <<>> /\ answers' = <<>> /\ busy = NoTransfer
    BY <1>1, <1>2, ReplySound DEF LoginCmds
  <1>4. Serving(op, curReq)
    BY DEF FtpSound, Lined
  <1>5. curReq.op = Login
    BY <1>2, <1>4, ReqTypes DEF Serving, Fits, OpCmds, LoginCmds
  <1>6. conn = "login" /\ queue = <<>> /\ \A o \in FtpOps : op[o].outcome = "idle"
    BY <1>2, <1>5, <1>1 DEF FtpSound, FtpTyped, Phase, Noop, Req, LoginCmds
  <1>7. \A o \in FtpOps : op[o].sock = "none" /\ Own(op[o], o, aborting)
    BY <1>6 DEF FtpSound, Own
  <1>8. UNCHANGED <<op, port, busy>>
    BY DEF LoginReply, serverVars
  <1>9. ASSUME NEW cur, cur = NoReq \/ (cur.op = Login /\ cur.cmd \in LoginCmds)
        PROVE  Lined(op, cur, <<>>)
    <2>1. cur.op \notin FtpOps /\ cur.cmd \notin OpCmds
      BY <1>9, FtpAssumption DEF NoReq, Req, LoginCmds, OpCmds
    <2>2. \A o \in FtpOps : ~Holds(op, cur, <<>>, o)
      BY <1>7, <2>1 DEF Holds, Making
    <2> QED
      BY <2>1, <2>2 DEF Lined, InLine, Serving, Ordered, OneHolds
  <1>10. \A c, p : Ported(c, op, <<>>, p)
    BY <1>7 DEF Ported, Making
  <1>11. CASE conn' = "refused" /\ curReq' = NoReq /\ UNCHANGED <<queue, wire, aborting, interleaved>>
    <2>1. AtServer(op', curReq', wire', answers', busy', port')
      BY <1>3, <1>8, <1>11, NoneAtServer
    <2>2. Lined(op', curReq', queue') /\ Ported(conn', op', queue', port')
      BY <1>6, <1>8, <1>9, <1>10, <1>11
    <2>3. Phase(conn', op', curReq', queue')
      BY <1>11 DEF Phase
    <2>4. \A o \in FtpOps : Own(op'[o], o, aborting')
      BY <1>7, <1>8, <1>11
    <2> QED
      BY <2>1, <2>2, <2>3, <2>4 DEF FtpSound
  <1>12. CASE conn' = "ready" /\ SendNext
    <2>1. curReq' = NoReq /\ queue' = <<>> /\ UNCHANGED <<wire, aborting>>
      BY <1>6, <1>12 DEF SendNext, Send, MaySend
    <2>2. AtServer(op', curReq', wire', answers', busy', port')
      BY <1>3, <1>8, <2>1, NoneAtServer
    <2>3. Lined(op', curReq', queue') /\ Ported(conn', op', queue', port')
      BY <1>8, <1>9, <1>10, <2>1
    <2>4. Phase(conn', op', curReq', queue')
      BY <1>12, <2>1, FtpAssumption DEF Phase, NoReq, Req
    <2>5. \A o \in FtpOps : Own(op'[o], o, aborting')
      BY <1>7, <1>8, <2>1
    <2> QED
      BY <2>2, <2>3, <2>4, <2>5 DEF FtpSound
  <1>13. ASSUME NEW next \in {"USER", "PASS", "FEAT", "TYPE"}, Send(NoReq, Promoted(Login, next)), conn' = conn
         PROVE  FtpSound'
    <2>1. PICK r : r = Req(Login, next)
      OBVIOUS
    <2>2. r \in FtpReqs /\ r.op = Login /\ r.cmd = next /\ next \in LoginCmds
      BY <2>1, ReqTypes DEF LoginCmds, Req
    <2>3. PICK s : s = Promoted(Login, next)
      OBVIOUS
    <2>4. s = <<r>> /\ s # <<>> /\ Head(s) = r /\ Tail(s) = <<>>
      BY <1>6, <2>1, <2>2, <2>3 DEF Promoted
    <2>5. Send(NoReq, s)
      BY <1>13, <2>3
    <2>6. /\ curReq' = r /\ queue' = <<>> /\ wire' = Append(wire, r)
          /\ aborting' = aborting
      BY <1>6, <2>2, <2>4, <2>5 DEF Send, MaySend
    <2>7. Len(wire') = 1 /\ wire'[1] = r /\ r # NoReq
      BY <1>3, <2>2, <2>6, ReqTypes
    <2>8. AtServer(op', curReq', wire', answers', busy', port')
      BY <1>3, <1>8, <2>2, <2>6, <2>7 DEF AtServer, LoginCmds
    <2>9. Lined(op', curReq', queue') /\ Ported(conn', op', queue', port')
      BY <1>8, <1>9, <1>10, <2>2, <2>6
    <2>10. Phase(conn', op', curReq', queue')
      BY <1>6, <1>8, <1>13, <2>2, <2>6 DEF Phase
    <2>11. \A o \in FtpOps : Own(op'[o], o, aborting')
      BY <1>7, <1>8, <2>6
    <2> QED
      BY <2>8, <2>9, <2>10, <2>11 DEF FtpSound
  <1> QED
    BY <1>11, <1>12, <1>13 DEF LoginReply

\* Nothing is current that is not the login's before the login has ended.
LEMMA AfterLogin ==
  ASSUME FtpTyped, FtpSound, NEW cmds, Reads(cmds), curReq.cmd \notin LoginCmds
  PROVE  conn = "ready"
  BY ReadTypes DEF FtpSound, FtpTyped, Phase

\* The replies to what is one command
LEMMA SimpleSound ==
  ASSUME FtpTyped, FtpSound, ~interleaved', SimpleReply
  PROVE  FtpSound'
  <1>1. Reads({"PLAIN", "ABOR", "MODE", "NOOP"})
    BY DEF SimpleReply
  <1>2. /\ curReq # NoReq /\ curReq.cmd \in {"PLAIN", "ABOR", "MODE", "NOOP"} /\ curReq \in FtpReqs
        /\ Owner = curReq.op /\ (curReq.cmd \in OpCmds => Owner \in FtpOps)
    BY <1>1, ReadTypes
  <1>3. wire = <<>> /\ answers' = <<>> /\ busy = NoTransfer
    BY <1>1, <1>2, ReplySound
  <1>4. conn = "ready"
    BY <1>1, <1>2, AfterLogin DEF LoginCmds
  <1>5. Send(NoReq, queue) /\ UNCHANGED <<conn, port, busy>> /\ queue \in Seq(FtpReqs)
    BY DEF SimpleReply, SendNext, serverVars, FtpTyped
  <1>6. Ported(conn, op, queue, port) /\ Lined(op, curReq, queue) /\ op \in [FtpOps -> FtpRecord]
        /\ curReq \in FtpReqs \union {NoReq}
    BY DEF FtpSound, FtpTyped
  <1>8. ASSUME NEW o \in FtpOps, NEW e, op' = [op EXCEPT ![o] = e], Own(e, o, aborting),
               e.sock = op[o].sock, e.seen = op[o].seen,
               \A c : Fits(op[o], c) => Fits(e, c)
        PROVE  FtpSound'
    <2>1. \A i \in DOMAIN queue : queue[i].op = o => Fits(e, queue[i].cmd)
      BY <1>8, Requested
    <2>2. NoReq.op # o
      BY FtpAssumption DEF NoReq, Req
    <2>3. e.sock \in Making => Holds(op, curReq, queue, o)
      BY <1>8 DEF Holds
    <2>4. Lined(op', NoReq, queue)
      BY <1>6, <1>8, <2>1, <2>2, <2>3, LinedChange
    <2>5. e.sock \in Making /\ conn = "ready" => port = o
      BY <1>6, <1>8 DEF Ported
    <2>6. Ported(conn, op', queue, port)
      BY <1>5, <1>6, <1>8, <2>5, PortedChange
    <2>7. AtServer(op', NoReq, wire, answers', busy, port)
      BY <1>3, NoneAtServer
    <2>8. e.sock \in Making => Connecting(o)
      BY <1>8 DEF Making, Connecting
    <2>9. conn # "login"
      BY <1>4
    <2> QED
      BY <1>5, <1>8, <2>4, <2>6, <2>7, <2>8, <2>9, ClientStep
  <1>9. CASE curReq.cmd = "NOOP"
    <2>1. op' = op
      BY <1>9 DEF SimpleReply
    <2>2. Lined(op, NoReq, queue)
      BY <1>6, LinedFree
    <2>3. Phase(conn, op, NoReq, queue)
      BY <1>4, FtpAssumption DEF Phase, NoReq, Req
    <2>4. AtServer(op, NoReq, wire, answers', busy, port)
      BY <1>3, NoneAtServer
    <2>5. \A o \in FtpOps : op[o].sock \in Making => Connecting(o)
      BY DEF Making, Connecting
    <2>6. conn # "login" /\ NoReq \in FtpReqs \union {NoReq}
      BY <1>4
    <2>7. /\ Lined(op, curReq', queue') /\ AtServer(op, curReq', wire', answers', busy, port)
          /\ Ported(conn, op, queue', port) /\ Phase(conn, op, curReq', queue')
      BY <1>5, <1>6, <2>2, <2>3, <2>4, <2>5, <2>6, SendKeepsLine
    <2>8. aborting \subseteq aborting'
      BY <1>5, SendCases DEF HeadSent
    <2>9. \A o \in FtpOps : Own(op[o], o, aborting')
      BY <2>8 DEF FtpSound, Own
    <2> QED
      BY <1>5, <2>1, <2>7, <2>9 DEF FtpSound
  <1>10. CASE curReq.cmd # "NOOP"
    <2>1. Owner \in FtpOps /\ op[Owner] \in FtpRecord /\ Own(op[Owner], Owner, aborting)
          /\ Fits(op[Owner], curReq.cmd)
      BY <1>2, <1>6, <1>10, Requested DEF OpCmds
    <2>2. PICK how : /\ how = IF curReq.cmd = "ABOR" \/ (curReq.cmd = "PLAIN" /\ Code = "err") THEN "err" ELSE "ok"
      OBVIOUS
    <2>3. PICK e : e = Ended(Owner, how)
      OBVIOUS
    <2>4. op' = [op EXCEPT ![Owner] = e]
      BY <1>10, <2>2, <2>3 DEF SimpleReply, With
    <2>5. /\ e.kind = op[Owner].kind /\ e.sock = op[Owner].sock /\ e.seen = op[Owner].seen /\ e.got = op[Owner].got
          /\ e.outcome = IF op[Owner].outcome = "called" THEN how ELSE op[Owner].outcome
      BY <2>1, <2>3 DEF Ended, FtpRecord
    <2>6. Own(e, Owner, aborting)
      <3>1. how = "ok" /\ op[Owner].kind # "plain" => op[Owner].seen = "last" /\ op[Owner].kind = "get"
        BY <1>2, <1>10, <2>1, <2>2 DEF Fits
      <3>2. op[Owner].outcome # "idle" /\ how \in {"ok", "err"}
        BY <2>1, <2>2 DEF Fits
      <3>3. Carried(op[Owner], Owner) => Carried(e, Owner)
        BY <2>5 DEF Carried
      <3> QED
        BY <2>1, <2>5, <3>1, <3>2, <3>3 DEF Own
    <2>7. \A c : Fits(op[Owner], c) => Fits(e, c)
      BY <2>2, <2>5 DEF Fits
    <2> QED
      BY <1>8, <2>1, <2>4, <2>5, <2>6, <2>7
  <1> QED
    BY <1>9, <1>10

\* The reply to PASV: the operation holds the port that it names.
LEMMA PasvSound ==
  ASSUME FtpTyped, FtpSound, ~interleaved', PasvReply
  PROVE  FtpSound'
  <1>1. Reads({"PASV"})
    BY DEF PasvReply
  <1>2. /\ curReq # NoReq /\ curReq.cmd = "PASV" /\ curReq \in FtpReqs
        /\ Owner = curReq.op /\ Owner \in FtpOps
    BY <1>1, ReadTypes DEF OpCmds
  <1>3. /\ wire = <<>> /\ answers' = <<>> /\ busy = NoTransfer
        /\ Code \notin {"err", "odd"} => port = Owner
    BY <1>1, <1>2, ReplySound
  <1>4. conn = "ready"
    BY <1>1, <1>2, AfterLogin DEF LoginCmds
  <1>5. UNCHANGED <<conn, port, busy>> /\ queue \in Seq(FtpReqs)
    BY DEF PasvReply, serverVars, FtpTyped
  <1>6. /\ Ported(conn, op, queue, port) /\ Lined(op, curReq, queue) /\ op \in [FtpOps -> FtpRecord]
        /\ curReq \in FtpReqs \union {NoReq} /\ op[Owner] \in FtpRecord
    BY <1>2 DEF FtpSound, FtpTyped
  <1>7. /\ Own(op[Owner], Owner, aborting) /\ Fits(op[Owner], "PASV")
        /\ \A i \in DOMAIN queue : queue[i].op # Owner
    BY <1>2, Requested
  <1>8. Holds(op, curReq, queue, Owner)
    BY <1>2 DEF Holds
  <1>9. NoReq.op # Owner
    BY <1>2, FtpAssumption DEF NoReq, Req
  <1>10. ASSUME NEW e, op' = [op EXCEPT ![Owner] = e], e.sock \in Making => port = Owner
         PROVE  /\ Lined(op', NoReq, queue) /\ AtServer(op', NoReq, wire, answers', busy, port)
                /\ Ported(conn, op', queue, port)
    <2>1. \A i \in DOMAIN queue : queue[i].op = Owner => Fits(e, queue[i].cmd)
      BY <1>7
    <2>2. Lined(op', NoReq, queue)
      BY <1>2, <1>6, <1>8, <1>9, <1>10, <2>1, LinedChange
    <2>3. Ported(conn, op', queue, port)
      BY <1>2, <1>5, <1>6, <1>7, <1>10, PortedChange
    <2> QED
      BY <1>3, <2>2, <2>3, NoneAtServer
  <1>11. CASE Code \in {"err", "odd"}
    <2>1. PICK e : e = Ended(Owner, "err")
      OBVIOUS
    <2>2. op' = [op EXCEPT ![Owner] = e]
      BY <1>11, <2>1 DEF PasvReply, With
    <2>3. /\ e.kind = op[Owner].kind /\ e.sock = op[Owner].sock /\ e.seen = op[Owner].seen /\ e.got = op[Owner].got
          /\ e.outcome = IF op[Owner].outcome = "called" THEN "err" ELSE op[Owner].outcome
      BY <1>6, <2>1 DEF Ended, FtpRecord
    <2>4. e.sock \notin Making
      BY <1>7, <2>3 DEF Fits, Making
    <2>5. Own(e, Owner, aborting)
      BY <1>7, <2>3 DEF Own, Fits, Carried
    <2>6. /\ Lined(op', NoReq, queue) /\ AtServer(op', NoReq, wire, answers', busy, port)
          /\ Ported(conn, op', queue, port)
      BY <1>10, <2>2, <2>4
    <2>7. CASE SendNext
      <3>1. Send(NoReq, queue) /\ conn # "login"
        BY <1>4, <2>7 DEF SendNext
      <3> QED
        BY <1>2, <1>5, <2>2, <2>4, <2>5, <2>6, <3>1, ClientStep
    <2>8. CASE curReq' = NoReq /\ UNCHANGED <<queue, wire, aborting, interleaved>>
      <3>1. conn # "login"
        BY <1>4
      <3>2. /\ AtServer(op', NoReq, wire', answers', busy', port')
            /\ Ported(conn, op', queue, port')
        BY <1>5, <2>6, <2>8
      <3> QED
        BY <1>2, <1>5, <2>2, <2>5, <2>6, <2>8, <3>1, <3>2, StillStep
    <2> QED
      BY <1>11, <2>7, <2>8 DEF PasvReply
  <1>12. CASE Code \notin {"err", "odd"}
    <2>1. PICK e : e = [op[Owner] EXCEPT !.sock = "connecting"]
      OBVIOUS
    <2>2. /\ op' = [op EXCEPT ![Owner] = e]
          /\ curReq' = NoReq /\ UNCHANGED <<queue, wire, aborting, interleaved>>
      BY <1>12, <2>1 DEF PasvReply, With
    <2>3. /\ e.kind = op[Owner].kind /\ e.sock = "connecting" /\ e.seen = op[Owner].seen /\ e.got = op[Owner].got
          /\ e.outcome = op[Owner].outcome
      BY <1>6, <2>1 DEF FtpRecord
    <2>5. Own(e, Owner, aborting)
      BY <1>7, <2>3 DEF Own, Fits
    <2>6. /\ Lined(op', NoReq, queue) /\ AtServer(op', NoReq, wire, answers', busy, port)
          /\ Ported(conn, op', queue, port)
      BY <1>3, <1>10, <1>12, <2>2
    <2>7. conn # "login"
      BY <1>4
    <2>8. /\ AtServer(op', NoReq, wire', answers', busy', port')
          /\ Ported(conn, op', queue, port')
      BY <1>5, <2>2, <2>6
    <2> QED
      BY <1>2, <1>5, <2>2, <2>5, <2>6, <2>7, <2>8, StillStep
  <1> QED
    BY <1>11, <1>12

\* What a reply to a transfer tells: none is the last before the server has
\* ended the transfer, and the data are there then.
LEMMA TransferReplies ==
  ASSUME FtpTyped, FtpSound, Reads({"DATA"}), NEW o, o = curReq.op
  PROVE  \/ /\ Code = "prelim" /\ op[o].seen = "none"
            /\ \A e : /\ e.seen # "last" /\ e.kind = op[o].kind /\ e.sock = op[o].sock /\ e.got = op[o].got
                      /\ e.kind = "list" => e.seen = "first"
                      => Transfers(e, o, wire, answers', busy, port)
         \/ /\ Code = "err" \/ (Code = "done" /\ Carried(op[o], o))
            /\ wire = <<>> /\ answers' = <<>> /\ busy = NoTransfer
  <1>1. /\ answers # <<>> /\ answers' = Tail(answers) /\ curReq.cmd = "DATA"
        /\ answers \in Seq([to : Requests, code : Codes]) /\ Code = answers[1].code
    BY DEF Reads, FtpTyped, Code
  <1>2. Transfers(op[o], o, wire, answers, busy, port)
    BY <1>1 DEF FtpSound, AtServer
  <1>3. Len(answers) = 1 => answers' = <<>>
    <2>1. Len(answers) = 1 => Tail(answers) \in Seq([to : Requests, code : Codes]) /\ Len(Tail(answers)) = 0
      BY <1>1, HeadTailProperties
    <2> QED
      BY <1>1, <2>1, EmptySeq
  <1>4. Len(answers) = 2 => Len(answers') = 1 /\ answers'[1] = answers[2]
    <2>1. CASE Len(answers) = 2
      <3>1. PICK t : t = Tail(answers)
        OBVIOUS
      <3>2. Len(t) = Len(answers) - 1 /\ \A i \in 1..Len(t) : t[i] = answers[i + 1]
        BY <1>1, <3>1, HeadTailProperties
      <3>3. Len(t) = 1 /\ 1 \in 1..Len(t)
        BY <2>1, <3>2
      <3>4. t[1] = answers[1 + 1]
        BY <3>2, <3>3
      <3> QED
        BY <1>1, <3>1, <3>3, <3>4
    <2> QED
      BY <2>1
  <1>5. CASE /\ Len(wire) = 1 /\ wire[1] = Req(o, "DATA") /\ busy = [op |-> o, port |-> o]
             /\ Len(answers) = 1 /\ Preliminary(answers[1]) /\ op[o].seen = "none"
    BY <1>1, <1>3, <1>5 DEF Transfers, Preliminary
  <1>6. CASE wire = <<>> /\ busy = NoTransfer /\ Len(answers) = 1 /\ Over(answers[1], op[o], o)
    BY <1>1, <1>3, <1>6 DEF Over
  <1>7. CASE /\ wire = <<>> /\ busy = NoTransfer
             /\ Len(answers) = 2 /\ Preliminary(answers[1]) /\ Over(answers[2], op[o], o) /\ op[o].seen = "none"
    <2>1. ASSUME NEW e, e.kind = op[o].kind, e.sock = op[o].sock, e.got = op[o].got
          PROVE  Transfers(e, o, wire, answers', busy, port)
      <3>1. Over(answers'[1], e, o)
        BY <1>4, <1>7, <2>1 DEF Over, Carried
      <3> QED
        BY <1>4, <1>7, <3>1 DEF Transfers
    <2> QED
      BY <1>1, <1>7, <2>1 DEF Preliminary
  <1> QED
    BY <1>1, <1>2, <1>5, <1>6, <1>7 DEF Transfers

\* A reply to a transfer
LEMMA TransferSound ==
  ASSUME FtpTyped, FtpSound, ~interleaved', TransferReply
  PROVE  FtpSound'
  <1>1. Reads({"DATA"})
    BY DEF TransferReply
  <1>2. PICK o : o = Owner
    OBVIOUS
  <1>3. /\ curReq # NoReq /\ curReq.cmd = "DATA" /\ curReq \in FtpReqs /\ o = curReq.op /\ o \in FtpOps
    BY <1>1, <1>2, ReadTypes DEF OpCmds
  <1>4. conn = "ready" /\ conn # "login"
    BY <1>1, <1>3, AfterLogin DEF LoginCmds
  <1>5. /\ UNCHANGED <<conn, port, busy>> /\ queue \in Seq(FtpReqs)
        /\ Ported(conn, op, queue, port) /\ Lined(op, curReq, queue) /\ op \in [FtpOps -> FtpRecord]
        /\ curReq \in FtpReqs \union {NoReq} /\ op[o] \in FtpRecord
    BY <1>3 DEF TransferReply, serverVars, FtpSound, FtpTyped
  <1>6. /\ Own(op[o], o, aborting) /\ Fits(op[o], "DATA")
        /\ \A i \in DOMAIN queue : queue[i].op # o
    BY <1>3, Requested
  <1>7. /\ op[o].outcome # "idle" /\ op[o].kind # "plain" /\ op[o].seen # "last"
        /\ op[o].sock \in {"open", "sent", "ended", "broken", "gone"}
        /\ op[o].kind = "put" => op[o].sock # "gone"
    BY <1>6 DEF Fits
  <1>8. op[o].outcome # "ok"
    BY <1>6, <1>7 DEF Own
  <1>9. NoReq.op # o /\ Holds(op, curReq, queue, o)
    BY <1>3, FtpAssumption DEF NoReq, Req, Holds
  <1>10. ASSUME NEW e, op' = [op EXCEPT ![o] = e], e.sock \notin Making,
                NEW next \in {curReq, NoReq}, next = curReq => Fits(e, "DATA")
         PROVE  Lined(op', next, queue) /\ Ported(conn, op', queue, port)
    <2>1. \A i \in DOMAIN queue : queue[i].op = o => Fits(e, queue[i].cmd)
      BY <1>6
    <2>2. next.op = o => Fits(e, next.cmd)
      BY <1>3, <1>9, <1>10
    <2>5. e.sock \in Making => Holds(op, curReq, queue, o)
      BY <1>10
    <2>6. op' = [op EXCEPT ![o] = e] /\ next \in {curReq, NoReq}
      BY <1>10
    <2>3. Lined(op', next, queue)
      <3>1. /\ op \in [FtpOps -> FtpRecord] /\ curReq \in FtpReqs \union {NoReq}
            /\ Lined(op, curReq, queue) /\ o \in FtpOps
        BY <1>3, <1>5
      <3>2. CASE next = curReq
        <4>1. curReq.op = o => Fits(e, curReq.cmd)
          BY <2>2, <3>2
        <4>2. Lined(op', curReq, queue)
          BY <2>1, <2>5, <2>6, <3>1, <4>1, LinedChange
        <4> QED
          BY <3>2, <4>2
      <3>4. e.sock \notin Making
        BY <1>10
      <3>3. CASE next = NoReq
        <4>4. Lined(op', NoReq, queue)
          BY <1>6, <2>6, <3>1, <3>4, LinedOver
        <4> QED
          BY <3>3, <4>4
      <3> QED
        BY <2>6, <3>2, <3>3
    <2>4. Ported(conn, op', queue, port)
      BY <1>3, <1>5, <1>6, <1>10, PortedChange
    <2> QED
      BY <2>3, <2>4
  <1>11. PICK s : s = SockAfter(o)
    OBVIOUS
  \* A transfer that goes on: its first reply
  <1>12. CASE Code = "prelim"
    <2>1. /\ op[o].seen = "none"
          /\ \A e : /\ e.seen # "last" /\ e.kind = op[o].kind /\ e.sock = op[o].sock /\ e.got = op[o].got
                    /\ e.kind = "list" => e.seen = "first"
                    => Transfers(e, o, wire, answers', busy, port)
      BY <1>1, <1>3, <1>12, TransferReplies
    <2>2. s = op[o].sock
      BY <1>7, <1>11, <1>12, <2>1 DEF SockAfter, Fails, DataClosed
    <2>3. IsFirst(o)
      BY <1>12, <2>1 DEF IsFirst
    <2>4. PICK e : /\ op' = [op EXCEPT ![o] = e]
                   /\ \/ Fails(o) /\ e = [Ended(o, "err") EXCEPT !.sock = s]
                      \/ ~Fails(o) /\ e = [op[o] EXCEPT !.sock = s, !.seen = "first"]
      BY <1>2, <1>11, <2>3 DEF TransferReply, With
    <2>5. /\ e.kind = op[o].kind /\ e.sock = op[o].sock /\ e.got = op[o].got
          /\ e.seen # "last" /\ e.outcome \in {"called", "err"}
          /\ e.kind = "list" => e.seen = "first"
      <3>1. CASE Fails(o) /\ e = [Ended(o, "err") EXCEPT !.sock = s]
        <4>1. op[o].kind # "list"
          BY <1>12, <3>1 DEF Fails
        <4> QED
          BY <1>5, <1>7, <1>8, <2>2, <3>1, <4>1 DEF Ended, FtpRecord
      <3>2. CASE e = [op[o] EXCEPT !.sock = s, !.seen = "first"]
        BY <1>5, <1>7, <1>8, <2>2, <3>2 DEF FtpRecord
      <3> QED
        BY <2>4, <3>1, <3>2
    <2>6. Fits(e, "DATA") /\ e.sock \notin Making
      BY <1>7, <2>5 DEF Fits, OpCmds, Making
    <2>7. Own(e, o, aborting)
      BY <1>7, <2>5 DEF Own
    <2>8. Transfers(e, o, wire, answers', busy, port)
      BY <2>1, <2>5
    <2>9. Lined(op', curReq, queue) /\ Ported(conn, op', queue, port)
      BY <1>10, <2>4, <2>6
    <2>10. op'[o] = e
      BY <1>3, <1>5, <2>4
    <2>11. curReq' = curReq /\ UNCHANGED <<queue, wire, aborting>>
      BY <1>12 DEF TransferReply
    <2>12. AtServer(op', curReq, wire', answers', busy', port')
      BY <1>3, <1>5, <2>8, <2>10, <2>11 DEF AtServer
    <2>13. Ported(conn, op', queue, port')
      BY <1>5, <2>9
    <2> QED
      BY <1>3, <1>4, <1>5, <2>4, <2>7, <2>9, <2>11, <2>12, <2>13, StillStep
  \* The last reply
  <1>13. CASE Code # "prelim"
    <2>1. /\ Code = "err" \/ (Code = "done" /\ Carried(op[o], o))
          /\ wire = <<>> /\ answers' = <<>> /\ busy = NoTransfer
      BY <1>1, <1>3, <1>13, TransferReplies
    <2>2. /\ s \in {op[o].sock, "gone"} /\ s \notin Making
          /\ op[o].kind = "put" => s = op[o].sock
          /\ DataClosed(op[o].sock) => s = op[o].sock
      BY <1>7, <1>11, <2>1 DEF SockAfter, Making, DataClosed
    <2>3. AtServer(op', NoReq, wire, answers', busy, port)
      BY <2>1, NoneAtServer
    <2>4. ASSUME NEW e, op' = [op EXCEPT ![o] = e], e.sock = s, Own(e, o, aborting), Send(NoReq, queue)
          PROVE  FtpSound'
      <3>1. NoReq # curReq /\ NoReq \in {curReq, NoReq}
        BY <1>3
      <3>2. Lined(op', NoReq, queue) /\ Ported(conn, op', queue, port)
        BY <1>10, <2>2, <2>4, <3>1
      <3>3. e.sock \in Making => Connecting(o)
        BY <2>2, <2>4
      <3> QED
        BY <1>3, <1>4, <1>5, <2>3, <2>4, <3>1, <3>2, <3>3, ClientStep
    <2>5. CASE Fails(o)
      <3>1. PICK e : e = [Ended(o, "err") EXCEPT !.sock = s]
        OBVIOUS
      <3>2. op' = [op EXCEPT ![o] = e]
        BY <1>2, <1>11, <2>5, <3>1 DEF TransferReply, With
      <3>3. /\ e.kind = op[o].kind /\ e.sock = s /\ e.seen = op[o].seen /\ e.got = op[o].got
            /\ e.outcome \in {"called", "err"}
        BY <1>5, <1>7, <1>8, <3>1 DEF Ended, FtpRecord
      <3>4. s \notin {"none", "connecting", "accepted"}
        BY <1>7, <2>2
      <3>5. Own(e, o, aborting)
        BY <1>7, <3>3, <3>4 DEF Own
      <3>6. Send(NoReq, queue)
        BY <1>2, <1>13, <2>5 DEF TransferReply
      <3> QED
        BY <2>4, <3>2, <3>3, <3>5, <3>6
    <2>6. CASE ~Fails(o)
      <3>1. Code = "done" /\ Carried(op[o], o) /\ ~IsFirst(o)
        BY <1>13, <2>1, <2>6 DEF Fails, IsFirst
      <3>2. op[o].kind # "list" => op[o].sock # "broken" /\ s = op[o].sock
        BY <1>11, <2>6, <3>1 DEF Fails, SockAfter
      <3>3. PICK how : how = Final(o, s)
        OBVIOUS
      <3>4. PICK e : /\ op' = [op EXCEPT ![o] = e]
                     /\ \/ /\ op[o].kind = "put" \/ (op[o].kind = "list" /\ DataClosed(s))
                           /\ e = [Ended(o, how) EXCEPT !.sock = s, !.seen = "last"]
                        \/ /\ ~(op[o].kind = "list" /\ DataClosed(s))
                           /\ e = [op[o] EXCEPT !.sock = s, !.seen = "last"]
        BY <1>2, <1>11, <2>6, <3>1, <3>3 DEF TransferReply, With
      <3>5. how \in {"ok", "err"} /\ (how = "ok" /\ op[o].kind = "list" /\ s = "broken" => o \in aborting)
        BY <3>3 DEF Final
      <3>6. /\ e.kind = op[o].kind /\ e.sock = s /\ e.seen = "last" /\ e.got = op[o].got
            /\ e.outcome \in {"called", "err", how} /\ e.outcome # "idle"
            /\ e.outcome = "ok" => /\ how = "ok"
                                   /\ op[o].kind = "put" \/ (op[o].kind = "list" /\ DataClosed(s))
        <4>1. CASE /\ op[o].kind = "put" \/ (op[o].kind = "list" /\ DataClosed(s))
                   /\ e = [Ended(o, how) EXCEPT !.sock = s, !.seen = "last"]
          BY <1>5, <1>7, <1>8, <3>5, <4>1 DEF Ended, FtpRecord
        <4>2. CASE e = [op[o] EXCEPT !.sock = s, !.seen = "last"]
          BY <1>5, <1>7, <1>8, <4>2 DEF FtpRecord
        <4> QED
          BY <3>4, <4>1, <4>2
      <3>7. Carried(e, o)
        <4>1. op[o].sock = "broken" => s = "broken"
          BY <2>2 DEF DataClosed
        <4> QED
          BY <3>1, <3>6, <4>1 DEF Carried
      <3>8. s \notin {"none", "connecting", "accepted"}
        BY <1>7, <2>2
      <3>9. Own(e, o, aborting)
        BY <1>7, <3>5, <3>6, <3>7, <3>8 DEF Own
      <3>10. CASE op[o].kind = "get" /\ DataClosed(s)
        <4>1. Send(NoReq, Promoted(o, "MODE"))
          BY <1>2, <1>11, <2>6, <3>1, <3>10 DEF TransferReply
        <4>2. NoReq \in {curReq, NoReq} /\ NoReq # curReq
          BY <1>3
        <4>3. Lined(op', NoReq, queue) /\ Ported(conn, op', queue, port)
          BY <1>10, <2>2, <3>4, <3>6, <4>2
        <4>4. op'[o] = e
          BY <1>3, <1>5, <3>4
        <4>5. Fits(op'[o], "MODE")
          BY <3>6, <3>10, <4>4 DEF Fits, OpCmds
        <4>6. PICK q : q = Promoted(o, "MODE")
          OBVIOUS
        <4>7. q = <<Req(o, "MODE")>> \o queue /\ Req(o, "MODE") \in FtpReqs /\ Req(o, "MODE").cmd # "DATA"
          BY <1>3, <4>6, ReqTypes DEF Promoted, Cmds, Req
        <4>8. Lined(op', NoReq, q)
          <5>1. NoReq \in FtpReqs \union {NoReq} /\ "MODE" \in {"DATA", "ABOR", "MODE"}
            OBVIOUS
          <5>2. Lined(op', NoReq, <<Req(o, "MODE")>> \o queue)
            BY <1>3, <1>5, <1>6, <1>9, <4>3, <4>5, <5>1, LinedFront
          <5> QED
            BY <4>7, <5>2
        <4>9. Ported(conn, op', q, port)
          BY <1>5, <4>3, <4>7, PortedFront
        <4>10. q \in Seq(FtpReqs)
          BY <4>7, QueueTypes
        <4>11. e.sock \in Making => Connecting(o)
          BY <2>2, <3>6
        <4>12. Send(NoReq, q)
          BY <4>1, <4>6
        <4> QED
          BY <1>3, <1>4, <1>5, <2>3, <3>4, <3>9, <4>2, <4>8, <4>9, <4>10, <4>11, <4>12, ClientStep
      <3>11. CASE ~(op[o].kind = "get" /\ DataClosed(s))
        <4>1. Send(NoReq, queue)
          BY <1>2, <1>11, <1>13, <2>6, <3>1, <3>11 DEF TransferReply
        <4> QED
          BY <2>4, <3>4, <3>6, <3>9, <4>1
      <3> QED
        BY <3>10, <3>11
    <2> QED
      BY <2>5, <2>6
  <1> QED
    BY <1>12, <1>13

-----------------------------------------------------------------------------
(* The steps of the data connections.                                      *)

\* No reply comes that no request waits for.
LEMMA NoStray ==
  ASSUME FtpSound, StrayReply
  PROVE  FALSE
  BY DEF FtpSound, StrayReply, AtServer

\* A step of an operation's data connection that sends nothing
LEMMA SocketStep ==
  ASSUME FtpTyped, FtpSound, conn # "login", NEW o \in FtpOps, NEW e, op' = [op EXCEPT ![o] = e],
         Own(e, o, aborting), e.seen = op[o].seen, e.kind = op[o].kind, e.got = op[o].got,
         e.sock = "broken" <=> op[o].sock = "broken",
         e.sock \in Making => Connecting(o), \A c : Fits(op[o], c) => Fits(e, c),
         UNCHANGED <<conn, queue, curReq, aborting, wire, answers, busy, port>>
  PROVE  FtpSound'
  <1>1. /\ Lined(op, curReq, queue) /\ Ported(conn, op, queue, port) /\ op \in [FtpOps -> FtpRecord]
        /\ AtServer(op, curReq, wire, answers, busy, port) /\ queue \in Seq(FtpReqs)
        /\ curReq \in FtpReqs \union {NoReq}
    BY DEF FtpSound, FtpTyped
  <1>2. e.sock \in Making => Holds(op, curReq, queue, o) /\ (conn = "ready" => port = o)
    BY MakingAlone
  <1>3. /\ curReq.op = o => Fits(e, curReq.cmd)
        /\ \A i \in DOMAIN queue : queue[i].op = o => Fits(e, queue[i].cmd)
    BY Requested
  <1>4. Lined(op', curReq, queue)
    <2>1. curReq \in {curReq, NoReq} /\ (e.sock \in Making => Holds(op, curReq, queue, o))
      BY <1>2
    <2> QED
      BY <1>1, <1>3, <2>1, LinedChange
  <1>5. Ported(conn, op', queue, port)
    <2>1. e.sock \in Making /\ conn = "ready" => port = o
      BY <1>2
    <2> QED
      BY <1>1, <2>1, PortedChange
  <1>6. AtServer(op', curReq, wire, answers, busy, port)
    <2>1. CASE curReq.op = o
      <3>1. op'[o] = e
        BY <1>1
      <3>2. \A a : Over(a, op[o], o) => Over(a, e, o)
        BY DEF Over, Carried
      <3>3. Transfers(op[o], o, wire, answers, busy, port) => Transfers(e, o, wire, answers, busy, port)
        BY <3>2 DEF Transfers
      <3> QED
        BY <1>1, <2>1, <3>1, <3>3 DEF AtServer
    <2>2. CASE curReq.op # o
      BY <1>1, <2>2, OtherAtServer
    <2> QED
      BY <2>1, <2>2
  <1>7. AtServer(op', curReq, wire', answers', busy', port') /\ Ported(conn, op', queue, port')
    BY <1>5, <1>6
  <1>8. curReq \in {curReq, NoReq} /\ curReq' = curReq
    OBVIOUS
  <1> QED
    BY <1>4, <1>7, <1>8, StillStep

\* The server's side of the handshake; and an upload that has been written
LEMMA SocketSound ==
  ASSUME FtpTyped, FtpSound, NEW o \in FtpOps, Accept(o) \/ InputEnds(o)
  PROVE  FtpSound'
  <1>1. op[o] \in FtpRecord /\ Own(op[o], o, aborting)
    BY DEF FtpTyped, FtpSound
  <1>2. PICK s : /\ op' = [op EXCEPT ![o] = [op[o] EXCEPT !.sock = s]]
                 /\ \/ op[o].sock = "connecting" /\ s = "accepted"
                    \/ /\ op[o].sock = "open" /\ s = "sent" /\ op[o].kind = "put" /\ op[o].seen = "first"
    BY DEF Accept, InputEnds, With
  <1>3. PICK e : e = [op[o] EXCEPT !.sock = s]
    OBVIOUS
  <1>4. /\ e.kind = op[o].kind /\ e.sock = s /\ e.seen = op[o].seen /\ e.got = op[o].got
        /\ e.outcome = op[o].outcome
    BY <1>1, <1>3 DEF FtpRecord
  <1>5. op[o].outcome # "idle" /\ op[o].kind # "plain" /\ op[o].sock # "broken" /\ s # "broken"
    BY <1>1, <1>2 DEF Own
  <1>6. conn # "login"
    BY <1>5 DEF FtpSound, Phase
  <1>7. Own(e, o, aborting)
    BY <1>1, <1>2, <1>4, <1>5 DEF Own, Carried, DataClosed
  <1>8. \A c : Fits(op[o], c) => Fits(e, c)
    BY <1>2, <1>4, <1>5 DEF Fits, DataClosed
  <1>9. e.sock \in Making => Connecting(o)
    BY <1>2, <1>4 DEF Making, Connecting
  <1>10. UNCHANGED <<conn, queue, curReq, aborting, wire, answers, busy, port>>
    BY DEF Accept, InputEnds, serverVars
  <1> QED
    BY <1>2, <1>3, <1>4, <1>5, <1>6, <1>7, <1>8, <1>9, <1>10, SocketStep

\* When its data connection is made, or could not be, an operation goes on with
\* a request that comes first.
LEMMA GoesOn ==
  ASSUME FtpTyped, FtpSound, ~interleaved', NEW o \in FtpOps, Connecting(o),
         NEW e \in FtpRecord, op' = [op EXCEPT ![o] = e], Own(e, o, aborting), e.seen = "none",
         e.sock \notin Making, NEW c \in {"DATA", "ABOR"}, Fits(e, c),
         Send(curReq, Promoted(o, c)), UNCHANGED <<conn, answers, port, busy>>
  PROVE  FtpSound'
  <1>2. /\ curReq.op # o /\ \A i \in DOMAIN queue : queue[i].op # o /\ queue[i].cmd \notin {"DATA", "ABOR"}
        /\ op[o].seen = "none"
        /\ conn # "login" /\ Holds(op, curReq, queue, o)
        /\ conn = "ready" => port = o
    BY MakingAlone
  <1>5. PICK q : q = Promoted(o, c)
    OBVIOUS
  <1>9. /\ op \in [FtpOps -> FtpRecord] /\ curReq \in FtpReqs \union {NoReq} /\ queue \in Seq(FtpReqs)
        /\ Lined(op, curReq, queue) /\ Ported(conn, op, queue, port)
        /\ AtServer(op, curReq, wire, answers, busy, port)
    BY DEF FtpTyped, FtpSound
  <1>10. op'[o] = e /\ curReq \in {curReq, NoReq}
    BY <1>9
  <1>11. q = <<Req(o, c)>> \o queue /\ Req(o, c) \in FtpReqs /\ Req(o, c).op = o
    BY <1>5, ReqTypes DEF Promoted, Cmds, Req
  <1>12. Lined(op', curReq, q)
    <2>1. \A p \in FtpOps : op'[p] = IF p = o THEN e ELSE op[p]
      BY <1>9
    <2>2. Lined(op', curReq, queue)
      BY <1>2, <1>9, LinedAside
    <2>3. InLine(op', curReq, queue) /\ Serving(op', curReq) /\ Ordered(queue)
      BY <2>2 DEF Lined
    <2>4. ASSUME NEW p \in FtpOps, Holds(op', curReq, q, p) PROVE p = o
      <3>1. DOMAIN q = 1..Len(queue) + 1 /\ q[1] = Req(o, c)
            /\ \A i \in DOMAIN q : i = 1 \/ (i - 1 \in DOMAIN queue /\ q[i] = queue[i - 1])
        BY <1>9, <1>11, FrontOf
      <3>2. Holds(op, curReq, queue, p) => p = o
        BY <1>2, <1>9 DEF Lined, OneHolds
      <3>3. \A i \in DOMAIN q : q[i].op = p /\ q[i].cmd \in {"DATA", "ABOR"} => p = o
        BY <1>2, <1>11, <3>1
      <3>4. op'[p].sock \in Making => op[p].sock \in Making
        BY <2>1
      <3> QED
        BY <2>4, <3>2, <3>3, <3>4 DEF Holds
    <2>5. PICK w : w \in [FtpOps -> FtpRecord] /\ w = op'
      BY <1>9
    <2>6. Lined(w, curReq, q)
      <3>1. OneHolds(w, curReq, q)
        BY <2>4, <2>5 DEF OneHolds
      <3>2. InLine(w, curReq, q) /\ Ordered(q)
        <4>1. Fits(w[o], c) /\ c \in {"DATA", "ABOR", "MODE"} /\ InLine(w, curReq, queue)
          BY <1>10, <2>3, <2>5
        <4> QED
          BY <1>2, <1>9, <1>11, <2>3, <2>5, <4>1, FrontLined
      <3> QED
        BY <2>3, <2>5, <3>1, <3>2 DEF Lined
    <2> QED
      BY <2>5, <2>6
  <1>13. AtServer(op', curReq, wire, answers', busy, port)
    <2>1. AtServer(op', curReq, wire, answers, busy, port)
      BY <1>2, <1>9, OtherAtServer
    <2> QED
      BY <2>1
  <1>14. Ported(conn, op', q, port)
    <2>1. Ported(conn, op', queue, port)
      <3>1. e.seen = op[o].seen /\ (e.sock \in Making /\ conn = "ready" => port = o)
        BY <1>2
      <3> QED
        BY <1>9, <3>1, PortedChange
    <2>2. Req(o, c).cmd = "DATA" =>
            op'[Req(o, c).op].seen = "none" /\ (conn = "ready" => port = Req(o, c).op)
      BY <1>2, <1>10, <1>11
    <2> QED
      BY <1>9, <1>11, <2>1, <2>2, PortedFront
  <1>15. q \in Seq(FtpReqs)
    BY <1>11, QueueTypes
  <1>16. (e.sock \in Making => Connecting(o)) /\ Send(curReq, q)
    BY <1>5
  <1> QED
    BY <1>2, <1>10, <1>12, <1>13, <1>14, <1>15, <1>16, ClientStep

\* A data connection that has come about: its transfer's command is next.
LEMMA ConnectedSound ==
  ASSUME FtpTyped, FtpSound, ~interleaved', NEW o \in FtpOps, Connected(o)
  PROVE  FtpSound'
  <1>1. op[o] \in FtpRecord /\ Own(op[o], o, aborting) /\ op[o].sock = "accepted" /\ Connecting(o)
    BY DEF FtpTyped, FtpSound, Connected, Connecting
  <1>2. /\ \A i \in DOMAIN queue : queue[i].cmd \notin {"DATA", "ABOR"}
        /\ op[o].outcome # "idle" /\ op[o].kind # "plain" /\ op[o].seen = "none"
    BY <1>1, MakingAlone
  <1>3. ~(queue # <<>> /\ Head(queue).cmd = "ABOR")
    <2>1. queue # <<>> => 1 \in DOMAIN queue /\ Head(queue) = queue[1]
      <3>1. queue \in Seq(FtpReqs)
        BY DEF FtpTyped
      <3> QED
        BY <3>1, EmptySeq, LenProperties
    <2> QED
      BY <1>2, <2>1
  <1>4. PICK e : e = [op[o] EXCEPT !.sock = "open"]
    OBVIOUS
  <1>6. /\ op' = [op EXCEPT ![o] = e] /\ Send(curReq, Promoted(o, "DATA"))
        /\ UNCHANGED <<conn, answers, port, busy>>
    BY <1>3, <1>4 DEF Connected, With, serverVars
  <1>7. /\ e.kind = op[o].kind /\ e.sock = "open" /\ e.seen = "none" /\ e.got = op[o].got
        /\ e.outcome = op[o].outcome /\ e \in FtpRecord
    BY <1>1, <1>2, <1>4 DEF FtpRecord, FtpSocks
  <1>8. Own(e, o, aborting) /\ Fits(e, "DATA") /\ e.sock \notin Making
    BY <1>1, <1>2, <1>7 DEF Own, Fits, OpCmds, Making
  <1> QED
    BY <1>1, <1>6, <1>7, <1>8, GoesOn

\* A data connection that does not come about: another attempt, or an ABOR, or
\* nothing, when the socket of another transfer is noted.
LEMMA FailsSound ==
  ASSUME FtpTyped, FtpSound, ~interleaved', NEW o \in FtpOps,
         DataConnectFails(o) \/ ConnectTimesOut(o)
  PROVE  FtpSound'
  <1>1. op[o] \in FtpRecord /\ Own(op[o], o, aborting) /\ Connecting(o)
    BY DEF FtpTyped, FtpSound, DataConnectFails, ConnectTimesOut, Connecting
  <1>2. op[o].outcome # "idle" /\ op[o].kind # "plain" /\ op[o].seen = "none" /\ conn # "login"
    BY <1>1, MakingAlone
  <1>3. \A c : ~Fits(op[o], c)
    BY <1>1, <1>2 DEF Fits, Connecting, OpCmds, DataClosed
  <1>4. UNCHANGED <<conn, answers, port, busy>>
    BY DEF DataConnectFails, ConnectTimesOut, serverVars
  <1>5. ASSUME NEW s \in {"connecting", "gone"}, op' = [op EXCEPT ![o] = [op[o] EXCEPT !.sock = s]]
        PROVE  \E e \in FtpRecord :
                 /\ op' = [op EXCEPT ![o] = e]
                 /\ e.kind = op[o].kind /\ e.sock = s /\ e.seen = "none" /\ e.got = op[o].got
                 /\ e.outcome = op[o].outcome /\ Own(e, o, aborting)
    <2>1. PICK e : e = [op[o] EXCEPT !.sock = s]
      OBVIOUS
    <2>2. /\ e.kind = op[o].kind /\ e.sock = s /\ e.seen = "none" /\ e.got = op[o].got
          /\ e.outcome = op[o].outcome /\ e \in FtpRecord
      BY <1>1, <1>2, <2>1 DEF FtpRecord, FtpSocks
    <2>3. op[o].outcome # "ok"
      BY <1>1, <1>2 DEF Own
    <2>4. Own(e, o, aborting)
      BY <1>2, <2>2, <2>3 DEF Own
    <2> QED
      BY <1>5, <2>1, <2>2, <2>4
  <1>6. ASSUME NEW s \in {"connecting", "gone"}, op' = [op EXCEPT ![o] = [op[o] EXCEPT !.sock = s]],
               UNCHANGED <<curReq, queue, wire, aborting>>
        PROVE  FtpSound'
    <2>1. PICK e \in FtpRecord :
            /\ op' = [op EXCEPT ![o] = e]
            /\ e.kind = op[o].kind /\ e.sock = s /\ e.seen = "none" /\ e.got = op[o].got
            /\ e.outcome = op[o].outcome /\ Own(e, o, aborting)
      BY <1>5, <1>6
    <2>2. e.seen = op[o].seen /\ e.sock # "broken" /\ op[o].sock # "broken"
      BY <1>1, <1>2, <2>1 DEF Connecting
    <2>3. UNCHANGED <<conn, queue, curReq, aborting, wire, answers, busy, port>>
      BY <1>4, <1>6
    <2> QED
      BY <1>1, <1>2, <1>3, <2>1, <2>2, <2>3, SocketStep
  <1>7. CASE /\ With(o, [op[o] EXCEPT !.sock = "connecting"])
             /\ curReq' = NoReq /\ interleaved' = (interleaved \/ curReq # NoReq)
             /\ UNCHANGED <<queue, wire, aborting>>
    <2>1. curReq' = curReq
      BY <1>7
    <2>2. op' = [op EXCEPT ![o] = [op[o] EXCEPT !.sock = "connecting"]]
      BY <1>7 DEF With
    <2>3. UNCHANGED <<curReq, queue, wire, aborting>>
      BY <1>7, <2>1
    <2> QED
      BY <1>6, <2>2, <2>3
  <1>8. CASE /\ With(o, [op[o] EXCEPT !.sock = "gone"]) /\ Send(curReq, Promoted(o, "ABOR"))
    <2>1. op' = [op EXCEPT ![o] = [op[o] EXCEPT !.sock = "gone"]]
      BY <1>8 DEF With
    <2>2. PICK e \in FtpRecord :
            /\ op' = [op EXCEPT ![o] = e]
            /\ e.kind = op[o].kind /\ e.sock = "gone" /\ e.seen = "none"
            /\ e.outcome = op[o].outcome /\ Own(e, o, aborting)
      BY <1>5, <2>1
    <2>3. Fits(e, "ABOR") /\ e.sock \notin Making
      BY <1>2, <2>2 DEF Fits, OpCmds, Making
    <2>4. Send(curReq, Promoted(o, "ABOR"))
      BY <1>8
    <2> QED
      BY <1>1, <1>4, <2>2, <2>3, <2>4, GoesOn
  <1>9. CASE /\ With(o, [op[o] EXCEPT !.sock = "gone"])
             /\ UNCHANGED <<curReq, queue, wire, aborting, retried, interleaved>>
    <2>1. op' = [op EXCEPT ![o] = [op[o] EXCEPT !.sock = "gone"]]
      BY <1>9 DEF With
    <2> QED
      BY <1>6, <1>9, <2>1
  <1> QED
    BY <1>7, <1>8, <1>9 DEF DataConnectFails, ConnectTimesOut, PasvFails

\* The request of an operation that keeps its replies stays where it is.
LEMMA AtServerOn ==
  ASSUME NEW recs \in [FtpOps -> FtpRecord], NEW o \in FtpOps, NEW e, NEW new,
         new = [recs EXCEPT ![o] = e],
         NEW cur \in FtpReqs \union {NoReq}, NEW w, NEW a, NEW b, NEW p, AtServer(recs, cur, w, a, b, p),
         e.seen = recs[o].seen, e.kind = recs[o].kind, Carried(recs[o], o) => Carried(e, o)
  PROVE  AtServer(new, cur, w, a, b, p)
  <1>1. CASE cur.op = o
    <2>1. new[o] = e
      OBVIOUS
    <2>2. \A r : Over(r, recs[o], o) => Over(r, e, o)
      BY DEF Over
    <2>3. Transfers(recs[o], o, w, a, b, p) => Transfers(e, o, w, a, b, p)
      BY <2>2 DEF Transfers
    <2> QED
      BY <1>1, <2>1, <2>3 DEF AtServer
  <1>2. CASE cur.op # o
    BY <1>2, OtherAtServer
  <1> QED
    BY <1>1, <1>2

\* An operation's requests stay in line while it goes on.
LEMMA LinedOn ==
  ASSUME NEW recs \in [FtpOps -> FtpRecord], NEW cur \in FtpReqs \union {NoReq}, NEW q,
         Lined(recs, cur, q), NEW o \in FtpOps, NEW e, NEW new, new = [recs EXCEPT ![o] = e],
         cur.op = o => Fits(e, cur.cmd), \A i \in DOMAIN q : q[i].op = o => Fits(e, q[i].cmd),
         e.sock \notin Making
  PROVE  Lined(new, cur, q)
  <1>1. cur \in {cur, NoReq}
    OBVIOUS
  <1> QED
    BY <1>1, LinedChange

\* A data connection that ends or fails
LEMMA ClosesSound ==
  ASSUME FtpTyped, FtpSound, ~interleaved', NEW o \in FtpOps, NEW how \in {"ended", "broken"},
         DataCloses(o, how)
  PROVE  FtpSound'
  <1>1. op[o] \in FtpRecord /\ Own(op[o], o, aborting) /\ op[o].sock \in {"open", "sent"}
    BY DEF FtpTyped, FtpSound, DataCloses
  <1>2. op[o].outcome # "idle" /\ op[o].kind # "plain" /\ op[o].sock # "broken"
    BY <1>1 DEF Own
  <1>3. conn # "login"
    BY <1>2 DEF FtpSound, Phase
  <1>4. UNCHANGED <<conn, answers, port, busy>>
    BY DEF DataCloses
  <1>5. PICK f : f = Final(o, how)
    OBVIOUS
  <1>6. f \in {"ok", "err"} /\ (f = "ok" /\ op[o].kind = "list" /\ how = "broken" => o \in aborting)
    BY <1>5 DEF Final
  <1>7. PICK e : /\ op' = [op EXCEPT ![o] = e]
                 /\ e = [(IF op[o].kind = "list" /\ op[o].seen = "last" THEN Ended(o, f) ELSE op[o])
                         EXCEPT !.sock = how,
                                !.got = IF how = "broken" /\ op[o].kind # "put" THEN NoOp ELSE @]
    BY <1>5 DEF DataCloses, With
  <1>8. /\ e.kind = op[o].kind /\ e.sock = how /\ e.seen = op[o].seen
        /\ (how = "broken" /\ op[o].kind # "put") \/ e.got = op[o].got
        /\ e.outcome # "idle"
        /\ e.outcome = op[o].outcome \/ (e.outcome = f /\ op[o].kind = "list" /\ op[o].seen = "last")
    <2>1. CASE op[o].kind = "list" /\ op[o].seen = "last"
      BY <1>1, <1>2, <1>6, <1>7, <2>1 DEF Ended, FtpRecord
    <2>2. CASE ~(op[o].kind = "list" /\ op[o].seen = "last")
      BY <1>1, <1>2, <1>7, <2>2 DEF FtpRecord
    <2> QED
      BY <2>1, <2>2
  <1>9. Carried(op[o], o) => Carried(e, o)
    BY <1>2, <1>8 DEF Carried
  <1>10. Own(e, o, aborting)
    <2>1. e.seen = "last" => Carried(e, o)
      BY <1>1, <1>8, <1>9 DEF Own
    <2>2. op[o].outcome = "ok" => op[o].seen = "last" /\ op[o].kind # "list"
      BY <1>1, <1>2 DEF Own, DataClosed
    <2>3. e.outcome = "ok" =>
            e.seen = "last" /\ (e.kind = "list" => DataClosed(e.sock) /\ (e.sock = "broken" => o \in aborting))
      BY <1>6, <1>8, <2>2 DEF DataClosed
    <2> QED
      BY <1>2, <1>8, <2>1, <2>3 DEF Own
  \* The only request it may have is the transfer's command.
  <1>11. \A c : Fits(op[o], c) => op[o].seen # "last" /\ Fits(e, c)
    BY <1>1, <1>2, <1>8 DEF Fits, OpCmds, DataClosed
  <1>12. /\ curReq.op = o => op[o].seen # "last" /\ Fits(e, curReq.cmd)
         /\ \A i \in DOMAIN queue : queue[i].op = o => op[o].seen # "last" /\ Fits(e, queue[i].cmd)
    BY <1>11, Requested
  <1>13. /\ op \in [FtpOps -> FtpRecord] /\ curReq \in FtpReqs \union {NoReq} /\ queue \in Seq(FtpReqs)
         /\ Lined(op, curReq, queue) /\ Ported(conn, op, queue, port)
         /\ AtServer(op, curReq, wire, answers, busy, port)
    BY DEF FtpTyped, FtpSound
  <1>14. e.sock \notin Making
    BY <1>8 DEF Making
  <1>15. Lined(op', curReq, queue)
    <2>1. op' = [op EXCEPT ![o] = e]
      BY <1>7
    <2>2. /\ curReq.op = o => Fits(e, curReq.cmd)
          /\ \A i \in DOMAIN queue : queue[i].op = o => Fits(e, queue[i].cmd)
      BY <1>12
    <2> QED
      BY <1>13, <1>14, <2>1, <2>2, LinedOn
  <1>16. AtServer(op', curReq, wire, answers', busy, port)
    <2>1. AtServer(op', curReq, wire, answers, busy, port)
      <3>1. op' = [op EXCEPT ![o] = e] /\ e.seen = op[o].seen /\ e.kind = op[o].kind
        BY <1>7, <1>8
      <3> QED
        BY <1>9, <1>13, <3>1, AtServerOn
    <2> QED
      BY <1>4, <2>1
  <1>17. Ported(conn, op', queue, port)
    <2>1. e.sock \in Making /\ conn = "ready" => port = o
      BY <1>14
    <2> QED
      BY <1>7, <1>8, <1>13, <2>1, PortedChange
  <1>18. curReq \in {curReq, NoReq} /\ (e.sock \in Making => Connecting(o))
    BY <1>14
  <1>19. CASE op[o].kind = "get" /\ op[o].seen = "last"
    <2>1. PICK q : q = Promoted(o, "MODE")
      OBVIOUS
    <2>2. Send(curReq, q)
      BY <1>19, <2>1 DEF DataCloses
    <2>3. q = <<Req(o, "MODE")>> \o queue /\ Req(o, "MODE") \in FtpReqs /\ Req(o, "MODE").cmd # "DATA"
      BY <2>1, ReqTypes DEF Promoted, Cmds, Req
    <2>4. op'[o] = e
      BY <1>7, <1>13
    <2>5. Fits(op'[o], "MODE")
      BY <1>8, <1>19, <2>4 DEF Fits, OpCmds, DataClosed
    <2>6. curReq.op # o /\ \A i \in DOMAIN queue : queue[i].op # o
      BY <1>12, <1>19
    <2>7. Lined(op', curReq, q)
      <3>1. "MODE" \in {"DATA", "ABOR", "MODE"}
        OBVIOUS
      <3>2. Lined(op', curReq, <<Req(o, "MODE")>> \o queue)
        BY <1>13, <1>15, <2>5, <2>6, <3>1, LinedFront
      <3> QED
        BY <2>3, <3>2
    <2>8. Ported(conn, op', q, port)
      BY <1>13, <1>17, <2>3, PortedFront
    <2>9. q \in Seq(FtpReqs)
      BY <2>3, QueueTypes
    <2> QED
      BY <1>3, <1>4, <1>7, <1>10, <1>16, <1>18, <2>2, <2>7, <2>8, <2>9, ClientStep
  <1>20. CASE ~(op[o].kind = "get" /\ op[o].seen = "last")
    <2>1. Send(curReq, queue)
      BY <1>20 DEF DataCloses
    <2> QED
      BY <1>3, <1>4, <1>7, <1>10, <1>13, <1>15, <1>16, <1>17, <1>18, <2>1, ClientStep
  <1> QED
    BY <1>19, <1>20

\* The control connection ends: nothing is left of what was under way.
LEMMA LostSound ==
  ASSUME FtpTyped, FtpSound, Lost
  PROVE  FtpSound'
  <1>1. /\ curReq' = NoReq /\ queue' = <<>> /\ wire' = <<>> /\ answers' = <<>> /\ busy' = NoTransfer
        /\ conn' \in {"refused", "lost"} /\ UNCHANGED <<op, aborting>>
    BY DEF Lost
  <1>2. DOMAIN queue' = {}
    BY <1>1
  <1>3. NoReq.op = NoOp /\ NoReq.cmd = "NOOP" /\ NoOp \notin FtpOps
    BY FtpAssumption DEF NoReq, Req
  <1>4. \A o \in FtpOps : Holds(op, NoReq, queue', o) => Holds(op, curReq, queue, o)
    BY <1>2, <1>3 DEF Holds
  <1>5. Lined(op', curReq', queue')
    <2>1. OneHolds(op, NoReq, queue')
      BY <1>4 DEF FtpSound, Lined, OneHolds
    <2>2. Serving(op, NoReq)
      BY <1>3 DEF Serving, OpCmds
    <2>3. InLine(op, NoReq, queue') /\ Ordered(queue')
      BY <1>2 DEF InLine, Ordered
    <2> QED
      BY <1>1, <2>1, <2>2, <2>3 DEF Lined
  <1>6. AtServer(op', curReq', wire', answers', busy', port')
    BY <1>1, NoneAtServer
  <1>7. Ported(conn', op', queue', port') /\ Phase(conn', op', curReq', queue')
    BY <1>1, <1>2 DEF Ported, Phase
  <1>8. \A o \in FtpOps : Own(op'[o], o, aborting')
    BY <1>1 DEF FtpSound
  <1> QED
    BY <1>5, <1>6, <1>7, <1>8 DEF FtpSound

-----------------------------------------------------------------------------
(* The steps of the server.                                                *)

\* A sequence of one
LEMMA OneLong ==
  ASSUME NEW S, NEW s \in Seq(S), Len(s) = 1
  PROVE  s # <<>> /\ Head(s) = s[1] /\ Tail(s) = <<>>
  <1>1. s # <<>> /\ Head(s) = s[1]
    BY EmptySeq
  <1>2. Tail(s) \in Seq(S) /\ Len(Tail(s)) = 0
    BY <1>1, HeadTailProperties
  <1> QED
    BY <1>1, <1>2, EmptySeq

\* Another reply, behind none or behind one
LEMMA AnswersGrow ==
  ASSUME FtpTyped, NEW code \in Codes, Answer(code)
  PROVE  /\ answers = <<>> => Len(answers') = 1 /\ answers'[1].code = code
         /\ Len(answers) = 1 => Len(answers') = 2 /\ answers'[1] = answers[1] /\ answers'[2].code = code
  <1>1. PICK a : a = [to |-> Head(wire), code |-> code]
    OBVIOUS
  <1>2. answers' = Append(answers, a) /\ a.code = code
    BY <1>1 DEF Answer
  <1>3. PICK s : s = answers
    OBVIOUS
  <1>4. s \in Seq([to : Requests, code : Codes])
    BY <1>3 DEF FtpTyped
  <1>5. Len(Append(s, a)) = Len(s) + 1 /\ Append(s, a)[Len(s) + 1] = a
        /\ \A i \in 1..Len(s) : Append(s, a)[i] = s[i]
    BY <1>4
  <1>6. CASE s = <<>>
    <2>1. Len(s) = 0
      BY <1>6
    <2> QED
      BY <1>2, <1>3, <1>5, <1>6, <2>1
  <1>7. CASE Len(s) = 1
    <2>1. s # <<>>
      BY <1>7
    <2> QED
      BY <1>2, <1>3, <1>5, <1>7, <2>1
  <1> QED
    BY <1>3, <1>6, <1>7

\* While a request that needs the port is at the server, nobody else needs it.
LEMMA ServedAlone ==
  ASSUME FtpTyped, FtpSound, curReq.cmd \in {"PASV", "DATA", "ABOR"}
  PROVE  /\ curReq.op \in FtpOps /\ Fits(op[curReq.op], curReq.cmd)
         /\ \A o \in FtpOps : op[o].sock \notin Making
         /\ \A i \in DOMAIN queue : queue[i].cmd # "DATA"
  <1>1. curReq \in FtpReqs
    BY DEF FtpTyped, NoReq, Req
  <1>2. curReq.op \in FtpOps
    BY <1>1, ReqTypes DEF OpCmds
  <1>3. Fits(op[curReq.op], curReq.cmd) /\ Holds(op, curReq, queue, curReq.op)
    BY <1>2 DEF FtpSound, Lined, Serving, Holds
  <1>4. \A o \in FtpOps : Holds(op, curReq, queue, o) => o = curReq.op
    BY <1>2, <1>3 DEF FtpSound, Lined, OneHolds
  <1>5. op[curReq.op].sock \notin Making
    BY <1>3 DEF Fits, Making
  <1>6. \A o \in FtpOps : op[o].sock \notin Making
    BY <1>4, <1>5 DEF Holds
  <1>7. \A i \in DOMAIN queue : queue[i].cmd # "DATA"
    <2> SUFFICES ASSUME NEW i \in DOMAIN queue, queue[i].cmd = "DATA" PROVE FALSE
      OBVIOUS
    <2>1. queue[i].op \in FtpOps /\ queue[i].op # curReq.op
      BY DEF FtpSound, Lined, InLine
    <2>2. Holds(op, curReq, queue, queue[i].op)
      BY DEF Holds
    <2> QED
      BY <1>4, <2>1, <2>2
  <1> QED
    BY <1>2, <1>3, <1>6, <1>7

\* An operation for which every request of it still fits
LEMMA LinedStill ==
  ASSUME FtpTyped, FtpSound, NEW o \in FtpOps, NEW e, NEW new, new = [op EXCEPT ![o] = e],
         \A c : Fits(op[o], c) => Fits(e, c), e.sock \notin Making
  PROVE  Lined(new, curReq, queue)
  <1>1. /\ curReq.op = o => Fits(e, curReq.cmd)
        /\ \A i \in DOMAIN queue : queue[i].op = o => Fits(e, queue[i].cmd)
    BY Requested
  <1>2. /\ op \in [FtpOps -> FtpRecord] /\ curReq \in FtpReqs \union {NoReq}
        /\ Lined(op, curReq, queue)
    BY DEF FtpTyped, FtpSound
  <1> QED
    BY <1>1, <1>2, LinedOn

\* A step of the server changes the client's record of a transfer only by the
\* data that came, and the port only while a request needs it.
LEMMA ServerStep ==
  ASSUME FtpTyped, FtpSound, UNCHANGED <<conn, curReq, queue, aborting>>,
         \/ op' = op
         \/ /\ curReq.cmd = "DATA"
            /\ op' = [op EXCEPT ![curReq.op] = [op[curReq.op] EXCEPT !.got = curReq.op]],
         AtServer(op', curReq, wire', answers', busy', port'),
         port' = port \/ curReq.cmd \in {"PASV", "DATA", "ABOR"}
  PROVE  FtpSound'
  <1>1. /\ op \in [FtpOps -> FtpRecord] /\ curReq \in FtpReqs \union {NoReq} /\ queue \in Seq(FtpReqs)
        /\ Lined(op, curReq, queue) /\ Ported(conn, op, queue, port) /\ Phase(conn, op, curReq, queue)
        /\ \A o \in FtpOps : Own(op[o], o, aborting)
    BY DEF FtpTyped, FtpSound
  <1>2. CASE op' = op
    <2>1. Ported(conn, op, queue, port')
      <3>1. CASE port' = port
        BY <1>1, <3>1
      <3>2. CASE curReq.cmd \in {"PASV", "DATA", "ABOR"}
        <4>1. /\ \A o \in FtpOps : op[o].sock \notin Making
              /\ \A i \in DOMAIN queue : queue[i].cmd # "DATA"
          BY <3>2, ServedAlone
        <4> QED
          BY <4>1 DEF Ported
      <3> QED
        BY <3>1, <3>2
    <2> QED
      BY <1>1, <1>2, <2>1 DEF FtpSound
  <1>3. CASE /\ curReq.cmd = "DATA"
             /\ op' = [op EXCEPT ![curReq.op] = [op[curReq.op] EXCEPT !.got = curReq.op]]
    <2>1. PICK o : o = curReq.op
      OBVIOUS
    <2>2. /\ o \in FtpOps /\ Fits(op[o], "DATA")
          /\ \A p \in FtpOps : op[p].sock \notin Making
          /\ \A i \in DOMAIN queue : queue[i].cmd # "DATA"
      BY <1>3, <2>1, ServedAlone
    <2>3. PICK e : e = [op[o] EXCEPT !.got = o]
      OBVIOUS
    <2>4. /\ op' = [op EXCEPT ![o] = e]
          /\ e.kind = op[o].kind /\ e.sock = op[o].sock /\ e.seen = op[o].seen
          /\ e.outcome = op[o].outcome /\ e.got = o
      BY <1>1, <1>3, <2>1, <2>2, <2>3 DEF FtpRecord
    <2>5. \A p \in FtpOps : op'[p] = IF p = o THEN e ELSE op[p]
      BY <1>1, <2>4
    <2>6. /\ \A c : Fits(op[o], c) => Fits(e, c)
          /\ \A m : Own(op[o], o, m) => Own(e, o, m)
          /\ e.sock \notin Making
      BY <2>2, <2>4 DEF Fits, Own, Carried
    <2>7. Lined(op', curReq, queue)
      BY <2>2, <2>4, <2>6, LinedStill
    <2>8. Ported(conn, op', queue, port')
      BY <2>2, <2>5, <2>6 DEF Ported
    <2>9. \A p \in FtpOps : Own(op'[p], p, aborting)
      BY <1>1, <2>5, <2>6
    <2>10. Phase(conn, op', curReq, queue)
      BY <1>1, <2>4, <2>5 DEF Phase
    <2> QED
      BY <2>7, <2>8, <2>9, <2>10 DEF FtpSound
  <1> QED
    BY <1>2, <1>3

\* The server answers a request, which was the only one.
LEMMA AnswersSound ==
  ASSUME FtpTyped, FtpSound, ServerAnswers
  PROVE  FtpSound'
  <1>1. /\ wire # <<>> /\ busy = NoTransfer /\ Head(wire).cmd # "DATA" /\ wire' = Tail(wire)
        /\ UNCHANGED <<conn, curReq, queue, aborting, op, busy>>
    BY DEF ServerAnswers, ClientVars
  <1>2. wire \in Seq(FtpReqs) /\ AtServer(op, curReq, wire, answers, busy, port)
    BY DEF FtpTyped, FtpSound
  <1>3. wire # <<>> => Head(wire) = wire[1]
    BY <1>2, EmptySeq
  <1>4. curReq # NoReq /\ curReq.cmd # "DATA"
    <2>1. curReq # NoReq
      BY <1>1, <1>2 DEF AtServer
    <2>2. ASSUME curReq.cmd = "DATA" PROVE FALSE
      <3>1. wire[1] = Req(curReq.op, "DATA")
        BY <1>1, <1>2, <2>2 DEF AtServer, Transfers
      <3> QED
        BY <1>1, <1>3, <3>1 DEF Req
    <2> QED
      BY <2>1, <2>2
  <1>5. Len(wire) = 1 /\ wire[1] = curReq /\ answers = <<>>
    BY <1>1, <1>2, <1>4 DEF AtServer
  <1>6. Head(wire) = curReq /\ wire' = <<>>
    BY <1>1, <1>2, <1>5, OneLong
  <1>7. PICK code \in Codes :
          /\ Answer(code)
          /\ curReq.cmd = "PASV" /\ code \notin {"err", "odd"} => port' = curReq.op
    BY <1>6 DEF ServerAnswers, Codes
  <1>8. Len(answers') = 1 /\ answers'[1].code = code
    BY <1>5, <1>7, AnswersGrow
  <1>9. AtServer(op', curReq, wire', answers', busy', port')
    BY <1>1, <1>4, <1>6, <1>7, <1>8 DEF AtServer
  <1>10. port' = port \/ curReq.cmd \in {"PASV", "DATA", "ABOR"}
    BY <1>6 DEF ServerAnswers
  <1> QED
    BY <1>1, <1>9, <1>10, ServerStep

\* A transfer begins, is refused, or is an empty listing.
LEMMA BeginsSound ==
  ASSUME FtpTyped, FtpSound, ServerBegins
  PROVE  FtpSound'
  <1>1. /\ wire # <<>> /\ busy = NoTransfer /\ Head(wire).cmd = "DATA"
        /\ UNCHANGED <<conn, curReq, queue, aborting>>
    BY DEF ServerBegins, ClientVars
  <1>2. wire \in Seq(FtpReqs) /\ AtServer(op, curReq, wire, answers, busy, port)
    BY DEF FtpTyped, FtpSound
  <1>3. wire # <<>> => Head(wire) = wire[1]
    BY <1>2, EmptySeq
  <1>4. curReq.cmd = "DATA"
    <2>1. curReq # NoReq
      BY <1>1, <1>2 DEF AtServer
    <2>2. curReq.cmd # "DATA" => wire[1] = curReq
      BY <1>1, <1>2, <2>1 DEF AtServer
    <2> QED
      BY <1>1, <1>3, <2>2
  <1>5. PICK o : o = curReq.op
    OBVIOUS
  <1>6. o \in FtpOps /\ o # NoOp
    BY <1>4, <1>5, ServedAlone, FtpAssumption
  <1>7. /\ Len(wire) = 1 /\ wire[1] = Req(o, "DATA") /\ answers = <<>>
        /\ op[o].seen = "none" /\ port = o
    BY <1>1, <1>2, <1>4, <1>5, <1>6 DEF AtServer, Transfers, NoTransfer
  <1>8. Head(wire).op = o /\ Tail(wire) = <<>>
    BY <1>2, <1>7, OneLong DEF Req
  <1>9. op[o] \in FtpRecord /\ op \in [FtpOps -> FtpRecord]
    BY <1>6 DEF FtpTyped
  <1>10. /\ \/ op' = op
            \/ op' = [op EXCEPT ![curReq.op] = [op[curReq.op] EXCEPT !.got = curReq.op]]
         /\ Transfers(op'[o], o, wire', answers', busy', port')
    <2>1. CASE /\ Answer("prelim") /\ busy' = [op |-> Head(wire).op, port |-> port]
               /\ UNCHANGED <<op, wire, port, held>>
      <3>1. "prelim" \in Codes
        BY DEF Codes
      <3>2. Len(answers') = 1 /\ answers'[1].code = "prelim"
        BY <1>7, <2>1, <3>1, AnswersGrow
      <3> QED
        BY <1>7, <1>8, <2>1, <3>2 DEF Transfers, Preliminary
    <2>2. CASE /\ Answer("err") /\ wire' = Tail(wire) /\ UNCHANGED <<op, busy>>
      <3>1. "err" \in Codes
        BY DEF Codes
      <3>2. Len(answers') = 1 /\ answers'[1].code = "err"
        BY <1>7, <2>2, <3>1, AnswersGrow
      <3> QED
        BY <1>1, <1>8, <2>2, <3>2 DEF Transfers, Over
    <2>3. CASE /\ Answer("done") /\ wire' = Tail(wire) /\ UNCHANGED busy
               /\ With(Head(wire).op, [op[Head(wire).op] EXCEPT !.got = Head(wire).op])
      <3>1. "done" \in Codes
        BY DEF Codes
      <3>2. Len(answers') = 1 /\ answers'[1].code = "done"
        BY <1>7, <2>3, <3>1, AnswersGrow
      <3>3. op' = [op EXCEPT ![o] = [op[o] EXCEPT !.got = o]]
        BY <1>8, <2>3 DEF With
      <3>4. op'[o].got = o
        BY <1>6, <1>9, <3>3 DEF FtpRecord
      <3>5. Over(answers'[1], op'[o], o)
        BY <3>2, <3>4 DEF Over, Carried
      <3> QED
        BY <1>1, <1>5, <1>8, <2>3, <3>2, <3>3, <3>5 DEF Transfers
    <2> QED
      BY <2>1, <2>2, <2>3 DEF ServerBegins
  <1>11. AtServer(op', curReq, wire', answers', busy', port')
    BY <1>4, <1>5, <1>10 DEF AtServer, NoReq, Req
  <1> QED
    BY <1>1, <1>4, <1>10, <1>11, ServerStep

\* A transfer is done, or fails.
LEMMA EndsSound ==
  ASSUME FtpTyped, FtpSound, ServerEnds
  PROVE  FtpSound'
  <1>1. /\ busy # NoTransfer /\ wire' = Tail(wire) /\ busy' = NoTransfer
        /\ UNCHANGED <<conn, curReq, queue, aborting>>
    BY DEF ServerEnds, ClientVars
  <1>2. wire \in Seq(FtpReqs) /\ AtServer(op, curReq, wire, answers, busy, port)
    BY DEF FtpTyped, FtpSound
  <1>3. curReq.cmd = "DATA"
    BY <1>1, <1>2 DEF AtServer
  <1>4. PICK o : o = curReq.op
    OBVIOUS
  <1>5. o \in FtpOps /\ Fits(op[o], "DATA")
    BY <1>3, <1>4, ServedAlone
  <1>6. /\ Len(wire) = 1 /\ busy = [op |-> o, port |-> o]
        /\ \/ Len(answers) = 1 /\ Preliminary(answers[1]) /\ op[o].seen = "none"
           \/ answers = <<>>
    BY <1>1, <1>2, <1>3, <1>4 DEF AtServer, Transfers
  <1>7. wire' = <<>> /\ busy.op = o /\ busy.port = o
    BY <1>1, <1>2, <1>6, OneLong
  <1>8. op[o] \in FtpRecord /\ op \in [FtpOps -> FtpRecord]
    BY <1>5 DEF FtpTyped
  <1>9. PICK code \in Codes :
          /\ Answer(code)
          /\ \/ code = "err" /\ op' = op
             \/ /\ code = "done"
                /\ op' = [op EXCEPT ![o] = [op[o] EXCEPT !.got = o]]
    <2>1. CASE /\ op[o].kind # "put" /\ With(o, [op[o] EXCEPT !.got = o]) /\ Answer("done")
      BY <2>1 DEF With, Codes
    <2>2. CASE /\ op[o].kind = "put" /\ op[o].sock \in {"sent", "gone"}
               /\ With(o, [op[o] EXCEPT !.got = IF op[o].sock = "sent" THEN o ELSE NoOp])
               /\ Answer("done")
      <3>1. op[o].sock = "sent"
        BY <1>5, <2>2 DEF Fits
      <3> QED
        BY <2>2, <3>1 DEF With, Codes
    <2>3. CASE Answer("err") /\ UNCHANGED op
      BY <2>3 DEF Codes
    <2> QED
      BY <1>7, <2>1, <2>2, <2>3 DEF ServerEnds
  <1>10. /\ op'[o].seen = op[o].seen
         /\ code = "err" \/ (code = "done" /\ Carried(op'[o], o))
    BY <1>5, <1>8, <1>9 DEF FtpRecord, Carried
  <1>11. Transfers(op'[o], o, wire', answers', busy', port')
    <2>1. CASE answers = <<>>
      <3>1. Len(answers') = 1 /\ answers'[1].code = code
        BY <1>9, <2>1, AnswersGrow
      <3> QED
        BY <1>1, <1>7, <1>10, <3>1 DEF Transfers, Over
    <2>2. CASE Len(answers) = 1 /\ Preliminary(answers[1]) /\ op[o].seen = "none"
      <3>1. Len(answers') = 2 /\ answers'[1] = answers[1] /\ answers'[2].code = code
        BY <1>9, <2>2, AnswersGrow
      <3> QED
        BY <1>1, <1>7, <1>10, <2>2, <3>1 DEF Transfers, Over
    <2> QED
      BY <1>6, <2>1, <2>2
  <1>12. AtServer(op', curReq, wire', answers', busy', port')
    BY <1>3, <1>4, <1>11 DEF AtServer, NoReq, Req
  <1>13. op' = op \/ op' = [op EXCEPT ![curReq.op] = [op[curReq.op] EXCEPT !.got = curReq.op]]
    BY <1>4, <1>9
  <1> QED
    BY <1>1, <1>3, <1>12, <1>13, ServerStep

-----------------------------------------------------------------------------
(* The steps and the specification.                                        *)

\* What has been crossed stays noted.
LEMMA CrossedStays ==
  ASSUME [FtpNext]_ftpVars, interleaved
  PROVE  interleaved'
  <1>1. ASSUME NEW cur, NEW q, Send(cur, q) PROVE interleaved'
    <2>1. CASE UNCHANGED <<wire, aborting, interleaved>>
      BY <2>1
    <2>2. CASE HeadSent(cur, q)
      BY <2>2 DEF HeadSent
    <2> QED
      BY <1>1, <2>1, <2>2, SendCases
  <1>2. CASE UNCHANGED interleaved
    BY <1>2
  <1>3. CASE KeepAlive \/ Lost \/ StrayReply \/ ServerAnswers \/ ServerBegins \/ ServerEnds
    BY <1>2, <1>3 DEF KeepAlive, Lost, StrayReply, ServerAnswers, ServerBegins, ServerEnds, ClientVars
  <1>4. CASE LoginReply \/ SimpleReply \/ PasvReply
    BY <1>1, <1>2, <1>4 DEF LoginReply, SimpleReply, PasvReply, SendNext
  <1>5. CASE TransferReply
    BY <1>1, <1>2, <1>5 DEF TransferReply
  <1>6. ASSUME NEW o \in FtpOps,
               CallFtp(o) \/ Accept(o) \/ Connected(o) \/ InputEnds(o)
        PROVE  interleaved'
    BY <1>1, <1>2, <1>6 DEF CallFtp, Accept, Connected, InputEnds
  <1>7. ASSUME NEW o \in FtpOps, DataConnectFails(o) \/ ConnectTimesOut(o)
        PROVE  interleaved'
    BY <1>1, <1>2, <1>7 DEF DataConnectFails, ConnectTimesOut, PasvFails
  <1>8. ASSUME NEW o \in FtpOps, NEW how \in {"ended", "broken"}, DataCloses(o, how)
        PROVE  interleaved'
    BY <1>1, <1>8 DEF DataCloses
  <1>9. CASE UNCHANGED ftpVars
    BY <1>2, <1>9 DEF ftpVars
  <1> QED
    BY <1>3, <1>4, <1>5, <1>6, <1>7, <1>8, <1>9 DEF FtpNext

\* Every step keeps the invariant.
LEMMA FtpStep == FtpInv /\ [FtpNext]_ftpVars => FtpInv'
  <1> SUFFICES ASSUME FtpInv, [FtpNext]_ftpVars PROVE FtpInv'
    OBVIOUS
  <1>1. FtpTyped /\ Served
    BY DEF FtpInv
  <1>2. FtpTyped' /\ Served'
    BY <1>1, TypedStep, ServedStep
  <1>3. ASSUME ~interleaved' PROVE FtpSound'
    <2>1. FtpSound
      BY <1>3, CrossedStays DEF FtpInv
    <2>2. FtpTyped /\ ~interleaved'
      BY <1>1, <1>3
    <2>3. CASE UNCHANGED ftpVars
      BY <2>1, <2>3 DEF ftpVars, serverVars, FtpSound
    <2>4. CASE KeepAlive \/ Lost
      BY <2>1, <2>2, <2>4, KeepSound, LostSound
    <2>5. CASE LoginReply \/ SimpleReply
      BY <2>1, <2>2, <2>5, LoginSound, SimpleSound
    <2>6. CASE PasvReply \/ TransferReply \/ StrayReply
      BY <2>1, <2>2, <2>6, PasvSound, TransferSound, NoStray
    <2>7. CASE ServerAnswers \/ ServerBegins \/ ServerEnds
      BY <2>1, <2>2, <2>7, AnswersSound, BeginsSound, EndsSound
    <2>8. ASSUME NEW o \in FtpOps, CallFtp(o) \/ Accept(o) \/ Connected(o) \/ InputEnds(o)
          PROVE  FtpSound'
      BY <2>1, <2>2, <2>8, CallSound, SocketSound, ConnectedSound
    <2>9. ASSUME NEW o \in FtpOps, DataConnectFails(o) \/ ConnectTimesOut(o)
          PROVE  FtpSound'
      BY <2>1, <2>2, <2>9, FailsSound
    <2>10. ASSUME NEW o \in FtpOps, NEW how \in {"ended", "broken"}, DataCloses(o, how)
           PROVE  FtpSound'
      BY <2>1, <2>2, <2>10, ClosesSound
    <2> QED
      BY <2>3, <2>4, <2>5, <2>6, <2>7, <2>8, <2>9, <2>10 DEF FtpNext
  <1> QED
    BY <1>2, <1>3 DEF FtpInv

\* The invariant holds at all times.
LEMMA FtpAlways == FtpSpec => []FtpInv
  BY FtpStarts, FtpStep, PTL DEF FtpSpec

\* Type correctness of the FTP client: requests, replies and the records of the
\* operations have their shapes in every state.
THEOREM FtpTypeCorrect == FtpSpec => []FtpTypeOK
  <1>1. FtpInv => FtpTypeOK
    <2> SUFFICES ASSUME FtpTyped PROVE FtpTypeOK
      BY DEF FtpInv
    <2>1. queue \in Seq(Requests) /\ wire \in Seq(Requests)
      BY DEF FtpTyped, FtpReqs
    <2>2. \A n \in DOMAIN answers : answers[n].to \in Requests /\ answers[n].code \in Codes
      <3>1. \A n \in DOMAIN answers : answers[n] \in [to : Requests, code : Codes]
        <4>1. answers \in Seq([to : Requests, code : Codes])
          BY DEF FtpTyped
        <4>2. DOMAIN answers = 1..Len(answers)
          BY <4>1, LenProperties
        <4> QED
          BY <4>1, <4>2, ElementOfSeq
      <3> QED
        BY <3>1
    <2>3. curReq \in Requests \union {NoReq}
      BY DEF FtpTyped, FtpReqs
    <2> QED
      BY <2>1, <2>2, <2>3 DEF FtpTyped, FtpTypeOK, FtpRecord, FtpSocks
  <1> QED
    BY <1>1, FtpAlways, PTL

\* A listing or transfer that reports success has moved its own data, whole
\* (list, get, _store): unless another operation's command was sent while a data
\* connection was made, another's ABOR marked the connection, or a download's
\* connection broke after its last reply.
THEOREM DataStayOwn == FtpSpec => []OwnData
  <1>1. FtpInv => OwnData
    <2> SUFFICES ASSUME FtpInv, NEW o \in FtpOps, op[o].kind # "plain", op[o].outcome = "ok",
                        ~interleaved, ~(op[o].kind = "get" /\ op[o].sock = "broken"), o \notin aborting
                 PROVE  op[o].got = o
      BY DEF OwnData
    <2>1. Own(op[o], o, aborting) /\ op[o].kind \in OpKinds
      BY DEF FtpInv, FtpSound, FtpTyped, FtpRecord
    <2>2. Carried(op[o], o) /\ (op[o].kind = "list" => op[o].sock # "broken")
      BY <2>1 DEF Own
    <2> QED
      BY <2>1, <2>2 DEF Carried, OpKinds
  <1> QED
    BY <1>1, FtpAlways, PTL
-----------------------------------------------------------------------------
(* The nine parts side by side.                                            *)

\* The parts begin as each of them begins.
LEMMA PartsBegin ==
  ASSUME MCInit
  PROVE  /\ ForwardsInit /\ ClientsInit /\ ViewsInit /\ StoreInit /\ FtpInit /\ QueryPageInit
         /\ DbTreeInit /\ SqlBatchesInit /\ SqlSessionsInit
BY DEF MCInit

\* A step is one of a part; the others stay as they are.
LEMMA PartsMove ==
  ASSUME [MCNext]_extensionVars
  PROVE  /\ [ForwardsNext]_forwardVars /\ [ClientsNext]_clientVars /\ [ViewsNext]_viewVars
         /\ [StoreNext]_storeVars /\ [FtpNext]_ftpVars /\ [QueryPageNext]_pageVars
         /\ [DbTreeNext]_treeVars /\ [SqlBatchesNext]_batchVars /\ [SqlSessionsNext]_sessionVars
BY DEF MCNext, extensionVars

\* Whichever part moves, each of them behaves as it does alone.
LEMMA PartsAlone ==
  MCSpec => /\ ForwardsSpec /\ ClientsSpec /\ ViewsSpec /\ StoreSpec /\ FtpSpec
            /\ QueryPageSpec /\ DbTreeSpec /\ SqlBatchesSpec /\ SqlSessionsSpec
BY PartsBegin, PartsMove, PTL
   DEF MCSpec, ForwardsSpec, ClientsSpec, ViewsSpec, StoreSpec, FtpSpec, QueryPageSpec,
       DbTreeSpec, SqlBatchesSpec, SqlSessionsSpec

\* The nine parts of the extension keep their types, whichever of them moves.
THEOREM ExtensionTypeCorrect == MCSpec => []ExtensionTypeOK
<1>1. ForwardsTypeOK /\ ClientsTypeOK /\ ViewsTypeOK /\ StoreTypeOK /\ FtpTypeOK
      /\ QueryPageTypeOK /\ DbTreeTypeOK /\ SqlBatchesTypeOK /\ SqlSessionsTypeOK
        => ExtensionTypeOK
  BY DEF ExtensionTypeOK
<1> QED
  BY <1>1, PartsAlone, ForwardsTypeCorrect, ClientsTypeCorrect, ViewsTypeCorrect,
     StoreTypeCorrect, FtpTypeCorrect, PageTypeCorrect, DbTreeTypeCorrect,
     SqlBatchesTypeCorrect, SessionsTyped, PTL

\* What is claimed of each part holds of the nine of them side by side.
THEOREM ExtensionStaysRight ==
  MCSpec => [](/\ ForwardsAreControlled /\ ClientsAreCached /\ SinglePage /\ SavedOnce
               /\ OwnData /\ PageIsRepaired /\ EditsKeepTheirRow /\ TreeShowsServer
               /\ BatchesAreStatements /\ AckedIsKept /\ BatchesAreAtomic)
BY PartsAlone, ForwardsStayControlled, ClientsStayCached, PagesStaySingle,
   ConnectionsStoredOnce, DataStayOwn, PagesAreRepaired, EditsStayOnTheirRow, TreeComesRight,
   ScriptIsSplitRight, AnswersAreKept, BatchesWhole, PTL
=============================================================================
