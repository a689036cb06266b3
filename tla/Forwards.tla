------------------------------- MODULE Forwards -------------------------------
(***************************************************************************)
(* Port forwarding of the extension (forwardService.ts, forward/tunnel.js). *)
(* A forward has an id made of its addresses; its local server listens on  *)
(* a port.  A ForwardService belongs to one node of the connection tree    *)
(* and marks the servers it has made; the list of forwards is stored.  The *)
(* tree makes a new node, with a service that has no marks, whenever it is  *)
(* read again, and the page talks to the service of the node it was opened *)
(* from last.                                                              *)
(*                                                                         *)
(* tunnel() looks the local host up before it listens, so other commands   *)
(* come in between.  When the port is taken the server emits an error that *)
(* nothing handles and the callback is never called.                       *)
(***************************************************************************)
EXTENDS Naturals, FiniteSets

CONSTANTS
  ForwardIds,   \* forwards, by id
  LocalPorts,
  MaxTunnels,   \* bound on the calls of forward()
  MaxServices   \* bound on the services

ASSUME ForwardsAssumption == MaxTunnels \in Nat /\ MaxServices \in Nat \ {0}

VARIABLES
  portOf,     \* the local port of each forward
  refused,    \* forwards createConfig throws for
  service,    \* the service the page talks to
  tunelMark,  \* of each service: the call whose server is marked, or 0
  stored,     \* how often each forward is in the stored list
  tunnels,    \* the calls of forward(): stage, forward, service, create, overtaken
  asked       \* how many there were

forwardVars == <<portOf, refused, service, tunelMark, stored, tunnels, asked>>

-----------------------------------------------------------------------------
TunnelIds == 1..MaxTunnels
ServiceIds == 1..MaxServices
NoTunnel  == 0

ForwardsInit ==
  /\ portOf \in [ForwardIds -> LocalPorts]
  /\ refused \in SUBSET ForwardIds
  /\ service = 1
  /\ tunelMark = [s \in ServiceIds |-> [f \in ForwardIds |-> NoTunnel]]
  /\ stored = [f \in ForwardIds |-> 0]
  /\ tunnels = <<>>
  /\ asked = 0

Stage(t)     == tunnels[t].stage
Listening(t) == Stage(t) = "listening"
Marked(f)    == tunelMark[service][f]

\* A command for a forward a tunnel of which is being made.
Overtaken(f) ==
  [t \in DOMAIN tunnels |->
     IF Stage(t) \in {"starting", "throwing"} /\ tunnels[t].forward = f
     THEN [tunnels[t] EXCEPT !.overtaken = TRUE] ELSE tunnels[t]]

\* mutant: the mark is deleted and its server left alone
ClosedUnmarked(f, ts) == ts

\* closeTunnel: only a server that is marked is closed.
Closed(f, ts) ==
  IF Marked(f) = NoTunnel THEN ts ELSE [ts EXCEPT ![Marked(f)].stage = "closed"]

Unmarked(f) == [tunelMark EXCEPT ![service][f] = NoTunnel]

\* The call of forward() that follows in the same step
Asked(f, create, ts) ==
  [t \in DOMAIN ts \union {asked + 1} |->
     IF t = asked + 1
     THEN [stage |-> IF f \in refused THEN "throwing" ELSE "starting", forward |-> f,
           service |-> service, create |-> create, overtaken |-> FALSE]
     ELSE ts[t]]

-----------------------------------------------------------------------------
(* The page's commands.                                                    *)

\* "update": the forward that was edited, if any, is removed and a forward
\* made, unless the list has it.
Update(old, f) ==
  /\ asked < MaxTunnels
  /\ old \in {g \in ForwardIds : stored[g] > 0}
  /\ stored' = [stored EXCEPT ![old] = @ - 1]
  /\ tunelMark' = Unmarked(old)
  /\ IF stored'[f] > 0
     THEN tunnels' = Closed(old, Overtaken(old)) /\ asked' = asked
     ELSE tunnels' = Asked(f, TRUE, Closed(old, Overtaken(old))) /\ asked' = asked + 1
  /\ UNCHANGED <<portOf, refused, service>>

Add(f) ==
  /\ asked < MaxTunnels
  /\ stored[f] = 0
  /\ tunnels' = Asked(f, TRUE, tunnels)
  /\ asked' = asked + 1
  /\ UNCHANGED <<portOf, refused, service, tunelMark, stored>>

\* "start" of a forward in the list, whether it runs or not
StartForward(f) ==
  /\ asked < MaxTunnels
  /\ stored[f] > 0
  /\ tunnels' = Asked(f, FALSE, tunnels)
  /\ asked' = asked + 1
  /\ UNCHANGED <<portOf, refused, service, tunelMark, stored>>

StopForward(f) ==
  /\ tunnels' = Closed(f, Overtaken(f))
  /\ tunelMark' = Unmarked(f)
  /\ UNCHANGED <<portOf, refused, service, stored, asked>>

RemoveForward(f) ==
  /\ stored[f] > 0
  /\ tunnels' = Closed(f, Overtaken(f))
  /\ tunelMark' = Unmarked(f)
  /\ stored' = [stored EXCEPT ![f] = @ - 1]
  /\ UNCHANGED <<portOf, refused, service, asked>>

\* The page is opened from a node the tree has made since.
OpenFromNewNode ==
  /\ service < MaxServices
  /\ service' = service + 1
  /\ UNCHANGED <<portOf, refused, tunelMark, stored, tunnels, asked>>

-----------------------------------------------------------------------------
(* What becomes of a tunnel.                                               *)

PortTaken(t) == \E u \in DOMAIN tunnels : Listening(u) /\ portOf[tunnels[u].forward] = portOf[tunnels[t].forward]

\* mutant: only a new forward is marked
MarkedNew(t) ==
  IF tunnels[t].create THEN [tunelMark EXCEPT ![tunnels[t].service][tunnels[t].forward] = t]
  ELSE tunelMark

MarkedFor(t) == [tunelMark EXCEPT ![tunnels[t].service][tunnels[t].forward] = t]

StoredFor(t) ==
  IF tunnels[t].create THEN [stored EXCEPT ![tunnels[t].forward] = @ + 1] ELSE stored

\* The callback of listen
ServerListens(t) ==
  /\ Stage(t) = "starting" /\ ~PortTaken(t)
  /\ tunnels' = [tunnels EXCEPT ![t].stage = "listening"]
  /\ tunelMark' = MarkedFor(t)
  /\ stored' = StoredFor(t)
  /\ UNCHANGED <<portOf, refused, service, asked>>

\* The port is taken or the host not found: nobody hears of it.
ServerFails(t) ==
  /\ Stage(t) = "starting"
  /\ tunnels' = [tunnels EXCEPT ![t].stage = "failed"]
  /\ UNCHANGED <<portOf, refused, service, tunelMark, stored, asked>>

\* The callback with the error of createConfig: rejected, and stored.
ConfigThrown(t) ==
  /\ Stage(t) = "throwing"
  /\ tunnels' = [tunnels EXCEPT ![t].stage = "rejected"]
  /\ tunelMark' = [tunelMark EXCEPT ![tunnels[t].service][tunnels[t].forward] = NoTunnel]
  /\ stored' = StoredFor(t)
  /\ UNCHANGED <<portOf, refused, service, asked>>

ForwardsNext ==
  \/ \E f \in ForwardIds :
       \/ \E old \in ForwardIds : Update(old, f)
       \/ Add(f) \/ StartForward(f) \/ StopForward(f) \/ RemoveForward(f)
  \/ OpenFromNewNode
  \/ \E t \in DOMAIN tunnels : ServerListens(t) \/ ServerFails(t) \/ ConfigThrown(t)

ForwardsSpec == ForwardsInit /\ [][ForwardsNext]_forwardVars

-----------------------------------------------------------------------------
ForwardsTypeOK ==
  /\ portOf \in [ForwardIds -> LocalPorts] /\ refused \subseteq ForwardIds
  /\ service \in ServiceIds
  /\ tunelMark \in [ServiceIds -> [ForwardIds -> TunnelIds \union {NoTunnel}]]
  /\ stored \in [ForwardIds -> Nat]
  /\ asked \in 0..MaxTunnels
  /\ tunnels \in [1..asked -> [stage : {"starting", "throwing", "listening", "failed",
                                        "rejected", "closed"},
                               forward : ForwardIds, service : ServiceIds, create : BOOLEAN,
                               overtaken : BOOLEAN]]

\* What the list shows is so and can be acted on: a forward shown as running
\* (list() sets state from the mark) has a server that listens, and every
\* server that listens is one its service can stop.  It is also in the list,
\* unless the forward was removed or replaced while the server was starting,
\* or its service has been left behind by the tree (closeTunnel, remove).
ForwardsAreControlled ==
  /\ \A s \in ServiceIds, f \in ForwardIds :
       LET t == tunelMark[s][f]
       IN t # NoTunnel => Listening(t) /\ tunnels[t].forward = f
  /\ \A t \in DOMAIN tunnels : Listening(t) =>
       LET c == tunnels[t]
       IN /\ tunelMark[c.service][c.forward] = t
          /\ c.overtaken \/ service # c.service \/ stored[c.forward] > 0
=============================================================================
