------------------------------ MODULE SshClients ------------------------------
(***************************************************************************)
(* The clients of SSH connections (clientManager.ts): one is kept for each *)
(* connection, with its SFTP channel, made by the first call that finds    *)
(* none and removed when any client of the connection ends or fails.       *)
(* Every caller asks for SFTP.  The client itself is ssh2's: it gets ready *)
(* or fails, opens SFTP or is refused it, and ends some time after it was  *)
(* told to or by itself.                                                   *)
(***************************************************************************)
EXTENDS Naturals

CONSTANTS
  SshKeys,     \* connections, by key, host, port and user
  MaxClients   \* bound on the clients made

ASSUME SshClientsAssumption == MaxClients \in Nat

VARIABLES
  activeClient,  \* ClientManager.activeClient: a client or none
  client,        \* the clients: of which connection, in what stage, and
                 \* whether another one of its connection was alive with it
  made           \* how many there were

clientVars == <<activeClient, client, made>>

-----------------------------------------------------------------------------
NoClient == 0
Alive    == {"connecting", "sftp", "open", "stuck", "ending", "failed"}

ClientsInit ==
  /\ activeClient = [k \in SshKeys |-> NoClient]
  /\ client = <<>>
  /\ made = 0

OthersAlive(k) == \E c \in DOMAIN client : client[c].key = k /\ client[c].stage \in Alive

\* mutant: an end or an error leaves the client in the table
ForgottenNever(k) == activeClient

Forgotten(k) == [activeClient EXCEPT ![k] = NoClient]

Staged(c, stage) == [client EXCEPT ![c].stage = stage]

\* getSSH that finds no client.  (One that finds a client returns it.)
MakeClient(k) ==
  /\ activeClient[k] = NoClient /\ made < MaxClients
  /\ made' = made + 1
  /\ client' = [c \in DOMAIN client \union {made + 1} |->
       IF c = made + 1
       THEN [key |-> k, stage |-> "connecting", overlapped |-> OthersAlive(k)]
       ELSE [client[c] EXCEPT !.overlapped = @ \/ (client[c].key = k /\ client[c].stage \in Alive)]]
  /\ UNCHANGED activeClient

ClientReady(c) ==
  /\ client[c].stage = "connecting"
  /\ client' = Staged(c, "sftp")
  /\ UNCHANGED <<activeClient, made>>

\* The client is put in the table, whatever is there, and its caller gets it.
SftpOpened(c) ==
  /\ client[c].stage = "sftp"
  /\ client' = Staged(c, "open")
  /\ activeClient' = [activeClient EXCEPT ![client[c].key] = c]
  /\ UNCHANGED made

\* The callback throws: the promise is not settled, the client stays connected.
SftpRefused(c) ==
  /\ client[c].stage = "sftp"
  /\ client' = Staged(c, "stuck")
  /\ UNCHANGED <<activeClient, made>>

\* on("error"); its end may follow.
ClientFails(c) ==
  /\ client[c].stage \in Alive \ {"failed"}
  /\ client' = Staged(c, "failed")
  /\ activeClient' = Forgotten(client[c].key)
  /\ UNCHANGED made

\* on("end"), or the last that is heard of the client
ClientEnds(c) ==
  /\ client[c].stage \in Alive
  /\ client' = Staged(c, "ended")
  /\ activeClient' = Forgotten(client[c].key)
  /\ UNCHANGED made

\* closeSSH
CloseSsh(k) ==
  /\ activeClient[k] # NoClient
  /\ client' = Staged(activeClient[k], "ending")
  /\ activeClient' = [activeClient EXCEPT ![k] = NoClient]
  /\ UNCHANGED made

ClientsNext ==
  \/ \E k \in SshKeys : MakeClient(k) \/ CloseSsh(k)
  \/ \E c \in DOMAIN client : 
       ClientReady(c) \/ SftpOpened(c) \/ SftpRefused(c) \/ ClientFails(c) \/ ClientEnds(c)

ClientsSpec == ClientsInit /\ [][ClientsNext]_clientVars

-----------------------------------------------------------------------------
ClientsTypeOK ==
  /\ activeClient \in [SshKeys -> 0..MaxClients]
  /\ made \in 0..MaxClients
  /\ client \in [1..made -> [key : SshKeys, stage : Alive \union {"ended"}, overlapped : BOOLEAN]]

\* Nobody is given a client that has ended or was told to: what the table
\* holds is open, whichever client's events come last.  And a client that is
\* open can be closed: it is in the table unless another client of its
\* connection was alive at the same time (getSSH, closeSSH).
ClientsAreCached ==
  /\ \A k \in SshKeys :
       LET c == activeClient[k]
       IN c # NoClient => client[c].key = k /\ client[c].stage = "open"
  /\ \A c \in DOMAIN client :
       client[c].stage = "open" => client[c].overlapped \/ activeClient[client[c].key] = c
=============================================================================
