------------------------------ MODULE HostPipe ------------------------------
(***************************************************************************)
(* The way between the window and the extension host of the standalone     *)
(* application.  The window invokes a backend command that checks a        *)
(* message and writes it to the host's stdin; the host reads stdin in      *)
(* chunks and cuts them into lines (JsonLineDecoder).  The host writes     *)
(* lines to stdout, where anything else in its process may print too; a    *)
(* thread of the backend reads whole lines and emits those that are        *)
(* messages to the window.  Both ends keep their open requests in a        *)
(* RequestStore with a timer.  The host's requests are dialogs,            *)
(* notifications with buttons and the like: the window shows them until    *)
(* the user answers.                                                       *)
(*                                                                         *)
(* A message is what its kind, its id and its number make of it.  Payloads *)
(* are left out, except that a text may be one the backend's parser        *)
(* refuses (odd: a lone surrogate, a value nested too deep).               *)
(***************************************************************************)
EXTENDS Naturals, Sequences, FiniteSets

CONSTANTS
  MaxUi,      \* bound on the requests of the window
  MaxHost,    \* bound on the requests of the host
  MaxAsks,    \* bound on the requests of both
  MaxNotes,   \* the host notifies while it has written fewer messages
  MaxPrints   \* bound on what else is printed in the host

ASSUME HostPipeAssumption == {MaxUi, MaxHost, MaxAsks, MaxNotes, MaxPrints} \subseteq Nat

VARIABLES
  host,       \* the child process
  buffer,     \* JsonLineDecoder.buffer of its stdin
  handling,   \* window requests the controller awaits
  asked,      \* the host's requests, as their callers see them
  reader,     \* the backend's thread reads stdout
  listening,  \* the window has subscribed to extension-host-message
  calls,      \* the window's requests: the caller's view and the store's entry
  shown,      \* the host's requests the window shows
  invokes,    \* window -> backend
  stdin,      \* backend -> host, not yet read
  stdout,     \* host -> backend, not yet read
  events,     \* backend -> window
  replied,    \* requests that were answered, by the host and by the user
  wrote, got, \* messages the host has written; the last one the window took
  sent, handled, \* messages written to stdin; messages the host has decoded
  printed     \* what else was printed

hostVars == <<host, buffer, handling, asked>>
uiVars   == <<listening, calls, shown>>
pipes    == <<reader, invokes, stdin, stdout, events>>
counts   == <<replied, wrote, got, sent, handled, printed>>
vars     == <<hostVars, uiVars, pipes, counts>>

-----------------------------------------------------------------------------
UiIds   == 1..MaxUi
HostIds == 1..MaxHost
NL      == [kind |-> "newline"]
Text    == [kind |-> "text"]     \* printed without a newline
Bytes   == [kind |-> "bytes"]    \* printed, and not UTF-8
Printed == {<<Text>>, <<Bytes, NL>>}

ToHost ==  [kind : {"request"}, id : UiIds, odd : BOOLEAN]
             \union [kind : {"response"}, id : HostIds, odd : BOOLEAN]
ToUi   ==  [kind : {"request"}, id : HostIds, n : Nat]
             \union [kind : {"response"}, id : UiIds, n : Nat]
             \union [kind : {"note"}, n : Nat]
Stages == {"new", "sending", "waiting", "answered", "failed"}

Init ==
  /\ host = "down" /\ buffer = <<>> /\ handling = {}
  /\ asked = [i \in HostIds |-> "new"]
  /\ reader = TRUE
  /\ listening = FALSE
  /\ calls = [i \in UiIds |-> [stage |-> "new", stored |-> FALSE]]
  /\ shown = {}
  /\ invokes = <<>> /\ stdin = <<>> /\ stdout = <<>> /\ events = <<>>
  /\ replied = [ui |-> {}, host |-> {}]
  /\ wrote = 0 /\ got = 0 /\ sent = 0 /\ handled = 0 /\ printed = 0

\* createRequest numbers the requests of a process.
Begun(stage) == {i \in DOMAIN stage : stage[i] # "new"}
CallStage == [i \in UiIds |-> calls[i].stage]

NextId(stage, i) ==
  /\ Begun(stage) = 1..(i - 1)
  /\ Cardinality(Begun(CallStage)) + Cardinality(Begun(asked)) < MaxAsks

-----------------------------------------------------------------------------
(* The host process.                                                       *)

\* spawn_extension_host
Spawn ==
  /\ host = "down"
  /\ host' = "up"
  /\ UNCHANGED <<buffer, handling, asked, uiVars, pipes, counts>>

\* The process ends, by itself or with an error: its open requests end with
\* it and nobody reads stdin.  What it wrote can still be read.  A write into
\* a pipe the backend has stopped reading is such an end.
Exits(how) ==
  /\ host' = how
  /\ buffer' = <<>> /\ stdin' = <<>> /\ handling' = {}
  /\ asked' = [i \in HostIds |-> IF asked[i] = "waiting" THEN "failed" ELSE asked[i]]

HostExits ==
  /\ host = "up"
  /\ Exits("exited")
  /\ UNCHANGED <<uiVars, reader, invokes, stdout, events, counts>>

\* process.stdout.write of one line
Write(m) ==
  /\ reader
  /\ stdout' = stdout \o <<m, NL>>
  /\ wrote' = m.n

\* IpcBridge.request
HostAsks(i) ==
  /\ host = "up" /\ NextId(asked, i)
  /\ asked' = [asked EXCEPT ![i] = "waiting"]
  /\ Write([kind |-> "request", id |-> i, n |-> wrote + 1])
  /\ UNCHANGED <<host, buffer, handling, uiVars, reader, invokes, stdin, events,
                 replied, got, sent, handled, printed>>

\* IpcBridge.notify
HostNotifies ==
  /\ host = "up" /\ wrote < MaxNotes
  /\ Write([kind |-> "note", n |-> wrote + 1])
  /\ UNCHANGED <<hostVars, uiVars, reader, invokes, stdin, events,
                 replied, got, sent, handled, printed>>

\* RequestStore's timer in the host: 30 seconds
HostTimeout(i) ==
  /\ host = "up" /\ asked[i] = "waiting"
  /\ asked' = [asked EXCEPT ![i] = "failed"]
  /\ UNCHANGED <<host, buffer, handling, uiVars, pipes, counts>>

\* The answer of ExtensionHostController.handleMessage, good or bad
HostReplies(i) ==
  /\ host = "up" /\ i \in handling
  /\ handling' = handling \ {i}
  /\ replied' = [replied EXCEPT !.host = @ \union {i}]
  /\ Write([kind |-> "response", id |-> i, n |-> wrote + 1])
  /\ UNCHANGED <<host, buffer, asked, uiVars, reader, invokes, stdin, events,
                 got, sent, handled, printed>>

\* Whatever else runs in the process prints.
Prints(s) ==
  /\ host = "up" /\ reader /\ printed < MaxPrints
  /\ stdout' = stdout \o s
  /\ printed' = printed + 1
  /\ UNCHANGED <<hostVars, uiVars, reader, invokes, stdin, events,
                 replied, wrote, got, sent, handled>>

\* Where a sequence of what was written holds messages
Messages(s) == {j \in 1..Len(s) : s[j] # NL}

\* JsonLineDecoder.push: the messages of the finished lines, and the rest
Ends(s)     == {j \in 1..Len(s) : s[j] = NL}
Finished(s) == IF Ends(s) = {} THEN 0
               ELSE CHOOSE j \in Ends(s) : \A k \in Ends(s) : k <= j

\* mutant: what follows the last newline is dropped
DecodeWholeChunks(s) ==
  [messages |-> Messages(SubSeq(s, 1, Finished(s))), rest |-> <<>>]

Decode(s) == [messages |-> Messages(SubSeq(s, 1, Finished(s))),
              rest     |-> SubSeq(s, Finished(s) + 1, Len(s))]

\* RequestStore.resolve for the answers among the messages.
\* mutant: an answer that comes after the timer is taken too
ResolvedLate(ids) ==
  [i \in HostIds |-> IF i \in ids THEN "answered" ELSE asked[i]]

Resolved(ids) ==
  [i \in HostIds |-> IF i \in ids /\ asked[i] = "waiting" THEN "answered" ELSE asked[i]]

\* startStdinMessageLoop: a chunk ends anywhere.  A line that is no JSON
\* throws out of the listener and ends the process.
HostReads(k) ==
  LET text    == buffer \o SubSeq(stdin, 1, k)
      decoded == Decode(text)
      taken   == {text[j] : j \in decoded.messages}
      Of(kind) == {m.id : m \in {x \in taken : x.kind = kind}}
  IN /\ host = "up"
     /\ IF \E m \in taken : m.odd
        THEN Exits("thrown") /\ UNCHANGED handled
        ELSE /\ buffer' = decoded.rest
             /\ stdin' = SubSeq(stdin, k + 1, Len(stdin))
             /\ handling' = handling \union Of("request")
             /\ asked' = Resolved(Of("response"))
             /\ handled' = handled + Cardinality(decoded.messages)
             /\ UNCHANGED host
     /\ UNCHANGED <<uiVars, reader, invokes, stdout, events,
                    replied, wrote, got, sent, printed>>

-----------------------------------------------------------------------------
(* The backend.                                                            *)

Accepted(m) == host = "up" /\ ~m.odd

\* mutant: the caller waits for a response whatever the store holds
SentAnyway(m) == IF Accepted(m) THEN "waiting" ELSE "failed"

\* sendHostRequest after the await of transport.send: the caller waits for the
\* response if the request is still in the store.
Sent(m) == IF Accepted(m) /\ calls[m.id].stored THEN "waiting" ELSE "failed"

\* send_extension_host_message and its reply to the window
Forward ==
  /\ invokes # <<>>
  /\ LET m == Head(invokes)
     IN /\ IF Accepted(m)
           THEN stdin' = stdin \o <<m, NL>> /\ sent' = sent + 1
           ELSE UNCHANGED <<stdin, sent>>
        /\ calls' = IF m.kind = "request"
                    THEN [calls EXCEPT ![m.id].stage = Sent(m)]
                    ELSE calls
  /\ invokes' = Tail(invokes)
  /\ UNCHANGED <<hostVars, listening, shown, reader, stdout, events,
                 replied, wrote, got, handled, printed>>

IsMessage(line) == line # <<>> /\ Tail(line) = <<>> /\ line[1].kind \notin {"text", "bytes"}

\* mutant: an event replaces the one before it
EmittedLast(line) == IF IsMessage(line) /\ listening THEN line ELSE events

Emitted(line) == IF IsMessage(line) /\ listening THEN Append(events, line[1]) ELSE events

\* The thread that reads stdout takes a line.  Bytes that are not UTF-8 end
\* it; a line that is more than one message is a line of the log.
ReadLine ==
  /\ reader
  /\ \E j \in 1..Len(stdout) :
       /\ stdout[j] = NL
       /\ \A k \in 1..(j - 1) : stdout[k] # NL
       /\ LET line == SubSeq(stdout, 1, j - 1)
          IN /\ reader' = (Bytes \notin {line[k] : k \in 1..(j - 1)})
             /\ events' = Emitted(line)
       /\ stdout' = SubSeq(stdout, j + 1, Len(stdout))
  /\ UNCHANGED <<hostVars, uiVars, invokes, stdin, counts>>

-----------------------------------------------------------------------------
(* The window.                                                             *)

WindowListens ==
  /\ ~listening
  /\ listening' = TRUE
  /\ UNCHANGED <<hostVars, calls, shown, pipes, counts>>

\* sendHostRequest
UiAsks(i, odd) ==
  /\ NextId(CallStage, i)
  /\ calls' = [calls EXCEPT ![i] = [stage |-> "sending", stored |-> TRUE]]
  /\ invokes' = Append(invokes, [kind |-> "request", id |-> i, odd |-> odd])
  /\ UNCHANGED <<hostVars, listening, shown, reader, stdin, stdout, events, counts>>

\* RequestStore's timer in the window
UiTimeout(i) ==
  /\ calls[i].stored
  /\ calls' = [calls EXCEPT ![i] =
                 [stage |-> IF @.stage = "waiting" THEN "failed" ELSE @.stage,
                  stored |-> FALSE]]
  /\ UNCHANGED <<hostVars, listening, shown, pipes, counts>>

\* The listener of createHostBridge.start, and the App behind it
UiReceives ==
  /\ events # <<>>
  /\ LET m == Head(events)
     IN /\ calls' = IF m.kind = "response" /\ calls[m.id].stored
                    THEN [calls EXCEPT ![m.id] =
                            [stage |-> IF @.stage = "waiting" THEN "answered" ELSE @.stage,
                             stored |-> FALSE]]
                    ELSE calls
        /\ shown' = IF m.kind = "request" THEN shown \union {m.id} ELSE shown
        /\ got' = m.n
  /\ events' = Tail(events)
  /\ UNCHANGED <<hostVars, listening, reader, invokes, stdin, stdout,
                 replied, wrote, sent, handled, printed>>

\* respondToDialog, respondToNotification
UserAnswers(i, odd) ==
  /\ i \in shown
  /\ shown' = shown \ {i}
  /\ invokes' = Append(invokes, [kind |-> "response", id |-> i, odd |-> odd])
  /\ replied' = [replied EXCEPT !.ui = @ \union {i}]
  /\ UNCHANGED <<hostVars, listening, calls, reader, stdin, stdout, events,
                 wrote, got, sent, handled, printed>>

\* onDismiss of a notification closes it and tells nobody.
UserDismisses(i) ==
  /\ i \in shown
  /\ shown' = shown \ {i}
  /\ UNCHANGED <<hostVars, listening, calls, pipes, counts>>

-----------------------------------------------------------------------------
Next ==
  \/ Spawn
  \/ HostExits
  \/ \E i \in HostIds : HostAsks(i) \/ HostTimeout(i)
  \/ HostNotifies
  \/ \E i \in UiIds : HostReplies(i)
  \/ \E s \in Printed : Prints(s)
  \/ \E k \in 1..Len(stdin) : HostReads(k)
  \/ Forward
  \/ ReadLine
  \/ WindowListens
  \/ \E i \in UiIds, odd \in BOOLEAN : UiAsks(i, odd)
  \/ \E i \in UiIds : UiTimeout(i)
  \/ UiReceives
  \/ \E i \in HostIds, odd \in BOOLEAN : UserAnswers(i, odd)
  \/ \E i \in HostIds : UserDismisses(i)

Spec == Init /\ [][Next]_vars

\* Timers run and the backend answers what is invoked; nobody else must act.
Fairness ==
  /\ \A i \in UiIds : WF_vars(UiTimeout(i))
  /\ \A i \in HostIds : WF_vars(HostTimeout(i))
  /\ WF_vars(Forward)

FairSpec == Spec /\ Fairness

-----------------------------------------------------------------------------
TypeOK ==
  /\ host \in {"down", "up", "exited", "thrown"}
  /\ buffer \in Seq(ToHost \union {NL}) /\ stdin \in Seq(ToHost \union {NL})
  /\ handling \subseteq UiIds
  /\ asked \in [HostIds -> Stages \ {"sending"}]
  /\ reader \in BOOLEAN /\ listening \in BOOLEAN
  /\ calls \in [UiIds -> [stage : Stages, stored : BOOLEAN]]
  /\ shown \subseteq HostIds
  /\ invokes \in Seq(ToHost)
  /\ stdout \in Seq(ToUi \union {NL, Text, Bytes})
  /\ events \in Seq(ToUi)
  /\ replied \in [ui : SUBSET HostIds, host : SUBSET UiIds]
  /\ {wrote, got, sent, handled, printed} \subseteq Nat

\* However a pipe cuts stdin into chunks, the host decodes every message that
\* was written to it: one is read or still to be read, and none is lost with
\* the rest of a chunk (JsonLineDecoder.push keeps what follows the last
\* newline).
EveryLineCounts ==
  host = "up" => handled + Cardinality(Messages(buffer \o stdin)) = sent

\* No line makes JsonLineDecoder.push throw out of the data listener, which
\* would end the process and drop the messages of its chunk: the backend
\* parses every message before it writes it (main.rs:47).
HostNeverThrows == host # "thrown"

\* The window takes the host's messages in the order they were written, none
\* twice; and once it has taken one it skips none, unless something in the
\* host has printed a line of its own into stdout.
TakenInOrder ==
  [][got' # got => /\ got' > got
                   /\ got > 0 /\ printed = 0 => got' = got + 1]_vars

\* A request that is being sent is waited for by its caller.
UiStage == [i \in UiIds |-> IF calls[i].stage = "sending" THEN "waiting" ELSE calls[i].stage]

\* The window's requests (sendHostRequest with its RequestStore) are calls
\* that settle once, as answered only if the host has answered that request,
\* and always: whatever the backend refuses, the host loses by exiting and
\* the extension never answers.
UiCalls ==
  INSTANCE Calls WITH Call <- UiIds, stage <- UiStage, replied <- replied.host

UiCallsSettle == UiCalls!Spec

\* The same of the host's requests (IpcBridge.request), which the user answers
\* by a dialog or a notification, late or not at all.
HostCalls ==
  INSTANCE Calls WITH Call <- HostIds, stage <- asked, replied <- replied.ui

HostCallsSettle == HostCalls!Spec
=============================================================================
