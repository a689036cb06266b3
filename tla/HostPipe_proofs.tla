---------------------------- MODULE HostPipe_proofs ----------------------------
(***************************************************************************)
(* Proofs about HostPipe, for every number of requests and messages: both  *)
(* ends implement the safety part of Calls, the host never throws, and     *)
(* every variable keeps its type.                                          *)
(***************************************************************************)
EXTENDS HostPipe, SequenceTheorems, FiniteSetTheorems, WellFoundedInduction, TLAPS

-----------------------------------------------------------------------------
(* The inductive invariant says of every message on its way what both ends *)
(* have done about it: a request was made by its caller, a response was    *)
(* given by the one who answers.                                           *)

AskedUi   == {i \in UiIds : calls[i].stage # "new"}
Sending   == {i \in UiIds : calls[i].stage = "sending"}
AskedHost == {i \in HostIds : asked[i] # "new"}

\* What the window hands to the backend: each request once
Invoked == [kind : {"request"}, id : Sending, odd : BOOLEAN]
             \union [kind : {"response"}, id : replied.ui, odd : BOOLEAN]

\* What the backend writes to stdin
Inbound == {NL} \union [kind : {"request"}, id : AskedUi, odd : {FALSE}]
                \union [kind : {"response"}, id : replied.ui, odd : {FALSE}]

\* What the host writes to stdout, and what else gets there
Outbound == [kind : {"request"}, id : AskedHost, n : Nat]
              \union [kind : {"response"}, id : replied.host, n : Nat]
              \union [kind : {"note"}, n : Nat]
Stdout == Outbound \union {NL, Text, Bytes}

InvokedOnce ==
  \A j, k \in 1..Len(invokes) :
    /\ invokes[j].kind = "request" /\ invokes[k].kind = "request"
    /\ invokes[j].id = invokes[k].id
    => j = k

UiOK ==
  /\ calls \in [UiIds -> [stage : Stages, stored : BOOLEAN]]
  /\ shown \subseteq AskedHost
  /\ invokes \in Seq(Invoked)
  /\ InvokedOnce

HostOK ==
  /\ asked \in [HostIds -> Stages]
  /\ handling \subseteq AskedUi
  /\ host # "thrown"
  /\ wrote \in Nat

StdinOK  == buffer \in Seq(Inbound) /\ stdin \in Seq(Inbound)
StdoutOK == stdout \in Seq(Stdout) /\ events \in Seq(Outbound)

RepliedOK == replied \in [ui : SUBSET AskedHost, host : SUBSET AskedUi]

IInv == UiOK /\ HostOK /\ StdinOK /\ StdoutOK /\ RepliedOK

-----------------------------------------------------------------------------
(* Sequences.                                                              *)

\* A set of places that is not empty has a last one.
LEMMA GreatestElement ==
  ASSUME NEW n \in Nat, NEW S \in SUBSET (1..n), S # {}
  PROVE  \E i \in S : \A j \in S : j <= i
  <1> DEFINE U == 1..n
             Above(i) == {k \in U : k >= i}
             T == {Above(i) : i \in S}
  <1>1. IsFiniteSet(U)
    BY FS_Interval
  <1>2. IsWellFoundedOn(StrictSubsetOrdering(U), SUBSET U)
    BY <1>1, FS_StrictSubsetOrderingWellFounded, FS_FiniteSubsetsOfFinite, Zenon
  <1>3. T \subseteq SUBSET U /\ T # {}
    <2>1. \A i \in S : Above(i) \in SUBSET U
      OBVIOUS
    <2>2. QED
      BY <2>1
  <1>4. \E x \in T : \A y \in T : <<y, x>> \notin StrictSubsetOrdering(U)
    <2> HIDE DEF T, U
    <2>1. QED
      BY <1>2, <1>3, WFMin
  <1>5. PICK i \in S : \A j \in S : <<Above(j), Above(i)>> \notin StrictSubsetOrdering(U)
    BY <1>4
  <1>6. ASSUME NEW j \in S, j > i PROVE FALSE
    <2>1. Above(j) \subseteq Above(i) /\ i \in Above(i) /\ i \notin Above(j)
      BY <1>6
    <2>2. Above(j) \in SUBSET U /\ Above(i) \in SUBSET U
      OBVIOUS
    <2> HIDE DEF Above, U
    <2>3. <<Above(j), Above(i)>> \in StrictSubsetOrdering(U)
      BY <2>1, <2>2 DEF StrictSubsetOrdering
    <2>4. QED
      BY <1>5, <2>3
  <1>7. QED
    BY <1>6

\* The last newline is in the text.
LEMMA FinishedInText ==
  ASSUME NEW S, NEW s \in Seq(S)
  PROVE  Finished(s) \in 0..Len(s)
  <1>1. Len(s) \in Nat /\ Ends(s) \in SUBSET (1..Len(s))
    BY DEF Ends
  <1>2. CASE Ends(s) = {}
    BY <1>1, <1>2 DEF Finished
  <1>3. CASE Ends(s) # {}
    <2>1. \E j \in Ends(s) : \A k \in Ends(s) : k <= j
      BY <1>1, <1>3, GreatestElement
    <2>2. Finished(s) \in Ends(s)
      BY <1>3, <2>1 DEF Finished
    <2>3. QED
      BY <1>1, <2>2
  <1>4. QED
    BY <1>2, <1>3

\* A part of a sequence has its elements.
LEMMA PartOfSequence ==
  ASSUME NEW S, NEW s \in Seq(S), NEW a \in Nat \ {0}, NEW b \in 0..Len(s)
  PROVE  SubSeq(s, a, b) \in Seq(S)
  <1>1. \A i \in a..b : s[i] \in S
    OBVIOUS
  <1>2. QED
    BY <1>1, SubSeqProperties

\* What is decoded is what was read, newlines left out.
LEMMA DecodedText ==
  ASSUME NEW S, NEW s \in Seq(S)
  PROVE  /\ Decode(s).rest \in Seq(S)
         /\ \A j \in Decode(s).messages : s[j] \in S \ {NL}
  <1>1. Finished(s) \in 0..Len(s) /\ Len(s) \in Nat
    BY FinishedInText
  <1>2. SubSeq(s, Finished(s) + 1, Len(s)) \in Seq(S)
    BY <1>1, PartOfSequence
  <1>3. /\ Len(SubSeq(s, 1, Finished(s))) = Finished(s)
        /\ \A j \in 1..Finished(s) : SubSeq(s, 1, Finished(s))[j] = s[j]
    <2>1. \A j \in 1..Finished(s) : s[j] \in S
      BY <1>1
    <2>2. QED
      BY <1>1, <2>1, SubSeqProperties
  <1>4. \A j \in Messages(SubSeq(s, 1, Finished(s))) : s[j] \in S \ {NL}
    BY <1>1, <1>3 DEF Messages
  <1>5. QED
    BY <1>2, <1>4 DEF Decode

\* A line and its newline put behind what was written
LEMMA WrittenLine ==
  ASSUME NEW S, NEW s \in Seq(S), NEW m \in S, NL \in S
  PROVE  s \o <<m, NL>> \in Seq(S)
  <1>1. <<m, NL>> \in Seq(S)
    OBVIOUS
  <1>2. QED
    BY <1>1, ConcatProperties

-----------------------------------------------------------------------------
(* What is true of a message stays true as more is asked and answered.     *)

\* What the window sends comes behind what is in the pipe.
LEMMA InboundGrows ==
  ASSUME AskedUi \subseteq AskedUi', replied.ui \subseteq replied'.ui
  PROVE  /\ Inbound \subseteq Inbound'
         /\ \A s : s \in Seq(Inbound) => s \in Seq(Inbound')
  <1>1. Inbound \subseteq Inbound'
    BY DEF Inbound
  <1>2. QED
    BY <1>1, SeqMonotonic

\* What the host sends comes behind what is in the pipe.
LEMMA OutboundGrows ==
  ASSUME AskedHost \subseteq AskedHost', replied.host \subseteq replied'.host
  PROVE  /\ Outbound \subseteq Outbound' /\ Stdout \subseteq Stdout'
         /\ \A s : s \in Seq(Outbound) => s \in Seq(Outbound')
         /\ \A s : s \in Seq(Stdout) => s \in Seq(Stdout')
  <1>1. Outbound \subseteq Outbound'
    BY DEF Outbound
  <1>2. Stdout \subseteq Stdout'
    BY <1>1 DEF Stdout
  <1>3. QED
    BY <1>1, <1>2, SeqMonotonic

\* A step that touches neither the calls nor what is replied
LEMMA SameMessages ==
  ASSUME UNCHANGED <<calls, asked, replied>>
  PROVE  /\ AskedUi' = AskedUi /\ Sending' = Sending /\ AskedHost' = AskedHost
         /\ Invoked' = Invoked /\ Inbound' = Inbound
         /\ Outbound' = Outbound /\ Stdout' = Stdout
  BY DEF AskedUi, Sending, AskedHost, Invoked, Inbound, Outbound, Stdout

\* Neither process has sent anything.
LEMMA InitInv == Init => IInv
  <1> SUFFICES ASSUME Init PROVE IInv
    OBVIOUS
  <1>1. <<>> \in Seq(Invoked) /\ <<>> \in Seq(Inbound) /\ <<>> \in Seq(Stdout)
        /\ <<>> \in Seq(Outbound)
    BY EmptySeq
  <1>2. QED
    BY <1>1 DEF Init, IInv, UiOK, HostOK, StdinOK, StdoutOK, RepliedOK, InvokedOnce, Stages

-----------------------------------------------------------------------------
(* The steps of the host.                                                  *)

\* Steps that only start, print or subscribe
LEMMA QuietInv ==
  ASSUME IInv,
         Spawn \/ HostNotifies \/ WindowListens \/ ReadLine
         \/ (\E s \in Printed : Prints(s)) \/ UNCHANGED vars
  PROVE  IInv'
  <1>1. UNCHANGED <<calls, asked, replied, shown, invokes, handling, buffer, stdin>>
    BY DEF Spawn, HostNotifies, WindowListens, ReadLine, Prints, vars, hostVars, uiVars,
           pipes, counts
  <1>2. /\ AskedUi' = AskedUi /\ Sending' = Sending /\ AskedHost' = AskedHost
        /\ Invoked' = Invoked /\ Inbound' = Inbound
        /\ Outbound' = Outbound /\ Stdout' = Stdout
    BY <1>1, SameMessages
  <1>3. UiOK' /\ StdinOK' /\ RepliedOK'
    BY <1>1, <1>2 DEF IInv, UiOK, StdinOK, RepliedOK, InvokedOnce
  <1>4. HostOK'
    BY <1>1, <1>2 DEF IInv, HostOK, Spawn, HostNotifies, Write, WindowListens, ReadLine,
                      Prints, vars, hostVars, uiVars, pipes, counts
  <1>5. StdoutOK'
    <2>1. stdout \in Seq(Stdout) /\ events \in Seq(Outbound) /\ wrote \in Nat
      BY DEF IInv, StdoutOK, HostOK
    <2>2. CASE HostNotifies
      <3>1. [kind |-> "note", n |-> wrote + 1] \in Stdout /\ NL \in Stdout
        BY <2>1 DEF Stdout, Outbound
      <3>2. stdout' \in Seq(Stdout)
        BY <2>1, <2>2, <3>1, WrittenLine DEF HostNotifies, Write
      <3>3. QED
        BY <1>2, <2>1, <2>2, <3>2 DEF StdoutOK, HostNotifies
    <2>3. CASE \E s \in Printed : Prints(s)
      <3>1. PICK s \in Printed : Prints(s)
        BY <2>3
      <3>2. s \in Seq(Stdout)
        <4>1. Text \in Stdout /\ Bytes \in Stdout /\ NL \in Stdout
          BY DEF Stdout
        <4>2. <<Text>> \in Seq(Stdout) /\ <<Bytes, NL>> \in Seq(Stdout)
          BY <4>1
        <4>3. QED
          BY <4>2 DEF Printed
      <3>3. stdout' \in Seq(Stdout)
        BY <2>1, <3>1, <3>2, ConcatProperties DEF Prints
      <3>4. QED
        BY <1>2, <2>1, <3>1, <3>3 DEF StdoutOK, Prints
    <2>4. CASE ReadLine
      <3>1. PICK j \in 1..Len(stdout) :
              /\ \A k \in 1..(j - 1) : stdout[k] # NL
              /\ events' = Emitted(SubSeq(stdout, 1, j - 1))
              /\ stdout' = SubSeq(stdout, j + 1, Len(stdout))
        BY <2>4 DEF ReadLine
      <3>2. Len(stdout) \in Nat /\ j \in Nat /\ j - 1 \in 0..Len(stdout)
        BY <2>1
      <3>3. stdout' \in Seq(Stdout)
        BY <2>1, <3>1, <3>2, PartOfSequence
      <3>4. PICK line \in Seq(Stdout \ {NL}) : events' = Emitted(line)
        <4>1. \A k \in 1..(j - 1) : stdout[k] \in Stdout \ {NL}
          BY <2>1, <3>1, <3>2
        <4>2. SubSeq(stdout, 1, j - 1) \in Seq(Stdout \ {NL})
          BY <3>2, <4>1, SubSeqProperties
        <4>3. QED
          BY <3>1, <4>2
      <3>5. IsMessage(line) => line[1] \in Outbound
        <4>1. line # <<>> => line[1] \in Stdout \ {NL}
          BY <3>4
        <4>2. Text.kind = "text" /\ Bytes.kind = "bytes"
          BY DEF Text, Bytes
        <4>3. QED
          BY <4>1, <4>2 DEF IsMessage, Stdout
      <3>6. events' \in Seq(Outbound)
        BY <2>1, <3>4, <3>5, AppendProperties DEF Emitted
      <3>7. QED
        BY <1>2, <3>3, <3>6 DEF StdoutOK
    <2>5. CASE Spawn \/ WindowListens \/ UNCHANGED vars
      BY <1>2, <2>1, <2>5
      DEF StdoutOK, Spawn, WindowListens, vars, hostVars, uiVars, pipes, counts
    <2>6. QED
      BY <2>2, <2>3, <2>4, <2>5
  <1>6. QED
    BY <1>3, <1>4, <1>5 DEF IInv

\* What a step of the host leaves to the window
LEMMA HostStepUi ==
  ASSUME IInv, UNCHANGED <<calls, shown, invokes>>, AskedHost \subseteq AskedHost',
         replied'.ui = replied.ui
  PROVE  UiOK' /\ AskedUi' = AskedUi
  <1>1. AskedUi' = AskedUi /\ Sending' = Sending
    BY DEF AskedUi, Sending
  <1>2. Invoked' = Invoked
    BY <1>1 DEF Invoked
  <1>3. QED
    BY <1>1, <1>2 DEF IInv, UiOK, InvokedOnce

\* The host exits, and its requests and what it had read go with it.
LEMMA HostExitsInv ==
  ASSUME IInv, HostExits
  PROVE  IInv'
  <1>1. asked' \in [HostIds -> Stages] /\ AskedHost' = AskedHost
    BY DEF HostExits, Exits, IInv, HostOK, AskedHost, Stages
  <1>2. UiOK' /\ AskedUi' = AskedUi
    BY <1>1, HostStepUi DEF HostExits, counts, uiVars
  <1>3. HostOK'
    BY <1>1 DEF HostExits, Exits, IInv, HostOK, counts
  <1>4. StdinOK'
    BY EmptySeq DEF HostExits, Exits, StdinOK
  <1>5. StdoutOK'
    <2>1. Outbound' = Outbound
      BY <1>1 DEF Outbound, HostExits, counts
    <2>2. Stdout' = Stdout
      BY <2>1 DEF Stdout
    <2>3. QED
      BY <2>1, <2>2 DEF HostExits, IInv, StdoutOK
  <1>6. RepliedOK'
    BY <1>1, <1>2 DEF HostExits, counts, IInv, RepliedOK
  <1>7. QED
    BY <1>2, <1>3, <1>4, <1>5, <1>6 DEF IInv

\* A request of the host times out in its store.
LEMMA HostTimeoutInv ==
  ASSUME IInv, NEW i \in HostIds, HostTimeout(i)
  PROVE  IInv'
  <1>1. asked' \in [HostIds -> Stages] /\ AskedHost' = AskedHost
    BY DEF HostTimeout, IInv, HostOK, AskedHost, Stages
  <1>2. UiOK' /\ AskedUi' = AskedUi
    BY <1>1, HostStepUi DEF HostTimeout, uiVars, pipes, counts
  <1>3. HostOK'
    BY <1>1, <1>2 DEF HostTimeout, IInv, HostOK, counts
  <1>4. StdinOK'
    <2>1. Inbound' = Inbound
      BY <1>2 DEF Inbound, HostTimeout, counts
    <2>2. QED
      BY <2>1 DEF HostTimeout, pipes, IInv, StdinOK
  <1>5. StdoutOK'
    <2>1. Outbound' = Outbound
      BY <1>1 DEF Outbound, HostTimeout, counts
    <2>2. Stdout' = Stdout
      BY <2>1 DEF Stdout
    <2>3. QED
      BY <2>1, <2>2 DEF HostTimeout, pipes, IInv, StdoutOK
  <1>6. RepliedOK'
    BY <1>1, <1>2 DEF HostTimeout, counts, IInv, RepliedOK
  <1>7. QED
    BY <1>2, <1>3, <1>4, <1>5, <1>6 DEF IInv

\* The host asks the window, and remembers the request.
LEMMA HostAsksInv ==
  ASSUME IInv, NEW i \in HostIds, HostAsks(i)
  PROVE  IInv'
  <1>1. asked' \in [HostIds -> Stages] /\ AskedHost \subseteq AskedHost' /\ i \in AskedHost'
    BY DEF HostAsks, IInv, HostOK, AskedHost, Stages
  <1>2. UiOK' /\ AskedUi' = AskedUi
    BY <1>1, HostStepUi DEF HostAsks, uiVars
  <1>3. HostOK'
    BY <1>1, <1>2 DEF HostAsks, Write, IInv, HostOK
  <1>4. StdinOK'
    <2>1. Inbound' = Inbound
      BY <1>2 DEF Inbound, HostAsks
    <2>2. QED
      BY <2>1 DEF HostAsks, IInv, StdinOK
  <1>5. StdoutOK'
    <2>1. \A s : s \in Seq(Outbound) => s \in Seq(Outbound')
      BY <1>1, OutboundGrows DEF HostAsks
    <2>2. stdout \in Seq(Stdout')
      BY <1>1, OutboundGrows DEF HostAsks, IInv, StdoutOK
    <2>3. [kind |-> "request", id |-> i, n |-> wrote + 1] \in Stdout' /\ NL \in Stdout'
      <3>1. wrote + 1 \in Nat
        BY DEF IInv, HostOK
      <3>2. [kind |-> "request", id |-> i, n |-> wrote + 1] \in Outbound'
        BY <1>1, <3>1 DEF Outbound
      <3>3. NL' = NL
        BY DEF NL
      <3>4. QED
        BY <3>2, <3>3 DEF Stdout
    <2>4. stdout' \in Seq(Stdout')
      <3>1. stdout' = stdout \o <<[kind |-> "request", id |-> i, n |-> wrote + 1], NL>>
        BY DEF HostAsks, Write
      <3>2. QED
        BY <2>2, <2>3, <3>1, WrittenLine
    <2>5. QED
      BY <2>1, <2>4 DEF StdoutOK, IInv, HostAsks
  <1>6. RepliedOK'
    BY <1>1, <1>2 DEF HostAsks, IInv, RepliedOK
  <1>7. QED
    BY <1>2, <1>3, <1>4, <1>5, <1>6 DEF IInv

\* The host answers a request of the window.
LEMMA HostRepliesInv ==
  ASSUME IInv, NEW i \in UiIds, HostReplies(i)
  PROVE  IInv'
  <1>1. AskedHost' = AskedHost
    BY DEF HostReplies, AskedHost
  <1>2. /\ replied' \in [ui : SUBSET AskedHost, host : SUBSET AskedUi]
        /\ replied'.ui = replied.ui /\ replied'.host = replied.host \union {i}
    BY DEF HostReplies, IInv, RepliedOK, HostOK
  <1>3. UiOK' /\ AskedUi' = AskedUi
    BY <1>1, <1>2, HostStepUi DEF HostReplies, uiVars
  <1>4. HostOK'
    BY <1>3 DEF HostReplies, Write, IInv, HostOK
  <1>5. StdinOK'
    <2>1. Inbound' = Inbound
      BY <1>2, <1>3 DEF Inbound
    <2>2. QED
      BY <2>1 DEF HostReplies, IInv, StdinOK
  <1>6. StdoutOK'
    <2>1. \A s : s \in Seq(Outbound) => s \in Seq(Outbound')
      BY <1>1, <1>2, OutboundGrows
    <2>2. stdout \in Seq(Stdout')
      BY <1>1, <1>2, OutboundGrows DEF IInv, StdoutOK
    <2>3. [kind |-> "response", id |-> i, n |-> wrote + 1] \in Stdout' /\ NL \in Stdout'
      <3>1. wrote + 1 \in Nat
        BY DEF IInv, HostOK
      <3>2. [kind |-> "response", id |-> i, n |-> wrote + 1] \in Outbound'
        BY <1>2, <3>1 DEF Outbound
      <3>3. NL' = NL
        BY DEF NL
      <3>4. QED
        BY <3>2, <3>3 DEF Stdout
    <2>4. stdout' \in Seq(Stdout')
      <3>1. stdout' = stdout \o <<[kind |-> "response", id |-> i, n |-> wrote + 1], NL>>
        BY DEF HostReplies, Write
      <3>2. QED
        BY <2>2, <2>3, <3>1, WrittenLine
    <2>5. QED
      BY <2>1, <2>4 DEF StdoutOK, IInv, HostReplies
  <1>7. RepliedOK'
    BY <1>1, <1>2, <1>3 DEF RepliedOK
  <1>8. QED
    BY <1>3, <1>4, <1>5, <1>6, <1>7 DEF IInv

\* What the host takes from a chunk was written to its stdin, so it is no
\* text that the decoder throws at.
LEMMA TakenFromChunk ==
  ASSUME IInv, NEW k \in 1..Len(stdin)
  PROVE  LET text    == buffer \o SubSeq(stdin, 1, k)
             decoded == Decode(text)
         IN /\ \A j \in decoded.messages : text[j] \in Inbound \ {NL}
            /\ decoded.rest \in Seq(Inbound)
  <1>1. buffer \in Seq(Inbound) /\ stdin \in Seq(Inbound)
    BY DEF IInv, StdinOK
  <1>2. SubSeq(stdin, 1, k) \in Seq(Inbound)
    BY <1>1, PartOfSequence
  <1>3. buffer \o SubSeq(stdin, 1, k) \in Seq(Inbound)
    BY <1>1, <1>2, ConcatProperties
  <1>4. QED
    BY <1>3, DecodedText

\* The host reads from its input, decodes a line and handles it.
LEMMA HostReadsInv ==
  ASSUME IInv, NEW k \in 1..Len(stdin), HostReads(k)
  PROVE  IInv'
  <1>1. PICK taken \in SUBSET (Inbound \ {NL}), rest \in Seq(Inbound) :
          IF \E m \in taken : m.odd
          THEN Exits("thrown")
          ELSE /\ buffer' = rest
               /\ stdin' = SubSeq(stdin, k + 1, Len(stdin))
               /\ handling' = handling \union {m.id : m \in {x \in taken : x.kind = "request"}}
               /\ asked' = Resolved({m.id : m \in {x \in taken : x.kind = "response"}})
               /\ UNCHANGED host
    <2> DEFINE text    == buffer \o SubSeq(stdin, 1, k)
               decoded == Decode(text)
    <2>1. {text[j] : j \in decoded.messages} \in SUBSET (Inbound \ {NL})
          /\ decoded.rest \in Seq(Inbound)
      BY TakenFromChunk
    <2>2. QED
      BY <2>1, Zenon DEF HostReads
  <1>2. UNCHANGED <<calls, shown, invokes, stdout, events, replied, wrote>>
    BY DEF HostReads, uiVars
  <1>3. \A m \in taken : ~m.odd
    BY DEF Inbound
  <1>4. \A m \in taken : m.kind = "request" => m.id \in AskedUi
    BY DEF Inbound
  <1>5. asked' \in [HostIds -> Stages] /\ AskedHost' = AskedHost
    BY <1>1, <1>3 DEF Resolved, IInv, HostOK, AskedHost, Stages
  <1>6. UiOK' /\ AskedUi' = AskedUi
    BY <1>2, <1>5, HostStepUi
  <1>7. HostOK'
    <2>1. {m.id : m \in {x \in taken : x.kind = "request"}} \subseteq AskedUi
      BY <1>4
    <2>2. handling' \subseteq AskedUi /\ host' = host
      <3>1. handling' = handling \union {m.id : m \in {x \in taken : x.kind = "request"}}
            /\ host' = host
        BY <1>1, <1>3, Zenon
      <3>2. QED
        BY <2>1, <3>1 DEF IInv, HostOK
    <2>3. QED
      BY <1>2, <1>5, <1>6, <2>2 DEF IInv, HostOK
  <1>8. StdinOK'
    <2>1. Inbound' = Inbound
      BY <1>2, <1>6 DEF Inbound
    <2>2. SubSeq(stdin, k + 1, Len(stdin)) \in Seq(Inbound)
      <3>1. stdin \in Seq(Inbound)
        BY DEF IInv, StdinOK
      <3>2. Len(stdin) \in 0..Len(stdin) /\ k + 1 \in Nat \ {0}
        BY <3>1
      <3>3. QED
        BY <3>1, <3>2, PartOfSequence
    <2>3. QED
      BY <1>1, <1>3, <2>1, <2>2 DEF StdinOK
  <1>9. StdoutOK'
    <2>1. Outbound' = Outbound
      BY <1>2, <1>5 DEF Outbound
    <2>2. Stdout' = Stdout
      BY <2>1 DEF Stdout
    <2>3. QED
      BY <1>2, <2>1, <2>2 DEF IInv, StdoutOK
  <1>10. RepliedOK'
    BY <1>2, <1>5, <1>6 DEF IInv, RepliedOK
  <1>11. QED
    BY <1>6, <1>7, <1>8, <1>9, <1>10 DEF IInv

-----------------------------------------------------------------------------
(* The steps of the backend and of the window.                             *)

\* What a step of the window leaves to the host
LEMMA UiStepHost ==
  ASSUME IInv, UNCHANGED <<host, asked, handling, wrote, stdout>>,
         AskedUi \subseteq AskedUi',
         replied'.ui \in SUBSET AskedHost, replied'.host = replied.host,
         replied' \in [ui : SUBSET HostIds, host : SUBSET UiIds],
         events' \in Seq(Outbound)
  PROVE  HostOK' /\ StdoutOK' /\ RepliedOK' /\ AskedHost' = AskedHost
  <1>1. AskedHost' = AskedHost
    BY DEF AskedHost
  <1>2. Outbound' = Outbound
    BY <1>1 DEF Outbound
  <1>3. Stdout' = Stdout
    BY <1>2 DEF Stdout
  <1>4. HostOK' /\ StdoutOK'
    BY <1>2, <1>3 DEF IInv, HostOK, StdoutOK
  <1>5. RepliedOK'
    <2>1. replied.host \in SUBSET AskedUi
      BY DEF IInv, RepliedOK
    <2>2. replied'.host \in SUBSET AskedUi'
      BY <2>1
    <2>3. QED
      BY <1>1, <2>2 DEF RepliedOK
  <1>6. QED
    BY <1>1, <1>4, <1>5

\* Answered requests keep their types.
LEMMA RepliedType ==
  ASSUME IInv
  PROVE  replied \in [ui : SUBSET HostIds, host : SUBSET UiIds]
         /\ replied.ui \in SUBSET AskedHost
  BY DEF IInv, RepliedOK, AskedHost, AskedUi

\* A message put behind what was handed over keeps each request single.
LEMMA InvokedMore ==
  ASSUME IInv, NEW m, invokes' = Append(invokes, m), m \in Invoked',
         Invoked \subseteq Invoked',
         m.kind = "request" => m.id \notin Sending
  PROVE  invokes' \in Seq(Invoked') /\ InvokedOnce'
  <1>1. invokes \in Seq(Invoked) /\ invokes \in Seq(Invoked')
    BY SeqMonotonic DEF IInv, UiOK
  <1>2. /\ invokes' \in Seq(Invoked')
        /\ Len(invokes') = Len(invokes) + 1
        /\ \A j \in 1..Len(invokes) : invokes'[j] = invokes[j]
        /\ invokes'[Len(invokes) + 1] = m
    BY <1>1, AppendProperties
  <1>3. \A j \in 1..Len(invokes) : invokes[j].kind = "request" => invokes[j].id \in Sending
    <2>1. \A x \in Invoked : x.kind = "request" => x.id \in Sending
      BY DEF Invoked
    <2>2. QED
      BY <1>1, <2>1
  <1>4. Len(invokes) \in Nat
    BY <1>1
  <1>5. \A j \in 1..Len(invokes') : j \in 1..Len(invokes) \/ j = Len(invokes) + 1
    BY <1>2, <1>4
  <1>6. ASSUME NEW j \in 1..Len(invokes'), NEW k \in 1..Len(invokes'),
               invokes'[j].kind = "request", invokes'[k].kind = "request",
               invokes'[j].id = invokes'[k].id
        PROVE  j = k
    <2>1. CASE j \in 1..Len(invokes) /\ k \in 1..Len(invokes)
      BY <1>2, <1>6, <2>1 DEF IInv, UiOK, InvokedOnce
    <2>2. CASE j \in 1..Len(invokes) /\ k = Len(invokes) + 1
      BY <1>2, <1>3, <1>6, <2>2
    <2>3. CASE j = Len(invokes) + 1 /\ k \in 1..Len(invokes)
      BY <1>2, <1>3, <1>6, <2>3
    <2>4. QED
      BY <1>5, <2>1, <2>2, <2>3
  <1>7. QED
    BY <1>2, <1>6 DEF InvokedOnce

\* The window asks the host, and remembers the request.
LEMMA UiAsksInv ==
  ASSUME IInv, NEW i \in UiIds, NEW odd \in BOOLEAN, UiAsks(i, odd)
  PROVE  IInv'
  <1>1. i \notin AskedUi
    <2>1. DOMAIN CallStage = UiIds /\ CallStage[i] = calls[i].stage
      BY DEF CallStage
    <2>2. i \notin Begun(CallStage)
      BY DEF UiAsks, NextId, UiIds
    <2>3. QED
      BY <2>1, <2>2 DEF Begun, AskedUi
  <1>2. /\ calls' \in [UiIds -> [stage : Stages, stored : BOOLEAN]]
        /\ AskedUi \subseteq AskedUi' /\ Sending' = Sending \union {i}
    BY <1>1 DEF UiAsks, IInv, UiOK, AskedUi, Sending, Stages
  <1>3. HostOK' /\ StdoutOK' /\ RepliedOK' /\ AskedHost' = AskedHost
    BY <1>2, UiStepHost, RepliedType DEF UiAsks, hostVars, counts, IInv, StdoutOK
  <1>4. StdinOK'
    BY <1>2, InboundGrows DEF UiAsks, hostVars, counts, IInv, StdinOK
  <1>5. UiOK'
    <2>1. Invoked \subseteq Invoked'
      BY <1>2 DEF Invoked, UiAsks, counts
    <2>2. [kind |-> "request", id |-> i, odd |-> odd] \in Invoked'
      BY <1>2 DEF Invoked
    <2>3. i \notin Sending
      BY <1>1 DEF AskedUi, Sending
    <2>4. invokes' \in Seq(Invoked') /\ InvokedOnce'
      BY <2>1, <2>2, <2>3, InvokedMore DEF UiAsks
    <2>5. QED
      BY <1>2, <1>3, <2>4 DEF UiOK, UiAsks, IInv
  <1>6. QED
    BY <1>3, <1>4, <1>5 DEF IInv

\* Ending a wait takes no call out of the stages the messages speak of.
LEMMA WaitEnds ==
  ASSUME IInv, NEW i \in UiIds, NEW end \in Stages \ {"new", "sending"},
         calls' = [calls EXCEPT ![i] =
                     [stage  |-> IF calls[i].stage = "waiting" THEN end ELSE calls[i].stage,
                      stored |-> FALSE]]
  PROVE  /\ calls' \in [UiIds -> [stage : Stages, stored : BOOLEAN]]
         /\ AskedUi' = AskedUi /\ Sending' = Sending
  BY DEF IInv, UiOK, AskedUi, Sending, Stages

\* A request of the window times out in its store.
LEMMA UiTimeoutInv ==
  ASSUME IInv, NEW i \in UiIds, UiTimeout(i)
  PROVE  IInv'
  <1>1. calls' = [calls EXCEPT ![i] =
                    [stage  |-> IF calls[i].stage = "waiting" THEN "failed" ELSE calls[i].stage,
                     stored |-> FALSE]]
    BY DEF UiTimeout, IInv, UiOK
  <1>2. /\ calls' \in [UiIds -> [stage : Stages, stored : BOOLEAN]]
        /\ AskedUi' = AskedUi /\ Sending' = Sending
    <2>1. "failed" \in Stages \ {"new", "sending"}
      BY DEF Stages
    <2>2. QED
      BY <1>1, <2>1, WaitEnds, Zenon
  <1>3. HostOK' /\ StdoutOK' /\ RepliedOK' /\ AskedHost' = AskedHost
    BY <1>2, UiStepHost, RepliedType DEF UiTimeout, hostVars, pipes, counts, IInv, StdoutOK
  <1>4. StdinOK'
    BY <1>2, InboundGrows DEF UiTimeout, hostVars, pipes, counts, IInv, StdinOK
  <1>5. Invoked' = Invoked
    BY <1>2 DEF Invoked, UiTimeout, counts
  <1>6. UiOK'
    BY <1>2, <1>3, <1>5 DEF UiTimeout, pipes, IInv, UiOK, InvokedOnce
  <1>7. QED
    BY <1>3, <1>4, <1>6 DEF IInv

\* The window takes a message of the host.
LEMMA UiReceivesInv ==
  ASSUME IInv, UiReceives
  PROVE  IInv'
  <1>1. /\ events \in Seq(Outbound) /\ events # <<>>
        /\ Head(events) \in Outbound /\ Tail(events) \in Seq(Outbound)
    BY HeadTailProperties DEF IInv, StdoutOK, UiReceives
  <1>2. PICK m \in Outbound :
          /\ calls' = IF m.kind = "response" /\ calls[m.id].stored
                      THEN [calls EXCEPT ![m.id] =
                              [stage  |-> IF calls[m.id].stage = "waiting" THEN "answered"
                                          ELSE calls[m.id].stage,
                               stored |-> FALSE]]
                      ELSE calls
          /\ shown' = IF m.kind = "request" THEN shown \union {m.id} ELSE shown
    <2> DEFINE m == Head(events)
    <2>1. m.kind = "response" => m.id \in UiIds
      BY <1>1 DEF Outbound, IInv, RepliedOK, AskedUi
    <2>2. QED
      BY <1>1, <2>1 DEF UiReceives, IInv, UiOK
  <1>3. m.kind = "response" => m.id \in UiIds
    BY DEF Outbound, IInv, RepliedOK, AskedUi
  <1>4. /\ calls' \in [UiIds -> [stage : Stages, stored : BOOLEAN]]
        /\ AskedUi' = AskedUi /\ Sending' = Sending
    <2>1. CASE m.kind = "response" /\ calls[m.id].stored
      <3>1. "answered" \in Stages \ {"new", "sending"}
        BY DEF Stages
      <3>2. calls' = [calls EXCEPT ![m.id] =
                        [stage  |-> IF calls[m.id].stage = "waiting" THEN "answered"
                                    ELSE calls[m.id].stage,
                         stored |-> FALSE]]
        BY <1>2, <2>1
      <3>3. QED
        BY <1>3, <2>1, <3>1, <3>2, WaitEnds, Zenon
    <2>2. CASE ~(m.kind = "response" /\ calls[m.id].stored)
      BY <1>2, <2>2 DEF IInv, UiOK, AskedUi, Sending
    <2>3. QED
      BY <2>1, <2>2
  <1>5. HostOK' /\ StdoutOK' /\ RepliedOK' /\ AskedHost' = AskedHost
    BY <1>1, <1>4, UiStepHost, RepliedType DEF UiReceives, hostVars
  <1>6. StdinOK'
    BY <1>4, InboundGrows DEF UiReceives, hostVars, IInv, StdinOK
  <1>7. Invoked' = Invoked
    BY <1>4 DEF Invoked, UiReceives
  <1>8. shown' \subseteq AskedHost
    <2>1. m.kind = "request" => m.id \in AskedHost
      BY DEF Outbound
    <2>2. QED
      BY <1>2, <2>1 DEF IInv, UiOK
  <1>9. UiOK'
    BY <1>4, <1>5, <1>7, <1>8 DEF UiReceives, IInv, UiOK, InvokedOnce
  <1>10. QED
    BY <1>5, <1>6, <1>9 DEF IInv

\* The user answers a request of the host.
LEMMA UserAnswersInv ==
  ASSUME IInv, NEW i \in HostIds, NEW odd \in BOOLEAN, UserAnswers(i, odd)
  PROVE  IInv'
  <1>1. AskedUi' = AskedUi /\ Sending' = Sending
    BY DEF UserAnswers, AskedUi, Sending
  <1>2. /\ replied' \in [ui : SUBSET HostIds, host : SUBSET UiIds]
        /\ replied'.ui = replied.ui \union {i} /\ replied'.host = replied.host
    BY RepliedType DEF UserAnswers
  <1>3. i \in AskedHost /\ replied'.ui \in SUBSET AskedHost
    BY <1>2, RepliedType DEF UserAnswers, IInv, UiOK
  <1>4. HostOK' /\ StdoutOK' /\ RepliedOK' /\ AskedHost' = AskedHost
    BY <1>1, <1>2, <1>3, UiStepHost DEF UserAnswers, hostVars, IInv, StdoutOK
  <1>5. StdinOK'
    BY <1>1, <1>2, InboundGrows DEF UserAnswers, hostVars, IInv, StdinOK
  <1>6. UiOK'
    <2>1. Invoked \subseteq Invoked'
      BY <1>1, <1>2 DEF Invoked
    <2>2. [kind |-> "response", id |-> i, odd |-> odd] \in Invoked'
      BY <1>2 DEF Invoked
    <2>3. invokes' \in Seq(Invoked') /\ InvokedOnce'
      BY <2>1, <2>2, InvokedMore DEF UserAnswers
    <2>4. QED
      BY <1>4, <2>3 DEF UiOK, UserAnswers, IInv
  <1>7. QED
    BY <1>4, <1>5, <1>6 DEF IInv

\* The user dismisses a request of the host.
LEMMA UserDismissesInv ==
  ASSUME IInv, NEW i \in HostIds, UserDismisses(i)
  PROVE  IInv'
  <1>1. UNCHANGED <<calls, asked, replied, invokes, host, handling, wrote, buffer, stdin,
                    stdout, events>>
    BY DEF UserDismisses, hostVars, pipes, counts
  <1>2. /\ AskedUi' = AskedUi /\ Sending' = Sending /\ AskedHost' = AskedHost
        /\ Invoked' = Invoked /\ Inbound' = Inbound
        /\ Outbound' = Outbound /\ Stdout' = Stdout
    BY <1>1, SameMessages
  <1>3. shown' \subseteq shown
    BY DEF UserDismisses
  <1>4. QED
    BY <1>1, <1>2, <1>3
    DEF IInv, UiOK, HostOK, StdinOK, StdoutOK, RepliedOK, InvokedOnce

\* The backend takes the oldest of what the window invoked.
LEMMA ForwardTakes ==
  ASSUME IInv, Forward
  PROVE  LET m == Head(invokes)
         IN /\ m \in Invoked /\ Accepted(m) => m \in Inbound
            /\ m.kind = "request" => m.id \in Sending
            /\ \A k \in 1..Len(Tail(invokes)) :
                 /\ Tail(invokes)[k] \in Invoked
                 /\ m.kind = "request" /\ Tail(invokes)[k].kind = "request"
                      => Tail(invokes)[k].id # m.id
  <1>1. invokes \in Seq(Invoked) /\ invokes # <<>>
    BY DEF Forward, IInv, UiOK
  <1>2. /\ Head(invokes) \in Invoked /\ Head(invokes) = invokes[1]
        /\ Tail(invokes) \in Seq(Invoked)
        /\ Len(Tail(invokes)) = Len(invokes) - 1
        /\ \A k \in 1..Len(Tail(invokes)) : Tail(invokes)[k] = invokes[k + 1]
    BY <1>1, HeadTailProperties
  <1>3. \A m \in Invoked : /\ Accepted(m) => m \in Inbound
                           /\ m.kind = "request" => m.id \in Sending
    BY DEF Invoked, Inbound, Accepted, Sending, AskedUi
  <1>4. ASSUME NEW k \in 1..Len(Tail(invokes)),
               Head(invokes).kind = "request", Tail(invokes)[k].kind = "request",
               Tail(invokes)[k].id = Head(invokes).id
        PROVE  FALSE
    <2>1. Len(invokes) \in Nat \ {0} /\ 1 \in 1..Len(invokes) /\ k + 1 \in 1..Len(invokes)
          /\ k + 1 # 1
      BY <1>1, <1>2
    <2>2. InvokedOnce
      BY DEF IInv, UiOK
    <2>3. QED
      BY <1>2, <1>4, <2>1, <2>2 DEF InvokedOnce
  <1>5. \A k \in 1..Len(Tail(invokes)) : Tail(invokes)[k] \in Invoked
    BY <1>2
  <1>6. QED
    BY <1>2, <1>3, <1>4, <1>5

\* The shell passes what the host printed on to the window.
LEMMA ForwardInv ==
  ASSUME IInv, Forward
  PROVE  IInv'
  <1>1. PICK m \in Invoked, rest \in Seq(Invoked), end \in {"waiting", "failed"} :
          /\ invokes' = rest
          /\ IF Accepted(m) THEN stdin' = stdin \o <<m, NL>> ELSE stdin' = stdin
          /\ calls' = IF m.kind = "request" THEN [calls EXCEPT ![m.id].stage = end] ELSE calls
          /\ Accepted(m) => m \in Inbound
          /\ m.kind = "request" => m.id \in Sending
          /\ \A k \in 1..Len(rest) :
               m.kind = "request" /\ rest[k].kind = "request" => rest[k].id # m.id
          /\ \A j, k \in 1..Len(rest) :
               rest[j].kind = "request" /\ rest[k].kind = "request" /\ rest[j].id = rest[k].id
               => j = k
    <2> DEFINE m == Head(invokes)
    <2>1. invokes \in Seq(Invoked) /\ invokes # <<>> /\ InvokedOnce
      BY DEF Forward, IInv, UiOK
    <2>2. /\ m \in Invoked /\ Tail(invokes) \in Seq(Invoked)
          /\ Len(Tail(invokes)) = Len(invokes) - 1
          /\ \A k \in 1..Len(Tail(invokes)) : Tail(invokes)[k] = invokes[k + 1]
      BY <2>1, HeadTailProperties
    <2>3. \A j, k \in 1..Len(Tail(invokes)) :
            /\ Tail(invokes)[j].kind = "request" /\ Tail(invokes)[k].kind = "request"
            /\ Tail(invokes)[j].id = Tail(invokes)[k].id
            => j = k
      <3>1. ASSUME NEW j \in 1..Len(Tail(invokes)), NEW k \in 1..Len(Tail(invokes)),
                   Tail(invokes)[j].kind = "request", Tail(invokes)[k].kind = "request",
                   Tail(invokes)[j].id = Tail(invokes)[k].id
            PROVE  j = k
        <4>1. Len(invokes) \in Nat /\ j + 1 \in 1..Len(invokes) /\ k + 1 \in 1..Len(invokes)
          BY <2>1, <2>2
        <4>2. j + 1 = k + 1
          BY <2>1, <2>2, <3>1, <4>1 DEF InvokedOnce
        <4>3. QED
          BY <4>2
      <3>2. QED
        BY <3>1
    <2>4. Sent(m) \in {"waiting", "failed"}
      BY DEF Sent
    <2>5. /\ invokes' = Tail(invokes)
          /\ IF Accepted(m) THEN stdin' = stdin \o <<m, NL>> ELSE stdin' = stdin
          /\ calls' = IF m.kind = "request" THEN [calls EXCEPT ![m.id].stage = Sent(m)]
                      ELSE calls
      BY DEF Forward
    <2>6. /\ Accepted(m) => m \in Inbound
          /\ m.kind = "request" => m.id \in Sending
          /\ \A k \in 1..Len(Tail(invokes)) :
               m.kind = "request" /\ Tail(invokes)[k].kind = "request"
               => Tail(invokes)[k].id # m.id
      BY <2>2, ForwardTakes
    <2> HIDE DEF m
    <2>7. QED
      BY <2>2, <2>3, <2>4, <2>5, <2>6
  <1>2. UNCHANGED <<host, buffer, handling, asked, listening, shown, stdout, events,
                    replied, wrote>>
    BY DEF Forward, hostVars
  <1>3. /\ calls' \in [UiIds -> [stage : Stages, stored : BOOLEAN]]
        /\ AskedUi' = AskedUi
        /\ Sending' = IF m.kind = "request" THEN Sending \ {m.id} ELSE Sending
    BY <1>1 DEF IInv, UiOK, AskedUi, Sending, Stages
  <1>4. HostOK' /\ StdoutOK' /\ RepliedOK' /\ AskedHost' = AskedHost
    BY <1>2, <1>3, UiStepHost, RepliedType DEF IInv, StdoutOK
  <1>5. StdinOK'
    <2>1. Inbound' = Inbound
      BY <1>2, <1>3 DEF Inbound
    <2>2. stdin \in Seq(Inbound) /\ buffer \in Seq(Inbound) /\ NL \in Inbound
      BY DEF IInv, StdinOK, Inbound
    <2>3. stdin' \in Seq(Inbound)
      BY <1>1, <2>2, WrittenLine
    <2>4. QED
      BY <1>2, <2>1, <2>2, <2>3 DEF StdinOK
  <1>6. rest \in Seq(Invoked')
    <2>1. \A k \in 1..Len(rest) : rest[k] \in Invoked'
      <3>1. \A x \in Invoked : (m.kind = "request" /\ x.kind = "request" => x.id # m.id)
                                 => x \in Invoked'
        BY <1>2, <1>3 DEF Invoked
      <3>2. QED
        BY <1>1, <3>1
    <2>2. QED
      BY <2>1
  <1>7. UiOK'
    BY <1>1, <1>2, <1>3, <1>4, <1>6 DEF IInv, UiOK, InvokedOnce
  <1>8. QED
    BY <1>4, <1>5, <1>7 DEF IInv

-----------------------------------------------------------------------------
\* Every step keeps the pipes and the stores of requests right.
LEMMA StepInv == IInv /\ [Next]_vars => IInv'
  <1> SUFFICES ASSUME IInv, [Next]_vars PROVE IInv'
    OBVIOUS
  <1>1. CASE Spawn \/ HostNotifies \/ WindowListens \/ ReadLine
             \/ (\E s \in Printed : Prints(s)) \/ UNCHANGED vars
    BY <1>1, QuietInv
  <1>2. CASE HostExits
    BY <1>2, HostExitsInv
  <1>3. CASE \E i \in HostIds : HostAsks(i) \/ HostTimeout(i)
    BY <1>3, HostAsksInv, HostTimeoutInv
  <1>4. CASE \E i \in UiIds : HostReplies(i)
    BY <1>4, HostRepliesInv
  <1>5. CASE \E k \in 1..Len(stdin) : HostReads(k)
    BY <1>5, HostReadsInv
  <1>6. CASE Forward
    BY <1>6, ForwardInv
  <1>7. CASE \E i \in UiIds, odd \in BOOLEAN : UiAsks(i, odd)
    BY <1>7, UiAsksInv
  <1>8. CASE \E i \in UiIds : UiTimeout(i)
    BY <1>8, UiTimeoutInv
  <1>9. CASE UiReceives
    BY <1>9, UiReceivesInv
  <1>10. CASE \E i \in HostIds, odd \in BOOLEAN : UserAnswers(i, odd)
    BY <1>10, UserAnswersInv
  <1>11. CASE \E i \in HostIds : UserDismisses(i)
    BY <1>11, UserDismissesInv
  <1>12. QED
    BY <1>1, <1>2, <1>3, <1>4, <1>5, <1>6, <1>7, <1>8, <1>9, <1>10, <1>11 DEF Next

\* The pipes and the stores of requests are always right.
LEMMA AlwaysInv == Spec => []IInv
  BY InitInv, StepInv, PTL DEF Spec

\* However the pipes cut and mix what is written, no line makes the decoder
\* of the host throw: whatever is in stdin was parsed by the backend before
\* (main.rs:47).
THEOREM HostKeepsReading == Spec => []HostNeverThrows
  <1>1. IInv => HostNeverThrows
    BY DEF IInv, HostOK, HostNeverThrows
  <1>2. QED
    BY <1>1, AlwaysInv, PTL

-----------------------------------------------------------------------------
(* Type correctness.  IInv types what is on its way; the rest is the state *)
(* of each process and the counters.                                       *)

ProcessesOK ==
  /\ host \in {"down", "up", "exited", "thrown"}
  /\ asked \in [HostIds -> Stages \ {"sending"}]
  /\ reader \in BOOLEAN /\ listening \in BOOLEAN

CountsOK == {got, sent, handled, printed} \subseteq Nat

\* The messages of a chunk can be counted.
LEMMA DecodedCount ==
  ASSUME NEW S, NEW s \in Seq(S)
  PROVE  Cardinality(Decode(s).messages) \in Nat
  <1>1. Finished(s) \in 0..Len(s) /\ Len(s) \in Nat
    BY FinishedInText
  <1>2. Len(SubSeq(s, 1, Finished(s))) = Finished(s)
    <2>1. \A j \in 1..Finished(s) : s[j] \in S
      BY <1>1
    <2>2. QED
      BY <1>1, <2>1, SubSeqProperties
  <1>3. Decode(s).messages \subseteq 1..Finished(s)
    BY <1>2 DEF Decode, Messages
  <1>4. IsFiniteSet(1..Finished(s))
    BY <1>1, FS_Interval
  <1>5. IsFiniteSet(Decode(s).messages)
    BY <1>3, <1>4, FS_Subset
  <1>6. QED
    BY <1>5, FS_CardinalityType

\* Every step leaves both processes in a state they can be in.
LEMMA ProcessesStep == ProcessesOK /\ [Next]_vars => ProcessesOK'
  <1> SUFFICES ASSUME ProcessesOK, [Next]_vars PROVE ProcessesOK'
    OBVIOUS
  <1> USE DEF ProcessesOK
  <1>1. CASE Spawn \/ HostNotifies \/ Forward \/ WindowListens \/ UiReceives \/ UNCHANGED vars
    BY <1>1 DEF Spawn, HostNotifies, Write, Forward, WindowListens, UiReceives,
                vars, hostVars, uiVars, pipes
  <1>2. CASE HostExits
    BY <1>2 DEF HostExits, Exits, uiVars, Stages
  <1>3. CASE \E i \in HostIds : HostAsks(i) \/ HostTimeout(i)
    BY <1>3 DEF HostAsks, HostTimeout, Write, uiVars, pipes, Stages
  <1>4. CASE \E i \in UiIds : HostReplies(i)
    BY <1>4 DEF HostReplies, Write, uiVars
  <1>5. CASE \E s \in Printed : Prints(s)
    BY <1>5 DEF Prints, hostVars, uiVars
  <1>6. CASE \E k \in 1..Len(stdin) : HostReads(k)
    <2>1. PICK ids : \/ host' = "thrown" /\ asked' = [i \in HostIds |-> IF asked[i] = "waiting"
                                                            THEN "failed" ELSE asked[i]]
                     \/ host' = host /\ asked' = Resolved(ids)
      BY <1>6, Zenon DEF HostReads, Exits
    <2>2. UNCHANGED <<reader, listening>>
      BY <1>6 DEF HostReads, uiVars
    <2>3. QED
      BY <2>1, <2>2 DEF Resolved, Stages
  <1>7. CASE ReadLine
    BY <1>7 DEF ReadLine, hostVars, uiVars
  <1>8. CASE \E i \in UiIds, odd \in BOOLEAN : UiAsks(i, odd)
    BY <1>8 DEF UiAsks, hostVars
  <1>9. CASE \E i \in UiIds : UiTimeout(i)
    BY <1>9 DEF UiTimeout, hostVars, pipes
  <1>10. CASE \E i \in HostIds, odd \in BOOLEAN : UserAnswers(i, odd)
    BY <1>10 DEF UserAnswers, hostVars
  <1>11. CASE \E i \in HostIds : UserDismisses(i)
    BY <1>11 DEF UserDismisses, hostVars, pipes
  <1>12. QED
    BY <1>1, <1>2, <1>3, <1>4, <1>5, <1>6, <1>7, <1>8, <1>9, <1>10, <1>11 DEF Next

\* Every step leaves the counters what they count.
LEMMA CountsStep == IInv /\ CountsOK /\ [Next]_vars => CountsOK'
  <1> SUFFICES ASSUME IInv, CountsOK, [Next]_vars PROVE CountsOK'
    OBVIOUS
  <1> USE DEF CountsOK
  <1>1. CASE Spawn \/ HostExits \/ HostNotifies \/ ReadLine \/ WindowListens \/ UNCHANGED vars
    BY <1>1 DEF Spawn, HostExits, HostNotifies, ReadLine, WindowListens, vars, counts
  <1>2. CASE \E i \in HostIds : HostAsks(i) \/ HostTimeout(i) \/ UserDismisses(i)
    BY <1>2 DEF HostAsks, HostTimeout, UserDismisses, counts
  <1>3. CASE \E i \in UiIds : HostReplies(i) \/ UiTimeout(i)
    BY <1>3 DEF HostReplies, UiTimeout, counts
  <1>4. CASE \E s \in Printed : Prints(s)
    BY <1>4 DEF Prints
  <1>5. CASE \E k \in 1..Len(stdin) : HostReads(k)
    <2>1. PICK k \in 1..Len(stdin) : HostReads(k)
      BY <1>5
    <2> DEFINE text == buffer \o SubSeq(stdin, 1, k)
    <2>2. text \in Seq(Inbound)
      <3>1. buffer \in Seq(Inbound) /\ stdin \in Seq(Inbound)
        BY DEF IInv, StdinOK
      <3>2. SubSeq(stdin, 1, k) \in Seq(Inbound)
        BY <3>1, PartOfSequence
      <3>3. QED
        BY <3>1, <3>2, ConcatProperties
    <2>3. handled' = handled \/ handled' = handled + Cardinality(Decode(text).messages)
      BY <2>1, Zenon DEF HostReads
    <2>4. UNCHANGED <<got, sent, printed>>
      BY <2>1 DEF HostReads
    <2> HIDE DEF text
    <2>5. Cardinality(Decode(text).messages) \in Nat
      BY <2>2, DecodedCount
    <2>6. QED
      BY <2>3, <2>4, <2>5
  <1>6. CASE Forward
    BY <1>6 DEF Forward
  <1>7. CASE \E i \in UiIds, odd \in BOOLEAN : UiAsks(i, odd)
    BY <1>7 DEF UiAsks, counts
  <1>8. CASE UiReceives
    <2>1. events \in Seq(Outbound) /\ events # <<>>
      BY <1>8 DEF IInv, StdoutOK, UiReceives
    <2>2. Head(events) \in Outbound
      BY <2>1, HeadTailProperties
    <2>3. \A m \in Outbound : m.n \in Nat
      BY DEF Outbound
    <2>4. QED
      BY <1>8, <2>2, <2>3 DEF UiReceives
  <1>9. CASE \E i \in HostIds, odd \in BOOLEAN : UserAnswers(i, odd)
    BY <1>9 DEF UserAnswers
  <1>10. QED
    BY <1>1, <1>2, <1>3, <1>4, <1>5, <1>6, <1>7, <1>8, <1>9 DEF Next

\* The parts of the types that are proved apart are all of them.
LEMMA TypesFollow == IInv /\ ProcessesOK /\ CountsOK => TypeOK
  <1> SUFFICES ASSUME IInv, ProcessesOK, CountsOK PROVE TypeOK
    OBVIOUS
  <1>1. replied \in [ui : SUBSET HostIds, host : SUBSET UiIds]
    BY RepliedType
  <1>2. /\ Inbound \subseteq ToHost \union {NL}
        /\ Invoked \subseteq ToHost
    BY <1>1 DEF Inbound, Invoked, ToHost, AskedUi, Sending
  <1>3. /\ Outbound \subseteq ToUi
        /\ Stdout \subseteq ToUi \union {NL, Text, Bytes}
    BY <1>1 DEF Outbound, Stdout, ToUi, AskedHost
  <1>4. buffer \in Seq(ToHost \union {NL}) /\ stdin \in Seq(ToHost \union {NL})
    BY <1>2, SeqMonotonic DEF IInv, StdinOK
  <1>5. invokes \in Seq(ToHost)
    BY <1>2, SeqMonotonic DEF IInv, UiOK
  <1>6. stdout \in Seq(ToUi \union {NL, Text, Bytes}) /\ events \in Seq(ToUi)
    BY <1>3, SeqMonotonic DEF IInv, StdoutOK
  <1>7. handling \subseteq UiIds /\ shown \subseteq HostIds
    BY DEF IInv, HostOK, UiOK, AskedUi, AskedHost
  <1>8. QED
    BY <1>1, <1>4, <1>5, <1>6, <1>7
    DEF TypeOK, IInv, UiOK, HostOK, ProcessesOK, CountsOK

\* Both processes, their requests and whatever is on its way between them keep
\* their types, for every number of requests, messages and prints.
THEOREM TypeCorrect == Spec => []TypeOK
  <1>1. Init => ProcessesOK /\ CountsOK
    <2> SUFFICES ASSUME Init PROVE ProcessesOK /\ CountsOK
      OBVIOUS
    <2>1. "new" \in Stages \ {"sending"}
      BY DEF Stages
    <2>2. ProcessesOK
      BY <2>1 DEF Init, ProcessesOK
    <2>3. CountsOK
      BY DEF Init, CountsOK
    <2>4. QED
      BY <2>2, <2>3
  <1>2. Spec => []ProcessesOK
    BY <1>1, ProcessesStep, PTL DEF Spec
  <1>3. Spec => []CountsOK
    BY <1>1, AlwaysInv, CountsStep, PTL DEF Spec
  <1>4. QED
    BY <1>2, <1>3, AlwaysInv, TypesFollow, PTL

-----------------------------------------------------------------------------
(* Every message that was written to stdin is decoded or still to be       *)
(* decoded.  Wherever a text is cut, the messages of its parts are those   *)
(* of the whole.                                                           *)

\* The messages of a text can be counted.
LEMMA MessagesFinite ==
  ASSUME NEW S, NEW s \in Seq(S)
  PROVE  IsFiniteSet(Messages(s)) /\ Cardinality(Messages(s)) \in Nat
  <1>1. Messages(s) \subseteq 1..Len(s) /\ IsFiniteSet(1..Len(s))
    BY FS_Interval DEF Messages
  <1>2. QED
    BY <1>1, FS_Subset, FS_CardinalityType

\* Cut a text in two (JsonLineDecoder.push): no message is lost or counted twice.
LEMMA MessagesOfParts ==
  ASSUME NEW S, NEW s \in Seq(S), NEW n \in 0..Len(s)
  PROVE  Cardinality(Messages(s)) =
           Cardinality(Messages(SubSeq(s, 1, n))) + Cardinality(Messages(SubSeq(s, n + 1, Len(s))))
  <1> DEFINE l == SubSeq(s, 1, n)
             r == SubSeq(s, n + 1, Len(s))
             R == {j \in 1..Len(s) : j > n /\ s[j] # NL}
             F == [j \in Messages(r) |-> j + n]
  <1>1. Len(s) \in Nat /\ n \in Nat /\ Len(s) \in 0..Len(s) /\ n + 1 \in Nat \ {0}
    OBVIOUS
  <1>2. l \in Seq(S) /\ Len(l) = n /\ \A j \in 1..n : l[j] = s[j]
    <2>1. \A j \in 1..n : s[j] \in S
      OBVIOUS
    <2>2. QED
      BY <1>1, <2>1, SubSeqProperties
  <1>3. r \in Seq(S) /\ Len(r) = Len(s) - n /\ \A j \in 1..Len(s) - n : r[j] = s[j + n]
    <2>1. \A j \in (n + 1)..Len(s) : s[j] \in S
      OBVIOUS
    <2>2. /\ r \in Seq(S) /\ Len(r) = IF n + 1 <= Len(s) THEN Len(s) - (n + 1) + 1 ELSE 0
          /\ \A j \in 1..(Len(s) - (n + 1) + 1) : r[j] = s[(n + 1) + j - 1]
      BY <1>1, <2>1, SubSeqProperties
    <2>3. QED
      BY <1>1, <2>2
  <1> HIDE DEF l, r
  <1>4. Messages(l) = {j \in 1..Len(s) : j <= n /\ s[j] # NL}
    BY <1>1, <1>2 DEF Messages
  <1>5. Messages(s) = Messages(l) \union R /\ Messages(l) \intersect R = {}
    BY <1>1, <1>4 DEF Messages
  <1>6. F \in Bijection(Messages(r), R)
    <2>1. \A j \in Messages(r) : j \in Nat /\ j + n \in R
      BY <1>1, <1>3 DEF Messages
    <2>2. F \in [Messages(r) -> R]
      BY <2>1
    <2>3. \A a, b \in Messages(r) : F[a] = F[b] => a = b
      BY <2>1, <1>1
    <2>4. \A j \in R : \E a \in Messages(r) : F[a] = j
      <3>1. ASSUME NEW j \in R PROVE \E a \in Messages(r) : F[a] = j
        <4>1. j - n \in Messages(r) /\ (j - n) + n = j
          BY <1>1, <1>3 DEF Messages
        <4>2. QED
          BY <4>1
      <3>2. QED
        BY <3>1
    <2> HIDE DEF F, R
    <2>5. QED
      BY <2>2, <2>3, <2>4 DEF Bijection, Injection, IsInjective, Surjection
  <1>7. IsFiniteSet(Messages(l)) /\ IsFiniteSet(Messages(r))
    BY <1>2, <1>3, MessagesFinite
  <1> HIDE DEF F, R
  <1>8. IsFiniteSet(R) /\ Cardinality(R) = Cardinality(Messages(r))
    BY <1>6, <1>7, FS_Bijection DEF ExistsBijection
  <1>9. Cardinality(Messages(s)) = Cardinality(Messages(l)) + Cardinality(R)
    <2>1. /\ Cardinality(Messages(s)) =
               Cardinality(Messages(l)) + Cardinality(R) - Cardinality(Messages(l) \intersect R)
          /\ Cardinality(Messages(l) \intersect R) = 0
      BY <1>5, <1>7, <1>8, FS_Union, FS_EmptySet, Zenon
    <2>2. Cardinality(Messages(l)) \in Nat /\ Cardinality(R) \in Nat
      BY <1>7, <1>8, FS_CardinalityType
    <2>3. QED
      BY <2>1, <2>2
  <1>10. QED
    BY <1>8, <1>9 DEF l, r

\* A line that is written is one message more.
LEMMA MessagesOfLine ==
  ASSUME NEW S, NEW s \in Seq(S), NEW m \in S, NL \in S, m # NL
  PROVE  Cardinality(Messages(s \o <<m, NL>>)) = Cardinality(Messages(s)) + 1
  <1> DEFINE w == s \o <<m, NL>>
  <1>1. /\ w \in Seq(S) /\ Len(w) = Len(s) + 2 /\ Len(s) \in Nat
        /\ \A i \in 1..Len(s) + 2 : w[i] = IF i <= Len(s) THEN s[i] ELSE <<m, NL>>[i - Len(s)]
    <2>1. <<m, NL>> \in Seq(S) /\ Len(<<m, NL>>) = 2
      OBVIOUS
    <2>2. QED
      BY <2>1, ConcatProperties
  <1> HIDE DEF w
  <1>2. Messages(w) = Messages(s) \union {Len(s) + 1}
    <2>1. w[Len(s) + 1] = m
      BY <1>1
    <2>2. w[Len(s) + 2] = NL
      BY <1>1
    <2>3. \A j \in 1..Len(s) : w[j] = s[j]
      BY <1>1
    <2>4. QED
      BY <1>1, <2>1, <2>2, <2>3 DEF Messages
  <1>3. Len(s) + 1 \notin Messages(s) /\ IsFiniteSet(Messages(s))
    BY <1>1, MessagesFinite DEF Messages
  <1>4. QED
    BY <1>2, <1>3, FS_AddElement DEF w

\* A part of a text, place by place.
LEMMA PartOfText ==
  ASSUME NEW S, NEW s \in Seq(S), NEW a \in 0..Len(s), NEW c \in a..Len(s)
  PROVE  /\ SubSeq(s, a + 1, c) \in Seq(S) /\ Len(SubSeq(s, a + 1, c)) = c - a
         /\ \A j \in 1..c - a : SubSeq(s, a + 1, c)[j] = s[j + a]
  <1>1. a \in Nat /\ c \in Nat /\ a <= c /\ \A j \in (a + 1)..c : s[j] \in S
    OBVIOUS
  <1>2. /\ SubSeq(s, a + 1, c) \in Seq(S)
        /\ Len(SubSeq(s, a + 1, c)) = IF a + 1 <= c THEN c - (a + 1) + 1 ELSE 0
        /\ \A j \in 1..(c - (a + 1) + 1) : SubSeq(s, a + 1, c)[j] = s[(a + 1) + j - 1]
    BY <1>1, SubSeqProperties
  <1>3. Len(SubSeq(s, a + 1, c)) = c - a
    BY <1>1, <1>2
  <1>4. ASSUME NEW j \in 1..c - a PROVE SubSeq(s, a + 1, c)[j] = s[j + a]
    <2>1. j \in 1..(c - (a + 1) + 1) /\ (a + 1) + j - 1 = j + a
      BY <1>1
    <2>2. QED
      BY <1>2, <2>1
  <1>5. QED
    BY <1>2, <1>3, <1>4

After(s, n) == SubSeq(s, n + 1, Len(s))
Joined(s, t) == s \o t

\* The beginning of a text and what of it comes in a chunk: cutting n places
\* off that is cutting them off the whole text.
LEMMA ChunkOfText ==
  ASSUME NEW S, NEW b \in Seq(S), NEW s \in Seq(S), NEW k \in 1..Len(s),
         NEW text \in Seq(S), text = Joined(b, SubSeq(s, 1, k)), NEW n \in 0..Len(text)
  PROVE  /\ n \in 0..Len(Joined(b, s)) /\ Joined(b, s) \in Seq(S)
         /\ SubSeq(text, 1, n) = SubSeq(Joined(b, s), 1, n)
         /\ After(Joined(b, s), n) = Joined(After(text, n), After(s, k))
  <1>w. PICK whole : whole = b \o s
    OBVIOUS
  <1>1. /\ whole \in Seq(S) /\ whole = b \o s /\ Len(whole) = Len(b) + Len(s)
        /\ \A i \in 1..Len(b) + Len(s) : whole[i] = IF i <= Len(b) THEN b[i] ELSE s[i - Len(b)]
    BY <1>w, ConcatProperties
  <1>2. k \in Nat /\ Len(b) \in Nat /\ Len(s) \in Nat /\ k <= Len(s) /\ 0 \in 0..Len(s)
        /\ k \in 0..Len(s) /\ Len(s) \in k..Len(s) /\ k \in 0..Len(s)
    OBVIOUS
  <1>c. PICK chunk : chunk = SubSeq(s, 1, k)
    OBVIOUS
  <1>3. chunk \in Seq(S) /\ Len(chunk) = k /\ \A j \in 1..k : chunk[j] = s[j]
    <2>1. \A j \in 1..k : s[j] \in S
      OBVIOUS
    <2>2. QED
      BY <1>2, <1>c, <2>1, SubSeqProperties
  <1>l. PICK later : later = SubSeq(s, k + 1, Len(s))
    OBVIOUS
  <1>4. /\ later \in Seq(S) /\ Len(later) = Len(s) - k
        /\ \A j \in 1..Len(s) - k : later[j] = s[j + k]
    BY <1>2, <1>l, PartOfText
  <1>5. /\ text \in Seq(S) /\ Len(text) = Len(b) + k
        /\ \A i \in 1..Len(b) + k : text[i] = IF i <= Len(b) THEN b[i] ELSE chunk[i - Len(b)]
    BY <1>3, <1>c, ConcatProperties DEF Joined
  <1>6. \A i \in 1..Len(text) : text[i] = whole[i]
    <2>1. ASSUME NEW i \in 1..Len(text) PROVE text[i] = whole[i]
      BY <1>1, <1>2, <1>3, <1>5, SMTT(30)
    <2>2. QED
      BY <2>1
  <1>7. /\ n \in Nat /\ n <= Len(text) /\ n \in 0..Len(whole) /\ Len(text) \in n..Len(text)
        /\ Len(whole) \in n..Len(whole) /\ Len(text) \in Nat /\ Len(text) <= Len(whole)
    BY <1>1, <1>2, <1>5
  <1>8. SubSeq(text, 1, n) = SubSeq(whole, 1, n)
    <2>1. (\A j \in 1..n : text[j] \in S) /\ (\A j \in 1..n : whole[j] \in S)
      BY <1>1, <1>5, <1>7
    <2>2. /\ SubSeq(text, 1, n) \in Seq(S) /\ SubSeq(whole, 1, n) \in Seq(S)
          /\ Len(SubSeq(text, 1, n)) = n /\ Len(SubSeq(whole, 1, n)) = n
          /\ \A j \in 1..n : SubSeq(text, 1, n)[j] = text[j] /\ SubSeq(whole, 1, n)[j] = whole[j]
      BY <1>7, <2>1, SubSeqProperties
    <2>3. QED
      BY <1>6, <1>7, <2>2, SeqEqual
  <1>p. PICK rest : rest = SubSeq(text, n + 1, Len(text))
    OBVIOUS
  <1>9. /\ rest \in Seq(S) /\ Len(rest) = Len(text) - n
        /\ \A j \in 1..Len(text) - n : rest[j] = text[j + n]
    BY <1>5, <1>7, <1>p, PartOfText
  <1>q. PICK right : right = SubSeq(whole, n + 1, Len(whole))
    OBVIOUS
  <1>10. /\ right \in Seq(S) /\ Len(right) = Len(whole) - n
         /\ \A j \in 1..Len(whole) - n : right[j] = whole[j + n]
    BY <1>1, <1>7, <1>q, PartOfText
  <1>o. PICK left : left = rest \o later
    OBVIOUS
  <1>11. /\ left \in Seq(S) /\ Len(left) = Len(rest) + Len(later)
         /\ \A i \in 1..Len(rest) + Len(later) :
              left[i] = IF i <= Len(rest) THEN rest[i] ELSE later[i - Len(rest)]
    BY <1>4, <1>9, <1>o, ConcatProperties
  <1>12. Len(left) = Len(right)
    BY <1>1, <1>2, <1>4, <1>5, <1>7, <1>9, <1>10, <1>11
  <1>13. ASSUME NEW i \in 1..Len(left) PROVE left[i] = right[i]
    <2>1. right[i] = whole[i + n] /\ i + n \in 1..Len(whole)
      BY <1>1, <1>2, <1>7, <1>10, <1>12
    <2>2. CASE i <= Len(rest)
      <3>1. left[i] = text[i + n] /\ i + n \in 1..Len(text)
        BY <1>2, <1>5, <1>7, <1>9, <1>11, <2>2
      <3>2. QED
        BY <1>6, <2>1, <3>1
    <2>3. CASE ~(i <= Len(rest))
      <3>0. i - Len(rest) \in 1..Len(s) - k
        BY <1>2, <1>4, <1>7, <1>9, <1>11, <2>3
      <3>1. PICK j \in 1..Len(s) - k : j = i - Len(rest)
        BY <3>0
      <3>2. left[i] = s[j + k]
        BY <1>4, <1>11, <2>3, <3>1
      <3>3. /\ i + n \in 1..Len(b) + Len(s) /\ ~(i + n <= Len(b))
            /\ i + n - Len(b) = j + k
        BY <1>1, <1>2, <1>5, <1>7, <1>9, <2>1, <2>3, <3>1
      <3>4. whole[i + n] = s[j + k]
        BY <1>1, <3>3
      <3>5. QED
        BY <2>1, <3>2, <3>4
    <2>4. QED
      BY <2>2, <2>3
  <1>14. left = right
    BY <1>10, <1>11, <1>12, <1>13, SeqEqual
  <1>15. QED
    <2>1. After(Joined(b, s), n) = Joined(After(text, n), After(s, k))
      BY <1>14, <1>w, <1>l, <1>p, <1>q, <1>o DEF After, Joined
    <2>2. QED
      BY <1>w, <1>1, <1>7, <1>8, <2>1 DEF Joined

\* The messages that were decoded and those that are still to be decoded
Undecoded == Cardinality(Messages(buffer \o stdin))

\* Until the host has ended, also before it starts, nothing written is lost.
Counted == host \in {"down", "up"} => handled + Undecoded = sent

\* A chunk takes from the text what it counts (HostReads).
LEMMA ChunkCounted ==
  ASSUME IInv, CountsOK, Counted, NEW k \in 1..Len(stdin), HostReads(k), host' = "up"
  PROVE  Counted'
  <1>1. buffer \in Seq(Inbound) /\ stdin \in Seq(Inbound)
    BY DEF IInv, StdinOK
  <1>2. PICK text : text = buffer \o SubSeq(stdin, 1, k)
    OBVIOUS
  <1>3. /\ host = "up" /\ sent' = sent
        /\ buffer' = Decode(text).rest
        /\ stdin' = SubSeq(stdin, k + 1, Len(stdin))
        /\ handled' = handled + Cardinality(Decode(text).messages)
    BY <1>2, Zenon DEF HostReads, Exits
  <1>4. text \in Seq(Inbound)
    <2>1. Len(stdin) \in Nat /\ 0 \in 0..Len(text)
      BY <1>1, <1>2, ConcatProperties, PartOfSequence
    <2>2. SubSeq(stdin, 1, k) \in Seq(Inbound)
      BY <1>1, <2>1, PartOfSequence
    <2>3. QED
      BY <1>1, <1>2, <2>2, ConcatProperties
  <1>5. PICK n \in 0..Len(text) : n = Finished(text)
    BY <1>4, FinishedInText
  <1>w. PICK whole : whole = buffer \o stdin
    OBVIOUS
  <1>6. /\ whole \in Seq(Inbound) /\ n \in 0..Len(whole)
        /\ SubSeq(text, 1, n) = SubSeq(whole, 1, n)
        /\ buffer' \o stdin' = SubSeq(whole, n + 1, Len(whole))
    <2>1. buffer' = SubSeq(text, n + 1, Len(text))
      BY <1>3, <1>5 DEF Decode
    <2>2. text = Joined(buffer, SubSeq(stdin, 1, k)) /\ whole = Joined(buffer, stdin)
      BY <1>2, <1>w DEF Joined
    <2>3. /\ n \in 0..Len(Joined(buffer, stdin)) /\ Joined(buffer, stdin) \in Seq(Inbound)
          /\ SubSeq(text, 1, n) = SubSeq(Joined(buffer, stdin), 1, n)
          /\ After(Joined(buffer, stdin), n) = Joined(After(text, n), After(stdin, k))
      BY <1>1, <1>4, <1>5, <2>2, ChunkOfText
    <2>4. buffer' = After(text, n) /\ stdin' = After(stdin, k)
      BY <1>3, <2>1 DEF After
    <2>5. buffer' \o stdin' = Joined(buffer', stdin')
      BY DEF Joined
    <2>6. Joined(buffer', stdin') = After(whole, n)
      BY <2>2, <2>3, <2>4
    <2>7. QED
      BY <2>2, <2>3, <2>5, <2>6 DEF After
  <1>7. /\ Cardinality(Messages(whole)) =
             Cardinality(Messages(SubSeq(whole, 1, n))) + Undecoded'
        /\ handled + Cardinality(Messages(whole)) = sent
    BY <1>3, <1>6, <1>w, MessagesOfParts DEF Counted, Undecoded
  <1>8. handled' = handled + Cardinality(Messages(SubSeq(whole, 1, n)))
    BY <1>3, <1>5, <1>6 DEF Decode
  <1>9. Cardinality(Messages(SubSeq(whole, 1, n))) \in Nat /\ Undecoded' \in Nat
    <2>1. SubSeq(whole, 1, n) \in Seq(Inbound) /\ SubSeq(whole, n + 1, Len(whole)) \in Seq(Inbound)
      <3>1. n + 1 \in Nat \ {0} /\ Len(whole) \in 0..Len(whole)
        BY <1>6
      <3>2. QED
        BY <1>6, <3>1, PartOfSequence
    <2>2. QED
      BY <1>6, <2>1, MessagesFinite DEF Undecoded
  <1>10. handled' + Undecoded' = sent'
    <2>1. handled \in Nat
      BY DEF CountsOK
    <2>2. QED
      BY <1>3, <1>7, <1>8, <1>9, <2>1
  <1>11. QED
    BY <1>10 DEF Counted

\* Every step keeps count.
LEMMA CountedStep == IInv /\ ProcessesOK /\ CountsOK /\ Counted /\ [Next]_vars => Counted'
  <1> SUFFICES ASSUME IInv, ProcessesOK, CountsOK, Counted, [Next]_vars PROVE Counted'
    OBVIOUS
  <1>1. CASE Spawn \/ HostNotifies \/ ReadLine \/ WindowListens \/ UiReceives \/ UNCHANGED vars
    <2>1. /\ UNCHANGED <<buffer, stdin, handled, sent>>
          /\ host' \in {"down", "up"} => host \in {"down", "up"}
      BY <1>1 DEF Spawn, HostNotifies, ReadLine, WindowListens, UiReceives, vars, hostVars, pipes,
                  counts
    <2>2. QED
      BY <2>1 DEF Counted, Undecoded
  <1>2. CASE HostExits
    BY <1>2 DEF HostExits, Exits, Counted
  <1>3. CASE \E i \in HostIds : HostAsks(i) \/ HostTimeout(i) \/ UserDismisses(i)
    BY <1>3 DEF HostAsks, HostTimeout, UserDismisses, hostVars, pipes, counts, Counted, Undecoded
  <1>4. CASE \E i \in UiIds : HostReplies(i) \/ UiTimeout(i)
    BY <1>4 DEF HostReplies, UiTimeout, hostVars, pipes, counts, Counted, Undecoded
  <1>5. CASE \E s \in Printed : Prints(s)
    BY <1>5 DEF Prints, hostVars, Counted, Undecoded
  <1>6. CASE \E k \in 1..Len(stdin) : HostReads(k)
    <2>1. PICK k \in 1..Len(stdin) : HostReads(k)
      BY <1>6
    <2>2. host' \in {"up", "thrown"}
      BY <2>1, Zenon DEF HostReads, Exits
    <2>3. QED
      BY <2>1, <2>2, ChunkCounted DEF Counted
  <1>7. CASE Forward
    <2> DEFINE m == Head(invokes)
    <2>1. m \in Invoked /\ (Accepted(m) => m \in Inbound)
      <3>1. invokes \in Seq(Invoked) /\ invokes # <<>>
        BY <1>7 DEF Forward, IInv, UiOK
      <3>2. m \in Invoked
        BY <3>1, HeadTailProperties
      <3>3. QED
        BY <1>7, <3>2, ForwardTakes
    <2>2. /\ IF Accepted(m) THEN stdin' = stdin \o <<m, NL>> /\ sent' = sent + 1
                            ELSE UNCHANGED <<stdin, sent>>
          /\ UNCHANGED <<host, buffer, handled>>
      BY <1>7 DEF Forward, hostVars
    <2>3. m # NL
      BY <2>1 DEF Invoked, NL
    <2> HIDE DEF m
    <2>4. CASE ~Accepted(m)
      BY <2>2, <2>4 DEF Counted, Undecoded
    <2>5. CASE Accepted(m)
      <3>1. buffer \in Seq(Inbound) /\ stdin \in Seq(Inbound) /\ NL \in Inbound /\ m \in Inbound
        BY <2>1, <2>5 DEF IInv, StdinOK, Inbound
      <3>2. <<m, NL>> \in Seq(Inbound)
        BY <3>1
      <3>3. buffer \o (stdin \o <<m, NL>>) = (buffer \o stdin) \o <<m, NL>>
        BY <3>1, <3>2, ConcatAssociative
      <3>4. buffer \o stdin \in Seq(Inbound)
        BY <3>1, ConcatProperties
      <3>5. Undecoded' = Undecoded + 1
        BY <2>2, <2>3, <2>5, <3>1, <3>3, <3>4, MessagesOfLine DEF Undecoded
      <3>6. Undecoded \in Nat
        BY <3>4, MessagesFinite DEF Undecoded
      <3>7. QED
        BY <2>2, <2>5, <3>5, <3>6 DEF Counted, CountsOK
    <2>6. QED
      BY <2>4, <2>5
  <1>8. CASE \E i \in UiIds, odd \in BOOLEAN : UiAsks(i, odd)
    BY <1>8 DEF UiAsks, hostVars, counts, Counted, Undecoded
  <1>9. CASE \E i \in HostIds, odd \in BOOLEAN : UserAnswers(i, odd)
    BY <1>9 DEF UserAnswers, hostVars, Counted, Undecoded
  <1>10. QED
    BY <1>1, <1>2, <1>3, <1>4, <1>5, <1>6, <1>7, <1>8, <1>9 DEF Next

\* However a pipe cuts stdin into chunks, the host decodes every message that
\* was written to it: JsonLineDecoder.push keeps what follows the last newline.
THEOREM LinesAllCount == Spec => []EveryLineCounts
  <1>1. Init => ProcessesOK /\ CountsOK /\ Counted
    <2> SUFFICES ASSUME Init PROVE ProcessesOK /\ CountsOK /\ Counted
      OBVIOUS
    <2>1. "new" \in Stages \ {"sending"}
      BY DEF Stages
    <2>2. ProcessesOK
      BY <2>1 DEF Init, ProcessesOK
    <2>5. CountsOK
      BY DEF Init, CountsOK
    <2>3. Undecoded = 0
      <3>1. buffer \o stdin = <<>>
        BY DEF Init
      <3>2. Messages(<<>>) = {}
        BY DEF Messages
      <3>3. QED
        BY <3>1, <3>2, FS_EmptySet DEF Undecoded
    <2>4. QED
      BY <2>2, <2>3, <2>5 DEF Init, Counted
  <1>2. Spec => []ProcessesOK
    BY <1>1, ProcessesStep, PTL DEF Spec
  <1>3. Spec => []CountsOK
    BY <1>1, AlwaysInv, CountsStep, PTL DEF Spec
  <1>4. Spec => []Counted
    BY <1>1, <1>2, <1>3, AlwaysInv, CountedStep, PTL DEF Spec
  <1>5. Counted => EveryLineCounts
    BY DEF Counted, Undecoded, EveryLineCounts
  <1>6. QED
    BY <1>4, <1>5, PTL

-----------------------------------------------------------------------------
(* The window takes the host's messages in order.  The invariant says of   *)
(* everything that is between them that its numbers grow towards the host, *)
(* and, as long as nothing else has been printed, that stdout is made of   *)
(* whole lines and no number is missing.                                   *)

IsMsg(x) == x.kind \in {"request", "response", "note"}

Numbered ==
  /\ got <= wrote
  /\ \A j \in 1..Len(events) : got < events[j].n /\ events[j].n <= wrote
  /\ \A j, k \in 1..Len(events) : j < k => events[j].n < events[k].n
  /\ \A j \in 1..Len(stdout) :
       IsMsg(stdout[j]) => /\ got < stdout[j].n /\ stdout[j].n <= wrote
                           /\ \A k \in 1..Len(events) : events[k].n < stdout[j].n
  /\ \A j, k \in 1..Len(stdout) :
       j < k /\ IsMsg(stdout[j]) /\ IsMsg(stdout[k]) => stdout[j].n < stdout[k].n

\* The last message that has left stdout for a window that listens
Newest == IF events = <<>> THEN got ELSE events[Len(events)].n

\* A message in stdout is a line, followed by the line of the next message.
WholeLine(j) ==
  /\ j + 1 \in 1..Len(stdout) /\ stdout[j + 1] = NL
  /\ j + 2 > Len(stdout) => stdout[j].n = wrote
  /\ j + 2 <= Len(stdout) => IsMsg(stdout[j + 2]) /\ stdout[j + 2].n = stdout[j].n + 1

Unbroken ==
  /\ Newest > 0 => listening
  /\ got > 0 /\ events # <<>> => events[1].n = got + 1
  /\ \A j \in 1..Len(events) : j < Len(events) => events[j + 1].n = events[j].n + 1
  /\ stdout # <<>> => IsMsg(stdout[1])
  /\ \A j \in 1..Len(stdout) : IsMsg(stdout[j]) => WholeLine(j)
  /\ Newest > 0 /\ stdout = <<>> => wrote = Newest
  /\ Newest > 0 /\ stdout # <<>> => stdout[1].n = Newest + 1

InOrder == Numbered /\ (printed = 0 => Unbroken)

\* The types the order is about
Numbers ==
  /\ stdout \in Seq(Stdout) /\ events \in Seq(Outbound)
  /\ {wrote, got, printed} \subseteq Nat

\* What the counters are of, and that they are numbers.
LEMMA NumbersTyped == IInv /\ CountsOK => Numbers
  BY DEF IInv, CountsOK, Numbers, StdoutOK, HostOK

\* What is a message has a number, the rest is none.
LEMMA MessagesInStdout ==
  /\ \A x \in Outbound : IsMsg(x) /\ x.n \in Nat /\ x # NL
  /\ \A x \in Stdout : IsMsg(x) => x \in Outbound
  /\ ~IsMsg(NL) /\ ~IsMsg(Text) /\ ~IsMsg(Bytes)
  BY DEF Outbound, Stdout, IsMsg, NL, Text, Bytes

\* What leaves the pipes alone keeps the order; the window may begin to listen.
LEMMA QuietOrder ==
  ASSUME InOrder, UNCHANGED <<stdout, events, got, wrote, printed>>,
         listening => listening'
  PROVE  InOrder'
  BY DEF InOrder, Numbered, Unbroken, Newest, WholeLine

\* A line the host writes (process.stdout.write) is the newest.
LEMMA WriteOrder ==
  ASSUME Numbers, InOrder, NEW m, IsMsg(m), m.n = wrote + 1, Write(m),
         UNCHANGED <<events, got, listening, printed>>
  PROVE  InOrder'
  <1>1. /\ stdout' = stdout \o <<m, NL>> /\ wrote' = wrote + 1
        /\ wrote \in Nat /\ got \in Nat /\ Len(stdout) \in Nat /\ Len(events) \in Nat
    BY DEF Write, Numbers
  <1>2. /\ Len(stdout') = Len(stdout) + 2
        /\ \A j \in 1..Len(stdout) : stdout'[j] = stdout[j]
        /\ stdout'[Len(stdout) + 1] = m /\ stdout'[Len(stdout) + 2] = NL
    <2>1. stdout \in Seq(Stdout \union {m, NL}) /\ <<m, NL>> \in Seq(Stdout \union {m, NL})
          /\ Len(<<m, NL>>) = 2 /\ <<m, NL>>[1] = m /\ <<m, NL>>[2] = NL
      BY SeqMonotonic DEF Numbers
    <2> HIDE DEF NL
    <2>2. /\ Len(stdout') = Len(stdout) + 2
          /\ \A j \in 1..Len(stdout) + 2 :
               stdout'[j] = IF j <= Len(stdout) THEN stdout[j] ELSE <<m, NL>>[j - Len(stdout)]
      BY <1>1, <2>1, ConcatProperties
    <2>3. QED
      BY <1>1, <2>1, <2>2
  <1>3. Numbered'
    <2>1. /\ \A j \in 1..Len(events) : events[j].n \in Nat
          /\ \A j \in 1..Len(stdout) : IsMsg(stdout[j]) => stdout[j].n \in Nat
      BY MessagesInStdout DEF Numbers
    <2>2. got <= wrote' /\ \A j \in 1..Len(events') : got' < events'[j].n /\ events'[j].n <= wrote'
      BY <1>1, <2>1 DEF InOrder, Numbered
    <2>3. ASSUME NEW j \in 1..Len(stdout'), IsMsg(stdout'[j])
          PROVE  \/ j \in 1..Len(stdout) /\ stdout'[j] = stdout[j]
                 \/ j = Len(stdout) + 1 /\ stdout'[j].n = wrote + 1
      <3>1. j # Len(stdout) + 2
        BY <1>2, <2>3, MessagesInStdout
      <3>2. QED
        BY <1>1, <1>2, <3>1
    <2>4. ASSUME NEW j \in 1..Len(stdout'), IsMsg(stdout'[j])
          PROVE  /\ got' < stdout'[j].n /\ stdout'[j].n <= wrote'
                 /\ \A k \in 1..Len(events') : events'[k].n < stdout'[j].n
      <3>1. events' = events /\ got' = got
        OBVIOUS
      <3>2. CASE j \in 1..Len(stdout) /\ stdout'[j] = stdout[j]
        BY <1>1, <2>1, <2>4, <3>1, <3>2 DEF InOrder, Numbered
      <3>3. CASE stdout'[j].n = wrote + 1
        BY <1>1, <2>1, <3>1, <3>3 DEF InOrder, Numbered
      <3>4. QED
        BY <2>3, <2>4, <3>2, <3>3
    <2>5. ASSUME NEW j \in 1..Len(stdout'), NEW k \in 1..Len(stdout'), j < k,
                 IsMsg(stdout'[j]), IsMsg(stdout'[k])
          PROVE  stdout'[j].n < stdout'[k].n
      <3>1. CASE k \in 1..Len(stdout) /\ stdout'[k] = stdout[k]
        <4>1. j \in 1..Len(stdout) /\ stdout'[j] = stdout[j]
          BY <1>1, <2>3, <2>5, <3>1
        <4>2. QED
          BY <2>5, <3>1, <4>1 DEF InOrder, Numbered
      <3>2. CASE k = Len(stdout) + 1 /\ stdout'[k].n = wrote + 1
        <4>1. j \in 1..Len(stdout) /\ stdout'[j] = stdout[j]
          BY <1>1, <2>3, <2>5, <3>2
        <4>2. stdout[j].n \in Nat /\ stdout[j].n <= wrote
          BY <2>1, <2>5, <4>1 DEF InOrder, Numbered
        <4>3. QED
          BY <1>1, <3>2, <4>1, <4>2
      <3>3. QED
        BY <2>3, <2>5, <3>1, <3>2
    <2>6. QED
      BY <1>1, <2>2, <2>4, <2>5 DEF InOrder, Numbered
  <1>4. ASSUME printed = 0 PROVE Unbroken'
    <2>1. Unbroken /\ Newest' = Newest
      BY <1>4 DEF InOrder, Newest
    <2>2. stdout' # <<>> /\ stdout'[1] = IF stdout = <<>> THEN m ELSE stdout[1]
      BY <1>1, <1>2 DEF Numbers
    <2>3. Newest > 0 => stdout'[1].n = Newest + 1
      BY <2>1, <2>2 DEF Unbroken
    <2>4. ASSUME NEW j \in 1..Len(stdout'), IsMsg(stdout'[j]) PROVE WholeLine(j)'
      <3>1. j # Len(stdout) + 2
        BY <1>2, <2>4, MessagesInStdout
      <3>2. CASE j = Len(stdout) + 1
        BY <1>1, <1>2, <3>2 DEF WholeLine
      <3>3. CASE j \in 1..Len(stdout)
        <4>1. stdout'[j] = stdout[j] /\ WholeLine(j)
          BY <1>2, <2>1, <2>4, <3>3 DEF Unbroken
        <4>2. CASE j + 2 > Len(stdout)
          BY <1>1, <1>2, <3>3, <4>1, <4>2 DEF WholeLine
        <4>3. CASE j + 2 <= Len(stdout)
          BY <1>1, <1>2, <3>3, <4>1, <4>3 DEF WholeLine
        <4>4. QED
          BY <1>1, <3>3, <4>2, <4>3
      <3>4. QED
        BY <1>1, <1>2, <3>1, <3>2, <3>3
    <2>5. QED
      BY <2>1, <2>2, <2>3, <2>4 DEF Unbroken
  <1>5. QED
    BY <1>3, <1>4 DEF InOrder

\* What else is printed is no message, and says that lines may be lost.
LEMMA PrintOrder ==
  ASSUME Numbers, InOrder, NEW t \in Printed, Prints(t)
  PROVE  InOrder'
  <1>1. /\ stdout' = stdout \o t /\ printed' = printed + 1 /\ printed \in Nat
        /\ UNCHANGED <<events, got, wrote>>
    BY DEF Prints, Numbers
  <1>2. /\ t \in Seq(Stdout) /\ \A j \in 1..Len(t) : ~IsMsg(t[j])
    <2>1. t = <<Text>> \/ t = <<Bytes, NL>>
      BY DEF Printed
    <2>2. {Text, Bytes, NL} \subseteq Stdout /\ ~IsMsg(Text) /\ ~IsMsg(Bytes) /\ ~IsMsg(NL)
      BY MessagesInStdout DEF Stdout
    <2>3. CASE t = <<Text>>
      <3>1. Len(t) = 1 /\ t[1] = Text /\ t \in Seq({Text})
        BY <2>3
      <3>2. t \in Seq(Stdout)
        BY <2>2, <3>1, SeqMonotonic
      <3>3. QED
        BY <2>2, <3>1, <3>2
    <2>4. CASE t = <<Bytes, NL>>
      <3>1. Len(t) = 2 /\ t[1] = Bytes /\ t[2] = NL /\ t \in Seq({Bytes, NL})
        BY <2>4
      <3>2. t \in Seq(Stdout)
        BY <2>2, <3>1, SeqMonotonic
      <3>3. QED
        BY <2>2, <3>1, <3>2
    <2>5. QED
      BY <2>1, <2>3, <2>4
  <1>3. /\ Len(stdout') = Len(stdout) + Len(t)
        /\ \A j \in 1..Len(stdout) + Len(t) :
             stdout'[j] = IF j <= Len(stdout) THEN stdout[j] ELSE t[j - Len(stdout)]
    BY <1>1, <1>2, ConcatProperties DEF Numbers
  <1>4. ASSUME NEW j \in 1..Len(stdout'), IsMsg(stdout'[j])
        PROVE  j \in 1..Len(stdout) /\ stdout'[j] = stdout[j]
    <2>1. Len(stdout) \in Nat /\ Len(t) \in Nat
      BY <1>2 DEF Numbers
    <2>2. CASE ~(j <= Len(stdout))
      <3>1. j - Len(stdout) \in 1..Len(t) /\ stdout'[j] = t[j - Len(stdout)]
        BY <1>3, <2>1, <2>2
      <3>2. QED
        BY <1>2, <1>4, <3>1
    <2>3. QED
      BY <1>3, <2>1, <2>2
  <1>5. Numbered'
    BY <1>1, <1>4 DEF InOrder, Numbered
  <1>6. printed' # 0
    BY <1>1
  <1>7. QED
    BY <1>5, <1>6 DEF InOrder

\* A line the backend takes is emitted whole or not at all (the reader thread).
LEMMA ReadOrder ==
  ASSUME Numbers, InOrder, ReadLine
  PROVE  InOrder'
  <1>1. PICK j \in 1..Len(stdout) :
          /\ stdout[j] = NL
          /\ \A k \in 1..(j - 1) : stdout[k] # NL
          /\ events' = Emitted(SubSeq(stdout, 1, j - 1))
          /\ stdout' = SubSeq(stdout, j + 1, Len(stdout))
    BY Zenon DEF ReadLine
  <1>2. UNCHANGED <<got, wrote, printed, listening>>
    BY DEF ReadLine, uiVars, counts
  <1>3. stdout \in Seq(Stdout) /\ Len(stdout) \in Nat /\ j \in Nat /\ j \in 0..Len(stdout)
        /\ Len(stdout) \in j..Len(stdout) /\ wrote \in Nat /\ got \in Nat /\ printed \in Nat
        /\ events \in Seq(Outbound) /\ Len(events) \in Nat /\ 0 \in 0..Len(stdout)
        /\ j - 1 \in 0..Len(stdout) /\ j - 1 \in Nat
    BY DEF Numbers
  <1>4. /\ Len(stdout') = Len(stdout) - j
        /\ \A k \in 1..Len(stdout) - j : stdout'[k] = stdout[k + j]
    BY <1>1, <1>3, PartOfText
  <1>5. PICK line : line = SubSeq(stdout, 1, j - 1)
    OBVIOUS
  <1>6. line \in Seq(Stdout) /\ Len(line) = j - 1 /\ \A k \in 1..(j - 1) : line[k] = stdout[k]
    <2>1. \A k \in 1..(j - 1) : stdout[k] \in Stdout
      BY <1>3
    <2>2. QED
      BY <1>3, <1>5, <2>1, SubSeqProperties
  <1>7. /\ \A k \in 1..Len(events) : events[k].n \in Nat
        /\ \A k \in 1..Len(stdout) : IsMsg(stdout[k]) => stdout[k].n \in Nat
    BY <1>3, MessagesInStdout
  <1>8. ASSUME NEW k \in 1..Len(stdout') PROVE k + j \in 1..Len(stdout) /\ stdout'[k] = stdout[k + j]
    BY <1>3, <1>4
  <1>9. ASSUME IsMessage(line) PROVE j = 2 /\ line[1] = stdout[1] /\ IsMsg(stdout[1])
    <2>1. line # <<>> /\ Tail(line) = <<>> /\ line[1].kind \notin {"text", "bytes"}
      BY <1>9 DEF IsMessage
    <2>2. Len(line) = 1
      <3>1. Len(Tail(line)) = Len(line) - 1 /\ Len(line) \in Nat
        BY <1>6, <2>1, HeadTailProperties
      <3>2. Tail(line) = <<>>
        BY <2>1
      <3>3. Len(Tail(line)) = Len(<<>>) /\ Len(<<>>) = 0
        BY <3>2
      <3>4. QED
        BY <3>1, <3>3
    <2>3. j = 2 /\ line[1] = stdout[1] /\ stdout[1] # NL
      <3>0. j \in Nat /\ j - 1 = 1
        BY <1>3, <1>6, <2>2
      <3>1. j = 2
        BY <3>0
      <3>2. 1 \in 1..(j - 1)
        BY <3>1
      <3>3. QED
        BY <1>1, <1>6, <3>1, <3>2
    <2>4. stdout[1] \in Stdout
      BY <1>3, <2>3
    <2>5. IsMsg(stdout[1])
      BY <2>1, <2>3, <2>4 DEF Stdout, Outbound, IsMsg, Text, Bytes
    <2>6. QED
      BY <2>3, <2>5
  <1>13. ASSUME Unbroken, j = 2, NEW k \in 1..Len(stdout'), IsMsg(stdout'[k]) PROVE WholeLine(k)'
    <2>1. k + 2 \in 1..Len(stdout) /\ stdout'[k] = stdout[k + 2]
      BY <1>8, <1>13
    <2>2. WholeLine(k + 2)
      BY <1>13, <2>1 DEF Unbroken
    <2>3. k + 1 \in 1..Len(stdout') /\ stdout'[k + 1] = NL
      <3>1. (k + 2) + 1 \in 1..Len(stdout) /\ stdout[(k + 2) + 1] = NL
        BY <2>2 DEF WholeLine
      <3>2. k + 1 \in 1..Len(stdout') /\ (k + 1) + 2 = (k + 2) + 1
        BY <1>3, <1>4, <1>13, <3>1
      <3>3. QED
        BY <1>8, <1>13, <3>1, <3>2
    <2>4. ASSUME k + 2 > Len(stdout') PROVE stdout'[k].n = wrote'
      BY <1>2, <1>3, <1>4, <1>13, <2>1, <2>2, <2>4 DEF WholeLine
    <2>5. ASSUME k + 2 <= Len(stdout')
          PROVE  IsMsg(stdout'[k + 2]) /\ stdout'[k + 2].n = stdout'[k].n + 1
      <3>1. k + 2 \in 1..Len(stdout') /\ (k + 2) + 2 <= Len(stdout)
        BY <1>3, <1>4, <1>13, <2>1, <2>5
      <3>2. stdout'[k + 2] = stdout[(k + 2) + 2]
        BY <1>8, <1>13, <3>1
      <3>3. QED
        BY <2>1, <2>2, <3>1, <3>2 DEF WholeLine
    <2>6. QED
      BY <2>3, <2>4, <2>5 DEF WholeLine
  <1>10. CASE IsMessage(line) /\ listening
    <2>1. events' = Append(events, stdout[1]) /\ j = 2 /\ IsMsg(stdout[1])
          /\ 1 \in 1..Len(stdout) /\ stdout[1] \in Outbound
      BY <1>1, <1>3, <1>5, <1>9, <1>10, MessagesInStdout DEF Emitted
    <2>2. /\ Len(events') = Len(events) + 1 /\ events'[Len(events) + 1] = stdout[1]
          /\ \A k \in 1..Len(events) : events'[k] = events[k]
          /\ events' # <<>>
      BY <1>3, <2>1
    <2>3. /\ got < stdout[1].n /\ stdout[1].n <= wrote
          /\ \A k \in 1..Len(events) : events[k].n < stdout[1].n
          /\ stdout[1].n \in Nat
      BY <1>7, <2>1 DEF InOrder, Numbered
    <2>4. \A k \in 1..Len(stdout') : IsMsg(stdout'[k]) => stdout[1].n < stdout'[k].n
      <3>1. ASSUME NEW k \in 1..Len(stdout'), IsMsg(stdout'[k]) PROVE stdout[1].n < stdout'[k].n
        <4>1. k + j \in 1..Len(stdout) /\ stdout'[k] = stdout[k + j] /\ 1 < k + j
          BY <1>3, <1>8, <2>1
        <4>2. QED
          BY <2>1, <3>1, <4>1 DEF InOrder, Numbered
      <3>2. QED
        BY <3>1
    <2>5. Numbered'
      <3>1. got' <= wrote'
        BY <1>2 DEF InOrder, Numbered
      <3>2. ASSUME NEW k \in 1..Len(events') PROVE got' < events'[k].n /\ events'[k].n <= wrote'
        <4>1. CASE k = Len(events) + 1
          BY <1>2, <2>2, <2>3, <4>1
        <4>2. CASE k \in 1..Len(events)
          BY <1>2, <2>2, <4>2 DEF InOrder, Numbered
        <4>3. QED
          BY <1>3, <2>2, <4>1, <4>2
      <3>3. ASSUME NEW i \in 1..Len(events'), NEW k \in 1..Len(events'), i < k
            PROVE  events'[i].n < events'[k].n
        <4>1. i \in 1..Len(events) /\ events'[i] = events[i]
          BY <1>3, <2>2, <3>3
        <4>2. CASE k = Len(events) + 1
          BY <2>2, <2>3, <4>1, <4>2
        <4>3. CASE k \in 1..Len(events)
          BY <2>2, <3>3, <4>1, <4>3 DEF InOrder, Numbered
        <4>4. QED
          BY <1>3, <2>2, <4>2, <4>3
      <3>4. ASSUME NEW i \in 1..Len(stdout'), IsMsg(stdout'[i])
            PROVE  /\ got' < stdout'[i].n /\ stdout'[i].n <= wrote'
                   /\ \A k \in 1..Len(events') : events'[k].n < stdout'[i].n
        <4>1. i + j \in 1..Len(stdout) /\ stdout'[i] = stdout[i + j]
          BY <1>8
        <4>2. /\ got < stdout[i + j].n /\ stdout[i + j].n <= wrote
              /\ \A k \in 1..Len(events) : events[k].n < stdout[i + j].n
          BY <3>4, <4>1 DEF InOrder, Numbered
        <4>3. ASSUME NEW k \in 1..Len(events') PROVE events'[k].n < stdout'[i].n
          <5>1. CASE k = Len(events) + 1
            BY <2>2, <2>4, <3>4, <5>1
          <5>2. CASE k \in 1..Len(events)
            BY <2>2, <4>1, <4>2, <5>2
          <5>3. QED
            BY <1>3, <2>2, <5>1, <5>2
        <4>4. QED
          BY <1>2, <4>1, <4>2, <4>3
      <3>5. ASSUME NEW i \in 1..Len(stdout'), NEW k \in 1..Len(stdout'), i < k,
                   IsMsg(stdout'[i]), IsMsg(stdout'[k])
            PROVE  stdout'[i].n < stdout'[k].n
        <4>1. /\ i + j \in 1..Len(stdout) /\ stdout'[i] = stdout[i + j]
              /\ k + j \in 1..Len(stdout) /\ stdout'[k] = stdout[k + j]
              /\ i + j < k + j
          BY <1>3, <1>8, <3>5
        <4>2. QED
          BY <3>5, <4>1 DEF InOrder, Numbered
      <3>6. QED
        BY <3>1, <3>2, <3>3, <3>4, <3>5 DEF Numbered
    <2>6. ASSUME printed = 0 PROVE Unbroken'
      <3>1. Unbroken /\ WholeLine(1)
        BY <2>1, <2>6 DEF InOrder, Unbroken
      <3>2. Newest' = stdout[1].n /\ listening' /\ got' = got
        BY <1>2, <1>3, <1>10, <2>2 DEF Newest
      <3>3. got > 0 => events'[1].n = got + 1
        <4>1. CASE events = <<>>
          <5>1. Len(events) = 0 /\ Newest = got /\ stdout # <<>>
            BY <2>1, <4>1 DEF Newest
          <5>2. QED
            BY <2>2, <3>1, <5>1 DEF Unbroken
        <4>2. CASE events # <<>>
          <5>1. 1 \in 1..Len(events)
            BY <1>3, <4>2
          <5>2. QED
            BY <2>2, <3>1, <4>2, <5>1 DEF Unbroken
        <4>3. QED
          BY <4>1, <4>2
      <3>4. ASSUME NEW k \in 1..Len(events'), k < Len(events') PROVE events'[k + 1].n = events'[k].n + 1
        <4>1. CASE k = Len(events)
          <5>1. k \in 1..Len(events) /\ events # <<>> /\ stdout # <<>>
            BY <1>3, <2>1, <3>4, <4>1
          <5>2. Newest = events[k].n /\ got < events[k].n
            BY <4>1, <5>1 DEF Newest, InOrder, Numbered
          <5>3. Newest > 0
            BY <1>3, <1>7, <5>1, <5>2
          <5>4. QED
            BY <2>2, <3>1, <4>1, <5>1, <5>2, <5>3 DEF Unbroken
        <4>2. CASE k < Len(events)
          <5>1. k \in 1..Len(events) /\ k + 1 \in 1..Len(events)
            BY <1>3, <4>2
          <5>2. events[k + 1].n = events[k].n + 1
            BY <3>1, <4>2, <5>1 DEF Unbroken
          <5>3. QED
            BY <2>2, <5>1, <5>2
        <4>3. QED
          BY <1>3, <2>2, <3>4, <4>1, <4>2
      <3>5. stdout' # <<>> => IsMsg(stdout'[1]) /\ stdout'[1].n = Newest' + 1
        <4>1. ASSUME stdout' # <<>> PROVE 1 \in 1..Len(stdout') /\ 1 + 2 <= Len(stdout)
          <5>1. stdout' \in Seq(Stdout)
            BY <1>1, <1>3, PartOfText
          <5>2. QED
            BY <1>3, <1>4, <2>1, <4>1, <5>1
        <4>2. QED
          BY <1>8, <2>1, <3>1, <3>2, <4>1 DEF WholeLine
      <3>6. stdout' = <<>> => wrote' = Newest'
        <4>1. ASSUME stdout' = <<>> PROVE 1 + 2 > Len(stdout)
          <5>1. Len(stdout') = 0
            BY <4>1
          <5>2. Len(stdout') = Len(stdout) - 2
            BY <1>4, <2>1
          <5>3. QED
            BY <1>3, <5>1, <5>2
        <4>2. QED
          BY <1>2, <3>1, <3>2, <4>1 DEF WholeLine
      <3>7. \A k \in 1..Len(stdout') : IsMsg(stdout'[k]) => WholeLine(k)'
        BY <1>13, <2>1, <3>1
      <3>8. QED
        BY <3>2, <3>3, <3>4, <3>5, <3>6, <3>7 DEF Unbroken
    <2>7. QED
      BY <1>2, <2>5, <2>6 DEF InOrder
  <1>11. CASE ~(IsMessage(line) /\ listening)
    <2>1. events' = events
      BY <1>1, <1>5, <1>11 DEF Emitted
    <2>2. Numbered'
      <3>1. ASSUME NEW i \in 1..Len(stdout'), IsMsg(stdout'[i])
            PROVE  /\ got' < stdout'[i].n /\ stdout'[i].n <= wrote'
                   /\ \A k \in 1..Len(events') : events'[k].n < stdout'[i].n
        BY <1>2, <1>8, <2>1, <3>1 DEF InOrder, Numbered
      <3>2. ASSUME NEW i \in 1..Len(stdout'), NEW k \in 1..Len(stdout'), i < k,
                   IsMsg(stdout'[i]), IsMsg(stdout'[k])
            PROVE  stdout'[i].n < stdout'[k].n
        <4>1. /\ i + j \in 1..Len(stdout) /\ stdout'[i] = stdout[i + j]
              /\ k + j \in 1..Len(stdout) /\ stdout'[k] = stdout[k + j]
              /\ i + j < k + j
          BY <1>3, <1>8, <3>2
        <4>2. QED
          BY <3>2, <4>1 DEF InOrder, Numbered
      <3>3. QED
        BY <1>2, <2>1, <3>1, <3>2 DEF InOrder, Numbered
    <2>3. ASSUME printed = 0 PROVE Unbroken'
      <3>1. Unbroken /\ stdout # <<>> /\ 1 \in 1..Len(stdout)
        BY <1>3, <2>3 DEF InOrder
      <3>2. IsMsg(stdout[1]) /\ WholeLine(1)
        BY <3>1 DEF Unbroken
      <3>3. j = 2
        <4>1. j # 1
          BY <1>1, <3>2, MessagesInStdout
        <4>2. stdout[2] = NL /\ 2 \in 1..Len(stdout)
          BY <3>2 DEF WholeLine
        <4>3. QED
          BY <1>1, <1>3, <4>1, <4>2
      <3>4. IsMessage(line)
        <4>1. Len(line) = 1 /\ line[1] = stdout[1]
          BY <1>3, <1>6, <3>3
        <4>2. line # <<>> /\ Tail(line) = <<>>
          <5>1. line # <<>>
            BY <4>1
          <5>2. Tail(line) \in Seq(Stdout) /\ Len(Tail(line)) = 0
            BY <1>6, <4>1, <5>1, HeadTailProperties
          <5>3. QED
            BY <5>1, <5>2, EmptySeq
        <4>3. QED
          BY <3>2, <4>1, <4>2 DEF IsMessage, IsMsg
      <3>5. ~listening /\ ~(Newest > 0) /\ Newest' = Newest
        BY <1>2, <1>11, <2>1, <3>1, <3>4 DEF Unbroken, Newest
      <3>6. stdout' # <<>> => IsMsg(stdout'[1])
        <4>1. ASSUME stdout' # <<>> PROVE 1 \in 1..Len(stdout') /\ 1 + 2 <= Len(stdout)
          <5>1. stdout' \in Seq(Stdout)
            BY <1>1, <1>3, PartOfText
          <5>2. QED
            BY <1>3, <1>4, <3>3, <4>1, <5>1
        <4>2. QED
          BY <1>8, <3>2, <3>3, <4>1 DEF WholeLine
      <3>7. \A k \in 1..Len(stdout') : IsMsg(stdout'[k]) => WholeLine(k)'
        BY <1>13, <3>1, <3>3
      <3>8. QED
        BY <1>2, <2>1, <3>1, <3>5, <3>6, <3>7 DEF Unbroken
    <2>4. QED
      BY <1>2, <2>2, <2>3 DEF InOrder
  <1>12. QED
    BY <1>10, <1>11

\* What a step of the window does to the last message it took
TakesNext == got' # got => got' > got /\ (got > 0 /\ printed = 0 => got' = got + 1)

\* The window takes the first of what was emitted (createHostBridge.start).
LEMMA TakeOrder ==
  ASSUME Numbers, InOrder, UiReceives
  PROVE  InOrder' /\ TakesNext
  <1>1. /\ events # <<>> /\ got' = events[1].n
        /\ UNCHANGED <<stdout, wrote, printed, listening>>
    BY DEF UiReceives
  <1>2. /\ events \in Seq(Outbound) /\ Len(events) \in Nat /\ 1 \in 1..Len(events)
        /\ Len(events) \in 1..Len(events)
        /\ wrote \in Nat /\ got \in Nat
    BY <1>1 DEF Numbers
  <1>3. /\ Len(events') = Len(events) - 1 /\ events' \in Seq(Outbound)
        /\ \A k \in 1..Len(events) - 1 : events'[k] = events[k + 1]
    <2>1. events' = Tail(events)
      BY DEF UiReceives
    <2>2. QED
      BY <1>1, <1>2, <2>1, HeadTailProperties
  <1>4. \A k \in 1..Len(events) : events[k].n \in Nat
    BY <1>2, MessagesInStdout
  <1>5. ASSUME NEW k \in 1..Len(events')
        PROVE  k + 1 \in 1..Len(events) /\ 1 < k + 1 /\ events'[k] = events[k + 1]
    BY <1>2, <1>3
  <1>6. got < events[1].n /\ events[1].n <= wrote
    BY <1>2 DEF InOrder, Numbered
  <1>7. Numbered'
    <2>1. ASSUME NEW k \in 1..Len(events') PROVE got' < events'[k].n /\ events'[k].n <= wrote'
      BY <1>1, <1>2, <1>5 DEF InOrder, Numbered
    <2>2. ASSUME NEW i \in 1..Len(events'), NEW k \in 1..Len(events'), i < k
          PROVE  events'[i].n < events'[k].n
      <3>1. /\ i + 1 \in 1..Len(events) /\ events'[i] = events[i + 1]
            /\ k + 1 \in 1..Len(events) /\ events'[k] = events[k + 1] /\ i + 1 < k + 1
        BY <1>5, <2>2
      <3>2. QED
        BY <3>1 DEF InOrder, Numbered
    <2>3. ASSUME NEW i \in 1..Len(stdout'), IsMsg(stdout'[i])
          PROVE  /\ got' < stdout'[i].n /\ stdout'[i].n <= wrote'
                 /\ \A k \in 1..Len(events') : events'[k].n < stdout'[i].n
      <3>1. /\ stdout[i].n <= wrote
            /\ \A k \in 1..Len(events) : events[k].n < stdout[i].n
        BY <1>1, <2>3 DEF InOrder, Numbered
      <3>2. QED
        BY <1>1, <1>2, <1>5, <3>1
    <2>4. QED
      BY <1>1, <1>6, <2>1, <2>2, <2>3 DEF InOrder, Numbered
  <1>8. ASSUME printed = 0, Unbroken PROVE Unbroken'
    <2>1. Newest' = Newest
      <3>1. CASE events' = <<>>
        <4>1. Len(events') = 0
          BY <3>1
        <4>2. Len(events) = 1
          BY <1>2, <1>3, <4>1
        <4>3. QED
          BY <1>1, <3>1, <4>2 DEF Newest
      <3>2. CASE events' # <<>>
        <4>1. Len(events') \in 1..Len(events')
          BY <1>3, <3>2
        <4>2. events'[Len(events')] = events[Len(events)]
          BY <1>2, <1>3, <1>5, <4>1
        <4>3. QED
          BY <1>1, <3>2, <4>2 DEF Newest
      <3>3. QED
        BY <3>1, <3>2
    <2>2. events' # <<>> => events'[1].n = got' + 1
      <3>1. ASSUME events' # <<>> PROVE 1 \in 1..Len(events') /\ 1 < Len(events)
        BY <1>2, <1>3, <3>1
      <3>2. QED
        BY <1>1, <1>2, <1>5, <1>8, <3>1 DEF Unbroken
    <2>3. ASSUME NEW k \in 1..Len(events'), k < Len(events')
          PROVE  events'[k + 1].n = events'[k].n + 1
      <3>1. /\ k + 1 \in 1..Len(events) /\ k + 1 < Len(events) /\ events'[k] = events[k + 1]
            /\ k + 1 \in 1..Len(events')
        BY <1>2, <1>3, <1>5, <2>3
      <3>2. events'[k + 1] = events[(k + 1) + 1]
        BY <1>5, <3>1
      <3>3. QED
        BY <1>8, <3>1, <3>2 DEF Unbroken
    <2>4. ASSUME NEW k \in 1..Len(stdout'), IsMsg(stdout'[k]) PROVE WholeLine(k)'
      BY <1>1, <1>8, <2>4 DEF Unbroken, WholeLine
    <2>5. QED
      BY <1>1, <1>8, <2>1, <2>2, <2>3, <2>4 DEF Unbroken
  <1>9. TakesNext
    <2>1. got > 0 /\ printed = 0 => got' = got + 1
      BY <1>1 DEF InOrder, Unbroken
    <2>2. got' > got
      BY <1>1, <1>2, <1>4, <1>6
    <2>3. QED
      BY <2>1, <2>2 DEF TakesNext
  <1>10. QED
    BY <1>1, <1>7, <1>8, <1>9 DEF InOrder

\* Every step keeps the order.
LEMMA OrderStep == IInv /\ CountsOK /\ InOrder /\ [Next]_vars => InOrder' /\ TakesNext
  <1> SUFFICES ASSUME IInv, CountsOK, InOrder, [Next]_vars PROVE InOrder' /\ TakesNext
    OBVIOUS
  <1>1. Numbers /\ wrote \in Nat
    BY NumbersTyped DEF Numbers
  <1>2. got' = got => TakesNext
    BY DEF TakesNext
  <1>3. CASE Spawn \/ HostExits \/ Forward \/ WindowListens \/ UNCHANGED vars
    <2>1. UNCHANGED <<stdout, events, got, wrote, printed>> /\ (listening => listening')
      BY <1>3 DEF Spawn, HostExits, Forward, WindowListens, vars, uiVars, pipes, counts
    <2>2. QED
      BY <1>2, <2>1, QuietOrder
  <1>4. CASE \E i \in HostIds : HostTimeout(i) \/ UserDismisses(i)
    <2>1. UNCHANGED <<stdout, events, got, wrote, printed, listening>>
      BY <1>4 DEF HostTimeout, UserDismisses, uiVars, pipes, counts
    <2>2. QED
      BY <1>2, <2>1, QuietOrder
  <1>5. CASE \E i \in UiIds : UiTimeout(i)
    <2>1. UNCHANGED <<stdout, events, got, wrote, printed, listening>>
      BY <1>5 DEF UiTimeout, pipes, counts
    <2>2. QED
      BY <1>2, <2>1, QuietOrder
  <1>6. CASE \E k \in 1..Len(stdin) : HostReads(k)
    <2>1. PICK k \in 1..Len(stdin) : HostReads(k)
      BY <1>6
    <2>2. UNCHANGED <<stdout, events, got, wrote, printed, listening>>
      BY <2>1 DEF HostReads, uiVars
    <2>3. QED
      BY <1>2, <2>2, QuietOrder
  <1>7. CASE \E i \in UiIds, odd \in BOOLEAN : UiAsks(i, odd)
    <2>1. UNCHANGED <<stdout, events, got, wrote, printed, listening>>
      BY <1>7 DEF UiAsks, counts
    <2>2. QED
      BY <1>2, <2>1, QuietOrder
  <1>8. CASE \E i \in HostIds, odd \in BOOLEAN : UserAnswers(i, odd)
    <2>1. UNCHANGED <<stdout, events, got, wrote, printed, listening>>
      BY <1>8 DEF UserAnswers
    <2>2. QED
      BY <1>2, <2>1, QuietOrder
  <1>9. CASE \E i \in HostIds : HostAsks(i)
    <2>1. PICK i \in HostIds : HostAsks(i)
      BY <1>9
    <2>2. PICK m : m = [kind |-> "request", id |-> i, n |-> wrote + 1]
      OBVIOUS
    <2>3. IsMsg(m) /\ m.n = wrote + 1
      BY <2>2 DEF IsMsg
    <2>4. Write(m) /\ UNCHANGED <<events, got, listening, printed>>
      BY <2>1, <2>2 DEF HostAsks, uiVars
    <2>5. QED
      BY <1>1, <1>2, <2>3, <2>4, WriteOrder
  <1>10. CASE HostNotifies
    <2>1. PICK m : m = [kind |-> "note", n |-> wrote + 1]
      OBVIOUS
    <2>2. IsMsg(m) /\ m.n = wrote + 1
      BY <2>1 DEF IsMsg
    <2>3. Write(m) /\ UNCHANGED <<events, got, listening, printed>>
      BY <1>10, <2>1 DEF HostNotifies, uiVars
    <2>4. QED
      BY <1>1, <1>2, <2>2, <2>3, WriteOrder
  <1>11. CASE \E i \in UiIds : HostReplies(i)
    <2>1. PICK i \in UiIds : HostReplies(i)
      BY <1>11
    <2>2. PICK m : m = [kind |-> "response", id |-> i, n |-> wrote + 1]
      OBVIOUS
    <2>3. IsMsg(m) /\ m.n = wrote + 1
      BY <2>2 DEF IsMsg
    <2>4. Write(m) /\ UNCHANGED <<events, got, listening, printed>>
      BY <2>1, <2>2 DEF HostReplies, uiVars
    <2>5. QED
      BY <1>1, <1>2, <2>3, <2>4, WriteOrder
  <1>12. CASE \E t \in Printed : Prints(t)
    <2>1. PICK t \in Printed : Prints(t)
      BY <1>12
    <2>2. got' = got
      BY <2>1 DEF Prints
    <2>3. QED
      BY <1>1, <1>2, <2>1, <2>2, PrintOrder
  <1>13. CASE ReadLine
    <2>1. got' = got
      BY <1>13 DEF ReadLine, counts
    <2>2. QED
      BY <1>1, <1>2, <1>13, <2>1, ReadOrder
  <1>14. CASE UiReceives
    BY <1>1, <1>14, TakeOrder
  <1>15. QED
    BY <1>3, <1>4, <1>5, <1>6, <1>7, <1>8, <1>9, <1>10, <1>11, <1>12, <1>13, <1>14 DEF Next

\* The window takes the host's messages in the order they were written, and
\* once it has taken one it skips none unless something else was printed into
\* stdout: the pipe, the reader thread and the events keep the order.
THEOREM MessagesTakenInOrder == Spec => TakenInOrder
  <1>1. Init => CountsOK /\ InOrder
    BY DEF Init, CountsOK, InOrder, Numbered, Unbroken, Newest
  <1>2. Spec => []CountsOK
    BY <1>1, AlwaysInv, CountsStep, PTL DEF Spec
  <1>3. Spec => []InOrder
    BY <1>1, <1>2, AlwaysInv, OrderStep, PTL DEF Spec
  <1>4. IInv /\ CountsOK /\ InOrder /\ [Next]_vars
          => [got' # got => /\ got' > got
                            /\ got > 0 /\ printed = 0 => got' = got + 1]_vars
    BY OrderStep DEF TakesNext
  <1>5. QED
    BY <1>2, <1>3, <1>4, AlwaysInv, PTL DEF Spec, TakenInOrder

-----------------------------------------------------------------------------
(* The requests of the window are calls.                                   *)

\* The stages of the window's requests are those of Calls.
LEMMA UiStageType ==
  ASSUME IInv
  PROVE  /\ \A i \in UiIds : UiStage[i] = IF i \in Sending THEN "waiting" ELSE calls[i].stage
         /\ UiStage \in [UiIds -> Stages]
         /\ \A i \in UiIds : i \in AskedUi <=> UiStage[i] # "new"
  BY DEF UiStage, Sending, AskedUi, IInv, UiOK, Stages

\* One call of the window settles.
LEMMA UiSettles ==
  ASSUME NEW i \in UiIds, NEW end \in {"answered", "failed"},
         UiStage[i] = "waiting", end = "answered" => i \in replied.host,
         UiStage' = [c \in UiIds |-> IF c = i THEN end ELSE UiStage[c]],
         replied'.host = replied.host
  PROVE  UiCalls!Next
  <1> DEFINE S == {i}
             outcome == [c \in S |-> end]
  <1>1. S \in SUBSET UiIds /\ S # {} /\ \A c \in S : UiStage[c] = "waiting"
    OBVIOUS
  <1>2. /\ outcome \in [S -> {"answered", "failed"}]
        /\ \A c \in S : outcome[c] = "answered" => c \in replied.host
        /\ UiStage' = [c \in UiIds |-> IF c \in S THEN outcome[c] ELSE UiStage[c]]
    <2>1. \A c \in UiIds : (IF c \in S THEN outcome[c] ELSE UiStage[c])
                           = (IF c = i THEN end ELSE UiStage[c])
      OBVIOUS
    <2>2. QED
      BY <2>1
  <1> HIDE DEF S, outcome
  <1>3. UiCalls!Settle(S)
    BY <1>1, <1>2 DEF UiCalls!Settle
  <1>4. QED
    BY <1>1, <1>3 DEF UiCalls!Next

\* One wait of the window ends, or a call that is being sent leaves the store.
LEMMA UiWaitSettles ==
  ASSUME IInv, NEW i \in UiIds, NEW end \in {"answered", "failed"},
         end = "answered" => i \in replied.host,
         calls' = [calls EXCEPT ![i] =
                     [stage  |-> IF calls[i].stage = "waiting" THEN end ELSE calls[i].stage,
                      stored |-> FALSE]],
         replied'.host = replied.host
  PROVE  UiCalls!Next \/ UNCHANGED <<UiStage, replied.host>>
  <1>1. CASE calls[i].stage = "waiting"
    <2>1. UiStage[i] = "waiting"
      BY <1>1 DEF UiStage
    <2>2. UiStage' = [c \in UiIds |-> IF c = i THEN end ELSE UiStage[c]]
      BY <1>1 DEF UiStage, IInv, UiOK
    <2>3. QED
      BY <2>1, <2>2, UiSettles
  <1>2. CASE calls[i].stage # "waiting"
    <2>1. UiStage' = UiStage
      BY <1>2 DEF UiStage, IInv, UiOK
    <2>2. QED
      BY <2>1
  <1>3. QED
    BY <1>1, <1>2

\* Every step is one of Calls for the window's requests, or none.
LEMMA UiStepRefines ==
  IInv /\ [Next]_vars => [UiCalls!Next]_<<UiStage, replied.host>>
  <1> SUFFICES ASSUME IInv, [Next]_vars
               PROVE  UiCalls!Next \/ UNCHANGED <<UiStage, replied.host>>
    OBVIOUS
  <1>1. CASE UNCHANGED <<calls, replied>>
    BY <1>1 DEF UiStage
  <1>2. ASSUME NEW i \in UiIds, HostReplies(i)
        PROVE  UiCalls!Next \/ UNCHANGED <<UiStage, replied.host>>
    <2>1. UiStage' = UiStage /\ replied'.host = replied.host \union {i}
      BY <1>2, RepliedType DEF HostReplies, UiStage, uiVars
    <2>2. UiStage[i] # "new"
      BY <1>2, UiStageType DEF HostReplies, IInv, HostOK
    <2>3. CASE i \in replied.host
      BY <2>1, <2>3
    <2>4. CASE i \notin replied.host
      BY <2>1, <2>2, <2>4 DEF UiCalls!Next, UiCalls!Reply
    <2>5. QED
      BY <2>3, <2>4
  <1>3. ASSUME NEW i \in UiIds, NEW odd \in BOOLEAN, UiAsks(i, odd)
        PROVE  UiCalls!Next
    <2>1. calls[i].stage = "new"
      <3>1. DOMAIN CallStage = UiIds /\ CallStage[i] = calls[i].stage
        BY DEF CallStage
      <3>2. i \notin Begun(CallStage)
        BY <1>3 DEF UiAsks, NextId, UiIds
      <3>3. QED
        BY <3>1, <3>2 DEF Begun
    <2>2. UiStage[i] = "new"
      BY <2>1 DEF UiStage
    <2>3. UiStage' = [UiStage EXCEPT ![i] = "waiting"] /\ replied' = replied
      BY <1>3 DEF UiAsks, UiStage, IInv, UiOK, counts
    <2>4. QED
      BY <2>2, <2>3 DEF UiCalls!Next, UiCalls!Ask
  <1>4. ASSUME NEW i \in UiIds, UiTimeout(i)
        PROVE  UiCalls!Next \/ UNCHANGED <<UiStage, replied.host>>
    <2>1. /\ calls' = [calls EXCEPT ![i] =
                         [stage  |-> IF calls[i].stage = "waiting" THEN "failed"
                                     ELSE calls[i].stage,
                          stored |-> FALSE]]
          /\ replied' = replied
      BY <1>4 DEF UiTimeout, counts, IInv, UiOK
    <2>2. "failed" # "answered" /\ "failed" \in {"answered", "failed"}
      OBVIOUS
    <2>3. QED
      BY <2>1, <2>2, UiWaitSettles, Zenon
  <1>5. CASE UiReceives
    <2>1. Head(events) \in Outbound
      BY <1>5, HeadTailProperties DEF UiReceives, IInv, StdoutOK
    <2>2. replied' = replied
      BY <1>5 DEF UiReceives
    <2>3. CASE Head(events).kind = "response" /\ calls[Head(events).id].stored
      <3>1. PICK i \in UiIds : Head(events).id = i /\ i \in replied.host
        BY <2>1, <2>3 DEF Outbound, IInv, RepliedOK, AskedUi
      <3>2. calls' = [calls EXCEPT ![i] =
                        [stage  |-> IF calls[i].stage = "waiting" THEN "answered"
                                    ELSE calls[i].stage,
                         stored |-> FALSE]]
        BY <1>5, <2>3, <3>1 DEF UiReceives, IInv, UiOK
      <3>3. "answered" \in {"answered", "failed"}
        OBVIOUS
      <3>4. QED
        BY <2>2, <3>1, <3>2, <3>3, UiWaitSettles, Zenon
    <2>4. CASE ~(Head(events).kind = "response" /\ calls[Head(events).id].stored)
      <3>1. calls' = calls
        BY <1>5, <2>4 DEF UiReceives
      <3>2. QED
        BY <1>1, <2>2, <3>1
    <2>5. QED
      BY <2>3, <2>4
  <1>6. CASE Forward
    <2>1. replied' = replied
      BY <1>6 DEF Forward
    <2>2. CASE Head(invokes).kind = "request"
      <3>1. PICK i \in Sending, end \in {"waiting", "failed"} :
              calls' = [calls EXCEPT ![i].stage = end]
        <4>1. Head(invokes).id \in Sending
          BY <1>6, <2>2, ForwardTakes
        <4>2. Sent(Head(invokes)) \in {"waiting", "failed"}
          BY DEF Sent
        <4>3. QED
          BY <1>6, <2>2, <4>1, <4>2 DEF Forward
      <3>2. i \in UiIds /\ UiStage[i] = "waiting"
        BY DEF Sending, UiStage
      <3>3. UiStage' = [c \in UiIds |-> IF c = i THEN end ELSE UiStage[c]]
        BY <3>1 DEF UiStage, IInv, UiOK, Sending
      <3>4. CASE end = "failed"
        BY <2>1, <3>2, <3>3, <3>4, UiSettles
      <3>5. CASE end = "waiting"
        <4>1. UiStage' = UiStage
          BY <3>2, <3>3, <3>5, UiStageType
        <4>2. QED
          BY <2>1, <4>1
      <3>6. QED
        BY <3>4, <3>5
    <2>3. CASE Head(invokes).kind # "request"
      <3>1. calls' = calls
        BY <1>6, <2>3 DEF Forward
      <3>2. QED
        BY <1>1, <2>1, <3>1
    <2>4. QED
      BY <2>2, <2>3
  <1>7. ASSUME NEW i \in HostIds, NEW odd \in BOOLEAN, UserAnswers(i, odd)
        PROVE  UNCHANGED <<UiStage, replied.host>>
    BY <1>7, RepliedType DEF UserAnswers, UiStage
  <1>8. CASE \/ Spawn \/ HostExits \/ HostNotifies \/ ReadLine \/ WindowListens
             \/ (\E i \in HostIds : HostAsks(i) \/ HostTimeout(i) \/ UserDismisses(i))
             \/ (\E s \in Printed : Prints(s))
             \/ (\E k \in 1..Len(stdin) : HostReads(k)) \/ UNCHANGED vars
    <2>1. UNCHANGED <<calls, replied>>
      BY <1>8 DEF Spawn, HostExits, HostNotifies, ReadLine, WindowListens, HostAsks,
                  HostTimeout, UserDismisses, Prints, HostReads, vars, hostVars, uiVars, pipes,
                  counts
    <2>2. QED
      BY <1>1, <2>1
  <1>9. QED
    BY <1>2, <1>3, <1>4, <1>5, <1>6, <1>7, <1>8 DEF Next

\* The requests of the window are calls that settle once, as answered only if
\* the host has answered that very request.
THEOREM UiCallsAreSafe == Spec => UiCalls!SafeSpec
  <1>1. Init => UiCalls!Init
    BY DEF Init, UiCalls!Init, UiStage
  <1>2. QED
    BY <1>1, UiStepRefines, AlwaysInv, PTL DEF Spec, UiCalls!SafeSpec

-----------------------------------------------------------------------------
(* The requests of the host are calls.                                     *)

\* Waits of the host end, none or several at once.
LEMMA HostSettles ==
  ASSUME NEW S \in SUBSET HostIds, NEW end \in {"answered", "failed"},
         \A c \in S : asked[c] = "waiting",
         end = "answered" => S \subseteq replied.ui,
         asked \in [HostIds -> Stages],
         asked' = [c \in HostIds |-> IF c \in S THEN end ELSE asked[c]],
         replied'.ui = replied.ui
  PROVE  HostCalls!Next \/ UNCHANGED <<asked, replied.ui>>
  <1>1. CASE S = {}
    BY <1>1
  <1>2. CASE S # {}
    <2> DEFINE outcome == [c \in S |-> end]
    <2>1. /\ outcome \in [S -> {"answered", "failed"}]
          /\ \A c \in S : outcome[c] = "answered" => c \in replied.ui
          /\ asked' = [c \in HostIds |-> IF c \in S THEN outcome[c] ELSE asked[c]]
      <3>1. \A c \in HostIds : (IF c \in S THEN outcome[c] ELSE asked[c])
                               = (IF c \in S THEN end ELSE asked[c])
        OBVIOUS
      <3>2. QED
        BY <3>1
    <2> HIDE DEF outcome
    <2>2. HostCalls!Settle(S)
      BY <1>2, <2>1 DEF HostCalls!Settle
    <2>3. QED
      BY <2>2 DEF HostCalls!Next
  <1>3. QED
    BY <1>1, <1>2

\* Every step is one of Calls for the host's requests, or none.
LEMMA HostStepRefines ==
  IInv /\ [Next]_vars => [HostCalls!Next]_<<asked, replied.ui>>
  <1> SUFFICES ASSUME IInv, [Next]_vars
               PROVE  HostCalls!Next \/ UNCHANGED <<asked, replied.ui>>
    OBVIOUS
  <1>1. asked \in [HostIds -> Stages]
    BY DEF IInv, HostOK
  <1>2. CASE HostExits
    <2> DEFINE S == {c \in HostIds : asked[c] = "waiting"}
    <2>1. asked' = [c \in HostIds |-> IF c \in S THEN "failed" ELSE asked[c]]
          /\ replied' = replied
      BY <1>2 DEF HostExits, Exits, counts
    <2>2. QED
      BY <1>1, <2>1, HostSettles
  <1>3. ASSUME NEW i \in HostIds, HostAsks(i)
        PROVE  HostCalls!Next
    <2>1. i \notin Begun(asked)
      BY <1>3 DEF HostAsks, NextId, HostIds
    <2>2. asked[i] = "new"
      BY <1>1, <2>1 DEF Begun
    <2>3. QED
      BY <1>3, <2>2 DEF HostAsks, HostCalls!Next, HostCalls!Ask
  <1>4. ASSUME NEW i \in HostIds, HostTimeout(i)
        PROVE  HostCalls!Next \/ UNCHANGED <<asked, replied.ui>>
    <2> DEFINE S == {i}
    <2>1. asked' = [c \in HostIds |-> IF c \in S THEN "failed" ELSE asked[c]]
          /\ replied' = replied /\ \A c \in S : asked[c] = "waiting"
      BY <1>1, <1>4 DEF HostTimeout, counts
    <2>2. S \in SUBSET HostIds
      OBVIOUS
    <2>3. QED
      BY <1>1, <2>1, <2>2, HostSettles
  <1>5. ASSUME NEW k \in 1..Len(stdin), HostReads(k)
        PROVE  HostCalls!Next \/ UNCHANGED <<asked, replied.ui>>
    <2>1. replied' = replied
      BY <1>5 DEF HostReads
    <2>2. PICK ids \in SUBSET replied.ui : asked' = Resolved(ids)
      <3> DEFINE text    == buffer \o SubSeq(stdin, 1, k)
                 decoded == Decode(text)
                 taken   == {text[j] : j \in decoded.messages}
                 ids     == {m.id : m \in {x \in taken : x.kind = "response"}}
      <3>1. taken \subseteq Inbound \ {NL}
        BY TakenFromChunk
      <3>2. (\A m \in taken : ~m.odd) /\ ids \subseteq replied.ui
        <4> HIDE DEF taken
        <4>1. QED
          BY <3>1 DEF Inbound
      <3>3. asked' = Resolved(ids)
        BY <1>5, <3>2, Zenon DEF HostReads
      <3> HIDE DEF ids
      <3>4. QED
        BY <3>2, <3>3
    <2> DEFINE S == {c \in HostIds : c \in ids /\ asked[c] = "waiting"}
    <2>3. asked' = [c \in HostIds |-> IF c \in S THEN "answered" ELSE asked[c]]
          /\ S \subseteq replied.ui
      BY <2>2 DEF Resolved
    <2>4. QED
      BY <1>1, <2>1, <2>3, HostSettles
  <1>6. ASSUME NEW i \in HostIds, NEW odd \in BOOLEAN, UserAnswers(i, odd)
        PROVE  HostCalls!Next \/ UNCHANGED <<asked, replied.ui>>
    <2>1. asked' = asked /\ replied'.ui = replied.ui \union {i}
      BY <1>6, RepliedType DEF UserAnswers, hostVars
    <2>2. asked[i] # "new"
      BY <1>6 DEF UserAnswers, IInv, UiOK, AskedHost
    <2>3. CASE i \in replied.ui
      BY <2>1, <2>3
    <2>4. CASE i \notin replied.ui
      BY <2>1, <2>2, <2>4 DEF HostCalls!Next, HostCalls!Reply
    <2>5. QED
      BY <2>3, <2>4
  <1>7. ASSUME NEW i \in UiIds, HostReplies(i)
        PROVE  UNCHANGED <<asked, replied.ui>>
    BY <1>7, RepliedType DEF HostReplies
  <1>8. CASE \/ Spawn \/ HostNotifies \/ ReadLine \/ WindowListens \/ Forward \/ UiReceives
             \/ (\E i \in HostIds : UserDismisses(i))
             \/ (\E i \in UiIds : UiTimeout(i) \/ \E odd \in BOOLEAN : UiAsks(i, odd))
             \/ (\E s \in Printed : Prints(s)) \/ UNCHANGED vars
    BY <1>8 DEF Spawn, HostNotifies, ReadLine, WindowListens, Forward, UiReceives,
                UserDismisses, UiTimeout, UiAsks, Prints, vars, hostVars, counts
  <1>9. QED
    BY <1>2, <1>3, <1>4, <1>5, <1>6, <1>7, <1>8 DEF Next

\* The requests of the host are calls that settle once, as answered only if
\* the user has answered that very request.
THEOREM HostCallsAreSafe == Spec => HostCalls!SafeSpec
  <1>1. Init => HostCalls!Init
    BY DEF Init, HostCalls!Init
  <1>2. QED
    BY <1>1, HostStepRefines, AlwaysInv, PTL DEF Spec, HostCalls!SafeSpec
=============================================================================
