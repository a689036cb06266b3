------------------------- MODULE HostServices_proofs -------------------------
(***************************************************************************)
(* Proofs about the services of the standalone host, for every value of    *)
(* their constants: its storage, its file system watchers, the items of    *)
(* the workbench and the webviews its extensions make, and the loading of  *)
(* these extensions.                                                       *)
(***************************************************************************)
EXTENDS MCHostServices, SequenceTheorems, TLAPS

-----------------------------------------------------------------------------
(* The inductive invariant.  As long as no two processes have shared the   *)
(* files, the one that runs has in memory, for every key, the last change  *)
(* that was acknowledged or one asked for since, and what it is writing is *)
(* in its memory; a secret that is not in memory is not in the file.       *)

WriteStages == {"idle", "open", "write"}

Writes == [stage : WriteStages, file : Files, key : Keys \union {None},
           value : Values \union {None}, dirty : BOOLEAN]

Recent == [Files -> [Keys -> SUBSET (Values \union {None})]]

\* What may be missing from a file a write of which was cut short
CutShort(f) == IF f \in cut THEN {None} ELSE {}

\* A secret's change that was rejected leaves memory and file apart.
Apart(f) == f = "secrets" /\ f \in rejected

MemoryRecent(p) ==
  \A f \in Files, k \in Keys : ~Apart(f) => memory[p][f][k] \in recent[f][k] \union CutShort(f)

InMemory(p) ==
  LET w == writing[p]
  IN w.stage # "idle" => w.key \in Keys /\ memory[p][w.file][w.key] = w.value

SecretsInStep(p) ==
  /\ "secrets" \notin rejected
  /\ writing[p].stage = "idle" \/ writing[p].file # "secrets"
  => memory[p]["secrets"] = file["secrets"]

ProcessOK(p) ==
  /\ ~writing[p].dirty
  /\ MemoryRecent(p)
  /\ InMemory(p)
  /\ SecretsInStep(p)

RunsAlone ==
  ~shared => /\ \A p, q \in running : p = q
             /\ \A p \in running : ProcessOK(p)

StoppedIdle ==
  \A p \in Processes : /\ p \notin running => writing[p].stage = "idle"
                       /\ writing[p].stage = "idle" => ~writing[p].dirty

StorageTyped ==
  /\ running \subseteq Processes
  /\ memory \in [Processes -> [Files -> Objects]]
  /\ writing \in [Processes -> Writes]
  /\ file \in [Files -> Objects]
  /\ recent \in Recent
  /\ cut \subseteq Files /\ rejected \subseteq Files
  /\ shared \in BOOLEAN
  /\ starts \in Nat /\ updates \in Nat

StorageInv == StorageTyped /\ StoppedIdle /\ RunsAlone /\ AckedIsStored

-----------------------------------------------------------------------------
\* The invariant of the storage says what the theorems say.
LEMMA StorageInvImplies == StorageInv => StorageTypeOK /\ AckedIsStored
  BY DEF StorageInv, StorageTyped, StorageTypeOK, Writes, WriteStages, Recent

\* Nothing is stored yet.
LEMMA InitStorage == StorageInit => StorageInv
  <1> SUFFICES ASSUME StorageInit PROVE StorageInv
    OBVIOUS
  <1>1. Empty \in Objects /\ Idle \in Writes
    BY DEF Empty, Objects, Idle, Writes, WriteStages, Files
  <1>2. StorageTyped
    BY <1>1 DEF StorageInit, StorageTyped, Recent
  <1>3. StoppedIdle /\ RunsAlone
    BY DEF StorageInit, StoppedIdle, RunsAlone, Idle
  <1>4. AckedIsStored
    BY DEF StorageInit, AckedIsStored, Empty
  <1>5. QED
    BY <1>2, <1>3, <1>4 DEF StorageInv

\* A process that does something while none has shared the files is the only
\* one that runs.
LEMMA OnlyProcess ==
  ASSUME StorageInv, ~shared, NEW p \in Processes,
         p \in running \/ writing[p].stage # "idle"
  PROVE  /\ running = {p} /\ ProcessOK(p)
         /\ \A q \in Processes : q # p => writing[q].stage = "idle"
  <1>1. p \in running
    BY DEF StorageInv, StoppedIdle
  <1>2. QED
    BY <1>1 DEF StorageInv, RunsAlone, StoppedIdle, StorageTyped

-----------------------------------------------------------------------------
(* The steps.                                                              *)

\* A process that starts alone reads the files; nothing is being written.
LEMMA StartInv ==
  ASSUME StorageInv, NEW p \in Processes, Start(p)
  PROVE  StorageInv'
  <1>1. /\ running' = running \union {p} /\ p \notin running
        /\ memory' = [memory EXCEPT ![p] = file]
        /\ shared' = (shared \/ running # {}) /\ starts' = starts + 1
        /\ UNCHANGED <<writing, file, recent, cut, rejected, updates>>
    BY DEF Start, Loaded
  <1>2. StorageTyped'
    BY <1>1 DEF StorageInv, StorageTyped
  <1>3. StoppedIdle'
    BY <1>1 DEF StorageInv, StoppedIdle
  <1>4. AckedIsStored'
    BY <1>1 DEF StorageInv, AckedIsStored, Disturbed
  <1>5. RunsAlone'
    <2>1. SUFFICES ASSUME ~shared' PROVE running' = {p} /\ ProcessOK(p)'
      BY DEF RunsAlone
    <2>2. ~shared /\ running = {} /\ running' = {p}
      BY <1>1, <2>1 DEF StorageInv, StorageTyped
    <2>3. \A q \in Processes : writing[q].stage = "idle"
      BY <2>2 DEF StorageInv, StoppedIdle
    <2>4. \A f \in Files, k \in Keys : ~Apart(f) => file[f][k] \in recent[f][k] \union CutShort(f)
      BY <2>2, <2>3 DEF StorageInv, AckedIsStored, Disturbed, Apart, CutShort
    <2>5. memory'[p] = file
      BY <1>1 DEF StorageInv, StorageTyped
    <2>6. ~writing[p].dirty
      BY <2>3 DEF StorageInv, StoppedIdle
    <2>7. QED
      BY <1>1, <2>2, <2>3, <2>4, <2>5, <2>6
      DEF ProcessOK, MemoryRecent, InMemory, SecretsInStep, Apart, CutShort
  <1>6. QED
    BY <1>2, <1>3, <1>4, <1>5 DEF StorageInv

\* A change: memory has it, and it may be what the file holds from now on.
LEMMA ChangeInv ==
  ASSUME StorageInv, NEW p \in Processes, NEW f \in Files, NEW k \in Keys,
         NEW v \in Values \union {None}, Change(p, f, k, v)
  PROVE  StorageInv'
  <1>1. /\ p \in running /\ writing[p].stage = "idle"
        /\ memory' = [memory EXCEPT ![p][f] = [memory[p][f] EXCEPT ![k] = v]]
        /\ recent' = [recent EXCEPT ![f][k] = recent[f][k] \union {v}]
        /\ writing' = [writing EXCEPT ![p] = [stage |-> "open", file |-> f, key |-> k,
                                             value |-> v, dirty |-> FALSE]]
        /\ updates' = updates + 1
        /\ UNCHANGED <<running, file, cut, rejected, shared, starts>>
    BY DEF Change, Ready, Changed
  <1>2. /\ memory[p][f] \in Objects
        /\ memory'[p][f] = [memory[p][f] EXCEPT ![k] = v]
        /\ memory' \in [Processes -> [Files -> Objects]]
        /\ \A g \in Files : g # f => memory'[p][g] = memory[p][g]
    <2>1. memory[p] \in [Files -> Objects] /\ memory[p][f] \in Objects
      BY DEF StorageInv, StorageTyped
    <2>2. [memory[p][f] EXCEPT ![k] = v] \in Objects
      BY <2>1 DEF Objects
    <2>3. QED
      BY <1>1, <2>1, <2>2 DEF StorageInv, StorageTyped
  <1>3. /\ recent' \in Recent
        /\ recent'[f][k] = recent[f][k] \union {v}
        /\ \A g \in Files, j \in Keys : g # f \/ j # k => recent'[g][j] = recent[g][j]
        /\ \A g \in Files, j \in Keys : recent[g][j] \subseteq recent'[g][j]
    BY <1>1 DEF StorageInv, StorageTyped, Recent
  <1>4. /\ writing' \in [Processes -> Writes]
        /\ writing'[p] = [stage |-> "open", file |-> f, key |-> k, value |-> v, dirty |-> FALSE]
        /\ \A q \in Processes : q # p => writing'[q] = writing[q]
    BY <1>1 DEF StorageInv, StorageTyped, Writes, WriteStages
  <1>5. StorageTyped'
    BY <1>1, <1>2, <1>3, <1>4 DEF StorageInv, StorageTyped
  <1>6. StoppedIdle'
    BY <1>1, <1>4 DEF StorageInv, StoppedIdle
  <1>7. AckedIsStored'
    <2>1. \A g \in Files : (\E q \in Processes : writing[q].stage = "write" /\ writing[q].file = g)
            => \E q \in Processes : writing'[q].stage = "write" /\ writing'[q].file = g
      BY <1>1, <1>4
    <2>2. QED
      BY <1>1, <1>3, <2>1 DEF StorageInv, AckedIsStored, Disturbed
  <1>8. RunsAlone'
    <2>1. SUFFICES ASSUME ~shared' PROVE running' = {p} /\ ProcessOK(p)'
      BY DEF RunsAlone
    <2>2. running = {p} /\ ProcessOK(p)
      BY <1>1, <2>1, OnlyProcess
    <2>3. MemoryRecent(p)'
      <3>1. memory'[p][f][k] = v
        BY <1>2 DEF Objects
      <3>2. \A j \in Keys : j # k => memory'[p][f][j] = memory[p][f][j]
        BY <1>2 DEF Objects
      <3>3. \A g \in Files, j \in Keys : g # f \/ j # k => memory'[p][g][j] = memory[p][g][j]
        BY <1>2, <3>2
      <3>4. QED
        BY <1>1, <1>3, <2>2, <3>1, <3>3 DEF ProcessOK, MemoryRecent, Apart, CutShort
    <2>4. InMemory(p)'
      BY <1>2, <1>4 DEF InMemory, Objects
    <2>5. SecretsInStep(p)'
      BY <1>1, <1>2, <1>4, <2>2 DEF ProcessOK, SecretsInStep, Files
    <2>6. QED
      BY <1>1, <1>4, <2>2, <2>3, <2>4, <2>5 DEF ProcessOK
  <1>9. QED
    BY <1>5, <1>6, <1>7, <1>8 DEF StorageInv

\* Deleting a secret there is not: alone, the file does not have it either.
LEMMA SecretDeleteAbsentInv ==
  ASSUME StorageInv, NEW p \in Processes, NEW k \in Keys, SecretDeleteAbsent(p, k)
  PROVE  StorageInv'
  <1>1. /\ p \in running /\ writing[p].stage = "idle"
        /\ memory[p]["secrets"][k] = None
        /\ recent' = [recent EXCEPT !["secrets"][k] = {None}]
        /\ updates' = updates + 1
        /\ UNCHANGED <<running, memory, writing, file, cut, rejected, shared, starts>>
    BY DEF SecretDeleteAbsent, Ready
  <1>2. /\ recent' \in Recent /\ recent'["secrets"][k] = {None}
        /\ \A g \in Files, j \in Keys : g # "secrets" \/ j # k => recent'[g][j] = recent[g][j]
    BY <1>1 DEF StorageInv, StorageTyped, Recent, Files
  <1>3. StorageTyped' /\ StoppedIdle'
    BY <1>1, <1>2 DEF StorageInv, StorageTyped, StoppedIdle
  <1>4. ~shared /\ "secrets" \notin rejected => file["secrets"][k] = None
    <2>1. SUFFICES ASSUME ~shared, "secrets" \notin rejected PROVE file["secrets"][k] = None
      OBVIOUS
    <2>2. ProcessOK(p)
      BY <1>1, <2>1, OnlyProcess
    <2>3. memory[p]["secrets"] = file["secrets"]
      BY <1>1, <2>1, <2>2 DEF ProcessOK, SecretsInStep
    <2>4. QED
      BY <1>1, <2>3
  <1>5. AckedIsStored'
    BY <1>1, <1>2, <1>4 DEF StorageInv, AckedIsStored, Disturbed
  <1>6. RunsAlone'
    <2>1. SUFFICES ASSUME ~shared' PROVE running' = {p} /\ ProcessOK(p)'
      BY DEF RunsAlone
    <2>2. running = {p} /\ ProcessOK(p)
      BY <1>1, <2>1, OnlyProcess
    <2>3. QED
      BY <1>1, <1>2, <2>2
      DEF ProcessOK, MemoryRecent, InMemory, SecretsInStep, Apart, CutShort
  <1>7. QED
    BY <1>3, <1>5, <1>6 DEF StorageInv

\* The file is opened and so emptied: what is missing now is being written.
LEMMA OpenInv ==
  ASSUME StorageInv, NEW p \in Processes, Open(p)
  PROVE  StorageInv'
  <1>0. PICK f : f = writing[p].file
    OBVIOUS
  <1>1. /\ writing[p].stage = "open" /\ f \in Files
        /\ writing' = [writing EXCEPT ![p].stage = "write"]
        /\ file' = [file EXCEPT ![f] = Empty]
        /\ UNCHANGED <<running, memory, recent, cut, rejected, shared, starts, updates>>
    BY <1>0 DEF Open, StorageInv, StorageTyped, Writes
  <1>2. /\ writing' \in [Processes -> Writes]
        /\ writing'[p].stage = "write" /\ writing'[p].file = f
        /\ writing'[p].key = writing[p].key /\ writing'[p].value = writing[p].value
        /\ writing'[p].dirty = writing[p].dirty
        /\ \A q \in Processes : q # p => writing'[q] = writing[q]
    BY <1>0, <1>1 DEF StorageInv, StorageTyped, Writes, WriteStages
  <1>3. /\ file' \in [Files -> Objects]
        /\ \A k \in Keys : file'[f][k] = None
        /\ \A g \in Files : g # f => file'[g] = file[g]
    BY <1>1 DEF StorageInv, StorageTyped, Objects, Empty
  <1>4. StorageTyped' /\ StoppedIdle'
    BY <1>1, <1>2, <1>3 DEF StorageInv, StorageTyped, StoppedIdle
  <1>5. AckedIsStored'
    <2>1. \A g \in Files : (\E q \in Processes : writing[q].stage = "write" /\ writing[q].file = g)
            => \E q \in Processes : writing'[q].stage = "write" /\ writing'[q].file = g
      BY <1>1, <1>2
    <2>2. QED
      BY <1>1, <1>2, <1>3, <2>1 DEF StorageInv, AckedIsStored, Disturbed
  <1>6. RunsAlone'
    <2>1. SUFFICES ASSUME ~shared' PROVE running' = {p} /\ ProcessOK(p)'
      BY DEF RunsAlone
    <2>2. running = {p} /\ ProcessOK(p)
      BY <1>1, <2>1, OnlyProcess
    <2>3. MemoryRecent(p)' /\ InMemory(p)'
      BY <1>0, <1>1, <1>2, <2>2 DEF ProcessOK, MemoryRecent, InMemory, Apart, CutShort
    <2>4. SecretsInStep(p)'
      BY <1>0, <1>1, <1>2, <1>3, <2>2 DEF ProcessOK, SecretsInStep, Files
    <2>5. QED
      BY <1>1, <1>2, <2>2, <2>3, <2>4 DEF ProcessOK
  <1>7. QED
    BY <1>4, <1>5, <1>6 DEF StorageInv

\* The write ends and the change is acknowledged: alone, the file is what the
\* process has in memory.
LEMMA FinishInv ==
  ASSUME StorageInv, NEW p \in Processes, Finish(p)
  PROVE  StorageInv'
  <1>0. PICK w : w = writing[p]
    OBVIOUS
  <1>1. PICK content \in {memory[p][w.file]} \union (IF w.dirty THEN {Empty} ELSE {}) :
          file' = [file EXCEPT ![w.file] = content]
    BY <1>0 DEF Finish, Content
  <1>2. /\ w.stage = "write" /\ w \in Writes /\ w.file \in Files
        /\ recent' = [recent EXCEPT ![w.file][w.key] = {w.value}]
        /\ UNCHANGED <<running, memory, cut, rejected, shared, starts, updates>>
    BY <1>0 DEF Finish, StorageInv, StorageTyped, Writes
  <1>3. content \in Objects
    BY <1>1, <1>2 DEF StorageInv, StorageTyped, Empty, Objects
  <1>4. /\ file' \in [Files -> Objects] /\ file'[w.file] = content
        /\ \A g \in Files : g # w.file => file'[g] = file[g]
    BY <1>1, <1>2, <1>3 DEF StorageInv, StorageTyped
  <1>5. Idle \in Writes /\ Idle.stage = "idle" /\ ~Idle.dirty
    BY DEF Idle, Writes, WriteStages, Files
  <1>6. /\ writing' \in [Processes -> Writes] /\ writing'[p] = Idle
        /\ \A q \in Processes : q # p => /\ writing'[q].stage = writing[q].stage
                                         /\ writing'[q].file = writing[q].file
                                         /\ writing[q].stage = "idle" => writing'[q] = writing[q]
    <2>1. writing' = [q \in Processes |->
                        IF q = p THEN Idle
                        ELSE IF writing[q].stage = "write" /\ writing[q].file = w.file
                             THEN [writing[q] EXCEPT !.dirty = TRUE] ELSE writing[q]]
      BY <1>0 DEF Finish
    <2>2. \A q \in Processes : writing[q] \in Writes
      BY DEF StorageInv, StorageTyped
    <2>3. QED
      BY <1>5, <2>1, <2>2 DEF Writes
  <1>7. /\ recent' \in Recent
        /\ w.key \in Keys => recent'[w.file][w.key] = {w.value}
        /\ \A g \in Files, j \in Keys : g # w.file \/ j # w.key => recent'[g][j] = recent[g][j]
    BY <1>2 DEF StorageInv, StorageTyped, Recent, Writes
  <1>8. StorageTyped' /\ StoppedIdle'
    BY <1>2, <1>4, <1>5, <1>6, <1>7 DEF StorageInv, StorageTyped, StoppedIdle
  <1>9. ASSUME ~shared
        PROVE  /\ running = {p} /\ ProcessOK(p) /\ content = memory[p][w.file]
               /\ w.key \in Keys /\ memory[p][w.file][w.key] = w.value
               /\ \A q \in Processes : q # p => writing[q].stage = "idle"
    <2>1. /\ running = {p} /\ ProcessOK(p)
          /\ \A q \in Processes : q # p => writing[q].stage = "idle"
      BY <1>0, <1>2, <1>9, OnlyProcess
    <2>2. content = memory[p][w.file]
      BY <1>0, <1>1, <2>1 DEF ProcessOK
    <2>3. QED
      BY <1>0, <1>2, <2>1, <2>2 DEF ProcessOK, InMemory
  <1>10. AckedIsStored'
    <2>1. SUFFICES ASSUME ~shared, NEW f \in Files, NEW k \in Keys, ~Apart(f)
                   PROVE  file'[f][k] \in recent'[f][k] \union CutShort(f)
      BY <1>2 DEF AckedIsStored, Disturbed, Apart, CutShort
    <2>2. CASE f = w.file /\ k = w.key
      BY <1>4, <1>7, <1>9, <2>1, <2>2
    <2>3. CASE f = w.file /\ k # w.key
      BY <1>4, <1>7, <1>9, <2>1, <2>3 DEF ProcessOK, MemoryRecent
    <2>4. CASE f # w.file
      <3>1. \A q \in Processes : ~(writing[q].stage = "write" /\ writing[q].file = f)
        BY <1>0, <1>9, <2>1, <2>4
      <3>2. file[f][k] \in recent[f][k] \union CutShort(f)
        BY <2>1, <3>1 DEF StorageInv, AckedIsStored, Disturbed, Apart, CutShort
      <3>3. QED
        BY <1>4, <1>7, <2>4, <3>2
    <2>5. QED
      BY <2>2, <2>3, <2>4
  <1>11. RunsAlone'
    <2>1. SUFFICES ASSUME ~shared' PROVE running' = {p} /\ ProcessOK(p)'
      BY DEF RunsAlone
    <2>2. /\ running = {p} /\ ProcessOK(p) /\ content = memory[p][w.file]
          /\ w.key \in Keys /\ memory[p][w.file][w.key] = w.value
      BY <1>2, <1>9, <2>1
    <2>3. MemoryRecent(p)'
      BY <1>2, <1>7, <2>2 DEF ProcessOK, MemoryRecent, Apart, CutShort
    <2>4. InMemory(p)'
      BY <1>5, <1>6 DEF InMemory
    <2>5. SecretsInStep(p)'
      <3>1. w.file = "secrets" => memory[p]["secrets"] = file'["secrets"]
        BY <1>4, <2>2
      <3>2. w.file # "secrets" => file'["secrets"] = file["secrets"]
        BY <1>4 DEF Files
      <3>3. QED
        BY <1>0, <1>2, <2>2, <3>1, <3>2 DEF ProcessOK, SecretsInStep
    <2>6. QED
      BY <1>2, <1>5, <1>6, <2>2, <2>3, <2>4, <2>5 DEF ProcessOK
  <1>12. QED
    BY <1>8, <1>10, <1>11 DEF StorageInv

\* A write that is rejected or ends with its process: what it emptied is cut.
LEMMA CutKeeps ==
  ASSUME StorageInv, NEW p \in Processes, cut' = Cut(p),
         writing' = [writing EXCEPT ![p] = Idle],
         UNCHANGED <<file, recent, shared>>, rejected \subseteq rejected'
  PROVE  /\ AckedIsStored'
         /\ writing' \in [Processes -> Writes] /\ cut' \subseteq Files /\ cut \subseteq cut'
         /\ writing'[p].stage = "idle" /\ ~writing'[p].dirty
         /\ \A q \in Processes : q # p => writing'[q] = writing[q]
  <1>1. Idle \in Writes /\ Idle.stage = "idle" /\ ~Idle.dirty
    BY DEF Idle, Writes, WriteStages, Files
  <1>2. /\ writing' \in [Processes -> Writes] /\ writing'[p] = Idle
        /\ \A q \in Processes : q # p => writing'[q] = writing[q]
    BY <1>1 DEF StorageInv, StorageTyped
  <1>3. /\ cut' \subseteq Files /\ cut \subseteq cut'
        /\ writing[p].stage = "write" => writing[p].file \in cut'
    BY DEF Cut, StorageInv, StorageTyped, Writes
  <1>4. \A f \in Files :
          f \in cut \/ (\E q \in Processes : writing[q].stage = "write" /\ writing[q].file = f)
          => f \in cut' \/ \E q \in Processes : writing'[q].stage = "write" /\ writing'[q].file = f
    BY <1>2, <1>3
  <1>5. AckedIsStored'
    BY <1>4 DEF StorageInv, AckedIsStored, Disturbed
  <1>6. QED
    BY <1>1, <1>2, <1>3, <1>5

\* A write that fails may leave its file cut short, and its caller is told.
LEMMA FailInv ==
  ASSUME StorageInv, NEW p \in Processes, Fail(p)
  PROVE  StorageInv'
  <1>1. /\ writing[p].stage # "idle" /\ cut' = Cut(p)
        /\ rejected' = rejected \union {writing[p].file}
        /\ writing' = [writing EXCEPT ![p] = Idle]
        /\ UNCHANGED <<running, memory, file, recent, shared, starts, updates>>
    BY DEF Fail
  <1>2. /\ AckedIsStored'
        /\ writing' \in [Processes -> Writes] /\ cut' \subseteq Files /\ cut \subseteq cut'
        /\ writing'[p].stage = "idle" /\ ~writing'[p].dirty
        /\ \A q \in Processes : q # p => writing'[q] = writing[q]
    BY <1>1, CutKeeps
  <1>3. rejected' \subseteq Files
    BY <1>1 DEF StorageInv, StorageTyped, Writes
  <1>4. StorageTyped' /\ StoppedIdle'
    BY <1>1, <1>2, <1>3 DEF StorageInv, StorageTyped, StoppedIdle
  <1>5. RunsAlone'
    <2>1. SUFFICES ASSUME ~shared' PROVE running' = {p} /\ ProcessOK(p)'
      BY DEF RunsAlone
    <2>2. running = {p} /\ ProcessOK(p)
      BY <1>1, <2>1, OnlyProcess
    <2>3. MemoryRecent(p)'
      BY <1>1, <1>2, <2>2 DEF ProcessOK, MemoryRecent, Apart, CutShort
    <2>4. InMemory(p)'
      BY <1>2 DEF InMemory
    <2>5. SecretsInStep(p)'
      BY <1>1, <1>2, <2>2 DEF ProcessOK, SecretsInStep
    <2>6. QED
      BY <1>1, <1>2, <2>2, <2>3, <2>4, <2>5 DEF ProcessOK
  <1>6. QED
    BY <1>2, <1>4, <1>5 DEF StorageInv

\* A crash may cut short what was being written, and loses what was not.
LEMMA CrashInv ==
  ASSUME StorageInv, NEW p \in Processes, Crash(p)
  PROVE  StorageInv'
  <1>1. /\ p \in running /\ cut' = Cut(p)
        /\ writing' = [writing EXCEPT ![p] = Idle]
        /\ running' = running \ {p}
        /\ memory' = [memory EXCEPT ![p] = [f \in Files |-> Empty]]
        /\ UNCHANGED <<file, recent, rejected, shared, starts, updates>>
    BY DEF Crash
  <1>2. /\ AckedIsStored'
        /\ writing' \in [Processes -> Writes] /\ cut' \subseteq Files /\ cut \subseteq cut'
        /\ writing'[p].stage = "idle" /\ ~writing'[p].dirty
        /\ \A q \in Processes : q # p => writing'[q] = writing[q]
    BY <1>1, CutKeeps
  <1>3. memory' \in [Processes -> [Files -> Objects]]
    BY <1>1 DEF StorageInv, StorageTyped, Objects, Empty
  <1>4. StorageTyped' /\ StoppedIdle'
    BY <1>1, <1>2, <1>3 DEF StorageInv, StorageTyped, StoppedIdle
  <1>5. RunsAlone'
    <2>1. ~shared' => running' = {}
      BY <1>1, OnlyProcess
    <2>2. QED
      BY <2>1 DEF RunsAlone
  <1>6. QED
    BY <1>2, <1>4, <1>5 DEF StorageInv

\* Every step of the storage keeps what was acknowledged.
LEMMA StorageStepInv ==
  ASSUME StorageInv, [StorageNext]_storageVars
  PROVE  StorageInv'
  <1>1. CASE UNCHANGED storageVars
    BY <1>1 DEF storageVars, StorageInv, StorageTyped, StoppedIdle, RunsAlone, ProcessOK, MemoryRecent,
                InMemory, SecretsInStep, Apart, CutShort, AckedIsStored, Disturbed
  <1>2. ASSUME NEW p \in Processes, NEW k \in Keys, NEW v \in Values \union {None},
               MementoUpdate(p, k, v) \/ SecretStore(p, k, v) \/ SecretDelete(p, k)
        PROVE  StorageInv'
    <2>1. Change(p, "state", k, v) \/ Change(p, "secrets", k, v) \/ Change(p, "secrets", k, None)
      BY <1>2 DEF MementoUpdate, SecretStore, SecretDelete
    <2>2. "state" \in Files /\ "secrets" \in Files /\ None \in Values \union {None}
      BY DEF Files
    <2>3. QED
      BY <2>1, <2>2, ChangeInv
  <1>3. ASSUME NEW p \in Processes, NEW k \in Keys, SecretDeleteAbsent(p, k) PROVE StorageInv'
    BY <1>3, SecretDeleteAbsentInv
  <1>4. ASSUME NEW p \in Processes, Start(p) \/ Open(p) \/ Finish(p) \/ Fail(p) \/ Crash(p)
        PROVE  StorageInv'
    BY <1>4, StartInv, OpenInv, FinishInv, FailInv, CrashInv
  <1>5. QED
    BY <1>1, <1>2, <1>3, <1>4 DEF StorageNext

-----------------------------------------------------------------------------
\* The variables of the processes and of the files keep their types
\* (createExtensionContext, FileSecretStorage).
THEOREM StorageTypeCorrect == StorageSpec => []StorageTypeOK
  <1>1. StorageInv /\ [StorageNext]_storageVars => StorageInv'
    BY StorageStepInv
  <1>2. QED
    BY InitStorage, <1>1, StorageInvImplies, PTL DEF StorageSpec

\* For every set of processes, keys and values: what an extension was told is
\* stored is what the next process reads, whatever crashes and failed writes
\* come between, but for values that a write cut short has lost, and unless
\* two processes have shared the files (PersistentMemento.update,
\* FileSecretStorage.store and delete).
THEOREM AckedStaysStored == StorageSpec => []AckedIsStored
  <1>1. StorageInv /\ [StorageNext]_storageVars => StorageInv'
    BY StorageStepInv
  <1>2. QED
    BY InitStorage, <1>1, StorageInvImplies, PTL DEF StorageSpec

-----------------------------------------------------------------------------
(* The inductive invariant of FileWatch.  ListenerAgrees compares the      *)
(* listener's copies with the disk; what emitPathChange keeps, also of a   *)
(* path that has changed since, is that they agree with knownPaths, and    *)
(* that knownPaths is right about a path nothing is under way for.         *)

\* What the listener has agrees with what the watcher knows.
CopyOfKnown(p) ==
  /\ "delete" \notin ignore => (knownPaths[p] \/ view[p] = Absent)
  /\ "create" \notin ignore => (~knownPaths[p] \/ view[p] # Absent)

\* What the watcher knows of a path is true, and the copy of it is current.
Current(p) ==
  /\ knownPaths[p] = There(p)
  /\ {"create", "change"} \intersect ignore = {} => (There(p) => view[p] = disk[p])

HeardOf(p) == p \notin reports \union pendingPaths \union unheard

WatchInv ==
  /\ WatchTypeOK
  /\ \A p \in Paths : CopyOfKnown(p)
  /\ stage \in {"snapshot", "watching"} => \A p \in Paths : HeardOf(p) => Current(p)

\* The invariant gives what the run checks of the listener's copies.
LEMMA WatchInvImplies == WatchInv => WatchTypeOK /\ ListenerAgrees
  <1> SUFFICES ASSUME WatchInv PROVE WatchTypeOK /\ ListenerAgrees
    OBVIOUS
  <1>1. WatchTypeOK
    BY DEF WatchInv
  <1>2. ListenerAgrees
    <2> SUFFICES ASSUME stage = "watching",
                        NEW p \in Paths \ (reports \union pendingPaths \union unheard)
                 PROVE Agrees(p)
      BY DEF ListenerAgrees
    <2>1. CopyOfKnown(p) /\ Current(p)
      BY DEF WatchInv, HeardOf
    <2> QED BY <2>1 DEF CopyOfKnown, Current, Agrees
  <1> QED BY <1>1, <1>2

\* The invariant holds before snapshotKnownPaths has run.
LEMMA InitWatch == WatchInit => WatchInv
  <1> SUFFICES ASSUME WatchInit PROVE WatchInv
    OBVIOUS
  <1>1. WatchTypeOK
    BY FileWatchAssumption
    DEF WatchInit, WatchTypeOK, Contents, Absent, EventKinds
  <1>2. \A p \in Paths : CopyOfKnown(p)
    BY DEF WatchInit, CopyOfKnown
  <1> QED BY <1>1, <1>2 DEF WatchInit, WatchInv

\* Every step of FileWatch has the types of its variables.
LEMMA WatchStepTypes == WatchTypeOK /\ WatchNext => WatchTypeOK'
  <1> SUFFICES ASSUME WatchTypeOK, WatchNext PROVE WatchTypeOK'
    OBVIOUS
  <1> USE FileWatchAssumption DEF WatchTypeOK
  <1>1. CASE MakeBase
    BY <1>1 DEF MakeBase
  <1>2. CASE SnapshotKnownPaths
    BY <1>2 DEF SnapshotKnownPaths, Snapshot, There
  <1>3. CASE StartWatching
    BY <1>3 DEF StartWatching
  <1>4. ASSUME NEW p \in Paths, Edit(p) PROVE WatchTypeOK'
    <2>1. edits + 1 \in Contents /\ Absent \in Contents
      BY <1>4 DEF Edit, Contents, Absent
    <2>2. disk' \in [Paths -> Contents]
      BY <1>4, <2>1 DEF Edit
    <2>3. edits' \in 0..MaxEdits
      BY <1>4 DEF Edit
    <2>4. reports' \subseteq Paths /\ unheard' \subseteq Paths
      BY <1>4 DEF Edit
    <2> QED BY <1>4, <2>2, <2>3, <2>4 DEF Edit
  <1>5. ASSUME NEW p \in Paths, QueuePath(p) PROVE WatchTypeOK'
    BY <1>5 DEF QueuePath
  <1>6. ASSUME NEW p \in Paths, DropUnnamed(p) PROVE WatchTypeOK'
    BY <1>6 DEF DropUnnamed
  <1>7. ASSUME NEW p \in Paths, EmitPathChange(p) PROVE WatchTypeOK'
    <2>1. Known(p) \in BOOLEAN
      BY DEF Known, There
    <2>2. knownPaths' \in [Paths -> BOOLEAN]
      BY <1>7, <2>1 DEF EmitPathChange
    <2>3. view' \in [Paths -> Contents]
      BY <1>7 DEF EmitPathChange
    <2> QED BY <1>7, <2>2, <2>3 DEF EmitPathChange
  <1>8. CASE Stop
    BY <1>8 DEF Stop
  <1> QED BY <1>1, <1>2, <1>3, <1>4, <1>5, <1>6, <1>7, <1>8 DEF WatchNext

\* What emitPathChange tells the listener brings its copy in step with what
\* the watcher knows then.
LEMMA EmittedInStep ==
  ASSUME WatchTypeOK, NEW p \in Paths, EmitPathChange(p), CopyOfKnown(p)
  PROVE  CopyOfKnown(p)' /\ Current(p)'
  <1> USE DEF WatchTypeOK
  <1>1. /\ knownPaths'[p] = There(p) /\ There(p)' = There(p)
        /\ disk' = disk /\ ignore' = ignore
    BY DEF EmitPathChange, Known, There
  <1>2. There(p) <=> disk[p] # Absent
    BY DEF There
  <1>3. Event(p) = IF There(p) THEN IF knownPaths[p] THEN "change" ELSE "create"
                               ELSE IF knownPaths[p] THEN "delete" ELSE "none"
    BY DEF Event
  <1>4. view'[p] = IF Event(p) \in EventKinds \ ignore THEN disk[p] ELSE view[p]
    BY DEF EmitPathChange
  <1>5. CASE There(p) /\ knownPaths[p]
    BY <1>1, <1>2, <1>3, <1>4, <1>5 DEF CopyOfKnown, Current, EventKinds
  <1>6. CASE There(p) /\ ~knownPaths[p]
    BY <1>1, <1>2, <1>3, <1>4, <1>6 DEF CopyOfKnown, Current, EventKinds
  <1>7. CASE ~There(p) /\ knownPaths[p]
    BY <1>1, <1>2, <1>3, <1>4, <1>7 DEF CopyOfKnown, Current, EventKinds
  <1>8. CASE ~There(p) /\ ~knownPaths[p]
    BY <1>1, <1>2, <1>3, <1>4, <1>8 DEF CopyOfKnown, Current, EventKinds
  <1> QED BY <1>5, <1>6, <1>7, <1>8

\* Every step of FileWatch keeps the invariant.
LEMMA WatchStepInv == WatchInv /\ [WatchNext]_watchVars => WatchInv'
  <1> SUFFICES ASSUME WatchInv, [WatchNext]_watchVars PROVE WatchInv'
    OBVIOUS
  <1>0. WatchTypeOK
    BY DEF WatchInv
  <1>1. CASE MakeBase
    BY <1>0, <1>1, WatchStepTypes
    DEF WatchNext, MakeBase, WatchInv, CopyOfKnown, Current, HeardOf, There
  <1>2. CASE SnapshotKnownPaths
    <2>1. ASSUME NEW p \in Paths PROVE CopyOfKnown(p)' /\ Current(p)'
      <3>1. knownPaths'[p] = There(p)' /\ view'[p] = disk'[p]
        BY <1>2 DEF SnapshotKnownPaths, Snapshot, There
      <3>2. knownPaths'[p] <=> disk'[p] # Absent
        BY <3>1 DEF There
      <3> QED BY <3>1, <3>2 DEF CopyOfKnown, Current, There
    <2>2. \A p \in Paths : CopyOfKnown(p)' /\ Current(p)'
      BY <2>1
    <2> QED BY <1>0, <1>2, <2>2, WatchStepTypes DEF WatchNext, WatchInv
  <1>3. CASE StartWatching
    BY <1>0, <1>3, WatchStepTypes
    DEF WatchNext, StartWatching, WatchInv, CopyOfKnown, Current, HeardOf, There
  <1>4. ASSUME NEW p \in Paths, Edit(p) PROVE WatchInv'
    <2>1. \A q \in Paths : CopyOfKnown(q)'
      BY <1>4 DEF Edit, WatchInv, CopyOfKnown
    <2>2. ASSUME stage' \in {"snapshot", "watching"}, NEW q \in Paths, HeardOf(q)'
          PROVE Current(q)'
      <3>1. q # p /\ HeardOf(q)
        BY <1>4, <2>2 DEF Edit, HeardOf
      <3>2. disk'[q] = disk[q] /\ There(q)' = There(q)
        BY <1>0, <1>4, <3>1 DEF Edit, WatchTypeOK, There
      <3>3. Current(q)
        BY <1>4, <2>2, <3>1 DEF Edit, WatchInv
      <3> QED BY <1>4, <3>2, <3>3 DEF Edit, Current
    <2> QED BY <1>0, <1>4, <2>1, <2>2, WatchStepTypes DEF WatchNext, WatchInv
  <1>5. ASSUME NEW p \in Paths, QueuePath(p) \/ DropUnnamed(p) PROVE WatchInv'
    BY <1>0, <1>5, WatchStepTypes
    DEF WatchNext, QueuePath, DropUnnamed, WatchInv, CopyOfKnown, Current, HeardOf, There
  <1>6. ASSUME NEW p \in Paths, EmitPathChange(p) PROVE WatchInv'
    <2>1. CopyOfKnown(p)' /\ Current(p)'
      BY <1>0, <1>6, EmittedInStep DEF WatchInv
    <2>2. ASSUME NEW q \in Paths, q # p
          PROVE /\ knownPaths'[q] = knownPaths[q] /\ view'[q] = view[q]
                /\ There(q)' = There(q) /\ disk' = disk
                /\ HeardOf(q)' = HeardOf(q)
      BY <1>0, <1>6, <2>2 DEF EmitPathChange, WatchTypeOK, There, HeardOf
    <2>3. ASSUME NEW q \in Paths, q # p
          PROVE CopyOfKnown(q)' = CopyOfKnown(q) /\ Current(q)' = Current(q)
      BY <1>6, <2>2, <2>3 DEF EmitPathChange, CopyOfKnown, Current
    <2> QED BY <1>0, <1>6, <2>1, <2>2, <2>3, WatchStepTypes
            DEF WatchNext, WatchInv, EmitPathChange
  <1>7. CASE Stop
    BY <1>0, <1>7, WatchStepTypes DEF WatchNext, Stop, WatchInv, CopyOfKnown
  <1>8. CASE UNCHANGED watchVars
    BY <1>8 DEF watchVars, WatchInv, WatchTypeOK, CopyOfKnown, Current, HeardOf, There
  <1> QED BY <1>1, <1>2, <1>3, <1>4, <1>5, <1>6, <1>7, <1>8 DEF WatchNext

\* The watcher's state has the types of FileWatch, whatever the file system
\* does (fileSystemWatcher.ts).
THEOREM WatchTypeCorrect == WatchSpec => []WatchTypeOK
  <1>1. WatchInit => WatchInv
    BY InitWatch
  <1>2. WatchInv /\ [WatchNext]_watchVars => WatchInv'
    BY WatchStepInv
  <1>3. WatchInv => WatchTypeOK
    BY WatchInvImplies
  <1> QED BY <1>1, <1>2, <1>3, PTL DEF WatchSpec

\* A listener that keeps copies is right about every path nothing is under
\* way for, for every set of paths and every number of changes, whichever
\* kinds of events it leaves out (queuePath, emitPathChange).
THEOREM ListenersStayRight == WatchSpec => []ListenerAgrees
  <1>1. WatchInit => WatchInv
    BY InitWatch
  <1>2. WatchInv /\ [WatchNext]_watchVars => WatchInv'
    BY WatchStepInv
  <1>3. WatchInv => ListenerAgrees
    BY WatchInvImplies
  <1> QED BY <1>1, <1>2, <1>3, PTL DEF WatchSpec

-----------------------------------------------------------------------------
(* Feedback.  Right says of what the window lists when it has taken all    *)
(* notifications of an item what ItemsAreShown asks for.  A window that    *)
(* has listened from the start lists that at the end of the list of lists  *)
(* it goes through (Hearing), each made of the one before by a             *)
(* notification that is on its way.                                        *)

ItemContents == Seq(1..MaxItemCalls)
ItemRecords  == [state : {"none", "live", "disposed"}, visible : BOOLEAN, content : ItemContents]
ListRecords  == [listed : BOOLEAN, visible : BOOLEAN, content : ItemContents]
Groups       == {"create", "append", "update", "report", "clear", "show", "hide", "dispose"}

Messages     == [kind : ItemKinds, group : Groups, item : Items, visible : BOOLEAN, content : ItemContents]

\* What the objects send
Sendable(m) ==
  /\ m \in Messages
  /\ m.group = "update" => m.kind = "status"
  /\ m.group = "append" => m.content # <<>>

FeedbackTyped ==
  /\ FeedbackTypeOK
  /\ itemMessages \in Seq(Messages)
  /\ \A n \in DOMAIN itemMessages : Sendable(itemMessages[n])

IsAbout(m, i)   == m.item = i
Disposes(m, i)  == m.item = i /\ m.group = "dispose"

\* What has not been made is unknown; nothing but reports follow the end.
ItemStarts ==
  \A i \in Items : item[i].state = "none" =>
    /\ item[i].visible = FALSE /\ item[i].content = <<>> /\ list[i] = NoItem
    /\ \A n \in DOMAIN itemMessages : ~IsAbout(itemMessages[n], i)

ItemEnds ==
  /\ \A i \in Items, n \in DOMAIN itemMessages :
       Disposes(itemMessages[n], i) =>
         /\ item[i].state = "disposed"
         /\ \A k \in DOMAIN itemMessages :
              k > n /\ IsAbout(itemMessages[k], i) => itemMessages[k].group = "report"
  /\ \A i \in Items : item[i].state = "disposed" =>
       \/ \E n \in DOMAIN itemMessages : Disposes(itemMessages[n], i)
       \/ /\ ~list[i].listed
          /\ \A n \in DOMAIN itemMessages :
               IsAbout(itemMessages[n], i) => itemMessages[n].group = "report"

DeafListsNothing == ~itemListening => \A i \in Items : list[i] = NoItem

\* What the window lists, v, is what the object, r, of kind k is.
Right(k, r, v) ==
  /\ r.state = "none" => v = NoItem
  /\ r.state = "live" =>
       /\ v.visible = r.visible
       /\ k # "status" => v.listed
       /\ k # "status" \/ r.visible => v.content = r.content

After(m, v) == IF v.listed THEN ListedAfter(m, v) ELSE UnlistedAfter(m)
Heard(m, l) == [l EXCEPT ![m.item] = After(m, l[m.item])]

\* An item is listed as it was while nothing about it is taken.
Quiet(s, msgs) ==
  \A i \in Items, a \in 0..Len(msgs), b \in 0..Len(msgs) :
    a <= b /\ (\A k \in (a + 1)..b : ~IsAbout(msgs[k], i)) => s[b][i] = s[a][i]

Hearing(s) ==
  /\ s \in [0..Len(itemMessages) -> [Items -> ListRecords]]
  /\ s[0] = list
  /\ \A n \in 1..Len(itemMessages) : s[n] = Heard(itemMessages[n], s[n - 1])
  /\ Quiet(s, itemMessages)

AsLeft(l) == \A i \in Items : Right(kind[i], item[i], l[i])

HeardRight ==
  heardAll => itemListening /\ \E s : Hearing(s) /\ AsLeft(s[Len(itemMessages)])

FeedbackInv ==
  /\ FeedbackTyped
  /\ ItemStarts /\ ItemEnds /\ DeafListsNothing /\ HeardRight

\* What a notification makes of an item is an item.
LEMMA AfterTyped ==
  ASSUME NEW m, NEW v \in ListRecords, Sendable(m)
  PROVE  After(m, v) \in ListRecords
  <1>1. /\ m.kind \in ItemKinds /\ m.group \in Groups /\ m.visible \in BOOLEAN /\ m.content \in ItemContents
        /\ m.group = "update" => m.kind = "status"
        /\ m.group = "append" => m.content # <<>>
    BY DEF Sendable, Messages
  <1>2. <<>> \in ItemContents
    BY DEF ItemContents
  <1>3. NoItem \in ListRecords /\ Listed(m.visible, <<>>) \in ListRecords
        /\ Listed(m.visible, m.content) \in ListRecords /\ Listed(TRUE, <<>>) \in ListRecords
    BY <1>1, <1>2 DEF NoItem, Listed, ListRecords
  <1>4. ASSUME m.group = "append"
        PROVE  /\ m.content[Len(m.content)] \in 1..MaxItemCalls
               /\ Append(v.content, m.content[Len(m.content)]) \in ItemContents
               /\ <<m.content[Len(m.content)]>> \in ItemContents
    <2>1. m.content \in Seq(1..MaxItemCalls) /\ m.content # <<>>
      BY <1>1, <1>4 DEF ItemContents
    <2>a. Len(m.content) \in 1..Len(m.content)
      BY <2>1
    <2>b. \A c \in Seq(1..MaxItemCalls) : \A k \in 1..Len(c) : c[k] \in 1..MaxItemCalls
      BY ElementOfSeq
    <2>2. m.content[Len(m.content)] \in 1..MaxItemCalls
      BY <2>1, <2>a, <2>b
    <2>3. v.content \in Seq(1..MaxItemCalls)
      BY DEF ListRecords, ItemContents
    <2> QED
      BY <2>2, <2>3 DEF ItemContents
  <1>5. CASE ~v.listed
    <2>1. After(m, v) = UnlistedAfter(m)
      BY <1>5 DEF After
    <2>2. CASE m.group = "append"
      BY <1>4, <2>1, <2>2 DEF UnlistedAfter, Listed, ListRecords
    <2>3. CASE m.group # "append"
      BY <1>3, <2>1, <2>3 DEF UnlistedAfter
    <2> QED
      BY <2>2, <2>3
  <1>6. CASE v.listed
    <2>1. After(m, v) = ListedAfter(m, v)
      BY <1>6 DEF After
    <2>2. CASE m.group = "append"
      <3>1. ListedAfter(m, v) = [v EXCEPT !.content = Append(@, m.content[Len(m.content)])]
        BY <2>2 DEF ListedAfter
      <3> QED
        BY <1>4, <2>1, <2>2, <3>1 DEF ListRecords
    <2>3. CASE m.group \in {"create", "report", "clear"}
      BY <1>1, <1>2, <1>3, <2>1, <2>3 DEF ListedAfter, ListRecords
    <2>4. CASE m.group \in {"show", "update", "hide", "dispose"}
      BY <1>1, <1>2, <1>3, <2>1, <2>4 DEF ListedAfter, ListRecords
    <2> QED
      BY <1>1, <2>2, <2>3, <2>4 DEF Groups
  <1> QED
    BY <1>5, <1>6

\* A notification changes the record of its item, and no other.
LEMMA HeardTyped ==
  ASSUME NEW m, NEW l \in [Items -> ListRecords], Sendable(m)
  PROVE  /\ Heard(m, l) \in [Items -> ListRecords]
         /\ \A i \in Items : Heard(m, l)[i] = IF i = m.item THEN After(m, l[i]) ELSE l[i]
  <1>1. m.item \in Items
    BY DEF Sendable, Messages
  <1>2. After(m, l[m.item]) \in ListRecords
    BY <1>1, AfterTyped
  <1> QED
    BY <1>1, <1>2 DEF Heard

\* A notification that is sent makes one list more.
LEMMA OneMoreHeard ==
  ASSUME itemMessages \in Seq(Messages), NEW m, Sendable(m),
         itemMessages' = Append(itemMessages, m), list' = list,
         NEW s, Hearing(s)
  PROVE  \E t : Hearing(t)' /\ t[Len(itemMessages')] = Heard(m, s[Len(itemMessages)])
  <1>n. PICK n : n = Len(itemMessages)
    OBVIOUS
  <1>t. PICK t : t = [k \in 0..(n + 1) |-> IF k = n + 1 THEN Heard(m, s[n]) ELSE s[k]]
    OBVIOUS
  <1>1. n \in Nat /\ Len(itemMessages') = n + 1
    BY <1>n
  <1>2. itemMessages'[n + 1] = m /\ \A k \in 1..n : itemMessages'[k] = itemMessages[k]
    BY <1>n
  <1>3. /\ \A k \in 0..n : s[k] \in [Items -> ListRecords]
        /\ s[0] = list
        /\ \A k \in 1..n : s[k] = Heard(itemMessages[k], s[k - 1])
    BY <1>n DEF Hearing
  <1>4. Heard(m, s[n]) \in [Items -> ListRecords]
    BY <1>1, <1>3, HeardTyped
  <1>5. /\ t[n + 1] = Heard(m, s[n])
        /\ \A k \in 0..n : t[k] = s[k]
    BY <1>1, <1>t
  <1>6. t \in [0..(n + 1) -> [Items -> ListRecords]]
    BY <1>1, <1>3, <1>4, <1>t
  <1>7. \A k \in 1..(n + 1) : t[k] = Heard(itemMessages'[k], t[k - 1])
    <2> TAKE k \in 1..(n + 1)
    <2>1. CASE k = n + 1
      <3>1. k - 1 = n /\ t[n] = s[n]
        BY <1>1, <1>5, <2>1
      <3> QED
        BY <1>2, <1>5, <2>1, <3>1
    <2>2. CASE k # n + 1
      <3>1. k \in 1..n /\ k - 1 \in 0..n /\ k \in 0..n
        BY <1>1, <2>2
      <3> QED
        BY <1>2, <1>3, <1>5, <3>1
    <2> QED
      BY <2>1, <2>2
  <1>8. t[0] = list'
    BY <1>1, <1>3, <1>5
  <1>9. Hearing(t)'
    <2>1. t \in [0..Len(itemMessages') -> [Items -> ListRecords]]
      BY <1>1, <1>6
    <2>2. \A k \in 1..Len(itemMessages') : t[k] = Heard(itemMessages'[k], t[k - 1])
      BY <1>1, <1>7
    <2>3. Quiet(t, itemMessages')
      <3> SUFFICES ASSUME NEW i \in Items, NEW a \in 0..(n + 1), NEW b \in 0..(n + 1), a <= b,
                          \A k \in (a + 1)..b : ~IsAbout(itemMessages'[k], i)
                   PROVE  t[b][i] = t[a][i]
        BY <1>1 DEF Quiet
      <3>1. \A c \in 0..n, d \in 0..n :
              c <= d /\ (\A k \in (c + 1)..d : ~IsAbout(itemMessages[k], i)) => s[d][i] = s[c][i]
        BY <1>n DEF Hearing, Quiet
      <3>2. CASE b \in 0..n
        <4>1. a \in 0..n /\ \A k \in (a + 1)..b : k \in 1..n
          BY <1>1, <3>2
        <4>2. \A k \in (a + 1)..b : ~IsAbout(itemMessages[k], i)
          BY <1>2, <4>1
        <4> QED
          BY <1>5, <3>1, <3>2, <4>1, <4>2
      <3>3. CASE b = n + 1 /\ a = n + 1
        BY <3>3
      <3>4. CASE b = n + 1 /\ a # n + 1
        <4>1. a \in 0..n /\ n \in 0..n /\ a <= n /\ n + 1 \in (a + 1)..b
              /\ \A k \in (a + 1)..n : k \in 1..n /\ k \in (a + 1)..b
          BY <1>1, <3>4
        <4>2. \A k \in (a + 1)..n : ~IsAbout(itemMessages[k], i)
          BY <1>2, <4>1
        <4>3. s[n][i] = s[a][i]
          BY <3>1, <4>1, <4>2
        <4>4. ~IsAbout(m, i)
          BY <1>2, <4>1
        <4>5. m.item # i
          BY <4>4 DEF IsAbout
        <4>6. Heard(m, s[n])[i] = s[n][i]
          BY <1>3, <4>1, <4>5, HeardTyped
        <4> QED
          BY <1>5, <3>4, <4>1, <4>3, <4>6
      <3> QED
        BY <1>1, <3>2, <3>3, <3>4
    <2> QED
      BY <1>8, <2>1, <2>2, <2>3 DEF Hearing
  <1> QED
    BY <1>n, <1>1, <1>5, <1>9

\* One that is taken makes one less, with the same end.
LEMMA OneLessHeard ==
  ASSUME itemMessages \in Seq(Messages), itemMessages # <<>>, itemMessages' = Tail(itemMessages),
         NEW s, Hearing(s), list' = Heard(Head(itemMessages), list)
  PROVE  \E t : Hearing(t)' /\ t[Len(itemMessages')] = s[Len(itemMessages)]
  <1>n. PICK n : n = Len(itemMessages)
    OBVIOUS
  <1>t. PICK t : t = [k \in 0..(n - 1) |-> s[k + 1]]
    OBVIOUS
  <1>1. n \in Nat /\ n >= 1 /\ Len(itemMessages') = n - 1
        /\ \A k \in 1..(n - 1) : itemMessages'[k] = itemMessages[k + 1]
        /\ Head(itemMessages) = itemMessages[1]
    BY <1>n
  <1>2. /\ \A k \in 0..n : s[k] \in [Items -> ListRecords]
        /\ s[0] = list
        /\ \A k \in 1..n : s[k] = Heard(itemMessages[k], s[k - 1])
    BY <1>n DEF Hearing
  <1>3. \A k \in 0..(n - 1) : t[k] = s[k + 1]
    BY <1>t
  <1>4. t \in [0..(n - 1) -> [Items -> ListRecords]]
    <2>1. \A k \in 0..(n - 1) : s[k + 1] \in [Items -> ListRecords]
      BY <1>1, <1>2
    <2> QED
      BY <1>t, <2>1
  <1>5. t[0] = list'
    <2>1. s[1] = Heard(itemMessages[1], s[0])
      <3>1. 1 \in 1..n /\ 1 - 1 = 0
        BY <1>1
      <3> QED
        BY <1>2, <3>1
    <2> QED
      BY <1>1, <1>2, <1>3, <2>1
  <1>6. \A k \in 1..(n - 1) : t[k] = Heard(itemMessages'[k], t[k - 1])
    <2> TAKE k \in 1..(n - 1)
    <2>1. k + 1 \in 1..n /\ k \in 0..(n - 1) /\ k - 1 \in 0..(n - 1) /\ (k + 1) - 1 = k
          /\ (k - 1) + 1 = k
      BY <1>1
    <2>2. s[k + 1] = Heard(itemMessages[k + 1], s[k])
      BY <1>2, <2>1
    <2>3. t[k] = s[k + 1] /\ t[k - 1] = s[k]
      BY <1>3, <2>1
    <2> QED
      BY <1>1, <2>2, <2>3
  <1>7. Hearing(t)'
    <2>1. t \in [0..Len(itemMessages') -> [Items -> ListRecords]]
      BY <1>1, <1>4
    <2>2. \A k \in 1..Len(itemMessages') : t[k] = Heard(itemMessages'[k], t[k - 1])
      BY <1>1, <1>6
    <2>3. Quiet(t, itemMessages')
      <3> SUFFICES ASSUME NEW i \in Items, NEW a \in 0..(n - 1), NEW b \in 0..(n - 1), a <= b,
                          \A k \in (a + 1)..b : ~IsAbout(itemMessages'[k], i)
                   PROVE  t[b][i] = t[a][i]
        BY <1>1 DEF Quiet
      <3>1. \A c \in 0..n, d \in 0..n :
              c <= d /\ (\A k \in (c + 1)..d : ~IsAbout(itemMessages[k], i)) => s[d][i] = s[c][i]
        BY <1>n DEF Hearing, Quiet
      <3>2. a + 1 \in 0..n /\ b + 1 \in 0..n /\ a + 1 <= b + 1
        BY <1>1
      <3>3. ASSUME NEW k \in ((a + 1) + 1)..(b + 1) PROVE ~IsAbout(itemMessages[k], i)
        <4>1. k - 1 \in (a + 1)..b /\ k - 1 \in 1..(n - 1) /\ (k - 1) + 1 = k
          BY <1>1
        <4>2. itemMessages'[k - 1] = itemMessages[k]
          BY <1>1, <4>1
        <4> QED
          BY <4>1, <4>2
      <3>4. s[b + 1][i] = s[a + 1][i]
        BY <3>1, <3>2, <3>3
      <3> QED
        BY <1>3, <3>4
    <2> QED
      BY <1>5, <2>1, <2>2, <2>3 DEF Hearing
  <1>8. t[n - 1] = s[n]
    BY <1>1, <1>3
  <1> QED
    BY <1>n, <1>1, <1>7, <1>8

\* No item is made, and nothing is on its way.
LEMMA InitFeedback == FeedbackInit => FeedbackInv
  <1> SUFFICES ASSUME FeedbackInit PROVE FeedbackInv
    OBVIOUS
  <1>1. <<>> \in ItemContents /\ NoItem \in ListRecords
    BY DEF ItemContents, NoItem, ListRecords
  <1>2. itemMessages = <<>> /\ itemMessages \in Seq(Messages) /\ DOMAIN itemMessages = {}
    BY DEF FeedbackInit
  <1>3. list \in [Items -> ListRecords] /\ \A i \in Items : list[i] = NoItem
    BY <1>1 DEF FeedbackInit
  <1>4. item \in [Items -> ItemRecords]
    BY <1>1 DEF FeedbackInit, ItemRecords
  <1>5. /\ kind \in [Items -> ItemKinds] /\ itemListening \in BOOLEAN /\ heardAll \in BOOLEAN
        /\ calls \in 0..MaxItemCalls
    BY FeedbackAssumption DEF FeedbackInit
  <1>6. FeedbackTyped
    BY <1>2, <1>3, <1>4, <1>5 DEF FeedbackTyped, FeedbackTypeOK, ItemRecords, ListRecords, ItemContents
  <1>7. ItemStarts /\ ItemEnds /\ DeafListsNothing
    BY <1>2, <1>3 DEF FeedbackInit, ItemStarts, ItemEnds, DeafListsNothing
  <1>8. HeardRight
    <2>1. PICK s : s = [n \in 0..0 |-> list]
      OBVIOUS
    <2>2. Len(itemMessages) = 0 /\ s[0] = list
      BY <1>2, <2>1
    <2>3. Hearing(s)
      BY <1>3, <2>1, <2>2 DEF Hearing, Quiet
    <2>4. AsLeft(s[Len(itemMessages)])
      BY <1>3, <2>2 DEF AsLeft, Right, FeedbackInit
    <2> QED
      BY <2>3, <2>4 DEF HeardRight, FeedbackInit
  <1> QED
    BY <1>6, <1>7, <1>8 DEF FeedbackInv

\* The extension does something to an object, and the window is sent m: what
\* it lists in the end is right if m makes it right.
LEMMA ObjectChanges ==
  ASSUME FeedbackInv, NEW i \in Items, NEW r \in ItemRecords, NEW m, Sendable(m), m.item = i,
         item' = [item EXCEPT ![i] = r], itemMessages' = Append(itemMessages, m),
         UNCHANGED <<kind, itemListening, heardAll, list>>, calls' \in 0..MaxItemCalls,
         r.state # "none",
         item[i].state = "disposed" => m.group = "report",
         m.group = "dispose" <=> (item[i].state # "disposed" /\ r.state = "disposed"),
         r.state = "live" => item[i].state # "disposed",
         item[i].state = "disposed" => r.state = "disposed",
         \A v \in ListRecords : r.state = "live" /\ Right(kind[i], item[i], v)
                                  => Right(kind[i], r, After(m, v))
  PROVE  FeedbackInv'
  <1>n. PICK n : n = Len(itemMessages)
    OBVIOUS
  <1>1. FeedbackTyped /\ item \in [Items -> ItemRecords] /\ list \in [Items -> ListRecords]
    BY DEF FeedbackInv, FeedbackTyped, FeedbackTypeOK, ItemRecords, ListRecords, ItemContents
  <1>2. /\ itemMessages \in Seq(Messages) /\ n \in Nat /\ DOMAIN itemMessages = 1..n
        /\ itemMessages' \in Seq(Messages) /\ DOMAIN itemMessages' = 1..(n + 1)
        /\ itemMessages'[n + 1] = m
        /\ \A k \in 1..n : itemMessages'[k] = itemMessages[k]
    BY <1>n, <1>1 DEF FeedbackTyped, Sendable
  <1>3. item' \in [Items -> ItemRecords] /\ \A j \in Items : item'[j] = IF j = i THEN r ELSE item[j]
    BY <1>1
  <1>4. FeedbackTyped'
    <2>1. \A k \in DOMAIN itemMessages' : Sendable(itemMessages'[k])
      BY <1>1, <1>2 DEF FeedbackTyped
    <2> QED
      BY <1>1, <1>2, <1>3, <2>1
         DEF FeedbackTyped, FeedbackTypeOK, ItemRecords, ListRecords, ItemContents
  <1>5. ItemStarts'
    BY <1>2, <1>3 DEF FeedbackInv, ItemStarts, IsAbout
  <1>6. ItemEnds'
    <2>0. ItemEnds
      BY DEF FeedbackInv
    <2>1. ASSUME NEW j \in Items, NEW k \in DOMAIN itemMessages', Disposes(itemMessages'[k], j)
          PROVE  /\ item'[j].state = "disposed"
                 /\ \A h \in DOMAIN itemMessages' :
                      h > k /\ IsAbout(itemMessages'[h], j) => itemMessages'[h].group = "report"
      <3>1. CASE k \in 1..n
        <4>1. Disposes(itemMessages[k], j)
          BY <1>2, <2>1, <3>1
        <4>2. item[j].state = "disposed" /\ item'[j].state = "disposed"
          BY <1>2, <1>3, <2>0, <3>1, <4>1 DEF ItemEnds
        <4>3. \A h \in 1..n : h > k /\ IsAbout(itemMessages[h], j) => itemMessages[h].group = "report"
          BY <1>2, <2>0, <3>1, <4>1 DEF ItemEnds
        <4>4. IsAbout(m, j) => m.group = "report"
          BY <4>2 DEF IsAbout
        <4> QED
          BY <1>2, <4>2, <4>3, <4>4
      <3>2. CASE k = n + 1
        <4>1. m.group = "dispose" /\ j = i
          BY <1>2, <2>1, <3>2 DEF Disposes
        <4> QED
          BY <1>2, <1>3, <3>2, <4>1
      <3> QED
        BY <1>2, <3>1, <3>2
    <2>2. ASSUME NEW j \in Items, item'[j].state = "disposed"
          PROVE  \/ \E k \in DOMAIN itemMessages' : Disposes(itemMessages'[k], j)
                 \/ /\ ~list'[j].listed
                    /\ \A k \in DOMAIN itemMessages' :
                         IsAbout(itemMessages'[k], j) => itemMessages'[k].group = "report"
      <3>1. CASE item[j].state = "disposed"
        <4>1. CASE \E k \in DOMAIN itemMessages : Disposes(itemMessages[k], j)
          BY <1>2, <4>1
        <4>2. CASE /\ ~list[j].listed
                   /\ \A k \in DOMAIN itemMessages :
                        IsAbout(itemMessages[k], j) => itemMessages[k].group = "report"
          <5>1. IsAbout(m, j) => m.group = "report"
            BY <3>1 DEF IsAbout
          <5> QED
            BY <1>2, <4>2, <5>1
        <4> QED
          BY <2>0, <3>1, <4>1, <4>2 DEF ItemEnds
      <3>2. CASE item[j].state # "disposed"
        <4>1. j = i /\ m.group = "dispose"
          BY <1>3, <2>2, <3>2
        <4>2. Disposes(itemMessages'[n + 1], j) /\ n + 1 \in DOMAIN itemMessages'
          BY <1>2, <4>1 DEF Disposes
        <4> QED
          BY <4>2
      <3> QED
        BY <3>1, <3>2
    <2> QED
      BY <2>1, <2>2 DEF ItemEnds
  <1>7. DeafListsNothing'
    BY DEF FeedbackInv, DeafListsNothing
  <1>8. HeardRight'
    <2> SUFFICES ASSUME heardAll
                 PROVE  itemListening' /\ \E t : Hearing(t)' /\ AsLeft(t[Len(itemMessages)])'
      BY DEF HeardRight
    <2>1. itemListening /\ \E s : Hearing(s) /\ AsLeft(s[Len(itemMessages)])
      BY DEF FeedbackInv, HeardRight
    <2>2. PICK s : Hearing(s) /\ AsLeft(s[Len(itemMessages)])
      BY <2>1
    <2>3. PICK l : l = s[Len(itemMessages)]
      OBVIOUS
    <2>4. l \in [Items -> ListRecords]
      BY <1>n, <1>2, <2>2, <2>3 DEF Hearing
    <2>5. PICK t : Hearing(t)' /\ t[Len(itemMessages')] = Heard(m, l)
      BY <1>2, <2>2, <2>3, OneMoreHeard
    <2>6. \A j \in Items : Heard(m, l)[j] = IF j = i THEN After(m, l[j]) ELSE l[j]
      BY <2>4, HeardTyped
    <2>7. ASSUME NEW j \in Items PROVE Right(kind[j], item'[j], Heard(m, l)[j])
      <3>1. Right(kind[j], item[j], l[j]) /\ l[j] \in ListRecords
        BY <2>2, <2>3, <2>4 DEF AsLeft
      <3>2. CASE j # i
        BY <1>3, <2>6, <3>1, <3>2
      <3>3. CASE j = i /\ r.state = "live"
        BY <1>3, <2>6, <3>1, <3>3
      <3>4. CASE j = i /\ r.state # "live"
        <4>1. item'[j] = r
          BY <1>3, <3>4
        <4> QED
          BY <3>4, <4>1 DEF Right
      <3> QED
        BY <3>2, <3>3, <3>4
    <2>8. AsLeft(t[Len(itemMessages)])'
      <3>1. \A j \in Items : Right(kind'[j], item'[j], t[Len(itemMessages')][j])
        BY <2>5, <2>7
      <3> QED
        BY <3>1 DEF AsLeft
    <2> QED
      BY <2>1, <2>5, <2>8
  <1> QED
    BY <1>4, <1>5, <1>6, <1>7, <1>8 DEF FeedbackInv

\* The window is told nothing, since nothing that it lists is wrong after it.
LEMMA ObjectChangesUntold ==
  ASSUME FeedbackInv, NEW i \in Items, NEW r \in ItemRecords,
         item' = [item EXCEPT ![i] = r],
         UNCHANGED <<kind, itemListening, heardAll, list, itemMessages>>, calls' \in 0..MaxItemCalls,
         r.state # "none",
         r.state = "disposed" <=> item[i].state = "disposed",
         \A v : Right(kind[i], item[i], v) => Right(kind[i], r, v)
  PROVE  FeedbackInv'
  <1>1. FeedbackTyped /\ item \in [Items -> ItemRecords]
    BY DEF FeedbackInv, FeedbackTyped, FeedbackTypeOK, ItemRecords, ItemContents
  <1>2. item' \in [Items -> ItemRecords] /\ \A j \in Items : item'[j] = IF j = i THEN r ELSE item[j]
    BY <1>1
  <1>3. FeedbackTyped'
    BY <1>1, <1>2 DEF FeedbackTyped, FeedbackTypeOK, ItemRecords, ItemContents
  <1>4. ItemStarts'
    BY <1>2 DEF FeedbackInv, ItemStarts
  <1>5. \A j \in Items : item'[j].state = "disposed" <=> item[j].state = "disposed"
    BY <1>2
  <1>6. ItemEnds' /\ DeafListsNothing'
    BY <1>5 DEF FeedbackInv, ItemEnds, DeafListsNothing
  <1>7. HeardRight'
    <2>1. \A s : Hearing(s) => Hearing(s)'
      BY DEF Hearing
    <2>2. \A l : AsLeft(l) => AsLeft(l)'
      BY <1>2 DEF AsLeft
    <2>3. \A s : AsLeft(s[Len(itemMessages)]) => AsLeft(s[Len(itemMessages)])'
      BY <1>2 DEF AsLeft
    <2> QED
      BY <2>1, <2>3 DEF FeedbackInv, HeardRight
  <1> QED
    BY <1>3, <1>4, <1>6, <1>7 DEF FeedbackInv

\* The window takes the next notification, if it listens.
LEMMA ArriveInv ==
  ASSUME FeedbackInv, Arrive
  PROVE  FeedbackInv'
  <1>n. PICK n : n = Len(itemMessages)
    OBVIOUS
  <1>m. PICK m : m = Head(itemMessages)
    OBVIOUS
  <1>1. /\ itemMessages # <<>> /\ itemMessages' = Tail(itemMessages)
        /\ UNCHANGED <<kind, item, itemListening, heardAll, calls>>
        /\ list' = IF itemListening THEN Heard(m, list) ELSE list
    BY <1>m DEF Arrive, Heard, After
  <1>2. FeedbackTyped /\ list \in [Items -> ListRecords]
    BY DEF FeedbackInv, FeedbackTyped, FeedbackTypeOK, ListRecords, ItemContents
  <1>3. /\ itemMessages \in Seq(Messages) /\ n \in Nat /\ n >= 1 /\ DOMAIN itemMessages = 1..n
        /\ itemMessages' \in Seq(Messages) /\ DOMAIN itemMessages' = 1..(n - 1)
        /\ m = itemMessages[1]
        /\ \A k \in 1..(n - 1) : itemMessages'[k] = itemMessages[k + 1] /\ k + 1 \in 2..n
    BY <1>n, <1>m, <1>1, <1>2 DEF FeedbackTyped
  <1>4. Sendable(m) /\ m.item \in Items
    <2>1. 1 \in DOMAIN itemMessages
      BY <1>3
    <2>2. Sendable(m)
      BY <1>2, <1>3, <2>1 DEF FeedbackTyped
    <2> QED
      BY <2>2 DEF Sendable, Messages
  <1>5. /\ Heard(m, list) \in [Items -> ListRecords]
        /\ \A i \in Items : Heard(m, list)[i] = IF i = m.item THEN After(m, list[i]) ELSE list[i]
    BY <1>2, <1>4, HeardTyped
  <1>6. FeedbackTyped'
    <2>1. \A k \in DOMAIN itemMessages' : Sendable(itemMessages'[k])
      <3>1. \A k \in 1..n : Sendable(itemMessages[k])
        BY <1>2, <1>3 DEF FeedbackTyped
      <3>2. \A k \in 1..(n - 1) : k + 1 \in 1..n
        BY <1>3
      <3> QED
        BY <1>3, <3>1, <3>2
    <2>2. list' \in [Items -> ListRecords]
      BY <1>1, <1>2, <1>5
    <2> QED
      BY <1>1, <1>2, <1>3, <2>1, <2>2 DEF FeedbackTyped, FeedbackTypeOK, ListRecords, ItemContents
  <1>7. \A k \in DOMAIN itemMessages' : k + 1 \in DOMAIN itemMessages
    BY <1>3
  <1>8. ItemStarts'
    <2> SUFFICES ASSUME NEW i \in Items, item[i].state = "none"
                 PROVE  /\ item[i].visible = FALSE /\ item[i].content = <<>> /\ list'[i] = NoItem
                        /\ \A k \in DOMAIN itemMessages' : ~IsAbout(itemMessages'[k], i)
      BY <1>1 DEF ItemStarts
    <2>1. /\ item[i].visible = FALSE /\ item[i].content = <<>> /\ list[i] = NoItem
          /\ \A k \in DOMAIN itemMessages : ~IsAbout(itemMessages[k], i)
      BY DEF FeedbackInv, ItemStarts
    <2>2. m.item # i
      BY <1>3, <2>1 DEF IsAbout
    <2> QED
      BY <1>1, <1>3, <1>5, <1>7, <2>1, <2>2
  <1>9. ItemEnds'
    <2>0. ItemEnds
      BY DEF FeedbackInv
    <2>1. ASSUME NEW i \in Items, NEW k \in DOMAIN itemMessages', Disposes(itemMessages'[k], i)
          PROVE  /\ item'[i].state = "disposed"
                 /\ \A h \in DOMAIN itemMessages' :
                      h > k /\ IsAbout(itemMessages'[h], i) => itemMessages'[h].group = "report"
      <3>1. k + 1 \in DOMAIN itemMessages /\ Disposes(itemMessages[k + 1], i)
        BY <1>3, <2>1
      <3>2. \A h \in DOMAIN itemMessages' : h > k => h + 1 > k + 1 /\ h + 1 \in DOMAIN itemMessages
        BY <1>3
      <3> QED
        BY <1>1, <1>3, <2>0, <3>1, <3>2 DEF ItemEnds
    <2>2. ASSUME NEW i \in Items, item'[i].state = "disposed"
          PROVE  \/ \E k \in DOMAIN itemMessages' : Disposes(itemMessages'[k], i)
                 \/ /\ ~list'[i].listed
                    /\ \A k \in DOMAIN itemMessages' :
                         IsAbout(itemMessages'[k], i) => itemMessages'[k].group = "report"
      <3>1. item[i].state = "disposed"
        BY <1>1, <2>2
      <3>2. CASE \E k \in DOMAIN itemMessages : Disposes(itemMessages[k], i)
        <4>1. PICK k \in DOMAIN itemMessages : Disposes(itemMessages[k], i)
          BY <3>2
        <4>2. CASE k = 1
          <5>1. m.item = i /\ m.group = "dispose"
            BY <1>3, <4>1, <4>2 DEF Disposes
          <5>2. ~list'[i].listed
            <6>1. CASE itemListening
              <7>1. list'[i] = After(m, list[i])
                BY <1>1, <1>5, <5>1, <6>1
              <7>2. After(m, list[i]) = NoItem
                BY <5>1 DEF After, ListedAfter, UnlistedAfter
              <7> QED
                BY <7>1, <7>2 DEF NoItem
            <6>2. CASE ~itemListening
              BY <1>1, <6>2 DEF FeedbackInv, DeafListsNothing, NoItem
            <6> QED
              BY <6>1, <6>2
          <5>3. \A h \in DOMAIN itemMessages' : h + 1 > k
            BY <1>3, <4>2
          <5>4. \A h \in DOMAIN itemMessages' : IsAbout(itemMessages'[h], i) => itemMessages'[h].group = "report"
            BY <1>3, <1>7, <2>0, <4>1, <5>3 DEF ItemEnds
          <5> QED
            BY <5>2, <5>4
        <4>3. CASE k # 1
          <5>1. k - 1 \in DOMAIN itemMessages' /\ (k - 1) + 1 = k
            BY <1>3, <4>3
          <5>2. itemMessages'[k - 1] = itemMessages[k]
            BY <1>3, <5>1
          <5> QED
            BY <4>1, <5>1, <5>2
        <4> QED
          BY <4>2, <4>3
      <3>3. CASE /\ ~list[i].listed
                 /\ \A k \in DOMAIN itemMessages :
                      IsAbout(itemMessages[k], i) => itemMessages[k].group = "report"
        <4>1. ~list'[i].listed
          <5>1. CASE itemListening /\ m.item = i
            <6>1. m.group = "report"
              BY <1>3, <3>3, <5>1 DEF IsAbout
            <6>2. After(m, list[i]) = NoItem
              BY <3>3, <6>1 DEF After, UnlistedAfter
            <6> QED
              BY <1>1, <1>5, <5>1, <6>2 DEF NoItem
          <5>2. CASE ~(itemListening /\ m.item = i)
            BY <1>1, <1>5, <3>3, <5>2
          <5> QED
            BY <5>1, <5>2
        <4>2. \A k \in DOMAIN itemMessages' : IsAbout(itemMessages'[k], i) => itemMessages'[k].group = "report"
          BY <1>3, <1>7, <3>3
        <4> QED
          BY <4>1, <4>2
      <3> QED
        BY <2>0, <3>1, <3>2, <3>3 DEF ItemEnds
    <2> QED
      BY <2>1, <2>2 DEF ItemEnds
  <1>10. DeafListsNothing'
    BY <1>1 DEF FeedbackInv, DeafListsNothing
  <1>11. HeardRight'
    <2> SUFFICES ASSUME heardAll
                 PROVE  itemListening' /\ \E t : Hearing(t)' /\ AsLeft(t[Len(itemMessages)])'
      BY <1>1 DEF HeardRight
    <2>1. itemListening /\ \E s : Hearing(s) /\ AsLeft(s[Len(itemMessages)])
      BY DEF FeedbackInv, HeardRight
    <2>2. PICK s : Hearing(s) /\ AsLeft(s[Len(itemMessages)])
      BY <2>1
    <2>3. list' = Heard(Head(itemMessages), list)
      BY <1>m, <1>1, <2>1
    <2>4. PICK t : Hearing(t)' /\ t[Len(itemMessages')] = s[Len(itemMessages)]
      BY <1>1, <1>3, <2>2, <2>3, OneLessHeard
    <2>5. AsLeft(t[Len(itemMessages)])'
      BY <1>1, <2>2, <2>4 DEF AsLeft
    <2> QED
      BY <1>1, <2>1, <2>4, <2>5
  <1> QED
    BY <1>6, <1>8, <1>9, <1>10, <1>11 DEF FeedbackInv

\* The window begins to listen.
LEMMA StartListeningInv ==
  ASSUME FeedbackInv, StartListening
  PROVE  FeedbackInv'
  <1>1. ~itemListening /\ itemListening' = TRUE /\ UNCHANGED <<kind, item, itemMessages, heardAll, list, calls>>
    BY DEF StartListening
  <1>2. FeedbackTyped' /\ ItemStarts' /\ ItemEnds' /\ DeafListsNothing'
    BY <1>1 DEF FeedbackInv, FeedbackTyped, FeedbackTypeOK, ItemStarts, ItemEnds, DeafListsNothing
  <1>3. HeardRight'
    BY <1>1 DEF FeedbackInv, HeardRight
  <1> QED
    BY <1>2, <1>3 DEF FeedbackInv
\* One lemma per operation of an object.
LEMMA CreateInv ==
  ASSUME FeedbackInv, NEW i \in Items, Create(i)
  PROVE  FeedbackInv'
  <1>r. PICK r : r = [item[i] EXCEPT !.state = "live"]
    OBVIOUS
  <1>0. FeedbackTyped /\ item \in [Items -> ItemRecords] /\ kind[i] \in ItemKinds
        /\ calls \in 0..MaxItemCalls
    BY DEF FeedbackInv, FeedbackTyped, FeedbackTypeOK, ItemRecords, ItemContents
  <1>1. /\ item[i].state = "none" /\ item' = [item EXCEPT ![i] = r]
        /\ UNCHANGED <<kind, itemListening, heardAll, list, calls>>
    BY <1>r, <1>0 DEF Create, ItemRecords
  <1>2. item[i].visible = FALSE /\ item[i].content = <<>>
    BY <1>1 DEF FeedbackInv, ItemStarts
  <1>3. /\ r \in ItemRecords /\ r.state = "live" /\ r.visible = FALSE /\ r.content = <<>>
        /\ item'[i] = r
    BY <1>r, <1>0, <1>1, <1>2 DEF ItemRecords
  <1>4. CASE kind[i] = "status"
    <2>1. itemMessages' = itemMessages
      BY <1>4 DEF Create
    <2>2. ASSUME NEW v, Right(kind[i], item[i], v) PROVE Right(kind[i], r, v)
      <3>1. v = NoItem
        BY <1>1, <2>2 DEF Right
      <3>2. v.visible = FALSE
        BY <3>1 DEF NoItem
      <3> QED
        BY <1>3, <1>4, <3>2 DEF Right
    <2> QED
      BY <1>0, <1>1, <1>3, <2>1, <2>2, ObjectChangesUntold
  <1>5. CASE kind[i] # "status"
    <2>m. PICK m : m = [kind |-> kind[i], group |-> "create", item |-> i, visible |-> FALSE, content |-> <<>>]
      OBVIOUS
    <2>1. itemMessages' = Append(itemMessages, m)
      BY <1>3, <1>5, <2>m DEF Create, NotifyItem
    <2>2. Sendable(m) /\ m.item = i /\ m.group = "create" /\ m.kind = kind[i] /\ m.visible = FALSE
      BY <1>0, <2>m DEF Sendable, Messages, Groups, ItemContents
    <2>3. ASSUME NEW v \in ListRecords, Right(kind[i], item[i], v) PROVE Right(kind[i], r, After(m, v))
      <3>1. v = NoItem
        BY <1>1, <2>3 DEF Right
      <3>2. v.listed = FALSE
        BY <3>1 DEF NoItem
      <3>3. After(m, v) = Listed(FALSE, m.content) /\ m.content = <<>>
        BY <2>m, <2>2, <3>2 DEF After, UnlistedAfter
      <3>4. After(m, v).listed = TRUE /\ After(m, v).visible = FALSE /\ After(m, v).content = <<>>
        BY <3>3 DEF Listed
      <3> QED
        BY <1>3, <3>4 DEF Right
    <2> QED
      BY <1>0, <1>1, <1>3, <2>1, <2>2, <2>3, ObjectChanges
  <1> QED
    BY <1>4, <1>5


\* An extension writes into an item.
LEMMA WriteInv ==
  ASSUME FeedbackInv, NEW i \in Items, Write(i)
  PROVE  FeedbackInv'
  <1>r. PICK r : r = [item[i] EXCEPT !.content = Append(@, calls + 1)]
    OBVIOUS
  <1>0. FeedbackTyped /\ item \in [Items -> ItemRecords] /\ kind[i] \in ItemKinds
        /\ calls \in 0..MaxItemCalls /\ item[i].content \in Seq(1..MaxItemCalls)
    BY DEF FeedbackInv, FeedbackTyped, FeedbackTypeOK, ItemRecords, ItemContents
  <1>1. /\ item[i].state = "live" /\ item' = [item EXCEPT ![i] = r]
        /\ UNCHANGED <<kind, itemListening, heardAll, list>>
        /\ kind[i] # "status" /\ calls' = calls + 1 /\ calls < MaxItemCalls
    BY <1>r, <1>0 DEF Write, ItemRecords, Live, Called
  <1>c. calls + 1 \in 1..MaxItemCalls /\ calls' \in 0..MaxItemCalls
    BY <1>0, <1>1, FeedbackAssumption
  <1>2. /\ Append(item[i].content, calls + 1) \in Seq(1..MaxItemCalls)
        /\ Append(item[i].content, calls + 1) # <<>>
        /\ Append(item[i].content, calls + 1)[Len(Append(item[i].content, calls + 1))] = calls + 1
    <2>1. PICK c : c = item[i].content
      OBVIOUS
    <2>2. c \in Seq(1..MaxItemCalls) /\ Len(c) \in Nat
      BY <1>0, <2>1
    <2>3. Append(c, calls + 1) \in Seq(1..MaxItemCalls) /\ Len(Append(c, calls + 1)) = Len(c) + 1
      BY <1>c, <2>2
    <2>4. Append(c, calls + 1)[Len(c) + 1] = calls + 1
      BY <2>2
    <2>5. Append(c, calls + 1) # <<>>
      BY <2>2, <2>3
    <2> QED
      BY <2>1, <2>3, <2>4, <2>5
  <1>3. /\ r \in ItemRecords /\ r.state = "live" /\ r.visible = item[i].visible
        /\ r.content = Append(item[i].content, calls + 1) /\ item'[i] = r
    BY <1>r, <1>0, <1>1, <1>2 DEF ItemRecords, ItemContents
  <1>m. PICK m : m = [kind |-> kind[i], group |-> "append", item |-> i,
                      visible |-> r.visible, content |-> r.content]
    OBVIOUS
  <1>4. itemMessages' = Append(itemMessages, m)
    BY <1>3, <1>m DEF Write, NotifyItem
  <1>5. Sendable(m) /\ m.item = i /\ m.group = "append" /\ m.content = r.content
    BY <1>0, <1>2, <1>3, <1>m DEF Sendable, Messages, Groups, ItemRecords
  <1>6. ASSUME NEW v \in ListRecords, Right(kind[i], item[i], v) PROVE Right(kind[i], r, After(m, v))
    <2>1. v.visible = item[i].visible /\ v.listed /\ v.content = item[i].content
      BY <1>1, <1>6 DEF Right
    <2>a. m.content[Len(m.content)] = calls + 1
      BY <1>2, <1>3, <1>5
    <2>b. After(m, v) = [v EXCEPT !.content = Append(@, m.content[Len(m.content)])]
      BY <1>5, <2>1 DEF After, ListedAfter
    <2>2. After(m, v) = [v EXCEPT !.content = Append(@, calls + 1)]
      BY <2>a, <2>b
    <2>3. After(m, v).visible = r.visible /\ After(m, v).listed /\ After(m, v).content = r.content
      BY <1>3, <2>1, <2>2 DEF ListRecords
    <2> QED
      BY <1>3, <2>3 DEF Right
  <1> QED
    BY <1>0, <1>1, <1>c, <1>3, <1>4, <1>5, <1>6, ObjectChanges

\* The text of an item is replaced.
LEMMA SetTextInv ==
  ASSUME FeedbackInv, NEW i \in Items, SetText(i)
  PROVE  FeedbackInv'
  <1>r. PICK r : r = [item[i] EXCEPT !.content = <<calls + 1>>]
    OBVIOUS
  <1>0. FeedbackTyped /\ item \in [Items -> ItemRecords] /\ kind[i] \in ItemKinds
        /\ calls \in 0..MaxItemCalls
    BY DEF FeedbackInv, FeedbackTyped, FeedbackTypeOK, ItemRecords, ItemContents
  <1>1. /\ item[i].state # "none" /\ item' = [item EXCEPT ![i] = r]
        /\ UNCHANGED <<kind, itemListening, heardAll, list>>
        /\ kind[i] = "status" /\ calls' = calls + 1 /\ calls < MaxItemCalls
    BY <1>r, <1>0 DEF SetText, ItemRecords, Called
  <1>c. calls + 1 \in 1..MaxItemCalls /\ calls' \in 0..MaxItemCalls
    BY <1>0, <1>1, FeedbackAssumption
  <1>2. <<calls + 1>> \in ItemContents
    BY <1>c DEF ItemContents
  <1>3. /\ r \in ItemRecords /\ r.state = item[i].state /\ r.visible = item[i].visible
        /\ r.content = <<calls + 1>> /\ item'[i] = r
    BY <1>r, <1>0, <1>1, <1>2 DEF ItemRecords
  <1>4. CASE Updates(i)
    <2>m. PICK m : m = [kind |-> kind[i], group |-> "update", item |-> i,
                        visible |-> r.visible, content |-> r.content]
      OBVIOUS
    <2>0. item[i].state = "live" /\ item[i].visible
      BY <1>4 DEF Updates, Live
    <2>1. itemMessages' = Append(itemMessages, m)
      BY <1>3, <1>4, <2>m DEF SetText, NotifyItem
    <2>2. Sendable(m) /\ m.item = i /\ m.group = "update" /\ m.content = r.content
          /\ m.visible = r.visible /\ m.kind = "status"
      BY <1>0, <1>1, <1>2, <1>3, <2>m DEF Sendable, Messages, Groups, ItemRecords
    <2>3. ASSUME NEW v \in ListRecords PROVE Right(kind[i], r, After(m, v))
      <3>1. After(m, v) = Listed(r.visible, r.content)
        BY <2>2 DEF After, ListedAfter, UnlistedAfter
      <3>2. After(m, v).visible = r.visible /\ After(m, v).listed /\ After(m, v).content = r.content
        BY <3>1 DEF Listed
      <3> QED
        BY <1>3, <2>0, <3>2 DEF Right
    <2> QED
      BY <1>0, <1>1, <1>c, <1>3, <2>0, <2>1, <2>2, <2>3, ObjectChanges
  <1>5. CASE ~Updates(i)
    <2>1. itemMessages' = itemMessages
      BY <1>5 DEF SetText
    <2>2. ASSUME NEW v, Right(kind[i], item[i], v) PROVE Right(kind[i], r, v)
      <3>1. r.state = "live" => r.visible = FALSE
        BY <1>0, <1>3, <1>5 DEF Updates, Live, ItemRecords
      <3>2. CASE r.state = "live"
        <4>1. v.visible = item[i].visible
          BY <1>3, <2>2, <3>2 DEF Right
        <4> QED
          BY <1>1, <1>3, <3>1, <3>2, <4>1 DEF Right
      <3>3. CASE r.state # "live"
        BY <1>1, <1>3, <3>3 DEF Right
      <3> QED
        BY <3>2, <3>3
    <2> QED
      BY <1>0, <1>1, <1>c, <1>3, <2>1, <2>2, ObjectChangesUntold
  <1> QED
    BY <1>4, <1>5

\* A progress reports.
LEMMA ReportInv ==
  ASSUME FeedbackInv, NEW i \in Items, Report(i)
  PROVE  FeedbackInv'
  <1>r. PICK r : r = [item[i] EXCEPT !.content = <<calls + 1>>]
    OBVIOUS
  <1>0. FeedbackTyped /\ item \in [Items -> ItemRecords] /\ kind[i] \in ItemKinds
        /\ calls \in 0..MaxItemCalls
    BY DEF FeedbackInv, FeedbackTyped, FeedbackTypeOK, ItemRecords, ItemContents
  <1>1. /\ item[i].state # "none" /\ item' = [item EXCEPT ![i] = r]
        /\ UNCHANGED <<kind, itemListening, heardAll, list>>
        /\ kind[i] = "progress" /\ calls' = calls + 1 /\ calls < MaxItemCalls
    BY <1>r, <1>0 DEF Report, ItemRecords, Called
  <1>c. calls + 1 \in 1..MaxItemCalls /\ calls' \in 0..MaxItemCalls
    BY <1>0, <1>1, FeedbackAssumption
  <1>2. <<calls + 1>> \in ItemContents
    BY <1>c DEF ItemContents
  <1>3. /\ r \in ItemRecords /\ r.state = item[i].state /\ r.visible = item[i].visible
        /\ r.content = <<calls + 1>> /\ item'[i] = r
    BY <1>r, <1>0, <1>1, <1>2 DEF ItemRecords
  <1>m. PICK m : m = [kind |-> kind[i], group |-> "report", item |-> i,
                      visible |-> r.visible, content |-> r.content]
    OBVIOUS
  <1>4. itemMessages' = Append(itemMessages, m)
    BY <1>3, <1>m DEF Report, NotifyItem
  <1>5. Sendable(m) /\ m.item = i /\ m.group = "report" /\ m.content = r.content
    BY <1>0, <1>2, <1>3, <1>m DEF Sendable, Messages, Groups, ItemRecords
  <1>6. ASSUME NEW v \in ListRecords, r.state = "live", Right(kind[i], item[i], v)
        PROVE  Right(kind[i], r, After(m, v))
    <2>1. v.visible = item[i].visible /\ v.listed
      BY <1>1, <1>3, <1>6 DEF Right
    <2>2. After(m, v) = [v EXCEPT !.content = r.content]
      BY <1>5, <2>1 DEF After, ListedAfter
    <2>3. After(m, v).visible = r.visible /\ After(m, v).listed /\ After(m, v).content = r.content
      BY <1>3, <2>1, <2>2 DEF ListRecords
    <2> QED
      BY <1>6, <2>3 DEF Right
  <1> QED
    BY <1>0, <1>1, <1>c, <1>3, <1>4, <1>5, <1>6, ObjectChanges

\* An output is cleared.
LEMMA ClearInv ==
  ASSUME FeedbackInv, NEW i \in Items, Clear(i)
  PROVE  FeedbackInv'
  <1>r. PICK r : r = [item[i] EXCEPT !.content = <<>>]
    OBVIOUS
  <1>0. FeedbackTyped /\ item \in [Items -> ItemRecords] /\ kind[i] \in ItemKinds
        /\ calls \in 0..MaxItemCalls
    BY DEF FeedbackInv, FeedbackTyped, FeedbackTypeOK, ItemRecords, ItemContents
  <1>1. /\ item[i].state = "live" /\ item' = [item EXCEPT ![i] = r]
        /\ UNCHANGED <<kind, itemListening, heardAll, list>>
        /\ kind[i] = "output" /\ calls' \in 0..MaxItemCalls
    BY <1>r, <1>0, FeedbackAssumption DEF Clear, Live, ItemRecords, Called
  <1>2. <<>> \in ItemContents
    BY DEF ItemContents
  <1>3. /\ r \in ItemRecords /\ r.state = "live" /\ r.visible = item[i].visible
        /\ r.content = <<>> /\ item'[i] = r
    BY <1>r, <1>0, <1>1, <1>2 DEF ItemRecords
  <1>m. PICK m : m = [kind |-> kind[i], group |-> "clear", item |-> i,
                      visible |-> r.visible, content |-> r.content]
    OBVIOUS
  <1>4. itemMessages' = Append(itemMessages, m)
    BY <1>3, <1>m DEF Clear, NotifyItem
  <1>5. Sendable(m) /\ m.item = i /\ m.group = "clear"
    BY <1>0, <1>2, <1>3, <1>m DEF Sendable, Messages, Groups, ItemRecords
  <1>6. ASSUME NEW v \in ListRecords, Right(kind[i], item[i], v) PROVE Right(kind[i], r, After(m, v))
    <2>1. v.visible = item[i].visible /\ v.listed
      BY <1>1, <1>6 DEF Right
    <2>2. After(m, v) = [v EXCEPT !.content = <<>>]
      BY <1>5, <2>1 DEF After, ListedAfter
    <2>3. After(m, v).visible = r.visible /\ After(m, v).listed /\ After(m, v).content = r.content
      BY <1>3, <2>1, <2>2 DEF ListRecords
    <2> QED
      BY <1>3, <2>3 DEF Right
  <1> QED
    BY <1>0, <1>1, <1>3, <1>4, <1>5, <1>6, ObjectChanges

\* An item is shown.
LEMMA ShowInv ==
  ASSUME FeedbackInv, NEW i \in Items, Show(i)
  PROVE  FeedbackInv'
  <1>r. PICK r : r = [item[i] EXCEPT !.visible = TRUE]
    OBVIOUS
  <1>0. FeedbackTyped /\ item \in [Items -> ItemRecords] /\ kind[i] \in ItemKinds
        /\ calls \in 0..MaxItemCalls
    BY DEF FeedbackInv, FeedbackTyped, FeedbackTypeOK, ItemRecords, ItemContents
  <1>1. /\ item[i].state = "live" /\ item' = [item EXCEPT ![i] = r]
        /\ UNCHANGED <<kind, itemListening, heardAll, list>>
        /\ kind[i] # "progress" /\ calls' \in 0..MaxItemCalls
    BY <1>r, <1>0, FeedbackAssumption DEF Show, Live, ItemRecords, Called
  <1>3. /\ r \in ItemRecords /\ r.state = "live" /\ r.visible = TRUE
        /\ r.content = item[i].content /\ item'[i] = r
    BY <1>r, <1>0, <1>1 DEF ItemRecords
  <1>m. PICK m : m = [kind |-> kind[i], group |-> "show", item |-> i,
                      visible |-> r.visible, content |-> r.content]
    OBVIOUS
  <1>4. itemMessages' = Append(itemMessages, m)
    BY <1>3, <1>m DEF Show, NotifyItem
  <1>5. Sendable(m) /\ m.item = i /\ m.group = "show" /\ m.kind = kind[i]
        /\ m.visible = TRUE /\ m.content = r.content
    BY <1>0, <1>3, <1>m DEF Sendable, Messages, Groups, ItemRecords
  <1>6. ASSUME NEW v \in ListRecords, Right(kind[i], item[i], v) PROVE Right(kind[i], r, After(m, v))
    <2>1. CASE kind[i] = "status"
      <3>1. After(m, v) = Listed(TRUE, r.content)
        BY <1>5, <2>1 DEF After, ListedAfter, UnlistedAfter
      <3>2. After(m, v).visible = TRUE /\ After(m, v).listed /\ After(m, v).content = r.content
        BY <3>1 DEF Listed
      <3> QED
        BY <1>3, <3>2 DEF Right
    <2>2. CASE kind[i] # "status"
      <3>1. v.content = item[i].content /\ v.listed
        BY <1>1, <1>6, <2>2 DEF Right
      <3>2. After(m, v) = [v EXCEPT !.visible = TRUE]
        BY <1>5, <2>2, <3>1 DEF After, ListedAfter
      <3>3. After(m, v).visible = TRUE /\ After(m, v).listed /\ After(m, v).content = r.content
        BY <1>3, <3>1, <3>2 DEF ListRecords
      <3> QED
        BY <1>3, <3>3 DEF Right
    <2> QED
      BY <2>1, <2>2
  <1> QED
    BY <1>0, <1>1, <1>3, <1>4, <1>5, <1>6, ObjectChanges

\* An item is hidden.
LEMMA HideInv ==
  ASSUME FeedbackInv, NEW i \in Items, Hide(i)
  PROVE  FeedbackInv'
  <1>r. PICK r : r = [item[i] EXCEPT !.visible = FALSE]
    OBVIOUS
  <1>0. FeedbackTyped /\ item \in [Items -> ItemRecords] /\ kind[i] \in ItemKinds
        /\ calls \in 0..MaxItemCalls
    BY DEF FeedbackInv, FeedbackTyped, FeedbackTypeOK, ItemRecords, ItemContents
  <1>1. /\ item[i].state = "live" /\ item' = [item EXCEPT ![i] = r]
        /\ UNCHANGED <<kind, itemListening, heardAll, list>>
        /\ kind[i] # "progress" /\ calls' \in 0..MaxItemCalls
    BY <1>r, <1>0, FeedbackAssumption DEF Hide, Live, ItemRecords, Called
  <1>3. /\ r \in ItemRecords /\ r.state = "live" /\ r.visible = FALSE
        /\ r.content = item[i].content /\ item'[i] = r
    BY <1>r, <1>0, <1>1 DEF ItemRecords
  <1>m. PICK m : m = [kind |-> kind[i], group |-> "hide", item |-> i,
                      visible |-> r.visible, content |-> r.content]
    OBVIOUS
  <1>4. itemMessages' = Append(itemMessages, m)
    BY <1>3, <1>m DEF Hide, NotifyItem
  <1>5. Sendable(m) /\ m.item = i /\ m.group = "hide"
    BY <1>0, <1>3, <1>m DEF Sendable, Messages, Groups, ItemRecords
  <1>6. ASSUME NEW v \in ListRecords, Right(kind[i], item[i], v) PROVE Right(kind[i], r, After(m, v))
    <2>0. /\ kind[i] # "status" => v.listed
          /\ kind[i] # "status" => v.content = item[i].content
      BY <1>1, <1>6 DEF Right
    <2>1. CASE v.listed
      <3>1. After(m, v) = [v EXCEPT !.visible = FALSE]
        BY <1>5, <2>1 DEF After, ListedAfter
      <3>2. After(m, v).visible = FALSE /\ After(m, v).listed /\ After(m, v).content = v.content
        BY <2>1, <3>1 DEF ListRecords
      <3> QED
        BY <1>3, <2>0, <3>2 DEF Right
    <2>2. CASE ~v.listed
      <3>1. kind[i] = "status"
        BY <2>0, <2>2
      <3>2. After(m, v) = NoItem
        BY <1>5, <2>2 DEF After, UnlistedAfter
      <3>3. After(m, v).visible = FALSE
        BY <3>2 DEF NoItem
      <3> QED
        BY <1>3, <3>1, <3>3 DEF Right
    <2> QED
      BY <2>1, <2>2
  <1> QED
    BY <1>0, <1>1, <1>3, <1>4, <1>5, <1>6, ObjectChanges

\* An item is disposed of.
LEMMA DisposeItemInv ==
  ASSUME FeedbackInv, NEW i \in Items, DisposeItem(i)
  PROVE  FeedbackInv'
  <1>r. PICK r : r = [item[i] EXCEPT !.state = "disposed"]
    OBVIOUS
  <1>0. FeedbackTyped /\ item \in [Items -> ItemRecords] /\ kind[i] \in ItemKinds
        /\ calls \in 0..MaxItemCalls
    BY DEF FeedbackInv, FeedbackTyped, FeedbackTypeOK, ItemRecords, ItemContents
  <1>1. /\ item[i].state = "live" /\ item' = [item EXCEPT ![i] = r]
        /\ UNCHANGED <<kind, itemListening, heardAll, list, calls>>
    BY <1>r, <1>0 DEF DisposeItem, Live, ItemRecords
  <1>3. r \in ItemRecords /\ r.state = "disposed" /\ item'[i] = r
    BY <1>r, <1>0, <1>1 DEF ItemRecords
  <1>m. PICK m : m = [kind |-> kind[i], group |-> "dispose", item |-> i,
                      visible |-> r.visible, content |-> r.content]
    OBVIOUS
  <1>4. itemMessages' = Append(itemMessages, m)
    BY <1>3, <1>m DEF DisposeItem, NotifyItem
  <1>5. Sendable(m) /\ m.item = i /\ m.group = "dispose"
    BY <1>0, <1>3, <1>m DEF Sendable, Messages, Groups, ItemRecords
  <1> QED
    BY <1>0, <1>1, <1>3, <1>4, <1>5, ObjectChanges

\* The invariant is kept by every step ...
LEMMA FeedbackStepInv == FeedbackInv /\ [FeedbackNext]_feedbackVars => FeedbackInv'
  <1> SUFFICES ASSUME FeedbackInv, [FeedbackNext]_feedbackVars PROVE FeedbackInv'
    OBVIOUS
  <1>1. ASSUME NEW i \in Items,
               \/ Create(i) \/ Write(i) \/ SetText(i) \/ Report(i) \/ Clear(i) \/ Show(i) \/ Hide(i)
               \/ DisposeItem(i)
        PROVE  FeedbackInv'
    BY <1>1, CreateInv, WriteInv, SetTextInv, ReportInv, ClearInv, ShowInv, HideInv, DisposeItemInv
  <1>2. CASE Arrive
    BY <1>2, ArriveInv
  <1>3. CASE StartListening
    BY <1>3, StartListeningInv
  <1>4. CASE UNCHANGED feedbackVars
    <2>1. UNCHANGED <<kind, item, itemMessages, itemListening, heardAll, list, calls>>
      BY <1>4 DEF feedbackVars
    <2>2. FeedbackTyped' /\ ItemStarts' /\ ItemEnds' /\ DeafListsNothing'
      BY <2>1 DEF FeedbackInv, FeedbackTyped, FeedbackTypeOK, ItemStarts, ItemEnds, DeafListsNothing
    <2>3. \A s : Hearing(s) => Hearing(s)'
      BY <2>1 DEF Hearing
    <2>4. \A s : AsLeft(s[Len(itemMessages)]) => AsLeft(s[Len(itemMessages)])'
      BY <2>1 DEF AsLeft
    <2>5. HeardRight'
      BY <2>1, <2>3, <2>4 DEF FeedbackInv, HeardRight
    <2> QED
      BY <2>2, <2>5 DEF FeedbackInv
  <1> QED
    BY <1>1, <1>2, <1>3, <1>4 DEF FeedbackNext

\* ... and says what is shown.
LEMMA ShownAsLeft == FeedbackInv => ItemsAreShown
  <1> SUFFICES ASSUME FeedbackInv, NEW i \in Items, Caught(i)
               PROVE  /\ list[i].listed => Live(i)
                      /\ heardAll /\ Live(i) =>
                           /\ list[i].visible = item[i].visible
                           /\ kind[i] # "status" \/ item[i].visible => list[i].content = item[i].content
    BY DEF ItemsAreShown
  <1>1. /\ itemMessages \in Seq(Messages) /\ item[i].state \in {"none", "live", "disposed"}
    BY DEF FeedbackInv, FeedbackTyped, FeedbackTypeOK
  <1>2. \A n \in DOMAIN itemMessages : ~IsAbout(itemMessages[n], i)
    BY DEF Caught, IsAbout
  <1>3. list[i].listed => Live(i)
    <2>1. CASE item[i].state = "none"
      BY <2>1 DEF FeedbackInv, ItemStarts, NoItem
    <2>2. CASE item[i].state = "disposed"
      <3>1. ~\E n \in DOMAIN itemMessages : Disposes(itemMessages[n], i)
        BY <1>2 DEF Disposes, IsAbout
      <3> QED
        BY <2>2, <3>1 DEF FeedbackInv, ItemEnds
    <2> QED
      BY <1>1, <2>1, <2>2 DEF Live
  <1>4. ASSUME heardAll, Live(i) PROVE Right(kind[i], item[i], list[i])
    <2>1. PICK s : Hearing(s) /\ AsLeft(s[Len(itemMessages)])
      BY <1>4 DEF FeedbackInv, HeardRight
    <2>n. PICK n : n = Len(itemMessages)
      OBVIOUS
    <2>2. n \in Nat /\ 0 \in 0..n /\ n \in 0..n /\ 0 <= n /\ \A k \in (0 + 1)..n : k \in DOMAIN itemMessages
      BY <1>1, <2>n
    <2>3. s[n][i] = s[0][i]
      BY <1>2, <2>1, <2>2, <2>n DEF Hearing, Quiet
    <2> QED
      BY <2>1, <2>3, <2>n DEF Hearing, AsLeft
  <1> QED
    BY <1>3, <1>4 DEF Right, Live

\* The objects, the notifications on their way and the window's list keep
\* their types.
THEOREM FeedbackTypeCorrect == FeedbackSpec => []FeedbackTypeOK
  <1>1. FeedbackInv => FeedbackTypeOK
    BY DEF FeedbackInv, FeedbackTyped
  <1> QED
    BY <1>1, InitFeedback, FeedbackStepInv, PTL DEF FeedbackSpec

\* A window that has taken every notification of an item lists it only while
\* it lives, and one that has listened from the start lists it as the
\* extension left it, whatever was done to it and to other items in between.
THEOREM ItemsStayShown == FeedbackSpec => []ItemsAreShown
  <1> QED
    BY InitFeedback, FeedbackStepInv, ShownAsLeft, PTL DEF FeedbackSpec

-----------------------------------------------------------------------------
(* Webviews.  The frame of a panel follows what the window has (Follows);  *)
(* what the window has, or will have when the notifications on their way   *)
(* have been taken, is what the extension set (Told).  The messages a page *)
(* was handed, those its panel keeps beyond them and those on their way    *)
(* are in the order in which they were posted (Ordered), and as long as a  *)
(* panel is not revealed it is made once (Whole).                          *)

PageNotes    == [group : {"create", "setHtml"}, id : Ids, html : Htmls]
PostNotes    == [group : {"postMessage"}, id : Ids, message : Posts]
PanelRecords == [html : Htmls, receiver : Panels]
WebviewRecords == [html : Htmls, messages : Seq(Posts), due : BOOLEAN]
ObjectRecords == [state : {"none", "live", "disposed"}, id : Ids, html : Htmls, blank : BOOLEAN]
FrameRecords == [flights : SUBSET Htmls, want : Htmls, waiting : BOOLEAN, page : Htmls,
                 error : BOOLEAN, delivered : Nat, received : Seq(Posts)]
CountRecords == [html : Nat, posts : Nat, reveals : Nat]

IsPage(m, i)   == m.id = i /\ m.group \in {"create", "setHtml"}
IsCreate(m, i) == m.id = i /\ m.group = "create"
IsPost(m, i)   == m.id = i /\ m.group = "postMessage"

PageOf(r) == IF r.blank THEN 0 ELSE r.html

WebviewTyped ==
  /\ clock \in Ids
  /\ object \in [Panels -> ObjectRecords] /\ \A o \in Panels : object[o].state = "none" => object[o].blank
  /\ registry \in [Ids -> {NoRecord} \union PanelRecords]
  /\ panelMessages \in Seq(PageNotes \union PostNotes)
  /\ webviews \in [Ids -> {NoRecord} \union WebviewRecords]
  /\ frame \in [Ids -> FrameRecords]
  /\ count \in CountRecords
  /\ count.html + count.posts + count.reveals <= MaxPanelCalls

Follows ==
  \A i \in Ids :
    /\ frame[i].waiting => frame[i].want \in frame[i].flights
    /\ webviews[i] # NoRecord /\ ~webviews[i].due =>
         /\ frame[i].want = webviews[i].html
         /\ ~frame[i].waiting => frame[i].error \/ frame[i].page = frame[i].want

HasOwner(i) == \E q \in Panels : Made(q) /\ PanelId(q) = i

Owned ==
  /\ \A n \in DOMAIN panelMessages : HasOwner(panelMessages[n].id)
  /\ \A i \in Ids : webviews[i] # NoRecord => HasOwner(i)

\* The window has the panel, or is told to make it first of all.
Begun(i, msgs, views) ==
  \/ views[i] # NoRecord
  \/ \E k \in DOMAIN msgs : IsCreate(msgs[k], i) /\ \A n \in 1..(k - 1) : msgs[n].id # i

\* What the window will have in the end is html.
EndsWith(i, msgs, views, html) ==
  /\ (\A n \in DOMAIN msgs : ~IsPage(msgs[n], i)) => views[i].html = html
  /\ \A n \in DOMAIN msgs :
       IsPage(msgs[n], i) /\ (\A k \in DOMAIN msgs : k > n => ~IsPage(msgs[k], i)) => msgs[n].html = html

Told ==
  \A o \in Panels :
    Alone(o) /\ object[o].state = "live" =>
      /\ registry[PanelId(o)] # NoRecord
      /\ Begun(PanelId(o), panelMessages, webviews)
      /\ EndsWith(PanelId(o), panelMessages, webviews, PageOf(object[o]))

Rising(s)  == \A m, n \in DOMAIN s : m < n => s[m] < s[n]
UpTo(s, c) == \A n \in DOMAIN s : s[n] <= c

Ordered ==
  /\ \A n \in DOMAIN panelMessages :
       panelMessages[n].group = "postMessage" =>
         /\ panelMessages[n].message <= count.posts
         /\ \A k \in DOMAIN panelMessages :
              k < n /\ panelMessages[k].group = "postMessage" => panelMessages[k].message < panelMessages[n].message
  /\ \A i \in Ids :
       /\ Rising(frame[i].received) /\ UpTo(frame[i].received, count.posts)
       /\ \A n \in DOMAIN panelMessages : IsPost(panelMessages[n], i) =>
            \A k \in DOMAIN frame[i].received : frame[i].received[k] < panelMessages[n].message
       /\ webviews[i] # NoRecord =>
            /\ Rising(webviews[i].messages) /\ UpTo(webviews[i].messages, count.posts)
            /\ \A n \in DOMAIN webviews[i].messages : n > frame[i].delivered =>
                 \A k \in DOMAIN frame[i].received : frame[i].received[k] < webviews[i].messages[n]
            /\ \A n \in DOMAIN panelMessages : IsPost(panelMessages[n], i) =>
                 \A k \in DOMAIN webviews[i].messages : webviews[i].messages[k] < panelMessages[n].message

\* Nobody else has the id, and nothing has been revealed.
Simple(i) == count.reveals = 0 /\ \A o \in Panels : Made(o) /\ PanelId(o) = i => Alone(o)

Whole ==
  \A i \in Ids : Simple(i) =>
    /\ \A n, k \in DOMAIN panelMessages : IsCreate(panelMessages[n], i) /\ IsCreate(panelMessages[k], i) => n = k
    /\ webviews[i] # NoRecord =>
         /\ \A n \in DOMAIN panelMessages : ~IsCreate(panelMessages[n], i)
         /\ frame[i].delivered <= Len(webviews[i].messages)
         /\ Len(frame[i].received) = frame[i].delivered
         /\ \A k \in 1..frame[i].delivered : frame[i].received[k] = webviews[i].messages[k]
    /\ webviews[i] = NoRecord => frame[i].delivered = 0 /\ frame[i].received = <<>>

WebviewInv == WebviewTyped /\ Follows /\ Owned /\ Told /\ Ordered /\ Whole

\* No panel is made, and the window has none.
LEMMA InitWebviews == WebviewInit => WebviewInv
  <1> SUFFICES ASSUME WebviewInit PROVE WebviewInv
    OBVIOUS
  <1>1. 1 \in Ids /\ 0 \in Htmls
    BY WebviewsAssumption DEF Ids, Htmls
  <1>2. NoFrame \in FrameRecords /\ NoFrame.waiting = FALSE /\ NoFrame.received = <<>> /\ NoFrame.delivered = 0
    BY <1>1 DEF NoFrame, FrameRecords
  <1>3. /\ panelMessages = <<>> /\ DOMAIN panelMessages = {}
        /\ panelMessages \in Seq(PageNotes \union PostNotes)
        /\ webviews \in [Ids -> {NoRecord} \union WebviewRecords]
        /\ \A i \in Ids : webviews[i] = NoRecord
        /\ frame \in [Ids -> FrameRecords] /\ \A i \in Ids : frame[i] = NoFrame
        /\ registry \in [Ids -> {NoRecord} \union PanelRecords]
    BY <1>2 DEF WebviewInit
  <1>4. /\ object \in [Panels -> ObjectRecords] /\ \A o \in Panels : object[o].state = "none" /\ object[o].blank
        /\ count \in CountRecords /\ count.html = 0 /\ count.posts = 0 /\ count.reveals = 0
    BY <1>1 DEF WebviewInit, ObjectRecords, CountRecords
  <1>5. WebviewTyped
    BY <1>1, <1>3, <1>4, WebviewsAssumption DEF WebviewTyped, WebviewInit
  <1>6. Follows /\ Owned
    BY <1>2, <1>3 DEF Follows, Owned
  <1>7. Told
    BY <1>4 DEF Told
  <1>8. Ordered
    BY <1>2, <1>3 DEF Ordered, Rising, UpTo
  <1>9. Whole
    BY <1>2, <1>3 DEF Whole
  <1> QED
    BY <1>5, <1>6, <1>7, <1>8, <1>9 DEF WebviewInv

\* The extension does something to its panels and the window is sent m.
LEMMA PanelSends ==
  ASSUME WebviewInv, NEW m \in PageNotes \union PostNotes,
         panelMessages' = Append(panelMessages, m), UNCHANGED <<webviews, frame>>,
         WebviewTyped',
         count'.posts >= count.posts, count'.reveals = 0 => count.reveals = 0,
         \A q \in Panels : Made(q) => object'[q].state # "none" /\ object'[q].id = object[q].id,
         \E q \in Panels : object'[q].state # "none" /\ object'[q].id = m.id,
         m.group = "postMessage" => m.message > count.posts /\ m.message <= count'.posts,
         m.group = "create" /\ Simple(m.id)' => ~HasOwner(m.id),
         \A o \in Panels : object'[o].state = "live" /\ Alone(o)' =>
           /\ registry'[object'[o].id] # NoRecord
           /\ \/ /\ IsPage(m, object'[o].id) /\ m.html = PageOf(object'[o])
                 /\ \/ object[o].state = "live" /\ object'[o].id = object[o].id
                    \/ m.group = "create" /\ ~HasOwner(m.id)
              \/ /\ object[o].state = "live" /\ object'[o].id = object[o].id
                 /\ ~IsPage(m, object'[o].id) /\ PageOf(object'[o]) = PageOf(object[o])
  PROVE  WebviewInv'
  <1>n. PICK n : n = Len(panelMessages)
    OBVIOUS
  <1>0. WebviewTyped /\ panelMessages \in Seq(PageNotes \union PostNotes)
    BY DEF WebviewInv, WebviewTyped
  <1>1. /\ n \in Nat /\ DOMAIN panelMessages = 1..n /\ DOMAIN panelMessages' = 1..(n + 1)
        /\ panelMessages'[n + 1] = m
        /\ \A k \in 1..n : panelMessages'[k] = panelMessages[k]
    BY <1>n, <1>0
  <1>2. \A i : HasOwner(i) => HasOwner(i)'
    BY DEF HasOwner, Made, PanelId
  <1>3. Follows'
    BY DEF WebviewInv, Follows
  <1>4. Owned'
    <2>1. \E q \in Panels : Made(q)' /\ PanelId(q)' = m.id
      BY DEF Made, PanelId
    <2>2. ASSUME NEW k \in DOMAIN panelMessages' PROVE \E q \in Panels : Made(q)' /\ PanelId(q)' = panelMessages'[k].id
      <3>1. CASE k = n + 1
        BY <1>1, <2>1, <3>1
      <3>2. CASE k # n + 1
        <4>1. k \in DOMAIN panelMessages /\ panelMessages'[k] = panelMessages[k]
          BY <1>1, <3>2
        <4>2. HasOwner(panelMessages[k].id)
          BY <4>1 DEF WebviewInv, Owned
        <4> QED
          BY <4>1, <4>2 DEF HasOwner, Made, PanelId
      <3> QED
        BY <3>1, <3>2
    <2>3. \A i \in Ids : webviews'[i] # NoRecord => HasOwner(i)'
      BY <1>2 DEF WebviewInv, Owned
    <2> QED
      BY <2>2, <2>3 DEF Owned, HasOwner
  <1>5. Told'
    <2> SUFFICES ASSUME NEW o \in Panels, Alone(o)', object'[o].state = "live"
                 PROVE  /\ registry'[object'[o].id] # NoRecord
                        /\ Begun(object'[o].id, panelMessages', webviews')
                        /\ EndsWith(object'[o].id, panelMessages', webviews', PageOf(object'[o]))
      BY DEF Told, PanelId
    <2>1. registry'[object'[o].id] # NoRecord
      OBVIOUS
    <2>2. ASSUME object[o].state = "live", object'[o].id = object[o].id
          PROVE  /\ Alone(o) /\ Begun(object[o].id, panelMessages, webviews)
                 /\ EndsWith(object[o].id, panelMessages, webviews, PageOf(object[o]))
      <3>1. Alone(o)
        BY <2>2 DEF Alone, Made, PanelId
      <3> QED
        BY <2>2, <3>1 DEF WebviewInv, Told, PanelId
    <2>i. PICK i : i = object'[o].id
      OBVIOUS
    <2>3. ASSUME Begun(i, panelMessages, webviews) PROVE Begun(i, panelMessages', webviews')
      <3>1. CASE webviews[i] # NoRecord
        BY <3>1 DEF Begun
      <3>2. CASE \E k \in DOMAIN panelMessages :
                   IsCreate(panelMessages[k], i) /\ \A j \in 1..(k - 1) : panelMessages[j].id # i
        <4>1. PICK k \in 1..n : IsCreate(panelMessages[k], i) /\ \A j \in 1..(k - 1) : panelMessages[j].id # i
          BY <1>1, <3>2
        <4>2. k \in DOMAIN panelMessages' /\ IsCreate(panelMessages'[k], i)
          BY <1>1, <4>1
        <4>3. \A j \in 1..(k - 1) : panelMessages'[j].id # i
          <5>1. \A j \in 1..(k - 1) : j \in 1..n
            BY <1>1
          <5> QED
            BY <1>1, <4>1, <5>1
        <4> QED
          BY <4>2, <4>3 DEF Begun
      <3> QED
        BY <2>3, <3>1, <3>2 DEF Begun
    <2>4. CASE IsPage(m, i) /\ m.html = PageOf(object'[o])
      <3>1. EndsWith(i, panelMessages', webviews', PageOf(object'[o]))
        <4>1. n + 1 \in DOMAIN panelMessages' /\ IsPage(panelMessages'[n + 1], i)
          BY <1>1, <2>4
        <4>2. ASSUME NEW k \in DOMAIN panelMessages', k # n + 1 PROVE n + 1 > k
          BY <1>1, <4>2
        <4> QED
          BY <1>1, <2>4, <4>1, <4>2 DEF EndsWith
      <3>2. CASE object[o].state = "live" /\ object'[o].id = object[o].id
        BY <2>1, <2>2, <2>3, <2>i, <3>1, <3>2
      <3>3. CASE m.group = "create" /\ ~HasOwner(m.id)
        <4>1. \A j \in 1..n : panelMessages'[j].id # i
          BY <1>1, <2>4, <3>3 DEF WebviewInv, Owned, IsPage
        <4>2. IsCreate(panelMessages'[n + 1], i) /\ (n + 1) - 1 = n /\ n + 1 \in DOMAIN panelMessages'
          BY <1>1, <2>4, <3>3 DEF IsPage, IsCreate
        <4>3. Begun(i, panelMessages', webviews')
          BY <4>1, <4>2 DEF Begun
        <4> QED
          BY <2>1, <2>i, <3>1, <4>3
      <3> QED
        BY <2>4, <2>i, <3>2, <3>3
    <2>5. CASE /\ object[o].state = "live" /\ object'[o].id = object[o].id
               /\ ~IsPage(m, i) /\ PageOf(object'[o]) = PageOf(object[o])
      <3>1. EndsWith(i, panelMessages, webviews, PageOf(object[o]))
        BY <2>2, <2>5, <2>i
      <3>2. (\A k \in DOMAIN panelMessages' : ~IsPage(panelMessages'[k], i))
              => webviews'[i].html = PageOf(object'[o])
        BY <1>1, <2>5, <3>1 DEF EndsWith
      <3>3. ASSUME NEW k \in DOMAIN panelMessages', IsPage(panelMessages'[k], i),
                   \A h \in DOMAIN panelMessages' : h > k => ~IsPage(panelMessages'[h], i)
            PROVE  panelMessages'[k].html = PageOf(object'[o])
        <4>1. k \in 1..n
          BY <1>1, <2>5, <3>3
        <4> QED
          BY <1>1, <2>5, <3>1, <3>3, <4>1 DEF EndsWith
      <3>4. EndsWith(i, panelMessages', webviews', PageOf(object'[o]))
        BY <3>2, <3>3 DEF EndsWith
      <3> QED
        BY <2>1, <2>2, <2>3, <2>5, <2>i, <3>4
    <2> QED
      BY <2>4, <2>5, <2>i
  <1>6. Ordered'
    <2>0. Ordered /\ count.posts \in Nat /\ count'.posts \in Nat
      BY DEF WebviewInv, WebviewTyped, CountRecords
    <2>m. \A k \in 1..n : panelMessages[k].group = "postMessage" => panelMessages[k].message \in Nat
      <3>1. \A k \in 1..n : panelMessages[k] \in PageNotes \union PostNotes
        BY <1>0, <1>1, ElementOfSeq
      <3> QED
        BY <3>1 DEF PageNotes, PostNotes, Posts
    <2>n. m.group = "postMessage" => m.message \in Nat
      BY DEF PageNotes, PostNotes, Posts
    <2>1. \A k \in 1..(n + 1) :
            panelMessages'[k].group = "postMessage" =>
              /\ panelMessages'[k].message <= count'.posts
              /\ \A h \in 1..(n + 1) :
                   h < k /\ panelMessages'[h].group = "postMessage"
                     => panelMessages'[h].message < panelMessages'[k].message
      <3> SUFFICES ASSUME NEW k \in 1..(n + 1), panelMessages'[k].group = "postMessage"
                   PROVE  /\ panelMessages'[k].message <= count'.posts
                          /\ \A h \in 1..(n + 1) :
                               h < k /\ panelMessages'[h].group = "postMessage"
                                 => panelMessages'[h].message < panelMessages'[k].message
        OBVIOUS
      <3>1. CASE k \in 1..n
        <4>1. \A h \in 1..(n + 1) : h < k => h \in 1..n
          BY <1>1, <3>1
        <4>2. panelMessages[k].message <= count.posts /\ panelMessages[k].message \in Nat
          BY <1>1, <2>0, <2>m, <3>1 DEF Ordered
        <4>3. panelMessages'[k].message <= count'.posts
          BY <1>1, <2>0, <3>1, <4>2
        <4> QED
          BY <1>1, <2>0, <3>1, <4>1, <4>3 DEF Ordered
      <3>2. CASE k = n + 1
        <4>1. \A h \in 1..(n + 1) : h < k => h \in 1..n
          BY <1>1, <3>2
        <4>2. m.message > count.posts /\ m.message <= count'.posts /\ m.message \in Nat
          BY <1>1, <2>n, <3>2
        <4>3. \A h \in 1..n : panelMessages[h].group = "postMessage" => panelMessages[h].message < m.message
          BY <1>1, <2>0, <2>m, <4>2 DEF Ordered
        <4> QED
          BY <1>1, <3>2, <4>1, <4>2, <4>3
      <3> QED
        BY <1>1, <3>1, <3>2
    <2>2. \A s \in Seq(Posts) : UpTo(s, count.posts) =>
            /\ UpTo(s, count'.posts)
            /\ m.group = "postMessage" => \A k \in DOMAIN s : s[k] < m.message
      <3> SUFFICES ASSUME NEW s \in Seq(Posts), UpTo(s, count.posts)
                   PROVE  /\ UpTo(s, count'.posts)
                          /\ m.group = "postMessage" => \A k \in DOMAIN s : s[k] < m.message
        OBVIOUS
      <3>1. \A k \in DOMAIN s : s[k] \in Nat /\ s[k] <= count.posts
        <4>1. \A k \in DOMAIN s : s[k] \in Posts
          BY ElementOfSeq
        <4> QED
          BY <4>1 DEF UpTo, Posts
      <3> QED
        BY <2>0, <2>n, <3>1 DEF UpTo
    <2>3. \A i \in Ids : frame[i].received \in Seq(Posts) /\ (webviews[i] # NoRecord => webviews[i].messages \in Seq(Posts))
      BY <1>0 DEF WebviewTyped, FrameRecords, WebviewRecords
    <2>4. ASSUME NEW i \in Ids, NEW s \in Seq(Posts), UpTo(s, count.posts),
                 \A k \in DOMAIN panelMessages : IsPost(panelMessages[k], i) =>
                   \A h \in DOMAIN s : s[h] < panelMessages[k].message
          PROVE  \A k \in DOMAIN panelMessages' : IsPost(panelMessages'[k], i) =>
                   \A h \in DOMAIN s : s[h] < panelMessages'[k].message
      BY <1>1, <2>2, <2>4 DEF IsPost
    <2>5. ASSUME NEW i \in Ids
          PROVE  /\ Rising(frame[i].received) /\ UpTo(frame[i].received, count'.posts)
                 /\ \A k \in DOMAIN panelMessages' : IsPost(panelMessages'[k], i) =>
                      \A h \in DOMAIN frame[i].received : frame[i].received[h] < panelMessages'[k].message
      BY <2>0, <2>2, <2>3, <2>4 DEF Ordered
    <2>6. ASSUME NEW i \in Ids, webviews[i] # NoRecord
          PROVE  /\ Rising(webviews[i].messages) /\ UpTo(webviews[i].messages, count'.posts)
                 /\ \A k \in DOMAIN webviews[i].messages : k > frame[i].delivered =>
                      \A h \in DOMAIN frame[i].received : frame[i].received[h] < webviews[i].messages[k]
                 /\ \A k \in DOMAIN panelMessages' : IsPost(panelMessages'[k], i) =>
                      \A h \in DOMAIN webviews[i].messages : webviews[i].messages[h] < panelMessages'[k].message
      BY <2>0, <2>2, <2>3, <2>4, <2>6 DEF Ordered
    <2> QED
      BY <1>1, <2>1, <2>5, <2>6 DEF Ordered
  <1>7. Whole'
    <2> SUFFICES ASSUME NEW i \in Ids, Simple(i)'
                 PROVE  /\ \A k, h \in DOMAIN panelMessages' :
                             IsCreate(panelMessages'[k], i) /\ IsCreate(panelMessages'[h], i) => k = h
                        /\ webviews[i] # NoRecord =>
                             /\ \A k \in DOMAIN panelMessages' : ~IsCreate(panelMessages'[k], i)
                             /\ frame[i].delivered <= Len(webviews[i].messages)
                             /\ Len(frame[i].received) = frame[i].delivered
                             /\ \A k \in 1..frame[i].delivered : frame[i].received[k] = webviews[i].messages[k]
                        /\ webviews[i] = NoRecord => frame[i].delivered = 0 /\ frame[i].received = <<>>
      BY DEF Whole
    <2>1. Simple(i)
      BY DEF Simple, Alone, Made, PanelId
    <2>2. /\ \A k, h \in DOMAIN panelMessages :
               IsCreate(panelMessages[k], i) /\ IsCreate(panelMessages[h], i) => k = h
          /\ webviews[i] # NoRecord =>
               /\ \A k \in DOMAIN panelMessages : ~IsCreate(panelMessages[k], i)
               /\ frame[i].delivered <= Len(webviews[i].messages)
               /\ Len(frame[i].received) = frame[i].delivered
               /\ \A k \in 1..frame[i].delivered : frame[i].received[k] = webviews[i].messages[k]
          /\ webviews[i] = NoRecord => frame[i].delivered = 0 /\ frame[i].received = <<>>
      BY <2>1 DEF WebviewInv, Whole
    <2>3. IsCreate(m, i) => /\ \A k \in DOMAIN panelMessages : ~IsCreate(panelMessages[k], i)
                            /\ webviews[i] = NoRecord
      <3> SUFFICES ASSUME IsCreate(m, i)
                   PROVE  /\ \A k \in DOMAIN panelMessages : ~IsCreate(panelMessages[k], i)
                          /\ webviews[i] = NoRecord
        OBVIOUS
      <3>1. ~HasOwner(i)
        BY DEF IsCreate
      <3> QED
        BY <3>1 DEF WebviewInv, Owned, IsCreate
    <2> QED
      BY <1>1, <2>2, <2>3
  <1> QED
    BY <1>3, <1>4, <1>5, <1>6, <1>7 DEF WebviewInv

\* The extension does something the window is not told of.
LEMMA PanelKeepsQuiet ==
  ASSUME WebviewInv, WebviewTyped',
         UNCHANGED <<panelMessages, webviews, frame, registry>>,
         count'.posts = count.posts, count'.reveals = count.reveals,
         \A q \in Panels : object'[q].state = object[q].state /\ object'[q].id = object[q].id,
         \A q \in Panels : object[q].state = "live" /\ registry[object[q].id] # NoRecord =>
           PageOf(object'[q]) = PageOf(object[q])
  PROVE  WebviewInv'
  <1>1. \A o \in Panels : /\ Made(o)' <=> Made(o)
                          /\ PanelId(o)' = PanelId(o)
                          /\ Alone(o)' <=> Alone(o)
    BY DEF Made, PanelId, Alone
  <1>2. Follows' /\ Ordered'
    BY DEF WebviewInv, Follows, Ordered
  <1>3. \A i : HasOwner(i) => HasOwner(i)'
    BY <1>1 DEF HasOwner
  <1>4. \A i : Simple(i)' => Simple(i)
    BY <1>1 DEF Simple
  <1>5. Owned'
    <2>1. \A n \in DOMAIN panelMessages : \E q \in Panels : Made(q)' /\ PanelId(q)' = panelMessages[n].id
      BY <1>1 DEF WebviewInv, Owned, HasOwner
    <2>2. \A i \in Ids : webviews[i] # NoRecord => \E q \in Panels : Made(q)' /\ PanelId(q)' = i
      BY <1>1 DEF WebviewInv, Owned, HasOwner
    <2> QED
      BY <2>1, <2>2 DEF Owned, HasOwner
  <1>6. Whole'
    BY <1>4 DEF WebviewInv, Whole
  <1>7. Told'
    <2> SUFFICES ASSUME NEW o \in Panels, Alone(o)', object'[o].state = "live"
                 PROVE  /\ registry[object'[o].id] # NoRecord
                        /\ Begun(object'[o].id, panelMessages, webviews)
                        /\ EndsWith(object'[o].id, panelMessages, webviews, PageOf(object'[o]))
      BY DEF Told, PanelId
    <2>1. /\ object[o].state = "live" /\ object'[o].id = object[o].id /\ registry[object[o].id] # NoRecord
          /\ Begun(object[o].id, panelMessages, webviews)
          /\ EndsWith(object[o].id, panelMessages, webviews, PageOf(object[o]))
      BY <1>1 DEF WebviewInv, Told, PanelId
    <2> QED
      BY <2>1
  <1> QED
    BY <1>2, <1>5, <1>6, <1>7 DEF WebviewInv

\* One lemma per action.
LEMMA TickInv ==
  ASSUME WebviewInv, Tick
  PROVE  WebviewInv'
  <1>1. clock' \in Ids /\ UNCHANGED <<object, registry, panelMessages, webviews, frame, count>>
    BY WebviewsAssumption DEF Tick, WebviewInv, WebviewTyped, Ids
  <1>2. WebviewTyped'
    BY <1>1 DEF WebviewInv, WebviewTyped
  <1> QED
    BY <1>1, <1>2, PanelKeepsQuiet

\* An extension makes a panel.
LEMMA CreateWebviewPanelInv ==
  ASSUME WebviewInv, NEW o \in Panels, CreateWebviewPanel(o)
  PROVE  WebviewInv'
  <1>r. PICK r : r = [object[o] EXCEPT !.state = "live", !.id = clock]
    OBVIOUS
  <1>m. PICK m : m = [group |-> "create", id |-> clock, html |-> 0]
    OBVIOUS
  <1>0. WebviewTyped /\ object[o] \in ObjectRecords /\ clock \in Ids /\ 0 \in Htmls
    BY WebviewsAssumption DEF WebviewInv, WebviewTyped, Htmls
  <1>1. /\ object[o].state = "none" /\ object' = [object EXCEPT ![o] = r]
        /\ registry' = [registry EXCEPT ![clock] = [html |-> 0, receiver |-> o]]
        /\ panelMessages' = Append(panelMessages, m)
        /\ UNCHANGED <<clock, webviews, frame, count>>
    BY <1>r, <1>m, <1>0 DEF CreateWebviewPanel, Made, NotifyPanel, WebviewTyped, ObjectRecords
  <1>2. r \in ObjectRecords /\ r.state = "live" /\ r.id = clock /\ r.blank = object[o].blank /\ r.html = object[o].html
    BY <1>r, <1>0 DEF ObjectRecords
  <1>3. m \in PageNotes /\ m.group = "create" /\ m.id = clock /\ m.html = 0
    BY <1>m, <1>0 DEF PageNotes
  <1>4. \A q \in Panels : object'[q] = IF q = o THEN r ELSE object[q]
    BY <1>0, <1>1 DEF WebviewTyped
  <1>5. registry' \in [Ids -> {NoRecord} \union PanelRecords] /\ registry'[clock] # NoRecord
        /\ \A i \in Ids : i # clock => registry'[i] = registry[i]
    <2>1. [html |-> 0, receiver |-> o] \in PanelRecords /\ [html |-> 0, receiver |-> o] # NoRecord
      BY <1>0 DEF PanelRecords, NoRecord
    <2> QED
      BY <1>0, <1>1, <2>1 DEF WebviewTyped
  <1>6. WebviewTyped'
    BY <1>0, <1>1, <1>2, <1>3, <1>4, <1>5 DEF WebviewTyped
  <1>7. ASSUME NEW q \in Panels, object'[q].state = "live", Alone(q)'
        PROVE  /\ registry'[object'[q].id] # NoRecord
               /\ \/ /\ IsPage(m, object'[q].id) /\ m.html = PageOf(object'[q])
                     /\ m.group = "create" /\ ~HasOwner(m.id)
                  \/ /\ object[q].state = "live" /\ object'[q].id = object[q].id
                     /\ ~IsPage(m, object'[q].id) /\ PageOf(object'[q]) = PageOf(object[q])
    <2>1. \A p \in Panels \ {q} : object'[p].state # "none" => object'[p].id # object'[q].id
      BY <1>7 DEF Alone, Made, PanelId
    <2>2. CASE q = o
      <3>1. ~HasOwner(m.id)
        BY <1>1, <1>2, <1>3, <1>4, <2>1, <2>2 DEF HasOwner, Made, PanelId
      <3>2. r.blank
        BY <1>0, <1>1, <1>2 DEF WebviewTyped
      <3> QED
        BY <1>2, <1>3, <1>4, <1>5, <2>2, <3>1, <3>2 DEF IsPage, PageOf
    <2>3. CASE q # o
      <3>1. object'[q] = object[q] /\ object[q].id # clock /\ object[q].id \in Ids
        BY <1>0, <1>2, <1>4, <2>1, <2>3 DEF WebviewTyped, ObjectRecords
      <3>2. Alone(q)
        BY <1>1, <1>4, <1>7, <2>1, <2>3 DEF Alone, Made, PanelId
      <3>3. registry[object[q].id] # NoRecord
        BY <1>7, <3>1, <3>2 DEF WebviewInv, Told, PanelId
      <3> QED
        BY <1>3, <1>5, <1>7, <3>1, <3>3 DEF IsPage
    <2> QED
      BY <2>2, <2>3
  <1>8. Simple(m.id)' => ~HasOwner(m.id)
    <2> SUFFICES ASSUME Simple(m.id)' PROVE ~HasOwner(m.id)
      OBVIOUS
    <2>1. Alone(o)'
      BY <1>2, <1>3, <1>4 DEF Simple, Made, PanelId
    <2> QED
      BY <1>1, <1>2, <1>3, <1>4, <2>1 DEF HasOwner, Alone, Made, PanelId
  <1>9. /\ \A q \in Panels : Made(q) => object'[q].state # "none" /\ object'[q].id = object[q].id
        /\ \E q \in Panels : object'[q].state # "none" /\ object'[q].id = m.id
    BY <1>1, <1>2, <1>3, <1>4 DEF Made
  <1>c. count.posts \in Nat
    BY <1>0 DEF WebviewTyped, CountRecords
  <1>a. ASSUME NEW q \in Panels, object'[q].state = "live", Alone(q)'
        PROVE  /\ registry'[object'[q].id] # NoRecord
               /\ \/ /\ IsPage(m, object'[q].id) /\ m.html = PageOf(object'[q])
                     /\ \/ object[q].state = "live" /\ object'[q].id = object[q].id
                        \/ m.group = "create" /\ ~HasOwner(m.id)
                  \/ /\ object[q].state = "live" /\ object'[q].id = object[q].id
                     /\ ~IsPage(m, object'[q].id) /\ PageOf(object'[q]) = PageOf(object[q])
    BY <1>7, <1>a
  <1> QED
    BY <1>1, <1>3, <1>6, <1>8, <1>9, <1>c, <1>a, PanelSends

\* What a panel that is made and lives has told of: a consequence of Told.
LEMMA PanelStays ==
  ASSUME WebviewInv, NEW o \in Panels, Made(o), NEW r \in ObjectRecords,
         object' = [object EXCEPT ![o] = r], r.id = object[o].id, r.state # "none",
         r.state = "live" => object[o].state = "live"
  PROVE  \A q \in Panels : object'[q].state = "live" /\ Alone(q)' =>
           /\ object[q].state = "live" /\ object'[q].id = object[q].id /\ Alone(q)
           /\ registry[object[q].id] # NoRecord
           /\ q # o => object'[q] = object[q] /\ object[q].id # object[o].id
           /\ q = o => object'[q] = r
  <1> SUFFICES ASSUME NEW q \in Panels, object'[q].state = "live", Alone(q)'
               PROVE  /\ object[q].state = "live" /\ object'[q].id = object[q].id /\ Alone(q)
                      /\ registry[object[q].id] # NoRecord
                      /\ q # o => object'[q] = object[q] /\ object[q].id # object[o].id
                      /\ q = o => object'[q] = r
    OBVIOUS
  <1>0. object \in [Panels -> ObjectRecords]
    BY DEF WebviewInv, WebviewTyped
  <1>1. \A p \in Panels : object'[p] = IF p = o THEN r ELSE object[p]
    BY <1>0
  <1>2. object[q].state = "live" /\ object'[q].id = object[q].id
    BY <1>1
  <1>3. \A p \in Panels : Made(p) => object'[p].state # "none" /\ object'[p].id = object[p].id
    BY <1>1 DEF Made
  <1>4. Alone(q)
    BY <1>2, <1>3 DEF Alone, Made, PanelId
  <1>5. registry[object[q].id] # NoRecord
    BY <1>2, <1>4 DEF WebviewInv, Told, PanelId
  <1>6. q # o => object[q].id # object[o].id
    BY <1>4 DEF Alone, PanelId
  <1> QED
    BY <1>1, <1>2, <1>4, <1>5, <1>6

\* An extension sets the html of a panel.
LEMMA SetHtmlInv ==
  ASSUME WebviewInv, NEW o \in Panels, SetHtml(o)
  PROVE  WebviewInv'
  <1>h. PICK h : h = count.html + 1
    OBVIOUS
  <1>r. PICK r : r = [object[o] EXCEPT !.html = h, !.blank = FALSE]
    OBVIOUS
  <1>0. WebviewTyped /\ object[o] \in ObjectRecords /\ count \in CountRecords
        /\ count.html + count.posts + count.reveals <= MaxPanelCalls
    BY DEF WebviewInv, WebviewTyped
  <1>1. /\ Made(o) /\ CanCall /\ object' = [object EXCEPT ![o] = r]
        /\ count' = [count EXCEPT !.html = @ + 1]
        /\ UNCHANGED <<clock, webviews, frame>>
    BY <1>h, <1>r, <1>0 DEF SetHtml, WebviewTyped, ObjectRecords
  <1>2. /\ count' \in CountRecords /\ count'.posts = count.posts /\ count'.reveals = count.reveals
        /\ count'.html + count'.posts + count'.reveals <= MaxPanelCalls
        /\ h \in Htmls /\ count.posts \in Nat
    BY <1>h, <1>0, <1>1, WebviewsAssumption DEF CountRecords, CanCall, Htmls
  <1>3. /\ r \in ObjectRecords /\ r.state = object[o].state /\ r.id = object[o].id
        /\ r.html = h /\ r.blank = FALSE /\ PageOf(r) = h /\ r.state # "none"
    BY <1>r, <1>0, <1>1, <1>2 DEF ObjectRecords, PageOf, Made
  <1>4. \A q \in Panels : object'[q] = IF q = o THEN r ELSE object[q]
    BY <1>0, <1>1 DEF WebviewTyped
  <1>5. /\ object' \in [Panels -> ObjectRecords]
        /\ \A q \in Panels : object'[q].state = "none" => object'[q].blank
    BY <1>0, <1>1, <1>3, <1>4 DEF WebviewTyped
  <1>6. CASE registry[object[o].id] = NoRecord
    <2>1. UNCHANGED <<registry, panelMessages>>
      BY <1>6 DEF SetHtml, PanelId
    <2>2. WebviewTyped'
      BY <1>0, <1>1, <1>2, <1>5, <2>1 DEF WebviewTyped
    <2>3. \A q \in Panels : object'[q].state = object[q].state /\ object'[q].id = object[q].id
      BY <1>3, <1>4
    <2>4. \A q \in Panels : object[q].state = "live" /\ registry[object[q].id] # NoRecord =>
            PageOf(object'[q]) = PageOf(object[q])
      BY <1>4, <1>6
    <2> QED
      BY <1>1, <1>2, <2>1, <2>2, <2>3, <2>4, PanelKeepsQuiet
  <1>7. CASE registry[object[o].id] # NoRecord
    <2>m. PICK m : m = [group |-> "setHtml", id |-> object[o].id, html |-> h]
      OBVIOUS
    <2>1. /\ registry' = [registry EXCEPT ![object[o].id].html = h]
          /\ panelMessages' = Append(panelMessages, m)
      BY <1>h, <1>7, <2>m DEF SetHtml, PanelId, NotifyPanel
    <2>2. m \in PageNotes /\ m.group = "setHtml" /\ m.id = object[o].id /\ m.html = h
      BY <2>m, <1>0, <1>2 DEF PageNotes, ObjectRecords
    <2>3. /\ registry' \in [Ids -> {NoRecord} \union PanelRecords]
          /\ \A i \in Ids : registry[i] # NoRecord => registry'[i] # NoRecord
      <3>1. object[o].id \in Ids
        BY <1>0 DEF ObjectRecords
      <3>2. registry \in [Ids -> {NoRecord} \union PanelRecords] /\ registry[object[o].id] \in PanelRecords
        BY <1>0, <1>7, <3>1 DEF WebviewTyped
      <3>3. [registry[object[o].id] EXCEPT !.html = h] \in PanelRecords
        BY <1>2, <3>2 DEF PanelRecords
      <3>4. NoRecord \notin PanelRecords
        BY DEF NoRecord, PanelRecords
      <3>5. registry' = [registry EXCEPT ![object[o].id] = [registry[object[o].id] EXCEPT !.html = h]]
        BY <2>1
      <3> QED
        BY <3>1, <3>2, <3>3, <3>4, <3>5
    <2>4. WebviewTyped'
      BY <1>0, <1>1, <1>2, <1>5, <2>1, <2>2, <2>3 DEF WebviewTyped
    <2>5. ASSUME NEW q \in Panels, object'[q].state = "live", Alone(q)'
          PROVE  /\ registry'[object'[q].id] # NoRecord
                 /\ \/ /\ IsPage(m, object'[q].id) /\ m.html = PageOf(object'[q])
                       /\ \/ object[q].state = "live" /\ object'[q].id = object[q].id
                          \/ m.group = "create" /\ ~HasOwner(m.id)
                    \/ /\ object[q].state = "live" /\ object'[q].id = object[q].id
                       /\ ~IsPage(m, object'[q].id) /\ PageOf(object'[q]) = PageOf(object[q])
      <3>1. /\ object[q].state = "live" /\ object'[q].id = object[q].id /\ Alone(q)
            /\ registry[object[q].id] # NoRecord
            /\ q # o => object'[q] = object[q] /\ object[q].id # object[o].id
            /\ q = o => object'[q] = r
        <4>1. Made(o) /\ r \in ObjectRecords /\ object' = [object EXCEPT ![o] = r] /\ r.id = object[o].id
              /\ r.state # "none" /\ (r.state = "live" => object[o].state = "live")
          BY <1>1, <1>3
        <4>2. \A p \in Panels : object'[p].state = "live" /\ Alone(p)' =>
                /\ object[p].state = "live" /\ object'[p].id = object[p].id /\ Alone(p)
                /\ registry[object[p].id] # NoRecord
                /\ p # o => object'[p] = object[p] /\ object[p].id # object[o].id
                /\ p = o => object'[p] = r
          BY <4>1, PanelStays
        <4> QED
          BY <2>5, <4>2
      <3>2. object[q].id \in Ids
        BY <1>0 DEF WebviewTyped, ObjectRecords
      <3>3. registry'[object'[q].id] # NoRecord
        BY <2>3, <3>1, <3>2
      <3>4. CASE q = o
        BY <1>3, <2>2, <3>1, <3>3, <3>4 DEF IsPage
      <3>5. CASE q # o
        BY <2>2, <3>1, <3>3, <3>5 DEF IsPage
      <3> QED
        BY <3>4, <3>5
    <2>6. /\ \A q \in Panels : Made(q) => object'[q].state # "none" /\ object'[q].id = object[q].id
          /\ \E q \in Panels : object'[q].state # "none" /\ object'[q].id = m.id
      BY <1>1, <1>3, <1>4, <2>2 DEF Made
    <2> QED
      BY <1>1, <1>2, <2>1, <2>2, <2>4, <2>5, <2>6, PanelSends
  <1> QED
    BY <1>6, <1>7

\* An extension posts a message to a panel.
LEMMA PostMessageInv ==
  ASSUME WebviewInv, NEW o \in Panels, PostMessage(o)
  PROVE  WebviewInv'
  <1>0. WebviewTyped /\ object[o] \in ObjectRecords /\ count \in CountRecords
        /\ count.html + count.posts + count.reveals <= MaxPanelCalls
    BY DEF WebviewInv, WebviewTyped
  <1>m. PICK m : m = [group |-> "postMessage", id |-> object[o].id, message |-> count.posts + 1]
    OBVIOUS
  <1>1. /\ Made(o) /\ CanCall /\ count' = [count EXCEPT !.posts = @ + 1]
        /\ panelMessages' = Append(panelMessages, m)
        /\ UNCHANGED <<clock, object, registry, webviews, frame>>
    BY <1>m DEF PostMessage, NotifyPanel, PanelId
  <1>2. /\ count' \in CountRecords /\ count'.posts = count.posts + 1 /\ count'.reveals = count.reveals
        /\ count'.html + count'.posts + count'.reveals <= MaxPanelCalls
        /\ count.posts + 1 \in Posts /\ count.posts \in Nat
    <2>1. /\ count.html \in Nat /\ count.posts \in Nat /\ count.reveals \in Nat
          /\ count.html + count.posts + count.reveals < MaxPanelCalls
      BY <1>0, <1>1 DEF CountRecords, CanCall
    <2>2. count.posts + 1 \in Posts
      BY <2>1, WebviewsAssumption DEF Posts
    <2>3. /\ count' \in CountRecords /\ count'.html = count.html
          /\ count'.posts = count.posts + 1 /\ count'.reveals = count.reveals
      BY <1>0, <1>1 DEF CountRecords
    <2> QED
      BY <2>1, <2>2, <2>3, WebviewsAssumption
  <1>3. m \in PostNotes /\ m.group = "postMessage" /\ m.id = object[o].id /\ m.message = count.posts + 1
    BY <1>m, <1>0, <1>2 DEF PostNotes, ObjectRecords
  <1>4. WebviewTyped'
    BY <1>0, <1>1, <1>2, <1>3 DEF WebviewTyped
  <1>5. ASSUME NEW q \in Panels, object'[q].state = "live", Alone(q)'
        PROVE  /\ registry'[object'[q].id] # NoRecord
               /\ object[q].state = "live" /\ object'[q].id = object[q].id
               /\ ~IsPage(m, object'[q].id) /\ PageOf(object'[q]) = PageOf(object[q])
    <2>1. Alone(q) /\ object[q].state = "live"
      BY <1>1, <1>5 DEF Alone, Made, PanelId
    <2> QED
      BY <1>1, <1>3, <2>1 DEF WebviewInv, Told, PanelId, IsPage
  <1>6. /\ \A q \in Panels : Made(q) => object'[q].state # "none" /\ object'[q].id = object[q].id
        /\ \E q \in Panels : object'[q].state # "none" /\ object'[q].id = m.id
    BY <1>1, <1>3 DEF Made
  <1>7. count'.posts >= count.posts /\ m.message > count.posts /\ m.message <= count'.posts
    BY <1>2, <1>3
  <1> QED
    BY <1>1, <1>2, <1>3, <1>4, <1>5, <1>6, <1>7, PanelSends

\* A panel is revealed.
LEMMA RevealInv ==
  ASSUME WebviewInv, NEW o \in Panels, Reveal(o)
  PROVE  WebviewInv'
  <1>r. PICK r : r = [object[o] EXCEPT !.blank = TRUE]
    OBVIOUS
  <1>m. PICK m : m = [group |-> "create", id |-> object[o].id, html |-> 0]
    OBVIOUS
  <1>0. WebviewTyped /\ object[o] \in ObjectRecords /\ count \in CountRecords
        /\ count.html + count.posts + count.reveals <= MaxPanelCalls /\ 0 \in Htmls
    BY WebviewsAssumption DEF WebviewInv, WebviewTyped, Htmls
  <1>1. /\ Made(o) /\ CanCall /\ object' = [object EXCEPT ![o] = r]
        /\ count' = [count EXCEPT !.reveals = @ + 1]
        /\ panelMessages' = Append(panelMessages, m)
        /\ UNCHANGED <<clock, registry, webviews, frame>>
    BY <1>r, <1>m, <1>0 DEF Reveal, NotifyPanel, PanelId, WebviewTyped, ObjectRecords
  <1>2. /\ count' \in CountRecords /\ count'.posts = count.posts /\ count'.reveals = count.reveals + 1
        /\ count'.html + count'.posts + count'.reveals <= MaxPanelCalls
        /\ count'.posts >= count.posts /\ count'.reveals # 0
    BY <1>0, <1>1, WebviewsAssumption DEF CountRecords, CanCall
  <1>3. /\ r \in ObjectRecords /\ r.state = object[o].state /\ r.id = object[o].id
        /\ PageOf(r) = 0 /\ r.blank /\ r.state # "none"
    BY <1>r, <1>0, <1>1 DEF ObjectRecords, PageOf, Made
  <1>4. \A q \in Panels : object'[q] = IF q = o THEN r ELSE object[q]
    BY <1>0, <1>1 DEF WebviewTyped
  <1>5. m \in PageNotes /\ m.group = "create" /\ m.id = object[o].id /\ m.html = 0
    BY <1>m, <1>0 DEF PageNotes, ObjectRecords
  <1>6. WebviewTyped'
    BY <1>0, <1>1, <1>2, <1>3, <1>4, <1>5 DEF WebviewTyped
  <1>7. ASSUME NEW q \in Panels, object'[q].state = "live", Alone(q)'
        PROVE  /\ registry'[object'[q].id] # NoRecord
               /\ object[q].state = "live" /\ object'[q].id = object[q].id
               /\ \/ IsPage(m, object'[q].id) /\ m.html = PageOf(object'[q])
                  \/ ~IsPage(m, object'[q].id) /\ PageOf(object'[q]) = PageOf(object[q])
    <2>1. /\ object[q].state = "live" /\ object'[q].id = object[q].id /\ Alone(q)
          /\ registry[object[q].id] # NoRecord
          /\ q # o => object'[q] = object[q] /\ object[q].id # object[o].id
          /\ q = o => object'[q] = r
      <3>1. Made(o) /\ r \in ObjectRecords /\ object' = [object EXCEPT ![o] = r] /\ r.id = object[o].id
            /\ r.state # "none" /\ (r.state = "live" => object[o].state = "live")
        BY <1>1, <1>3
      <3>2. \A p \in Panels : object'[p].state = "live" /\ Alone(p)' =>
              /\ object[p].state = "live" /\ object'[p].id = object[p].id /\ Alone(p)
              /\ registry[object[p].id] # NoRecord
              /\ p # o => object'[p] = object[p] /\ object[p].id # object[o].id
              /\ p = o => object'[p] = r
        BY <3>1, PanelStays
      <3> QED
        BY <1>7, <3>2
    <2> QED
      BY <1>1, <1>3, <1>5, <2>1 DEF IsPage
  <1>8. /\ \A q \in Panels : Made(q) => object'[q].state # "none" /\ object'[q].id = object[q].id
        /\ \E q \in Panels : object'[q].state # "none" /\ object'[q].id = m.id
    BY <1>1, <1>3, <1>4, <1>5 DEF Made
  <1>9. ~Simple(m.id)'
    BY <1>2 DEF Simple
  <1> QED
    BY <1>1, <1>2, <1>5, <1>6, <1>7, <1>8, <1>9, PanelSends

\* A panel is disposed of.
LEMMA DisposeInv ==
  ASSUME WebviewInv, NEW o \in Panels, Dispose(o)
  PROVE  WebviewInv'
  <1>r. PICK r : r = [object[o] EXCEPT !.state = "disposed", !.blank = TRUE]
    OBVIOUS
  <1>m. PICK m : m = [group |-> "setHtml", id |-> object[o].id, html |-> 0]
    OBVIOUS
  <1>0. WebviewTyped /\ object[o] \in ObjectRecords /\ count.posts \in Nat /\ 0 \in Htmls
    BY WebviewsAssumption DEF WebviewInv, WebviewTyped, Htmls, CountRecords
  <1>1. /\ object[o].state = "live" /\ Made(o) /\ object' = [object EXCEPT ![o] = r]
        /\ registry' = [registry EXCEPT ![object[o].id] = NoRecord]
        /\ panelMessages' = Append(panelMessages, m)
        /\ UNCHANGED <<clock, webviews, frame, count>>
    BY <1>r, <1>m, <1>0 DEF Dispose, Made, NotifyPanel, PanelId, WebviewTyped, ObjectRecords
  <1>2. /\ r \in ObjectRecords /\ r.state = "disposed" /\ r.id = object[o].id
    BY <1>r, <1>0, <1>1 DEF ObjectRecords
  <1>3. \A q \in Panels : object'[q] = IF q = o THEN r ELSE object[q]
    BY <1>0, <1>1 DEF WebviewTyped
  <1>4. m \in PageNotes /\ m.group = "setHtml" /\ m.id = object[o].id /\ m.html = 0
    BY <1>m, <1>0 DEF PageNotes, ObjectRecords
  <1>5. /\ registry' \in [Ids -> {NoRecord} \union PanelRecords]
        /\ \A i \in Ids : i # object[o].id => registry'[i] = registry[i]
    BY <1>0, <1>1 DEF WebviewTyped
  <1>6. WebviewTyped'
    BY <1>0, <1>1, <1>2, <1>3, <1>4, <1>5 DEF WebviewTyped
  <1>7. ASSUME NEW q \in Panels, object'[q].state = "live", Alone(q)'
        PROVE  /\ registry'[object'[q].id] # NoRecord
               /\ object[q].state = "live" /\ object'[q].id = object[q].id
               /\ ~IsPage(m, object'[q].id) /\ PageOf(object'[q]) = PageOf(object[q])
    <2>1. /\ object[q].state = "live" /\ object'[q].id = object[q].id /\ Alone(q)
          /\ registry[object[q].id] # NoRecord
          /\ q # o => object'[q] = object[q] /\ object[q].id # object[o].id
          /\ q = o => object'[q] = r
      <3>1. Made(o) /\ r \in ObjectRecords /\ object' = [object EXCEPT ![o] = r] /\ r.id = object[o].id
            /\ r.state # "none" /\ (r.state = "live" => object[o].state = "live")
        BY <1>1, <1>2
      <3>2. \A p \in Panels : object'[p].state = "live" /\ Alone(p)' =>
              /\ object[p].state = "live" /\ object'[p].id = object[p].id /\ Alone(p)
              /\ registry[object[p].id] # NoRecord
              /\ p # o => object'[p] = object[p] /\ object[p].id # object[o].id
              /\ p = o => object'[p] = r
        BY <3>1, PanelStays
      <3> QED
        BY <1>7, <3>2
    <2>2. q # o /\ object[q].id \in Ids
      BY <1>0, <1>2, <1>7, <2>1 DEF WebviewTyped, ObjectRecords
    <2> QED
      BY <1>4, <1>5, <2>1, <2>2 DEF IsPage
  <1>8. /\ \A q \in Panels : Made(q) => object'[q].state # "none" /\ object'[q].id = object[q].id
        /\ \E q \in Panels : object'[q].state # "none" /\ object'[q].id = m.id
    BY <1>1, <1>2, <1>3, <1>4 DEF Made
  <1> QED
    BY <1>0, <1>1, <1>4, <1>6, <1>7, <1>8, PanelSends

\* The window takes the oldest notification m; v is what it then has of the
\* panel m is about.
LEMMA TakesIts ==
  ASSUME WebviewTyped, TakeNotification
  PROVE  \E m, v :
           /\ m \in PageNotes \union PostNotes /\ m = panelMessages[1]
           /\ webviews' = [webviews EXCEPT ![m.id] = v]
           /\ v \in {NoRecord} \union WebviewRecords
           /\ v # NoRecord => webviews[m.id] # NoRecord \/ m.group = "create"
           /\ v = NoRecord => webviews[m.id] = NoRecord /\ m.group # "create"
           /\ v # NoRecord =>
                /\ m.group \in {"create", "setHtml"} => v.html = m.html
                /\ m.group = "postMessage" => v.html = webviews[m.id].html
                /\ ~v.due => ~webviews[m.id].due /\ v.html = webviews[m.id].html /\ m.group # "create"
                /\ m.group = "create" => v.messages = <<>>
                /\ m.group = "setHtml" => v.messages = webviews[m.id].messages
                /\ m.group = "postMessage" => v.messages = Append(webviews[m.id].messages, m.message)
  <1>m. PICK m : m = Head(panelMessages)
    OBVIOUS
  <1>0. /\ panelMessages \in Seq(PageNotes \union PostNotes) /\ panelMessages # <<>>
        /\ webviews \in [Ids -> {NoRecord} \union WebviewRecords]
    BY DEF WebviewTyped, TakeNotification
  <1>1. m = panelMessages[1] /\ 1 \in DOMAIN panelMessages
    BY <1>m, <1>0
  <1>2. m \in PageNotes \union PostNotes /\ m.id \in Ids
    <2>1. \A k \in 1..Len(panelMessages) : panelMessages[k] \in PageNotes \union PostNotes
      BY <1>0, ElementOfSeq
    <2>2. m \in PageNotes \union PostNotes
      BY <1>0, <1>1, <2>1
    <2> QED
      BY <2>2 DEF PageNotes, PostNotes
  <1>3. webviews' = IF m.group = "create" THEN Opened(m)
                    ELSE IF webviews[m.id] = NoRecord THEN webviews
                    ELSE IF m.group = "setHtml" THEN HtmlSet(m) ELSE MessageAppended(m)
    BY <1>m DEF TakeNotification
  <1>4. NoRecord \notin WebviewRecords
    BY DEF NoRecord, WebviewRecords
  <1>5. webviews[m.id] # NoRecord => webviews[m.id] \in WebviewRecords
    BY <1>0, <1>2
  <1>6. CASE m.group = "create"
    <2>v. PICK v : v = [html |-> m.html, messages |-> <<>>, due |-> TRUE]
      OBVIOUS
    <2>1. m \in PageNotes
      BY <1>2, <1>6 DEF PostNotes
    <2>2. v \in WebviewRecords /\ v.html = m.html /\ v.due = TRUE /\ v.messages = <<>>
      BY <2>v, <2>1 DEF WebviewRecords, PageNotes
    <2>3. webviews' = [webviews EXCEPT ![m.id] = v]
      BY <1>3, <1>6, <2>v DEF Opened
    <2> QED
      BY <1>1, <1>2, <1>4, <1>6, <2>2, <2>3
  <1>7. CASE m.group # "create" /\ webviews[m.id] = NoRecord
    <2>1. webviews' = [webviews EXCEPT ![m.id] = NoRecord]
      BY <1>0, <1>2, <1>3, <1>7
    <2> QED
      BY <1>1, <1>2, <1>7, <2>1
  <1>8. CASE m.group = "setHtml" /\ webviews[m.id] # NoRecord
    <2>o. PICK w : w = webviews[m.id]
      OBVIOUS
    <2>v. PICK v : v = [w EXCEPT !.html = m.html, !.due = w.due \/ w.html # m.html]
      OBVIOUS
    <2>1. m \in PageNotes
      BY <1>2, <1>8 DEF PostNotes
    <2>2. v \in WebviewRecords /\ v.html = m.html /\ v.messages = w.messages
          /\ (v.due <=> w.due \/ w.html # m.html)
      BY <1>5, <1>8, <2>o, <2>v, <2>1 DEF WebviewRecords, PageNotes
    <2>3. webviews' = HtmlSet(m)
      BY <1>3, <1>8
    <2>5. webviews' = [webviews EXCEPT ![m.id] = v]
      BY <2>o, <2>v, <2>3 DEF HtmlSet
    <2> QED
      BY <1>1, <1>2, <1>4, <1>8, <2>o, <2>2, <2>5
  <1>9. CASE m.group = "postMessage" /\ webviews[m.id] # NoRecord
    <2>o. PICK w : w = webviews[m.id]
      OBVIOUS
    <2>v. PICK v : v = [w EXCEPT !.messages = Append(@, m.message)]
      OBVIOUS
    <2>1. m \in PostNotes
      BY <1>2, <1>9 DEF PageNotes
    <2>a. w.messages \in Seq(Posts) /\ m.message \in Posts /\ w \in WebviewRecords
      BY <1>5, <1>9, <2>o, <2>1 DEF WebviewRecords, PostNotes
    <2>b. Append(w.messages, m.message) \in Seq(Posts)
      BY <2>a, AppendProperties
    <2>2. v \in WebviewRecords /\ v.html = w.html /\ v.messages = Append(w.messages, m.message)
          /\ v.due = w.due
      BY <2>v, <2>a, <2>b DEF WebviewRecords
    <2>3. webviews' = [webviews EXCEPT ![m.id] = v]
      BY <1>0, <1>2, <1>3, <1>9, <2>o, <2>v DEF MessageAppended
    <2> QED
      BY <1>1, <1>2, <1>4, <1>9, <2>o, <2>2, <2>3
  <1>10. m.group \in {"create", "setHtml", "postMessage"}
    BY <1>2 DEF PageNotes, PostNotes
  <1> QED
    BY <1>6, <1>7, <1>8, <1>9, <1>10

\* The window takes the next notification of the panels.
LEMMA TakeNotificationInv ==
  ASSUME WebviewInv, TakeNotification
  PROVE  WebviewInv'
  <1>n. PICK n : n = Len(panelMessages)
    OBVIOUS
  <1>0. WebviewTyped
    BY DEF WebviewInv
  <1>m. PICK m, v :
           /\ m \in PageNotes \union PostNotes /\ m = panelMessages[1]
           /\ webviews' = [webviews EXCEPT ![m.id] = v]
           /\ v \in {NoRecord} \union WebviewRecords
           /\ v # NoRecord => webviews[m.id] # NoRecord \/ m.group = "create"
           /\ v = NoRecord => webviews[m.id] = NoRecord /\ m.group # "create"
           /\ v # NoRecord =>
                /\ m.group \in {"create", "setHtml"} => v.html = m.html
                /\ m.group = "postMessage" => v.html = webviews[m.id].html
                /\ ~v.due => ~webviews[m.id].due /\ v.html = webviews[m.id].html /\ m.group # "create"
                /\ m.group = "create" => v.messages = <<>>
                /\ m.group = "setHtml" => v.messages = webviews[m.id].messages
                /\ m.group = "postMessage" => v.messages = Append(webviews[m.id].messages, m.message)
    BY <1>0, TakesIts
  <1>1. /\ panelMessages # <<>> /\ panelMessages' = Tail(panelMessages)
        /\ UNCHANGED <<clock, object, registry, frame, count>>
    BY DEF TakeNotification
  <1>2. /\ panelMessages \in Seq(PageNotes \union PostNotes) /\ n \in Nat /\ n >= 1
        /\ DOMAIN panelMessages = 1..n
        /\ panelMessages' \in Seq(PageNotes \union PostNotes) /\ DOMAIN panelMessages' = 1..(n - 1)
        /\ \A k \in 1..(n - 1) : panelMessages'[k] = panelMessages[k + 1]
    BY <1>n, <1>0, <1>1 DEF WebviewTyped
  <1>3. /\ m.id \in Ids /\ m.group \in {"create", "setHtml", "postMessage"}
        /\ m.group = "postMessage" => m.message \in Posts
    BY <1>m DEF PageNotes, PostNotes
  <1>4. \A i \in Ids : webviews'[i] = IF i = m.id THEN v ELSE webviews[i]
    BY <1>0, <1>m DEF WebviewTyped
  <1>5. \A k \in DOMAIN panelMessages' : /\ k + 1 \in DOMAIN panelMessages /\ k + 1 > 1
                                         /\ panelMessages'[k] = panelMessages[k + 1]
    BY <1>2
  <1>6. \A k \in DOMAIN panelMessages : k # 1 => /\ k - 1 \in DOMAIN panelMessages'
                                                 /\ panelMessages'[k - 1] = panelMessages[k]
    <2> SUFFICES ASSUME NEW k \in 1..n, k # 1
                 PROVE  k - 1 \in 1..(n - 1) /\ panelMessages'[k - 1] = panelMessages[k]
      BY <1>2
    <2>1. k - 1 \in 1..(n - 1) /\ (k - 1) + 1 = k
      BY <1>2
    <2> QED
      BY <1>2, <2>1
  <1>7. 1 \in DOMAIN panelMessages
    BY <1>2
  <1>8. \A q \in Panels : /\ Made(q)' <=> Made(q)
                          /\ PanelId(q)' = PanelId(q)
                          /\ Alone(q)' <=> Alone(q)
    BY <1>1 DEF Made, PanelId, Alone
  <1>9. WebviewTyped'
    <2>1. webviews' \in [Ids -> {NoRecord} \union WebviewRecords]
      BY <1>0, <1>m, <1>3 DEF WebviewTyped
    <2> QED
      BY <1>0, <1>1, <1>2, <2>1 DEF WebviewTyped
  <1>10. Follows'
    BY <1>m, <1>1, <1>3, <1>4 DEF WebviewInv, Follows
  <1>11. Owned'
    <2>1. HasOwner(m.id)
      BY <1>m, <1>7 DEF WebviewInv, Owned
    <2>2. \A i \in Ids : webviews'[i] # NoRecord => HasOwner(i)
      BY <1>4, <2>1 DEF WebviewInv, Owned
    <2>3. \A k \in DOMAIN panelMessages' : HasOwner(panelMessages[k + 1].id)
      BY <1>5 DEF WebviewInv, Owned
    <2>4. \A i : HasOwner(i)' <=> HasOwner(i)
      BY <1>8 DEF HasOwner
    <2>5. \A k \in DOMAIN panelMessages' : \E q \in Panels : Made(q) /\ PanelId(q) = panelMessages'[k].id
      BY <1>5, <2>3 DEF HasOwner
    <2>6. \A k \in DOMAIN panelMessages' : \E q \in Panels : Made(q)' /\ PanelId(q)' = panelMessages'[k].id
      BY <1>8, <2>5
    <2>7. \A i \in Ids : webviews'[i] # NoRecord => HasOwner(i)'
      BY <2>2, <2>4
    <2> QED
      BY <2>6, <2>7 DEF Owned, HasOwner
  <1>12. Told'
    <2> SUFFICES ASSUME NEW o \in Panels, Alone(o), object[o].state = "live"
                 PROVE  /\ registry[object[o].id] # NoRecord
                        /\ Begun(object[o].id, panelMessages', webviews')
                        /\ EndsWith(object[o].id, panelMessages', webviews', PageOf(object[o]))
      BY <1>1, <1>8 DEF Told, PanelId
    <2>i. PICK i : i = object[o].id
      OBVIOUS
    <2>1. /\ i \in Ids /\ registry[i] # NoRecord
          /\ Begun(i, panelMessages, webviews)
          /\ EndsWith(i, panelMessages, webviews, PageOf(object[o]))
      BY <2>i DEF WebviewInv, Told, PanelId, WebviewTyped, ObjectRecords
    <2>2. Begun(i, panelMessages', webviews') /\ (m.id = i => webviews'[i] # NoRecord)
      <3>1. CASE webviews[i] # NoRecord
        <4>1. webviews'[i] # NoRecord
          BY <1>m, <1>4, <2>1, <3>1
        <4> QED
          BY <4>1 DEF Begun
      <3>2. CASE webviews[i] = NoRecord
        <4>1. PICK k \in DOMAIN panelMessages : IsCreate(panelMessages[k], i)
                                                /\ \A j \in 1..(k - 1) : panelMessages[j].id # i
          BY <2>1, <3>2 DEF Begun
        <4>2. CASE k = 1
          <5>1. m.id = i /\ m.group = "create"
            BY <1>m, <4>1, <4>2 DEF IsCreate
          <5>2. webviews'[i] # NoRecord
            BY <1>m, <1>4, <2>1, <5>1
          <5> QED
            BY <5>2 DEF Begun
        <4>3. CASE k # 1
          <5>1. 1 \in 1..(k - 1)
            BY <1>2, <4>1, <4>3
          <5>2. m.id # i
            BY <1>m, <4>1, <5>1
          <5>3. k - 1 \in DOMAIN panelMessages' /\ IsCreate(panelMessages'[k - 1], i)
            BY <1>6, <4>1, <4>3
          <5>4. ASSUME NEW j \in 1..((k - 1) - 1) PROVE panelMessages'[j].id # i
            <6>1. j \in 1..(n - 1) /\ j + 1 \in 1..(k - 1)
              BY <1>2, <4>1, <5>4
            <6> QED
              BY <1>2, <4>1, <6>1
          <5>5. Begun(i, panelMessages', webviews')
            BY <5>3, <5>4 DEF Begun
          <5> QED
            BY <5>2, <5>5
        <4> QED
          BY <4>2, <4>3
      <3> QED
        BY <3>1, <3>2
    <2>3. EndsWith(i, panelMessages', webviews', PageOf(object[o]))
      <3>1. ASSUME NEW k \in DOMAIN panelMessages', IsPage(panelMessages'[k], i),
                   \A j \in DOMAIN panelMessages' : j > k => ~IsPage(panelMessages'[j], i)
            PROVE  panelMessages'[k].html = PageOf(object[o])
        <4>1. k + 1 \in DOMAIN panelMessages /\ IsPage(panelMessages[k + 1], i)
          BY <1>5, <3>1
        <4>2. ASSUME NEW j \in DOMAIN panelMessages, j > k + 1 PROVE ~IsPage(panelMessages[j], i)
          <5>1. j # 1 /\ j - 1 > k
            BY <1>2, <4>2
          <5>2. j - 1 \in DOMAIN panelMessages' /\ panelMessages'[j - 1] = panelMessages[j]
            BY <1>6, <5>1
          <5> QED
            BY <3>1, <5>1, <5>2
        <4>3. panelMessages[k + 1].html = PageOf(object[o])
          BY <2>1, <4>1, <4>2 DEF EndsWith
        <4> QED
          BY <1>5, <4>3
      <3>2. ASSUME \A k \in DOMAIN panelMessages' : ~IsPage(panelMessages'[k], i)
            PROVE  webviews'[i].html = PageOf(object[o])
        <4>1. \A k \in DOMAIN panelMessages : k # 1 => ~IsPage(panelMessages[k], i)
          BY <1>6, <3>2
        <4>2. CASE IsPage(m, i)
          <5>1. \A k \in DOMAIN panelMessages : k > 1 => ~IsPage(panelMessages[k], i)
            BY <4>1
          <5>2. m.html = PageOf(object[o])
            BY <1>m, <1>7, <2>1, <4>2, <5>1 DEF EndsWith
          <5>3. m.id = i /\ m.group \in {"create", "setHtml"}
            BY <4>2 DEF IsPage
          <5>4. v # NoRecord /\ webviews'[i] = v
            BY <1>4, <2>1, <2>2, <5>3
          <5> QED
            BY <1>m, <5>2, <5>3, <5>4
        <4>3. CASE ~IsPage(m, i)
          <5>1. webviews[i].html = PageOf(object[o])
            BY <1>m, <2>1, <4>1, <4>3 DEF EndsWith
          <5>2. CASE m.id = i
            <6>1. m.group = "postMessage" /\ v # NoRecord /\ webviews'[i] = v
              BY <1>3, <1>4, <2>1, <2>2, <4>3, <5>2 DEF IsPage
            <6> QED
              BY <1>m, <5>1, <5>2, <6>1
          <5>3. CASE m.id # i
            BY <1>4, <2>1, <5>1, <5>3
          <5> QED
            BY <5>2, <5>3
        <4> QED
          BY <4>2, <4>3
      <3> QED
        BY <3>1, <3>2 DEF EndsWith
    <2> QED
      BY <2>i, <2>1, <2>2, <2>3
  <1>13. ASSUME NEW w, w = webviews[m.id], w # NoRecord, m.group = "postMessage"
         PROVE  /\ w.messages \in Seq(Posts)
                /\ DOMAIN v.messages = 1..(Len(w.messages) + 1) /\ Len(v.messages) = Len(w.messages) + 1
                /\ \A k \in 1..Len(w.messages) : v.messages[k] = w.messages[k]
                /\ v.messages[Len(w.messages) + 1] = m.message
    <2>1. w.messages \in Seq(Posts) /\ v # NoRecord
      BY <1>0, <1>m, <1>3, <1>13 DEF WebviewTyped, WebviewRecords
    <2>2. v.messages = Append(w.messages, m.message)
      BY <1>m, <1>13, <2>1
    <2> QED
      BY <1>3, <1>13, <2>1, <2>2, AppendProperties
  <1>14. Ordered'
    <2>0. Ordered
      BY DEF WebviewInv
    <2>1. \A k \in DOMAIN panelMessages' :
            panelMessages'[k].group = "postMessage" =>
              /\ panelMessages'[k].message <= count.posts
              /\ \A j \in DOMAIN panelMessages' :
                   j < k /\ panelMessages'[j].group = "postMessage"
                     => panelMessages'[j].message < panelMessages'[k].message
      <3>1. \A j, k \in DOMAIN panelMessages' : j < k => j + 1 < k + 1
        BY <1>2
      <3> QED
        BY <1>5, <2>0, <3>1 DEF Ordered
    <2>2. ASSUME NEW i \in Ids
          PROVE  /\ Rising(frame[i].received) /\ UpTo(frame[i].received, count.posts)
                 /\ \A k \in DOMAIN panelMessages' : IsPost(panelMessages'[k], i) =>
                      \A j \in DOMAIN frame[i].received : frame[i].received[j] < panelMessages'[k].message
      BY <1>5, <2>0 DEF Ordered
    <2>3. ASSUME NEW i \in Ids, webviews[i] # NoRecord
          PROVE  /\ Rising(webviews[i].messages) /\ UpTo(webviews[i].messages, count.posts)
                 /\ \A k \in DOMAIN webviews[i].messages : k > frame[i].delivered =>
                      \A j \in DOMAIN frame[i].received : frame[i].received[j] < webviews[i].messages[k]
                 /\ \A k \in DOMAIN panelMessages : IsPost(panelMessages[k], i) =>
                      \A j \in DOMAIN webviews[i].messages : webviews[i].messages[j] < panelMessages[k].message
      BY <2>0, <2>3 DEF Ordered
    <2>4. ASSUME NEW i \in Ids, webviews'[i] # NoRecord
          PROVE  /\ Rising(webviews'[i].messages) /\ UpTo(webviews'[i].messages, count.posts)
                 /\ \A k \in DOMAIN webviews'[i].messages : k > frame[i].delivered =>
                      \A j \in DOMAIN frame[i].received : frame[i].received[j] < webviews'[i].messages[k]
                 /\ \A k \in DOMAIN panelMessages' : IsPost(panelMessages'[k], i) =>
                      \A j \in DOMAIN webviews'[i].messages : webviews'[i].messages[j] < panelMessages'[k].message
      <3>1. CASE i # m.id \/ m.group = "setHtml"
        <4>1. webviews[i] # NoRecord /\ webviews'[i].messages = webviews[i].messages
          BY <1>m, <1>4, <2>4, <3>1
        <4> QED
          BY <1>5, <2>3, <4>1
      <3>2. CASE i = m.id /\ m.group = "create"
        <4>1. webviews'[i].messages = <<>> /\ DOMAIN webviews'[i].messages = {}
          BY <1>m, <1>4, <2>4, <3>2
        <4> QED
          BY <4>1 DEF Rising, UpTo
      <3>3. CASE i = m.id /\ m.group = "postMessage"
        <4>w. PICK w : w = webviews[m.id]
          OBVIOUS
        <4>l. PICK l : l = Len(w.messages)
          OBVIOUS
        <4>1. w # NoRecord /\ v # NoRecord /\ webviews'[i] = v /\ w = webviews[i]
          BY <1>m, <1>4, <2>4, <3>3, <4>w
        <4>2. /\ w.messages \in Seq(Posts) /\ l \in Nat /\ DOMAIN w.messages = 1..l
              /\ DOMAIN v.messages = 1..(l + 1)
              /\ \A k \in 1..l : v.messages[k] = w.messages[k]
              /\ v.messages[l + 1] = m.message
          BY <1>13, <3>3, <4>w, <4>l, <4>1
        <4>3. IsPost(panelMessages[1], i)
          BY <1>m, <3>3 DEF IsPost
        <4>4. \A k \in 1..l : w.messages[k] < m.message
          BY <1>m, <1>7, <2>3, <4>1, <4>2, <4>3
        <4>5. m.message <= count.posts
          BY <1>m, <1>7, <2>0, <3>3 DEF Ordered
        <4>6. \A j \in DOMAIN frame[i].received : frame[i].received[j] < m.message
          BY <1>m, <1>7, <2>0, <4>3 DEF Ordered
        <4>7. ASSUME NEW k \in DOMAIN panelMessages', IsPost(panelMessages'[k], i)
              PROVE  m.message < panelMessages'[k].message
                     /\ \A j \in 1..l : w.messages[j] < panelMessages'[k].message
          <5>1. /\ k + 1 \in DOMAIN panelMessages /\ k + 1 > 1 /\ IsPost(panelMessages[k + 1], i)
                /\ panelMessages'[k] = panelMessages[k + 1]
            BY <1>5, <4>7
          <5>2. panelMessages[1].message < panelMessages[k + 1].message
            BY <1>7, <2>0, <4>3, <5>1 DEF Ordered, IsPost
          <5> QED
            BY <1>m, <2>3, <4>1, <4>2, <5>1, <5>2
        <4>8. \A k \in 1..(l + 1) : k # l + 1 => k \in 1..l
          BY <4>2
        <4>9. Rising(v.messages)
          <5> SUFFICES ASSUME NEW a \in 1..(l + 1), NEW b \in 1..(l + 1), a < b
                       PROVE  v.messages[a] < v.messages[b]
            BY <4>2 DEF Rising
          <5>1. a \in 1..l
            BY <4>2
          <5>2. CASE b = l + 1
            BY <4>2, <4>4, <5>1, <5>2
          <5>3. CASE b # l + 1
            BY <2>3, <4>1, <4>2, <4>8, <5>1, <5>3 DEF Rising
          <5> QED
            BY <5>2, <5>3
        <4>10. UpTo(v.messages, count.posts)
          BY <2>3, <4>1, <4>2, <4>5, <4>8 DEF UpTo
        <4>11. \A k \in 1..(l + 1) : k > frame[i].delivered =>
                 \A j \in DOMAIN frame[i].received : frame[i].received[j] < v.messages[k]
          BY <2>3, <4>1, <4>2, <4>6, <4>8
        <4>12. \A k \in DOMAIN panelMessages' : IsPost(panelMessages'[k], i) =>
                 \A j \in 1..(l + 1) : v.messages[j] < panelMessages'[k].message
          BY <4>2, <4>7, <4>8
        <4> QED
          BY <4>1, <4>2, <4>9, <4>10, <4>11, <4>12
      <3> QED
        BY <1>3, <3>1, <3>2, <3>3
    <2> QED
      BY <1>1, <2>1, <2>2, <2>4 DEF Ordered
  <1>15. Whole'
    <2>s. \A i : Simple(i)' => Simple(i)
      BY <1>1, <1>8 DEF Simple
    <2> SUFFICES ASSUME NEW i \in Ids, Simple(i)
                 PROVE  /\ \A k, h \in DOMAIN panelMessages' :
                             IsCreate(panelMessages'[k], i) /\ IsCreate(panelMessages'[h], i) => k = h
                        /\ webviews'[i] # NoRecord =>
                             /\ \A k \in DOMAIN panelMessages' : ~IsCreate(panelMessages'[k], i)
                             /\ frame[i].delivered <= Len(webviews'[i].messages)
                             /\ Len(frame[i].received) = frame[i].delivered
                             /\ \A k \in 1..frame[i].delivered : frame[i].received[k] = webviews'[i].messages[k]
                        /\ webviews'[i] = NoRecord => frame[i].delivered = 0 /\ frame[i].received = <<>>
      BY <1>1, <2>s DEF Whole
    <2>1. /\ \A k, h \in DOMAIN panelMessages :
               IsCreate(panelMessages[k], i) /\ IsCreate(panelMessages[h], i) => k = h
          /\ webviews[i] # NoRecord =>
               /\ \A k \in DOMAIN panelMessages : ~IsCreate(panelMessages[k], i)
               /\ frame[i].delivered <= Len(webviews[i].messages)
               /\ Len(frame[i].received) = frame[i].delivered
               /\ \A k \in 1..frame[i].delivered : frame[i].received[k] = webviews[i].messages[k]
          /\ webviews[i] = NoRecord => frame[i].delivered = 0 /\ frame[i].received = <<>>
      BY DEF WebviewInv, Whole
    <2>2. \A k, h \in DOMAIN panelMessages' :
            IsCreate(panelMessages'[k], i) /\ IsCreate(panelMessages'[h], i) => k = h
      <3> SUFFICES ASSUME NEW k \in DOMAIN panelMessages', NEW h \in DOMAIN panelMessages',
                          IsCreate(panelMessages'[k], i), IsCreate(panelMessages'[h], i)
                   PROVE  k = h
        OBVIOUS
      <3>1. k + 1 = h + 1
        BY <1>5, <2>1
      <3> QED
        BY <1>2, <3>1
    <2>3. CASE i # m.id \/ m.group = "setHtml" \/ webviews'[i] = NoRecord
      <3>1. /\ webviews'[i] = NoRecord <=> webviews[i] = NoRecord
            /\ webviews[i] # NoRecord => webviews'[i].messages = webviews[i].messages
        BY <1>m, <1>4, <2>3
      <3> QED
        BY <1>5, <2>1, <2>2, <3>1
    <2>4. CASE i = m.id /\ m.group = "create"
      <3>1. IsCreate(panelMessages[1], i)
        BY <1>m, <2>4 DEF IsCreate
      <3>2. webviews[i] = NoRecord
        BY <1>7, <2>1, <3>1
      <3>3. ASSUME NEW k \in DOMAIN panelMessages' PROVE ~IsCreate(panelMessages'[k], i)
        <4>1. k + 1 \in DOMAIN panelMessages /\ k + 1 # 1 /\ panelMessages'[k] = panelMessages[k + 1]
          BY <1>2, <1>5
        <4> QED
          BY <1>7, <2>1, <3>1, <4>1
      <3>4. webviews'[i] = v /\ v # NoRecord /\ v.messages = <<>>
        BY <1>m, <1>4, <2>4
      <3> QED
        BY <2>1, <2>2, <3>2, <3>3, <3>4
    <2>5. CASE i = m.id /\ m.group = "postMessage" /\ webviews'[i] # NoRecord
      <3>w. PICK w : w = webviews[m.id]
        OBVIOUS
      <3>1. w # NoRecord /\ v # NoRecord /\ webviews'[i] = v /\ w = webviews[i]
        BY <1>m, <1>4, <2>5, <3>w
      <3>2. /\ w.messages \in Seq(Posts) /\ Len(v.messages) = Len(w.messages) + 1
            /\ \A k \in 1..Len(w.messages) : v.messages[k] = w.messages[k]
        BY <1>13, <2>5, <3>w, <3>1
      <3>3. frame[i].delivered \in Nat /\ Len(w.messages) \in Nat
        BY <1>0, <3>2 DEF WebviewTyped, FrameRecords
      <3>4. /\ frame[i].delivered <= Len(v.messages)
            /\ \A k \in 1..frame[i].delivered : k \in 1..Len(w.messages)
        BY <2>1, <3>1, <3>2, <3>3
      <3> QED
        BY <1>5, <2>1, <2>2, <3>1, <3>2, <3>4
    <2> QED
      BY <1>3, <2>3, <2>4, <2>5
  <1> QED
    BY <1>9, <1>10, <1>11, <1>12, <1>14, <1>15 DEF WebviewInv

\* What a page has been handed after a render: the messages beyond those
\* delivered come after those it had.
HandedOver(s, t, d) == s \o SubSeq(t, d + 1, Len(t))

\* What such a sequence is: all of the first, and of the second what is beyond its first d.
Joined(r, s, t, d) ==
  /\ r \in Seq(Posts)
  /\ d < Len(t) => Len(r) = Len(s) + (Len(t) - d)
  /\ ~(d < Len(t)) => Len(r) = Len(s)
  /\ \A k \in 1..Len(r) :
       \/ k \in 1..Len(s) /\ r[k] = s[k]
       \/ /\ k > Len(s) /\ d + (k - Len(s)) \in 1..Len(t)
          /\ r[k] = t[d + (k - Len(s))]

\* A place of two sequences in a row that is behind the first is a place of the second.
LEMMA BehindTheFirst ==
  ASSUME NEW p \in Nat, NEW q \in Nat, NEW c \in 1..(p + q), c > p
  PROVE  c - p \in 1..q /\ q # 0
  OBVIOUS

\* What a page is handed: the messages it has not yet had, after those that
\* wait.
LEMMA HandsOver ==
  ASSUME NEW s \in Seq(Posts), NEW t \in Seq(Posts), NEW d \in Nat,
         NEW r, r = HandedOver(s, t, d)
  PROVE  Joined(r, s, t, d)
  <1>u. PICK u : u = SubSeq(t, d + 1, Len(t))
    OBVIOUS
  <1>0. Len(s) \in Nat /\ Len(t) \in Nat /\ DOMAIN s = 1..Len(s) /\ DOMAIN t = 1..Len(t)
        /\ d + 1 \in Int /\ Len(t) \in Int
    OBVIOUS
  <1>1. \A k \in (d + 1)..Len(t) : t[k] \in Posts
    BY ElementOfSeq
  <1>2. /\ u \in Seq(Posts)
        /\ Len(u) = IF d + 1 <= Len(t) THEN Len(t) - (d + 1) + 1 ELSE 0
        /\ \A k \in 1..(Len(t) - (d + 1) + 1) : u[k] = t[(d + 1) + k - 1]
    BY <1>u, <1>0, <1>1, SubSeqProperties
  <1>3. /\ d < Len(t) => Len(u) = Len(t) - d
        /\ ~(d < Len(t)) => Len(u) = 0
        /\ Len(u) \in Nat
    <2>1. CASE d < Len(t)
      <3>1. d + 1 <= Len(t) /\ Len(t) - (d + 1) + 1 = Len(t) - d /\ Len(t) - d \in Nat
        BY <1>0, <2>1
      <3> QED
        BY <1>2, <2>1, <3>1
    <2>2. CASE ~(d < Len(t))
      <3>1. ~(d + 1 <= Len(t))
        BY <1>0, <2>2
      <3> QED
        BY <1>2, <2>2, <3>1
    <2> QED
      BY <2>1, <2>2
  <1>4. /\ r \in Seq(Posts) /\ Len(r) = Len(s) + Len(u)
        /\ \A k \in 1..(Len(s) + Len(u)) : r[k] = IF k <= Len(s) THEN s[k] ELSE u[k - Len(s)]
    <2>1. r = s \o u
      BY <1>u DEF HandedOver
    <2>2. u \in Seq(Posts)
      BY <1>2
    <2>3. /\ s \o u \in Seq(Posts) /\ Len(s \o u) = Len(s) + Len(u)
          /\ \A k \in 1..(Len(s) + Len(u)) : (s \o u)[k] = IF k <= Len(s) THEN s[k] ELSE u[k - Len(s)]
      BY <2>2, ConcatProperties, SMTT(60)
    <2> QED
      BY <2>1, <2>3
  <1>5. ASSUME NEW k \in 1..Len(r)
        PROVE  \/ k \in 1..Len(s) /\ r[k] = s[k]
               \/ /\ k > Len(s) /\ d + (k - Len(s)) \in 1..Len(t)
                  /\ r[k] = t[d + (k - Len(s))]
    <2>1. k \in 1..(Len(s) + Len(u))
      BY <1>4
    <2>2. CASE k <= Len(s)
      BY <1>0, <1>4, <2>1, <2>2
    <2>3. CASE k > Len(s)
      <3>1. k - Len(s) \in 1..Len(u) /\ d < Len(t)
        <4>1. Len(s) \in Nat /\ Len(u) \in Nat
          BY <1>0, <1>3
        <4>2. k - Len(s) \in 1..Len(u) /\ Len(u) # 0
          BY <2>1, <2>3, <4>1, BehindTheFirst
        <4>3. d < Len(t)
          BY <1>3, <4>2
        <4> QED
          BY <4>2, <4>3
      <3>2. k - Len(s) \in 1..(Len(t) - (d + 1) + 1) /\ (d + 1) + (k - Len(s)) - 1 = d + (k - Len(s))
            /\ d + (k - Len(s)) \in 1..Len(t)
        <4>1. Len(u) = Len(t) - d
          BY <1>3, <3>1
        <4>2. k - Len(s) \in 1..(Len(t) - d)
          BY <3>1, <4>1
        <4>3. \A a, b \in Nat : \A c \in 1..(a - b) :
                /\ c \in 1..(a - (b + 1) + 1) /\ (b + 1) + c - 1 = b + c /\ b + c \in 1..a
          OBVIOUS
        <4> QED
          BY <1>0, <4>2, <4>3
      <3>3. u[k - Len(s)] = t[d + (k - Len(s))]
        BY <1>2, <3>2
      <3> QED
        BY <1>0, <1>4, <2>1, <2>3, <3>2, <3>3
    <2> QED
      BY <1>0, <2>1, <2>2, <2>3
  <1> QED
    <2>1. d < Len(t) => Len(r) = Len(s) + (Len(t) - d)
      BY <1>0, <1>3, <1>4
    <2>2. ASSUME ~(d < Len(t)) PROVE Len(r) = Len(s)
      <3>1. Len(u) = 0
        BY <1>3, <2>2
      <3> QED
        BY <1>0, <1>4, <3>1
    <2> QED
      BY <1>4, <1>5, <2>1, <2>2 DEF Joined

\* The window renders the frame of a panel.
LEMMA RenderFrameInv ==
  ASSUME WebviewInv, NEW i \in Ids, RenderFrame(i)
  PROVE  WebviewInv'
  <1>w. PICK w : w = webviews[i]
    OBVIOUS
  <1>g. PICK g : g = frame[i]
    OBVIOUS
  <1>f. PICK f : f = [g EXCEPT
             !.flights   = IF w.due THEN @ \union {w.html} ELSE @,
             !.want      = IF w.due THEN w.html ELSE @,
             !.waiting   = g.waiting \/ w.due,
             !.error     = g.error /\ ~w.due,
             !.received  = @ \o SubSeq(w.messages, g.delivered + 1, Len(w.messages)),
             !.delivered = Len(w.messages)]
    OBVIOUS
  <1>v. PICK v : v = [w EXCEPT !.due = FALSE]
    OBVIOUS
  <1>0. WebviewTyped /\ w # NoRecord /\ w \in WebviewRecords /\ g \in FrameRecords
        /\ NoRecord \notin WebviewRecords
    BY <1>w, <1>g DEF WebviewInv, WebviewTyped, RenderFrame, NoRecord, WebviewRecords
  <1>1. /\ webviews' = [webviews EXCEPT ![i] = v]
        /\ frame' = [frame EXCEPT ![i] = f]
        /\ UNCHANGED <<clock, object, registry, panelMessages, count>>
    BY <1>w, <1>g, <1>f, <1>v, <1>0 DEF RenderFrame, Undelivered, WebviewTyped
  <1>2. /\ w.messages \in Seq(Posts) /\ w.html \in Htmls
        /\ g.received \in Seq(Posts) /\ g.delivered \in Nat /\ g.flights \subseteq Htmls /\ g.want \in Htmls
        /\ Len(w.messages) \in Nat /\ DOMAIN w.messages = 1..Len(w.messages)
        /\ Len(g.received) \in Nat /\ DOMAIN g.received = 1..Len(g.received)
    BY <1>0 DEF WebviewRecords, FrameRecords
  <1>y. PICK y : y = SubSeq(w.messages, g.delivered + 1, Len(w.messages))
    OBVIOUS
  <1>u. PICK u : u = g.received \o y
    OBVIOUS
  <1>3. /\ u \in Seq(Posts)
        /\ g.delivered < Len(w.messages) => Len(u) = Len(g.received) + (Len(w.messages) - g.delivered)
        /\ ~(g.delivered < Len(w.messages)) => Len(u) = Len(g.received)
        /\ \A k \in DOMAIN u :
             \/ k \in DOMAIN g.received /\ u[k] = g.received[k]
             \/ /\ k > Len(g.received) /\ g.delivered + (k - Len(g.received)) \in DOMAIN w.messages
                /\ u[k] = w.messages[g.delivered + (k - Len(g.received))]
    <2>1. PICK a, b, d : a = g.received /\ b = w.messages /\ d = g.delivered
      OBVIOUS
    <2>2. a \in Seq(Posts) /\ b \in Seq(Posts) /\ d \in Nat /\ u = HandedOver(a, b, d)
      BY <1>y, <1>u, <1>2, <2>1 DEF HandedOver
    <2>3. Joined(u, a, b, d)
      BY <2>2, HandsOver
    <2>4. DOMAIN u = 1..Len(u) /\ DOMAIN a = 1..Len(a) /\ DOMAIN b = 1..Len(b)
      BY <2>2, <2>3 DEF Joined
    <2> QED
      BY <2>1, <2>3, <2>4 DEF Joined
  <1>4. /\ f \in FrameRecords
        /\ f.want = (IF w.due THEN w.html ELSE g.want) /\ (f.waiting <=> g.waiting \/ w.due)
        /\ (f.error <=> g.error /\ ~w.due) /\ f.page = g.page
        /\ f.flights = (IF w.due THEN g.flights \union {w.html} ELSE g.flights)
        /\ f.received = u /\ f.delivered = Len(w.messages)
    BY <1>f, <1>y, <1>u, <1>0, <1>2, <1>3 DEF FrameRecords
  <1>5. v \in WebviewRecords /\ v.html = w.html /\ v.messages = w.messages /\ v.due = FALSE /\ v # NoRecord
    BY <1>v, <1>0 DEF WebviewRecords
  <1>6. \A j \in Ids : /\ webviews'[j] = IF j = i THEN v ELSE webviews[j]
                       /\ frame'[j] = IF j = i THEN f ELSE frame[j]
    BY <1>0, <1>1 DEF WebviewTyped
  <1>7. \A j \in Ids : /\ webviews'[j] = NoRecord <=> webviews[j] = NoRecord
                       /\ webviews[j] # NoRecord => /\ webviews'[j].html = webviews[j].html
                                                    /\ webviews'[j].messages = webviews[j].messages
    BY <1>w, <1>0, <1>5, <1>6
  <1>8. \A q \in Panels : /\ Made(q)' <=> Made(q)
                          /\ PanelId(q)' = PanelId(q)
                          /\ Alone(q)' <=> Alone(q)
    BY <1>1 DEF Made, PanelId, Alone
  <1>9. WebviewTyped'
    <2>1. webviews' \in [Ids -> {NoRecord} \union WebviewRecords] /\ frame' \in [Ids -> FrameRecords]
      BY <1>0, <1>1, <1>4, <1>5 DEF WebviewTyped
    <2> QED
      BY <1>0, <1>1, <2>1 DEF WebviewTyped
  <1>10. Follows'
    <2>1. ASSUME NEW j \in Ids
          PROVE  /\ frame[j].waiting => frame[j].want \in frame[j].flights
                 /\ webviews[j] # NoRecord /\ ~webviews[j].due =>
                      /\ frame[j].want = webviews[j].html
                      /\ ~frame[j].waiting => frame[j].error \/ frame[j].page = frame[j].want
      BY DEF WebviewInv, Follows
    <2>2. /\ f.waiting => f.want \in f.flights
          /\ f.want = v.html
          /\ ~f.waiting => f.error \/ f.page = f.want
      <3>1. CASE w.due
        BY <1>4, <1>5, <3>1
      <3>2. CASE ~w.due
        BY <1>w, <1>g, <1>0, <1>4, <1>5, <2>1, <3>2
      <3> QED
        BY <3>1, <3>2
    <2>3. \A j \in Ids :
            /\ frame'[j].waiting => frame'[j].want \in frame'[j].flights
            /\ webviews'[j] # NoRecord /\ ~webviews'[j].due =>
                 /\ frame'[j].want = webviews'[j].html
                 /\ ~frame'[j].waiting => frame'[j].error \/ frame'[j].page = frame'[j].want
      BY <1>6, <2>1, <2>2
    <2> QED
      BY <2>3 DEF Follows
  <1>11. Owned'
    <2>1. \A j : HasOwner(j)' <=> HasOwner(j)
      BY <1>8 DEF HasOwner
    <2>2. \A n \in DOMAIN panelMessages : \E q \in Panels : Made(q)' /\ PanelId(q)' = panelMessages[n].id
      BY <1>8 DEF WebviewInv, Owned, HasOwner
    <2>3. \A j \in Ids : webviews'[j] # NoRecord => HasOwner(j)'
      BY <1>7, <2>1 DEF WebviewInv, Owned
    <2> QED
      BY <1>1, <2>2, <2>3 DEF Owned, HasOwner
  <1>12. Told'
    <2> SUFFICES ASSUME NEW o \in Panels, Alone(o), object[o].state = "live"
                 PROVE  /\ registry[object[o].id] # NoRecord
                        /\ Begun(object[o].id, panelMessages, webviews')
                        /\ EndsWith(object[o].id, panelMessages, webviews', PageOf(object[o]))
      BY <1>1, <1>8 DEF Told, PanelId
    <2>j. PICK j : j = object[o].id
      OBVIOUS
    <2>1. /\ j \in Ids /\ registry[j] # NoRecord
          /\ Begun(j, panelMessages, webviews)
          /\ EndsWith(j, panelMessages, webviews, PageOf(object[o]))
      BY <2>j DEF WebviewInv, Told, PanelId, WebviewTyped, ObjectRecords
    <2>2. Begun(j, panelMessages, webviews')
      BY <1>7, <2>1 DEF Begun
    <2>3. (\A n \in DOMAIN panelMessages : ~IsPage(panelMessages[n], j)) => webviews[j] # NoRecord
      BY <2>1 DEF Begun, IsPage, IsCreate
    <2>4. EndsWith(j, panelMessages, webviews', PageOf(object[o]))
      BY <1>7, <2>1, <2>3 DEF EndsWith
    <2> QED
      BY <2>j, <2>1, <2>2, <2>4
  <1>13. Ordered'
    <2>0. /\ Ordered
          /\ Rising(g.received) /\ UpTo(g.received, count.posts)
          /\ \A n \in DOMAIN panelMessages : IsPost(panelMessages[n], i) =>
               \A k \in DOMAIN g.received : g.received[k] < panelMessages[n].message
          /\ Rising(w.messages) /\ UpTo(w.messages, count.posts)
          /\ \A n \in DOMAIN w.messages : n > g.delivered =>
               \A k \in DOMAIN g.received : g.received[k] < w.messages[n]
          /\ \A n \in DOMAIN panelMessages : IsPost(panelMessages[n], i) =>
               \A k \in DOMAIN w.messages : w.messages[k] < panelMessages[n].message
      BY <1>w, <1>g, <1>0 DEF WebviewInv, Ordered
    <2>1. Rising(u)
      <3> SUFFICES ASSUME NEW a \in DOMAIN u, NEW b \in DOMAIN u, a < b PROVE u[a] < u[b]
        BY DEF Rising
      <3>1. a \in Nat /\ b \in Nat
        BY <1>3
      <3>2. CASE b \in DOMAIN g.received /\ u[b] = g.received[b]
        <4>1. a \in DOMAIN g.received /\ ~(a > Len(g.received))
          BY <1>2, <3>1, <3>2, <1>3
        <4>2. u[a] = g.received[a]
          BY <1>3, <4>1
        <4> QED
          BY <2>0, <3>2, <4>1, <4>2 DEF Rising
      <3>3. CASE /\ b > Len(g.received) /\ g.delivered + (b - Len(g.received)) \in DOMAIN w.messages
                 /\ u[b] = w.messages[g.delivered + (b - Len(g.received))]
        <4>1. g.delivered + (b - Len(g.received)) > g.delivered
          BY <1>2, <3>1, <3>3
        <4>2. CASE a \in DOMAIN g.received /\ u[a] = g.received[a]
          BY <2>0, <3>3, <4>1, <4>2
        <4>3. CASE /\ a > Len(g.received) /\ g.delivered + (a - Len(g.received)) \in DOMAIN w.messages
                   /\ u[a] = w.messages[g.delivered + (a - Len(g.received))]
          <5>1. g.delivered + (a - Len(g.received)) < g.delivered + (b - Len(g.received))
            BY <1>2, <3>1
          <5> QED
            BY <2>0, <3>3, <4>3, <5>1 DEF Rising
        <4> QED
          BY <1>3, <4>2, <4>3
      <3> QED
        BY <1>3, <3>2, <3>3
    <2>2. UpTo(u, count.posts)
      BY <1>3, <2>0 DEF UpTo
    <2>3. \A n \in DOMAIN panelMessages : IsPost(panelMessages[n], i) =>
            \A k \in DOMAIN u : u[k] < panelMessages[n].message
      BY <1>3, <2>0
    <2>4. ASSUME NEW j \in Ids
          PROVE  /\ Rising(frame'[j].received) /\ UpTo(frame'[j].received, count.posts)
                 /\ \A n \in DOMAIN panelMessages : IsPost(panelMessages[n], j) =>
                      \A k \in DOMAIN frame'[j].received : frame'[j].received[k] < panelMessages[n].message
      <3>1. CASE j = i
        BY <1>4, <1>6, <2>1, <2>2, <2>3, <3>1
      <3>2. CASE j # i
        BY <1>6, <2>0, <3>2 DEF Ordered
      <3> QED
        BY <3>1, <3>2
    <2>5. ASSUME NEW j \in Ids, webviews'[j] # NoRecord
          PROVE  /\ Rising(webviews'[j].messages) /\ UpTo(webviews'[j].messages, count.posts)
                 /\ \A n \in DOMAIN webviews'[j].messages : n > frame'[j].delivered =>
                      \A k \in DOMAIN frame'[j].received : frame'[j].received[k] < webviews'[j].messages[n]
                 /\ \A n \in DOMAIN panelMessages : IsPost(panelMessages[n], j) =>
                      \A k \in DOMAIN webviews'[j].messages : webviews'[j].messages[k] < panelMessages[n].message
      <3>1. CASE j = i
        <4>1. webviews'[j] = v /\ frame'[j] = f
          BY <1>6, <3>1
        <4>2. \A n \in DOMAIN w.messages : ~(n > Len(w.messages))
          BY <1>2
        <4> QED
          BY <1>4, <1>5, <2>0, <3>1, <4>1, <4>2
      <3>2. CASE j # i
        <4>1. webviews'[j] = webviews[j] /\ frame'[j] = frame[j]
          BY <1>6, <3>2
        <4> QED
          BY <2>0, <2>5, <4>1 DEF Ordered
      <3> QED
        BY <3>1, <3>2
    <2> QED
      BY <1>1, <2>0, <2>4, <2>5 DEF Ordered
  <1>14. Whole'
    <2>s. \A j : Simple(j)' => Simple(j)
      BY <1>1, <1>8 DEF Simple
    <2> SUFFICES ASSUME NEW j \in Ids, Simple(j)
                 PROVE  /\ \A n, k \in DOMAIN panelMessages :
                             IsCreate(panelMessages[n], j) /\ IsCreate(panelMessages[k], j) => n = k
                        /\ webviews'[j] # NoRecord =>
                             /\ \A n \in DOMAIN panelMessages : ~IsCreate(panelMessages[n], j)
                             /\ frame'[j].delivered <= Len(webviews'[j].messages)
                             /\ Len(frame'[j].received) = frame'[j].delivered
                             /\ \A k \in 1..frame'[j].delivered :
                                  frame'[j].received[k] = webviews'[j].messages[k]
                        /\ webviews'[j] = NoRecord => frame'[j].delivered = 0 /\ frame'[j].received = <<>>
      BY <1>1, <2>s DEF Whole
    <2>1. /\ \A n, k \in DOMAIN panelMessages :
               IsCreate(panelMessages[n], j) /\ IsCreate(panelMessages[k], j) => n = k
          /\ webviews[j] # NoRecord =>
               /\ \A n \in DOMAIN panelMessages : ~IsCreate(panelMessages[n], j)
               /\ frame[j].delivered <= Len(webviews[j].messages)
               /\ Len(frame[j].received) = frame[j].delivered
               /\ \A k \in 1..frame[j].delivered : frame[j].received[k] = webviews[j].messages[k]
          /\ webviews[j] = NoRecord => frame[j].delivered = 0 /\ frame[j].received = <<>>
      BY DEF WebviewInv, Whole
    <2>2. CASE j # i
      BY <1>6, <2>1, <2>2
    <2>3. CASE j = i
      <3>1. g.delivered <= Len(w.messages) /\ Len(g.received) = g.delivered
            /\ \A k \in 1..g.delivered : g.received[k] = w.messages[k]
        BY <1>w, <1>g, <1>0, <2>1, <2>3
      <3>2. Len(u) = Len(w.messages)
        BY <1>2, <1>3, <3>1
      <3>3. \A k \in 1..Len(w.messages) : u[k] = w.messages[k]
        <4> SUFFICES ASSUME NEW k \in 1..Len(w.messages) PROVE u[k] = w.messages[k]
          OBVIOUS
        <4>1. k \in DOMAIN u
          BY <1>3, <3>2
        <4>2. g.delivered + (k - Len(g.received)) = k
          BY <1>2, <3>1
        <4> QED
          BY <1>2, <1>3, <3>1, <4>1, <4>2
      <3> QED
        BY <1>w, <1>2, <1>0, <1>4, <1>5, <1>6, <2>1, <2>3, <3>2, <3>3
    <2> QED
      BY <2>2, <2>3
  <1> QED
    BY <1>9, <1>10, <1>11, <1>12, <1>13, <1>14 DEF WebviewInv

\* A preparation of a page ends.
LEMMA PreparationEnds ==
  ASSUME WebviewInv, NEW i \in Ids, NEW f \in FrameRecords, frame' = [frame EXCEPT ![i] = f],
         UNCHANGED <<clock, object, registry, panelMessages, webviews, count>>,
         f.received = frame[i].received, f.delivered = frame[i].delivered, f.want = frame[i].want,
         f.waiting => f.want \in f.flights,
         ~f.waiting => \/ f.error \/ f.page = f.want
                       \/ ~frame[i].waiting /\ f.error = frame[i].error /\ f.page = frame[i].page
  PROVE  WebviewInv'
  <1>0. WebviewTyped
    BY DEF WebviewInv
  <1>1. \A j \in Ids : frame'[j] = IF j = i THEN f ELSE frame[j]
    BY <1>0 DEF WebviewTyped
  <1>2. \A j \in Ids : frame'[j].received = frame[j].received /\ frame'[j].delivered = frame[j].delivered
    BY <1>1
  <1>3. WebviewTyped'
    BY <1>0 DEF WebviewTyped
  <1>4. Follows'
    BY <1>1 DEF WebviewInv, Follows
  <1>5. \A q \in Panels : /\ Made(q)' <=> Made(q)
                          /\ PanelId(q)' = PanelId(q)
                          /\ Alone(q)' <=> Alone(q)
    BY DEF Made, PanelId, Alone
  <1>6. Owned'
    <2>1. \A j : HasOwner(j)' <=> HasOwner(j)
      BY <1>5 DEF HasOwner
    <2>2. \A n \in DOMAIN panelMessages : \E q \in Panels : Made(q)' /\ PanelId(q)' = panelMessages[n].id
      BY <1>5 DEF WebviewInv, Owned, HasOwner
    <2>3. \A j \in Ids : webviews[j] # NoRecord => HasOwner(j)'
      BY <2>1 DEF WebviewInv, Owned
    <2> QED
      BY <2>2, <2>3 DEF Owned, HasOwner
  <1>7. Told'
    <2> SUFFICES ASSUME NEW o \in Panels, Alone(o), object[o].state = "live"
                 PROVE  /\ registry[object[o].id] # NoRecord
                        /\ Begun(object[o].id, panelMessages, webviews)
                        /\ EndsWith(object[o].id, panelMessages, webviews, PageOf(object[o]))
      BY <1>5 DEF Told, PanelId
    <2> QED
      BY DEF WebviewInv, Told, PanelId
  <1>8. Ordered'
    BY <1>2 DEF WebviewInv, Ordered
  <1>9. Whole'
    <2>1. \A j : Simple(j)' => Simple(j)
      BY <1>5 DEF Simple
    <2> QED
      BY <1>2, <2>1 DEF WebviewInv, Whole
  <1> QED
    BY <1>3, <1>4, <1>6, <1>7, <1>8, <1>9 DEF WebviewInv

\* The html of a frame is prepared, or its preparation fails.
LEMMA PreparedInv ==
  ASSUME WebviewInv, NEW i \in Ids, NEW h \in Htmls, Prepared(i, h) \/ PrepareFails(i, h)
  PROVE  WebviewInv'
  <1>g. PICK g : g = frame[i]
    OBVIOUS
  <1>0. WebviewTyped /\ g \in FrameRecords /\ (g.waiting => g.want \in g.flights)
    BY <1>g DEF WebviewInv, WebviewTyped, Follows
  <1>1. CASE Prepared(i, h)
    <2>1. UNCHANGED <<clock, object, registry, panelMessages, webviews, count>>
      BY <1>1 DEF Prepared
    <2>2. CASE Taken(i, h)
      <3>f. PICK f : f = [g EXCEPT !.flights = @ \ {h}, !.page = h, !.waiting = g.waiting /\ h # g.want]
        OBVIOUS
      <3>1. h = g.want /\ g.waiting
        BY <1>g, <2>2 DEF Taken
      <3>2. frame' = [frame EXCEPT ![i] = f]
        BY <1>g, <1>1, <2>2, <3>f, <3>1 DEF Prepared
      <3>3. /\ f \in FrameRecords /\ f.received = g.received /\ f.delivered = g.delivered /\ f.want = g.want
            /\ f.waiting = FALSE /\ f.page = f.want
        BY <1>0, <3>f, <3>1 DEF FrameRecords
      <3> QED
        BY <1>g, <2>1, <3>2, <3>3, PreparationEnds
    <2>3. CASE ~Taken(i, h)
      <3>f. PICK f : f = [g EXCEPT !.flights = @ \ {h}]
        OBVIOUS
      <3>1. frame' = [frame EXCEPT ![i] = f]
        BY <1>g, <1>1, <2>3, <3>f DEF Prepared
      <3>2. /\ f \in FrameRecords /\ f.received = g.received /\ f.delivered = g.delivered /\ f.want = g.want
            /\ f.waiting = g.waiting /\ f.page = g.page /\ f.error = g.error /\ f.flights = g.flights \ {h}
        BY <1>0, <3>f DEF FrameRecords
      <3>3. f.waiting => f.want \in f.flights
        BY <1>g, <1>0, <2>3, <3>2 DEF Taken
      <3> QED
        BY <1>g, <2>1, <3>1, <3>2, <3>3, PreparationEnds
    <2> QED
      BY <2>2, <2>3
  <1>2. CASE PrepareFails(i, h)
    <2>1. UNCHANGED <<clock, object, registry, panelMessages, webviews, count>>
      BY <1>2 DEF PrepareFails
    <2>2. CASE Taken(i, h)
      <3>f. PICK f : f = [g EXCEPT !.flights = @ \ {h}, !.error = TRUE, !.waiting = FALSE]
        OBVIOUS
      <3>1. frame' = [frame EXCEPT ![i] = f]
        BY <1>g, <1>2, <2>2, <3>f DEF PrepareFails
      <3>2. /\ f \in FrameRecords /\ f.received = g.received /\ f.delivered = g.delivered /\ f.want = g.want
            /\ f.waiting = FALSE /\ f.error = TRUE
        BY <1>0, <3>f DEF FrameRecords
      <3> QED
        BY <1>g, <2>1, <3>1, <3>2, PreparationEnds
    <2>3. CASE ~Taken(i, h)
      <3>f. PICK f : f = [g EXCEPT !.flights = @ \ {h}]
        OBVIOUS
      <3>1. frame' = [frame EXCEPT ![i] = f]
        BY <1>g, <1>2, <2>3, <3>f DEF PrepareFails
      <3>2. /\ f \in FrameRecords /\ f.received = g.received /\ f.delivered = g.delivered /\ f.want = g.want
            /\ f.waiting = g.waiting /\ f.page = g.page /\ f.error = g.error /\ f.flights = g.flights \ {h}
        BY <1>0, <3>f DEF FrameRecords
      <3>3. f.waiting => f.want \in f.flights
        BY <1>g, <1>0, <2>3, <3>2 DEF Taken
      <3> QED
        BY <1>g, <2>1, <3>1, <3>2, <3>3, PreparationEnds
    <2> QED
      BY <2>2, <2>3
  <1> QED
    BY <1>1, <1>2

\* The invariant is kept by every step ...
LEMMA WebviewStepInv == WebviewInv /\ [WebviewNext]_webviewVars => WebviewInv'
  <1> SUFFICES ASSUME WebviewInv, [WebviewNext]_webviewVars PROVE WebviewInv'
    OBVIOUS
  <1>1. CASE Tick
    BY <1>1, TickInv
  <1>2. ASSUME NEW o \in Panels,
               CreateWebviewPanel(o) \/ SetHtml(o) \/ PostMessage(o) \/ Reveal(o) \/ Dispose(o)
        PROVE  WebviewInv'
    BY <1>2, CreateWebviewPanelInv, SetHtmlInv, PostMessageInv, RevealInv, DisposeInv
  <1>3. CASE TakeNotification
    BY <1>3, TakeNotificationInv
  <1>4. ASSUME NEW i \in Ids, RenderFrame(i) PROVE WebviewInv'
    BY <1>4, RenderFrameInv
  <1>5. ASSUME NEW i \in Ids, NEW h \in Htmls, Prepared(i, h) \/ PrepareFails(i, h) PROVE WebviewInv'
    BY <1>5, PreparedInv
  <1>6. CASE UNCHANGED webviewVars
    <2>1. UNCHANGED <<clock, object, registry, panelMessages, webviews, frame, count>>
      BY <1>6 DEF webviewVars
    <2>2. WebviewTyped'
      BY <2>1 DEF WebviewInv, WebviewTyped
    <2> QED
      BY <2>1, <2>2, PanelKeepsQuiet
  <1> QED
    BY <1>1, <1>2, <1>3, <1>4, <1>5, <1>6 DEF WebviewNext

\* ... and says what frames show and hand over.
LEMMA PagesAndMessages == WebviewInv => WebviewTypeOK /\ PageIsCurrent /\ MessagesOnceInOrder
  <1> SUFFICES ASSUME WebviewInv PROVE WebviewTypeOK /\ PageIsCurrent /\ MessagesOnceInOrder
    OBVIOUS
  <1>0. WebviewTyped
    BY DEF WebviewInv
  <1>1. WebviewTypeOK
    <2>1. ASSUME NEW i \in Ids
          PROVE  /\ registry[i] \in {NoRecord} \union [html : Htmls, receiver : Panels]
                 /\ webviews[i] = NoRecord \/ webviews[i].html \in Htmls
                 /\ frame[i].flights \subseteq Htmls /\ {frame[i].want, frame[i].page} \subseteq Htmls
                 /\ frame[i].waiting => frame[i].want \in frame[i].flights
                 /\ ToSet(frame[i].received) \subseteq Posts
      <3>1. registry[i] \in {NoRecord} \union PanelRecords /\ webviews[i] \in {NoRecord} \union WebviewRecords
            /\ frame[i] \in FrameRecords
        BY <1>0 DEF WebviewTyped
      <3>2. ToSet(frame[i].received) \subseteq Posts
        <4>1. frame[i].received \in Seq(Posts)
          BY <3>1 DEF FrameRecords
        <4>2. \A k \in 1..Len(frame[i].received) : frame[i].received[k] \in Posts
          BY <4>1, ElementOfSeq
        <4> QED
          BY <4>1, <4>2 DEF ToSet
      <3>3. frame[i].waiting => frame[i].want \in frame[i].flights
        BY DEF WebviewInv, Follows
      <3> QED
        BY <3>1, <3>2, <3>3 DEF PanelRecords, WebviewRecords, FrameRecords
    <2> QED
      BY <1>0, <2>1 DEF WebviewTyped, WebviewTypeOK, ObjectRecords
  <1>2. PageIsCurrent
    <2> SUFFICES ASSUME NEW o \in Panels, Alone(o), Settled(PanelId(o)), object[o].state = "live"
                 PROVE  \/ frame[PanelId(o)].error
                        \/ frame[PanelId(o)].page = IF object[o].blank THEN 0 ELSE object[o].html
      BY DEF PageIsCurrent
    <2>i. PICK i : i = PanelId(o)
      OBVIOUS
    <2>1. i \in Ids
      BY <1>0, <2>i DEF PanelId, WebviewTyped, ObjectRecords
    <2>2. EndsWith(i, panelMessages, webviews, PageOf(object[o]))
      BY <2>i DEF WebviewInv, Told
    <2>3. /\ \A n \in DOMAIN panelMessages : panelMessages[n].id # i
          /\ webviews[i] # NoRecord
          /\ ~webviews[i].due /\ ~frame[i].waiting
      BY <2>i DEF Settled
    <2>4. webviews[i].html = PageOf(object[o])
      BY <2>2, <2>3 DEF EndsWith, IsPage
    <2>5. frame[i].error \/ frame[i].page = webviews[i].html
      BY <2>1, <2>3 DEF WebviewInv, Follows
    <2> QED
      BY <2>i, <2>4, <2>5 DEF PageOf
  <1>3. MessagesOnceInOrder
    <2> SUFFICES ASSUME NEW i \in Ids
                 PROVE  /\ \A m, n \in DOMAIN frame[i].received :
                             m < n => frame[i].received[m] < frame[i].received[n]
                        /\ (Settled(i) /\ count.reveals = 0 /\ \A o \in Panels : Made(o) /\ PanelId(o) = i => Alone(o))
                              => frame[i].received = webviews[i].messages
      BY DEF MessagesOnceInOrder
    <2>1. Rising(frame[i].received)
      BY DEF WebviewInv, Ordered
    <2>2. ASSUME Settled(i), Simple(i) PROVE frame[i].received = webviews[i].messages
      <3>1. /\ webviews[i] # NoRecord /\ Len(webviews[i].messages) = frame[i].delivered
        BY <2>2 DEF Settled
      <3>2. /\ Len(frame[i].received) = frame[i].delivered
            /\ \A k \in 1..frame[i].delivered : frame[i].received[k] = webviews[i].messages[k]
        BY <2>2, <3>1 DEF WebviewInv, Whole
      <3>3. frame[i].received \in Seq(Posts) /\ webviews[i].messages \in Seq(Posts)
        BY <1>0, <3>1 DEF WebviewTyped, FrameRecords, WebviewRecords
      <3> QED
        BY <3>1, <3>2, <3>3, SeqEqual
    <2> QED
      BY <2>1, <2>2 DEF Rising, Simple
  <1> QED
    BY <1>1, <1>2, <1>3

\* Panels, notifications, the window's list and the frames keep their types.
THEOREM WebviewTypeCorrect == WebviewSpec => []WebviewTypeOK
  <1> QED
    BY InitWebviews, WebviewStepInv, PagesAndMessages, PTL DEF WebviewSpec

\* Once nothing is under way for a panel nobody shares an id with, its frame
\* shows the html that was set last, however preparations, failures, reveals
\* and notifications were mixed.
THEOREM PagesStayCurrent == WebviewSpec => []PageIsCurrent
  <1> QED
    BY InitWebviews, WebviewStepInv, PagesAndMessages, PTL DEF WebviewSpec

\* A page is handed the messages of its panel in order and none twice.
THEOREM MessagesComeInOrder == WebviewSpec => []MessagesOnceInOrder
  <1> QED
    BY InitWebviews, WebviewStepInv, PagesAndMessages, PTL DEF WebviewSpec

-----------------------------------------------------------------------------
(* Loading of extensions.  The diagnostics tell of each directory under    *)
(* one key: its path until its manifest is read, the id of its extension   *)
(* from then on.  The last notification of a kind that is on its way tells *)
(* what the host has; if there is none, the window shows it, or nothing.   *)

DiagnosticRecords == [path : DirPaths, status : Statuses]

Diagnostics == UNION {[K -> DiagnosticRecords] : K \in SUBSET (DirPaths \union ExtIds)}

LoadMessages ==
  [group : {"diagnostics"}, diagnostics : Diagnostics]
    \union [group : {"contributions"}, contributed : Seq(DirPaths), contextKeys : SUBSET ContextKeys]

LoadingTyped ==
  /\ idOf \in [DirPaths -> ExtIds]
  /\ at \in 0..(Len(Dirs) + 1)
  /\ phase \in Phases /\ outcome \in {"loading", "loaded", "failed"}
  /\ diagnostics \in Diagnostics
  /\ contributed \in Seq(DirPaths) /\ contextKeys \in SUBSET ContextKeys
  /\ active \subseteq DirPaths
  /\ loadListening \in BOOLEAN
  /\ loadMessages \in Seq(LoadMessages)
  /\ window \in [diagnostics : Diagnostics, contributed : Seq(DirPaths), contextKeys : SUBSET ContextKeys]

Identified == phase \in {"mainResolution", "moduleImport", "activation"}

\* Where the loading stands
Progress ==
  /\ phase # "none" => at \in DOMAIN Dirs /\ outcome = "loading"
  /\ outcome = "failed" => at \in DOMAIN Dirs
  /\ outcome = "loaded" => contributed = Dirs /\ at = Len(Dirs) + 1
  /\ \A p \in active : \E n \in DOMAIN Dirs : n < at /\ p = Dirs[n]
  /\ outcome = "loading" => Len(contributed) = (IF Identified THEN at ELSE IF at = 0 THEN 0 ELSE at - 1)
  /\ \A i \in 1..Len(contributed) : i \in DOMAIN Dirs /\ contributed[i] = Dirs[i]

\* Before the directories are found, nothing is told.
Untold == at = 0 => loadMessages = <<>> /\ window.diagnostics = <<>>

\* The directory with number n has one record, under its path, with a status of S.
ByPath(n, S) ==
  /\ Dirs[n] \in DOMAIN diagnostics /\ idOf[Dirs[n]] \notin DOMAIN diagnostics
  /\ diagnostics[Dirs[n]].path = Dirs[n] /\ diagnostics[Dirs[n]].status \in S

\* It has one record, under the id of its extension.
ById(n, S) ==
  /\ idOf[Dirs[n]] \in DOMAIN diagnostics /\ Dirs[n] \notin DOMAIN diagnostics
  /\ diagnostics[idOf[Dirs[n]]].path = Dirs[n] /\ diagnostics[idOf[Dirs[n]]].status \in S

RecordOf(n) ==
  /\ n < at => ById(n, StatusOf(n))
  /\ n > at => ByPath(n, StatusOf(n))
  /\ n = at => /\ phase = "manifest" \/ (phase = "none" /\ outcome # "failed") => ByPath(n, StatusOf(n))
               /\ Identified => ById(n, StatusOf(n))
               /\ outcome = "failed" => ByPath(n, StatusOf(n)) \/ ById(n, StatusOf(n))

RecordsRight ==
  IsInjective(idOf) /\ at > 0 =>
    /\ \A k \in DOMAIN diagnostics : \E n \in DOMAIN Dirs : k = Dirs[n] \/ k = idOf[Dirs[n]]
    /\ \A n \in DOMAIN Dirs : RecordOf(n)

\* No notification of group g comes after number i.
LastOf(ms, i, g) == \A j \in 1..Len(ms) : j > i => ms[j].group # g

TellsDiagnostics(ms, d) ==
  \A i \in 1..Len(ms) : ms[i].group = "diagnostics" /\ LastOf(ms, i, "diagnostics") => ms[i].diagnostics = d

TellsContributions(ms, keys, o) ==
  \A i \in 1..Len(ms) :
    ms[i].group = "contributions" /\ LastOf(ms, i, "contributions") =>
      ms[i].contextKeys = keys /\ (o = "loaded" => ms[i].contributed = Dirs)

ShowsDiagnostics(ms, w, d) ==
  (\A i \in 1..Len(ms) : ms[i].group # "diagnostics") /\ w.diagnostics # <<>> => w.diagnostics = d

ShowsContributions(ms, w, keys, o) ==
  (\A i \in 1..Len(ms) : ms[i].group # "contributions") /\ w.contributed # <<>> =>
    w.contextKeys = keys /\ (o = "loaded" => w.contributed = Dirs)

WindowTold ==
  /\ TellsDiagnostics(loadMessages, diagnostics)
  /\ TellsContributions(loadMessages, contextKeys, outcome)
  /\ ShowsDiagnostics(loadMessages, window, diagnostics)
  /\ ShowsContributions(loadMessages, window, contextKeys, outcome)
  /\ ~loadListening => window.diagnostics = <<>> /\ window.contributed = <<>>

LoadingInv == LoadingTyped /\ Progress /\ Untold /\ RecordsRight /\ WindowTold

\* What the assumption says of the directories.
LEMMA DirsFacts ==
  /\ Len(Dirs) \in Nat /\ DOMAIN Dirs = 1..Len(Dirs)
  /\ \A n \in DOMAIN Dirs : Dirs[n] \in DirPaths /\ Dirs[n] \notin ExtIds
  /\ \A p \in DirPaths : \E n \in DOMAIN Dirs : p = Dirs[n]
  /\ \A m, n \in DOMAIN Dirs : Dirs[m] = Dirs[n] => m = n
  /\ Unknown \notin ExtIds /\ DirPaths \intersect ExtIds = {}
  /\ Dirs \in Seq(DirPaths)
  <1>1. /\ Len(Dirs) \in Nat /\ DOMAIN Dirs = 1..Len(Dirs)
        /\ \A n \in DOMAIN Dirs : Dirs[n] \in STRING \ ExtIds
    BY HostLoadingAssumption
  <1>2. /\ \A n \in DOMAIN Dirs : Dirs[n] \in DirPaths
        /\ \A p \in DirPaths : \E n \in DOMAIN Dirs : p = Dirs[n]
    BY DEF DirPaths, ToSet
  <1>3. \A m, n \in DOMAIN Dirs : Dirs[m] = Dirs[n] => m = n
    BY HostLoadingAssumption DEF IsInjective
  <1>4. Dirs \in [1..Len(Dirs) -> DirPaths]
    BY <1>1, <1>2, HostLoadingAssumption
  <1>5. Dirs \in Seq(DirPaths)
    BY <1>1, <1>4
  <1> QED
    BY <1>1, <1>2, <1>3, <1>5, HostLoadingAssumption

\* No extension is loaded, and the window has heard of none.
LEMMA InitLoading == LoadingInit => LoadingInv
  <1> SUFFICES ASSUME LoadingInit PROVE LoadingInv
    OBVIOUS
  <1>1. LoadingTyped
    <2>1. <<>> \in Seq(LoadMessages) /\ <<>> \in Seq(DirPaths) /\ {} \in SUBSET ContextKeys
      BY EmptySeq
    <2>2. <<>> \in Diagnostics
      <3>1. <<>> \in Seq(DiagnosticRecords) /\ Len(<<>>) = 0
        BY EmptySeq
      <3>2. <<>> \in [1..0 -> DiagnosticRecords]
        BY <3>1, LenProperties
      <3>3. 1..0 \in SUBSET (DirPaths \union ExtIds)
        OBVIOUS
      <3> QED
        BY <3>2, <3>3 DEF Diagnostics
    <2>3. window \in [diagnostics : Diagnostics, contributed : Seq(DirPaths), contextKeys : SUBSET ContextKeys]
      BY <2>1, <2>2 DEF LoadingInit
    <2>4. at \in 0..(Len(Dirs) + 1)
      BY DirsFacts DEF LoadingInit
    <2> QED
      BY <2>1, <2>2, <2>3, <2>4 DEF LoadingInit, LoadingTyped, Phases
  <1>2. Len(contributed) = 0 /\ Len(loadMessages) = 0
    BY DEF LoadingInit
  <1>3. Progress
    BY <1>2 DEF LoadingInit, Progress, Identified
  <1>4. RecordsRight
    BY DEF LoadingInit, RecordsRight
  <1>5. WindowTold
    BY <1>2 DEF LoadingInit, WindowTold, TellsDiagnostics, TellsContributions, ShowsDiagnostics,
                ShowsContributions
  <1>6. Untold
    BY DEF LoadingInit, Untold
  <1> QED
    BY <1>1, <1>3, <1>4, <1>5, <1>6 DEF LoadingInv

\* What recording a status leaves: the record of the key, which takes the place
\* of that of the path, and the others as they were.
RecordLeft(d, r, path, key, status) ==
  /\ key \in DOMAIN d => DOMAIN r = DOMAIN d
  /\ key \notin DOMAIN d => DOMAIN r = (DOMAIN d \ {path}) \union {key}
  /\ r[key].status = status
  /\ (path \in DOMAIN d => d[path].path = path) => r[key].path = path
  /\ \A k \in DOMAIN r : k # key => k \in DOMAIN d /\ r[k] = d[k]

\* Recorded does that, and keeps the type.
LEMMA RecordedOne ==
  ASSUME NEW d \in Diagnostics, NEW path \in DirPaths, NEW id \in ExtIds \union {Unknown},
         NEW status \in Statuses, NEW key, key = IF id = Unknown THEN path ELSE id
  PROVE  /\ Recorded(d, path, id, status) \in Diagnostics
         /\ RecordLeft(d, Recorded(d, path, id, status), path, key, status)
  <1>1. PICK e : e = Ensure(d, path, id)
    OBVIOUS
  <1>2. PICK r : r = [e EXCEPT ![key].status = status]
    OBVIOUS
  <1>3. r = Recorded(d, path, id, status)
    BY <1>1, <1>2 DEF Recorded
  <1>4. key \in DirPaths \union ExtIds
    OBVIOUS
  <1>5. DOMAIN d \in SUBSET (DirPaths \union ExtIds) /\ d \in [DOMAIN d -> DiagnosticRecords]
    BY DEF Diagnostics
  <1>6. /\ e \in [DOMAIN e -> DiagnosticRecords] /\ DOMAIN e \in SUBSET (DirPaths \union ExtIds)
        /\ key \in DOMAIN d => DOMAIN e = DOMAIN d
        /\ key \notin DOMAIN d => DOMAIN e = (DOMAIN d \ {path}) \union {key}
        /\ key \in DOMAIN e /\ ((path \in DOMAIN d => d[path].path = path) => e[key].path = path)
        /\ \A k \in DOMAIN e : k # key => k \in DOMAIN d /\ e[k] = d[k]
    <2>1. CASE key \in DOMAIN d
      <3>1. e = [d EXCEPT ![key].path = path]
        BY <1>1, <2>1 DEF Ensure
      <3> QED
        BY <1>5, <2>1, <3>1 DEF DiagnosticRecords
    <2>2. CASE key \notin DOMAIN d /\ path \in DOMAIN d
      <3>1. e = [k \in (DOMAIN d \ {path}) \union {key} |-> IF k = key THEN d[path] ELSE d[k]]
        BY <1>1, <2>2 DEF Ensure
      <3>2. /\ DOMAIN e = (DOMAIN d \ {path}) \union {key} /\ e[key] = d[path]
            /\ \A k \in DOMAIN e : k # key => k \in DOMAIN d /\ e[k] = d[k]
        BY <3>1
      <3>3. d[path] \in DiagnosticRecords
        BY <1>5, <2>2
      <3>4. e \in [DOMAIN e -> DiagnosticRecords]
        BY <1>5, <3>1, <3>2, <3>3
      <3> QED
        BY <1>4, <1>5, <2>2, <3>2, <3>3, <3>4
    <2>3. CASE key \notin DOMAIN d /\ path \notin DOMAIN d
      <3>1. e = [k \in DOMAIN d \union {key} |->
                  IF k = key THEN [path |-> path, status |-> "discovered"] ELSE d[k]]
        BY <1>1, <2>3 DEF Ensure
      <3>2. [path |-> path, status |-> "discovered"] \in DiagnosticRecords
        BY DEF DiagnosticRecords, Statuses
      <3>3. DOMAIN d \ {path} = DOMAIN d
        BY <2>3
      <3> QED
        BY <1>4, <1>5, <2>3, <3>1, <3>2, <3>3
    <2> QED
      BY <2>1, <2>2, <2>3
  <1>7. /\ DOMAIN r = DOMAIN e /\ r[key] = [e[key] EXCEPT !.status = status]
        /\ \A k \in DOMAIN r : k # key => r[k] = e[k]
    BY <1>2, <1>6
  <1>8. e[key] \in DiagnosticRecords
    BY <1>6
  <1>9. r[key].status = status /\ r[key].path = e[key].path /\ r[key] \in DiagnosticRecords
    BY <1>7, <1>8 DEF DiagnosticRecords
  <1>10. r \in [DOMAIN e -> DiagnosticRecords]
    BY <1>2, <1>6, <1>7, <1>9
  <1>11. r \in Diagnostics
    BY <1>6, <1>10 DEF Diagnostics
  <1>12. RecordLeft(d, r, path, key, status)
    BY <1>6, <1>7, <1>9 DEF RecordLeft
  <1> QED
    BY <1>3, <1>11, <1>12

\* What making sure of a record leaves, if the key has one with its path: nothing new.
LEMMA EnsuredTyped ==
  ASSUME NEW d \in Diagnostics, NEW path \in DirPaths, NEW id \in ExtIds
  PROVE  /\ Ensure(d, path, id) \in Diagnostics
         /\ id \in DOMAIN d /\ d[id].path = path => Ensure(d, path, id) = d
  <1>1. PICK e : e = Ensure(d, path, id)
    OBVIOUS
  <1>2. id # Unknown
    BY DirsFacts
  <1>3. DOMAIN d \in SUBSET (DirPaths \union ExtIds) /\ d \in [DOMAIN d -> DiagnosticRecords]
    BY DEF Diagnostics
  <1>4. CASE id \in DOMAIN d
    <2>1. e = [d EXCEPT ![id].path = path]
      BY <1>1, <1>2, <1>4 DEF Ensure
    <2>2. e \in [DOMAIN d -> DiagnosticRecords]
      BY <1>3, <1>4, <2>1 DEF DiagnosticRecords
    <2>3. ASSUME d[id].path = path PROVE e = d
      <3>1. d[id] \in DiagnosticRecords
        BY <1>3, <1>4
      <3>2. [d[id] EXCEPT !.path = path] = d[id]
        BY <2>3, <3>1 DEF DiagnosticRecords
      <3> QED
        BY <1>3, <1>4, <2>1, <3>2
    <2> QED
      BY <1>1, <1>3, <2>2, <2>3 DEF Diagnostics
  <1>5. CASE id \notin DOMAIN d /\ path \in DOMAIN d
    <2>1. e = [k \in (DOMAIN d \ {path}) \union {id} |-> IF k = id THEN d[path] ELSE d[k]]
      BY <1>1, <1>2, <1>5 DEF Ensure
    <2>2. e \in [(DOMAIN d \ {path}) \union {id} -> DiagnosticRecords]
      BY <1>3, <1>5, <2>1
    <2> QED
      BY <1>1, <1>3, <1>5, <2>2 DEF Diagnostics
  <1>6. CASE id \notin DOMAIN d /\ path \notin DOMAIN d
    <2>1. e = [k \in DOMAIN d \union {id} |-> IF k = id THEN [path |-> path, status |-> "discovered"] ELSE d[k]]
      BY <1>1, <1>2, <1>6 DEF Ensure
    <2>2. [path |-> path, status |-> "discovered"] \in DiagnosticRecords
      BY DEF DiagnosticRecords, Statuses
    <2>3. e \in [DOMAIN d \union {id} -> DiagnosticRecords]
      BY <1>3, <2>1, <2>2
    <2> QED
      BY <1>1, <1>3, <1>6, <2>3 DEF Diagnostics
  <1> QED
    BY <1>4, <1>5, <1>6

\* Notifications with diagnostics follow, the last of which has those of the host.
MoreDiagnostics(ms, r, d) ==
  /\ Len(r) > Len(ms) /\ \A i \in 1..Len(ms) : r[i] = ms[i]
  /\ \A i \in 1..Len(r) : i > Len(ms) => r[i].group = "diagnostics"
  /\ r[Len(r)].diagnostics = d

\* They tell the window what it shows, too.
LEMMA SendsDiagnostics ==
  ASSUME NEW ms \in Seq(LoadMessages), NEW r \in Seq(LoadMessages), NEW d, NEW w, NEW keys, NEW o,
         MoreDiagnostics(ms, r, d),
         TellsContributions(ms, keys, o), ShowsContributions(ms, w, keys, o)
  PROVE  /\ TellsDiagnostics(r, d) /\ ShowsDiagnostics(r, w, d)
         /\ TellsContributions(r, keys, o) /\ ShowsContributions(r, w, keys, o)
  <1>0. /\ Len(r) > Len(ms) /\ \A i \in 1..Len(ms) : r[i] = ms[i]
        /\ \A i \in 1..Len(r) : i > Len(ms) => r[i].group = "diagnostics"
        /\ r[Len(r)].diagnostics = d
    BY DEF MoreDiagnostics
  <1>1. Len(ms) \in Nat /\ Len(r) \in Nat
    OBVIOUS
  <1>2. Len(r) \in 1..Len(r) /\ \A i \in 1..Len(ms) : i \in 1..Len(r) /\ i <= Len(ms)
    BY <1>0, <1>1
  <1>3. r[Len(r)].group = "diagnostics"
    BY <1>0, <1>1, <1>2
  <1>4. \A i \in 1..Len(r) : LastOf(r, i, "diagnostics") => i = Len(r)
    BY <1>0, <1>1, <1>2, <1>3 DEF LastOf
  <1>5. \A i \in 1..Len(r) : r[i].group = "contributions" =>
          i \in 1..Len(ms) /\ r[i] = ms[i] /\ (LastOf(r, i, "contributions") => LastOf(ms, i, "contributions"))
    <2> SUFFICES ASSUME NEW i \in 1..Len(r), r[i].group = "contributions"
                 PROVE  i \in 1..Len(ms) /\ r[i] = ms[i]
                        /\ (LastOf(r, i, "contributions") => LastOf(ms, i, "contributions"))
      OBVIOUS
    <2>1. i \in 1..Len(ms)
      BY <1>0, <1>1
    <2> QED
      BY <1>0, <1>2, <2>1 DEF LastOf
  <1>6. TellsDiagnostics(r, d)
    BY <1>0, <1>4 DEF TellsDiagnostics
  <1>7. ShowsDiagnostics(r, w, d)
    BY <1>0, <1>2, <1>3 DEF ShowsDiagnostics
  <1>8. TellsContributions(r, keys, o)
    BY <1>0, <1>5 DEF TellsContributions
  <1>9. ShowsContributions(r, w, keys, o)
    BY <1>0, <1>2 DEF ShowsContributions
  <1> QED
    BY <1>0, <1>6, <1>7, <1>8, <1>9

\* One notification with contributions follows, which are those of the host.
OneMoreContribution(ms, r, keys, o) ==
  /\ Len(r) = Len(ms) + 1 /\ \A i \in 1..Len(ms) : r[i] = ms[i]
  /\ r[Len(r)].group = "contributions" /\ r[Len(r)].contextKeys = keys
  /\ o = "loaded" => r[Len(r)].contributed = Dirs

\* Such a notification, then, tells the window what it shows.
LEMMA SendsContributions ==
  ASSUME NEW ms \in Seq(LoadMessages), NEW r \in Seq(LoadMessages), NEW d, NEW w, NEW keys, NEW o,
         OneMoreContribution(ms, r, keys, o),
         TellsDiagnostics(ms, d), ShowsDiagnostics(ms, w, d)
  PROVE  /\ TellsDiagnostics(r, d) /\ ShowsDiagnostics(r, w, d)
         /\ TellsContributions(r, keys, o) /\ ShowsContributions(r, w, keys, o)
  <1>0. /\ Len(r) = Len(ms) + 1 /\ \A i \in 1..Len(ms) : r[i] = ms[i]
        /\ r[Len(r)].group = "contributions" /\ r[Len(r)].contextKeys = keys
        /\ o = "loaded" => r[Len(r)].contributed = Dirs
    BY DEF OneMoreContribution
  <1>1. Len(ms) \in Nat /\ Len(r) \in Nat
    OBVIOUS
  <1>2. /\ Len(r) \in 1..Len(r) /\ \A i \in 1..Len(ms) : i \in 1..Len(r)
        /\ \A i \in 1..Len(r) : i # Len(r) => i \in 1..Len(ms)
    BY <1>0, <1>1
  <1>3. \A i \in 1..Len(r) : LastOf(r, i, "contributions") => i = Len(r)
    BY <1>0, <1>1, <1>2 DEF LastOf
  <1>4. \A i \in 1..Len(r) : r[i].group = "diagnostics" =>
          i \in 1..Len(ms) /\ r[i] = ms[i] /\ (LastOf(r, i, "diagnostics") => LastOf(ms, i, "diagnostics"))
    BY <1>0, <1>2 DEF LastOf
  <1>6. TellsDiagnostics(r, d)
    BY <1>0, <1>4 DEF TellsDiagnostics
  <1>7. ShowsDiagnostics(r, w, d)
    BY <1>0, <1>2 DEF ShowsDiagnostics
  <1>8. TellsContributions(r, keys, o)
    BY <1>0, <1>3 DEF TellsContributions
  <1>9. ShowsContributions(r, w, keys, o)
    BY <1>0, <1>2 DEF ShowsContributions
  <1> QED
    BY <1>6, <1>7, <1>8, <1>9

\* Records of one directory tell the window what the host then has.
LEMMA RecordTold ==
  ASSUME LoadingTyped, WindowTold, NEW path \in DirPaths, NEW id \in ExtIds \union {Unknown},
         NEW statuses \in Seq(Statuses), statuses # <<>>, NEW more,
         Record(path, id, statuses, more), outcome # "loaded",
         \/ more = <<>> /\ outcome' # "loaded"
         \/ more = <<Contributions(contributed, contextKeys)>> /\ contributed = Dirs,
         UNCHANGED <<contextKeys, window, loadListening>>
  PROVE  diagnostics' \in Diagnostics /\ loadMessages' \in Seq(LoadMessages) /\ WindowTold'
  <1>1. /\ Len(statuses) \in Nat /\ Len(statuses) > 0 /\ DOMAIN statuses = 1..Len(statuses)
        /\ \A n \in DOMAIN statuses : statuses[n] \in Statuses
    BY EmptySeq
  <1>2. /\ diagnostics \in Diagnostics /\ loadMessages \in Seq(LoadMessages) /\ Len(loadMessages) \in Nat
        /\ contributed \in Seq(DirPaths) /\ contextKeys \in SUBSET ContextKeys
    BY DEF LoadingTyped
  <1>3. \A n \in DOMAIN statuses : Recorded(diagnostics, path, id, statuses[n]) \in Diagnostics
    BY <1>1, <1>2, RecordedOne
  <1>4. diagnostics' = Recorded(diagnostics, path, id, statuses[Len(statuses)])
    BY DEF Record, Last
  <1>5. diagnostics' \in Diagnostics
    BY <1>1, <1>3, <1>4
  <1>6. PICK ds : ds = [n \in DOMAIN statuses |-> DiagnosticsSnapshot(Recorded(diagnostics, path, id, statuses[n]))]
    OBVIOUS
  <1>7. \A n \in DOMAIN statuses : /\ ds[n] \in LoadMessages /\ ds[n].group = "diagnostics"
                                   /\ ds[n].diagnostics = Recorded(diagnostics, path, id, statuses[n])
    BY <1>3, <1>6 DEF DiagnosticsSnapshot, LoadMessages
  <1>8. /\ ds \in Seq(LoadMessages) /\ Len(ds) = Len(statuses)
        /\ \A n \in 1..Len(ds) : ds[n].group = "diagnostics"
        /\ ds[Len(ds)].diagnostics = diagnostics'
    <2>1. ds \in [1..Len(statuses) -> LoadMessages]
      BY <1>1, <1>6, <1>7
    <2>2. ds \in Seq(LoadMessages) /\ Len(ds) = Len(statuses)
      BY <1>1, <2>1
    <2>3. Len(statuses) \in DOMAIN statuses
      BY <1>1
    <2> QED
      BY <1>1, <1>4, <1>7, <2>2, <2>3
  <1>9. PICK mid : mid = loadMessages \o ds
    OBVIOUS
  <1>10. /\ mid \in Seq(LoadMessages) /\ Len(mid) = Len(loadMessages) + Len(ds)
         /\ \A i \in 1..(Len(loadMessages) + Len(ds)) :
              mid[i] = IF i <= Len(loadMessages) THEN loadMessages[i] ELSE ds[i - Len(loadMessages)]
    <2>1. PICK ms : ms = loadMessages
      OBVIOUS
    <2>2. ms \in Seq(LoadMessages) /\ ds \in Seq(LoadMessages)
      BY <1>2, <1>8, <2>1
    <2>3. /\ ms \o ds \in Seq(LoadMessages) /\ Len(ms \o ds) = Len(ms) + Len(ds)
          /\ \A i \in 1..(Len(ms) + Len(ds)) : (ms \o ds)[i] = IF i <= Len(ms) THEN ms[i] ELSE ds[i - Len(ms)]
      BY <2>2, ConcatProperties, SMTT(60)
    <2> QED
      BY <1>9, <2>1, <2>3
  <1>11. /\ Len(mid) > Len(loadMessages)
         /\ \A i \in 1..Len(loadMessages) : mid[i] = loadMessages[i]
         /\ \A i \in 1..Len(mid) : i > Len(loadMessages) => mid[i].group = "diagnostics"
         /\ mid[Len(mid)].diagnostics = diagnostics'
    <2>1. Len(ds) \in Nat /\ Len(ds) > 0
      BY <1>1, <1>8
    <2>2. \A i \in 1..Len(loadMessages) : i \in 1..(Len(loadMessages) + Len(ds)) /\ i <= Len(loadMessages)
      BY <1>2, <2>1
    <2>3. \A i \in 1..(Len(loadMessages) + Len(ds)) : i > Len(loadMessages) =>
             ~(i <= Len(loadMessages)) /\ i - Len(loadMessages) \in 1..Len(ds)
      BY <1>2, <2>1
    <2>4. /\ Len(loadMessages) + Len(ds) \in 1..(Len(loadMessages) + Len(ds))
          /\ ~(Len(loadMessages) + Len(ds) <= Len(loadMessages))
          /\ (Len(loadMessages) + Len(ds)) - Len(loadMessages) = Len(ds)
      BY <1>2, <2>1
    <2>5. Len(mid) > Len(loadMessages)
      BY <1>2, <1>10, <2>1
    <2> QED
      BY <1>8, <1>10, <2>2, <2>3, <2>4, <2>5
  <1>12. /\ TellsDiagnostics(mid, diagnostics') /\ ShowsDiagnostics(mid, window, diagnostics')
         /\ TellsContributions(mid, contextKeys, "loading") /\ ShowsContributions(mid, window, contextKeys, "loading")
    <2>1. TellsContributions(loadMessages, contextKeys, "loading")
          /\ ShowsContributions(loadMessages, window, contextKeys, "loading")
      BY DEF WindowTold, TellsContributions, ShowsContributions
    <2>2. PICK ms, d, w, keys, o : ms = loadMessages /\ d = diagnostics' /\ w = window /\ keys = contextKeys
                                   /\ o = "loading"
      OBVIOUS
    <2>3. ms \in Seq(LoadMessages) /\ mid \in Seq(LoadMessages)
      BY <1>2, <1>10, <2>2
    <2>4. /\ MoreDiagnostics(ms, mid, d)
          /\ TellsContributions(ms, keys, o) /\ ShowsContributions(ms, w, keys, o)
      BY <1>11, <2>1, <2>2 DEF MoreDiagnostics
    <2>5. /\ TellsDiagnostics(mid, d) /\ ShowsDiagnostics(mid, w, d)
          /\ TellsContributions(mid, keys, o) /\ ShowsContributions(mid, w, keys, o)
      BY <2>3, <2>4, SendsDiagnostics
    <2> QED
      BY <2>2, <2>5
  <1>13. loadMessages' = mid \o more
    BY <1>6, <1>9 DEF Record
  <1>14. ~loadListening => window.diagnostics = <<>> /\ window.contributed = <<>>
    BY DEF WindowTold
  <1>15. CASE more = <<>> /\ outcome' # "loaded"
    <2>1. loadMessages' = mid
      BY <1>10, <1>13, <1>15, ConcatEmptySeq
    <2>2. TellsContributions(mid, contextKeys, outcome') /\ ShowsContributions(mid, window, contextKeys, outcome')
      BY <1>12, <1>15 DEF TellsContributions, ShowsContributions
    <2> QED
      BY <1>5, <1>10, <1>12, <1>14, <2>1, <2>2 DEF WindowTold
  <1>16. CASE more = <<Contributions(contributed, contextKeys)>> /\ contributed = Dirs
    <2>1. PICK c : c = Contributions(contributed, contextKeys)
      OBVIOUS
    <2>2. /\ c \in LoadMessages /\ c.group = "contributions" /\ c.contextKeys = contextKeys
          /\ c.contributed = Dirs
      BY <1>2, <1>16, <2>1 DEF Contributions, LoadMessages
    <2>3. <<c>> \in Seq(LoadMessages) /\ Len(<<c>>) = 1 /\ <<c>>[1] = c
      BY <2>2
    <2>4. /\ mid \o <<c>> \in Seq(LoadMessages) /\ Len(mid \o <<c>>) = Len(mid) + Len(<<c>>)
          /\ \A i \in 1..(Len(mid) + Len(<<c>>)) :
               (mid \o <<c>>)[i] = IF i <= Len(mid) THEN mid[i] ELSE <<c>>[i - Len(mid)]
      BY <1>10, <2>3, ConcatProperties, SMTT(60)
    <2>5. PICK r : r = mid \o <<c>>
      OBVIOUS
    <2>6. /\ r \in Seq(LoadMessages) /\ Len(r) = Len(mid) + 1 /\ Len(mid) \in Nat
          /\ \A i \in 1..(Len(mid) + 1) : r[i] = IF i <= Len(mid) THEN mid[i] ELSE <<c>>[i - Len(mid)]
      BY <1>10, <2>3, <2>4, <2>5
    <2>7. /\ \A i \in 1..Len(mid) : i \in 1..(Len(mid) + 1) /\ i <= Len(mid)
          /\ Len(mid) + 1 \in 1..(Len(mid) + 1) /\ ~(Len(mid) + 1 <= Len(mid))
          /\ (Len(mid) + 1) - Len(mid) = 1
      BY <2>6
    <2>8. /\ \A i \in 1..Len(mid) : r[i] = mid[i]
          /\ r[Len(r)] = c
      BY <2>3, <2>6, <2>7
    <2>9. loadMessages' = r
      BY <1>13, <1>16, <2>1, <2>5
    <2>10. PICK d, w, keys, o : d = diagnostics' /\ w = window /\ keys = contextKeys /\ o = outcome'
      OBVIOUS
    <2>11. /\ mid \in Seq(LoadMessages) /\ r \in Seq(LoadMessages)
           /\ TellsDiagnostics(mid, d) /\ ShowsDiagnostics(mid, w, d)
           /\ OneMoreContribution(mid, r, keys, o)
      BY <1>10, <1>12, <2>2, <2>6, <2>8, <2>10 DEF OneMoreContribution
    <2>12. /\ TellsDiagnostics(r, d) /\ ShowsDiagnostics(r, w, d)
           /\ TellsContributions(r, keys, o) /\ ShowsContributions(r, w, keys, o)
      BY <2>11, SendsContributions
    <2> QED
      BY <1>5, <1>14, <2>6, <2>9, <2>10, <2>12 DEF WindowTold
  <1> QED
    BY <1>15, <1>16

\* The status of each directory, by where the loading stands.
LEMMA StatusCases ==
  ASSUME NEW n \in Nat, at \in Nat
  PROVE  /\ n < at => StatusOf(n) = {"activated"}
         /\ n > at => StatusOf(n) = {"discovered"}
         /\ n = at /\ outcome = "failed" => StatusOf(n) = {"failed"}
         /\ n = at /\ outcome # "failed" =>
              /\ phase = "none" => StatusOf(n) = {"discovered"}
              /\ phase \in {"manifest", "moduleImport"} => StatusOf(n) = {"loading"}
              /\ phase = "mainResolution" => StatusOf(n) = {"loaded"}
              /\ phase = "activation" => StatusOf(n) = {"activating"}
  BY DEF StatusOf

\* A record of a directory leaves the others' records alone, and its own, under
\* the key it has or gets, has the new status.
LEMMA Touches ==
  ASSUME LoadingTyped, IsInjective(idOf), NEW n \in DOMAIN Dirs,
         NEW id \in {Unknown, idOf[Dirs[n]]}, NEW status \in Statuses,
         \A k \in DOMAIN diagnostics : \E m \in DOMAIN Dirs : k = Dirs[m] \/ k = idOf[Dirs[m]],
         diagnostics' = Recorded(diagnostics, Dirs[n], id, status), UNCHANGED idOf,
         ByPath(n, Statuses) \/ (id # Unknown /\ ById(n, Statuses))
  PROVE  /\ \A k \in DOMAIN diagnostics' : \E m \in DOMAIN Dirs : k = Dirs[m] \/ k = idOf[Dirs[m]]
         /\ id = Unknown => ByPath(n, {status})'
         /\ id # Unknown => ById(n, {status})'
         /\ \A m \in DOMAIN Dirs, S \in SUBSET Statuses :
              m # n => (ByPath(m, S) => ByPath(m, S)') /\ (ById(m, S) => ById(m, S)')
  <1>1. PICK path, key, d, e : /\ path = Dirs[n] /\ key = (IF id = Unknown THEN path ELSE id)
                               /\ d = diagnostics /\ e = diagnostics'
    OBVIOUS
  <1>2. /\ path \in DirPaths /\ path \notin ExtIds /\ idOf[path] \in ExtIds /\ idOf \in [DirPaths -> ExtIds]
        /\ id \in ExtIds \union {Unknown} /\ d \in Diagnostics /\ Unknown \notin ExtIds
        /\ e = Recorded(d, path, id, status)
    BY <1>1, DirsFacts DEF LoadingTyped
  <1>3. /\ key \in DOMAIN d => DOMAIN e = DOMAIN d
        /\ key \notin DOMAIN d => DOMAIN e = (DOMAIN d \ {path}) \union {key}
        /\ e[key].status = status
        /\ (path \in DOMAIN d => d[path].path = path) => e[key].path = path
        /\ \A k \in DOMAIN e : k # key => k \in DOMAIN d /\ e[k] = d[k]
    <2>1. d \in Diagnostics /\ path \in DirPaths /\ id \in ExtIds \union {Unknown} /\ status \in Statuses
          /\ key = IF id = Unknown THEN path ELSE id
      BY <1>1, <1>2
    <2>2. PICK r : r = Recorded(d, path, id, status)
      OBVIOUS
    <2>3. RecordLeft(d, r, path, key, status)
      BY <2>1, <2>2, RecordedOne
    <2> QED
      BY <1>2, <2>2, <2>3 DEF RecordLeft
  <1>4. /\ path \in DOMAIN d => d[path].path = path
        /\ path \in DOMAIN d \/ (key \in DOMAIN d /\ path \notin DOMAIN d)
        /\ path \in DOMAIN d => idOf[path] \notin DOMAIN d
    BY <1>1 DEF ByPath, ById
  <1>5. key \in DOMAIN e /\ e[key].path = path /\ e[key].status = status
        /\ (id # Unknown => path \notin DOMAIN e) /\ (id = Unknown => idOf[path] \notin DOMAIN e)
    BY <1>1, <1>2, <1>3, <1>4
  <1>6. \A k : k # path /\ k # idOf[path] => (k \in DOMAIN e <=> k \in DOMAIN d) /\ (k \in DOMAIN e => e[k] = d[k])
    BY <1>1, <1>2, <1>3, <1>4
  <1>7. \A k \in DOMAIN e : \E m \in DOMAIN Dirs : k = Dirs[m] \/ k = idOf[Dirs[m]]
    BY <1>1, <1>6
  <1>8. id = Unknown => ByPath(n, {status})'
    BY <1>1, <1>5 DEF ByPath
  <1>9. id # Unknown => ById(n, {status})'
    BY <1>1, <1>5 DEF ById
  <1>10. ASSUME NEW m \in DOMAIN Dirs, NEW S \in SUBSET Statuses, m # n
         PROVE  (ByPath(m, S) => ByPath(m, S)') /\ (ById(m, S) => ById(m, S)')
    <2>1. /\ Dirs[m] # path /\ Dirs[m] \notin ExtIds /\ Dirs[m] \in DirPaths
      BY <1>1, <1>10, DirsFacts
    <2>2. idOf[Dirs[m]] # idOf[path] /\ idOf[Dirs[m]] \in ExtIds
      BY <1>2, <2>1 DEF IsInjective
    <2>3. Dirs[m] # idOf[path] /\ idOf[Dirs[m]] # path
      BY <1>2, <2>1, <2>2
    <2>4. /\ Dirs[m] \in DOMAIN e <=> Dirs[m] \in DOMAIN d
          /\ Dirs[m] \in DOMAIN e => e[Dirs[m]] = d[Dirs[m]]
          /\ idOf[Dirs[m]] \in DOMAIN e <=> idOf[Dirs[m]] \in DOMAIN d
          /\ idOf[Dirs[m]] \in DOMAIN e => e[idOf[Dirs[m]]] = d[idOf[Dirs[m]]]
      BY <1>6, <2>1, <2>2, <2>3
    <2>5. ByPath(m, S) => ByPath(m, S)'
      BY <1>1, <2>4 DEF ByPath
    <2>6. ById(m, S) => ById(m, S)'
      BY <1>1, <2>4 DEF ById
    <2> QED
      BY <2>5, <2>6
  <1> QED
    BY <1>1, <1>7, <1>8, <1>9, <1>10

\* A step that records a status of the directory being loaded keeps the records right.
LEMMA RecordStep ==
  ASSUME LoadingTyped, RecordsRight, NEW n \in DOMAIN Dirs, n = at, outcome = "loading",
         NEW id \in {Unknown, idOf[Dirs[n]]}, NEW status \in Statuses,
         diagnostics' = Recorded(diagnostics, Dirs[n], id, status), UNCHANGED idOf,
         LoadingTyped',
         StatusOf(n)' = {status}, id = Unknown => ~Identified,
         \/ at' = at /\ id = Unknown /\ ~Identified'
         \/ at' = at /\ id # Unknown /\ (Identified' \/ (phase' = "none" /\ outcome' = "failed"))
         \/ at' = at + 1 /\ id # Unknown /\ phase' = "none" /\ outcome' # "failed"
  PROVE  RecordsRight'
  <1> SUFFICES ASSUME IsInjective(idOf)
               PROVE  /\ \A k \in DOMAIN diagnostics' : \E m \in DOMAIN Dirs : k = Dirs[m] \/ k = idOf[Dirs[m]]
                      /\ \A m \in DOMAIN Dirs : RecordOf(m)'
    BY DEF RecordsRight
  <1>1. n \in Nat /\ n > 0 /\ DOMAIN Dirs \subseteq Nat /\ at \in Nat /\ at' \in Nat
    BY DirsFacts DEF LoadingTyped
  <1>2. /\ \A k \in DOMAIN diagnostics : \E m \in DOMAIN Dirs : k = Dirs[m] \/ k = idOf[Dirs[m]]
        /\ \A m \in DOMAIN Dirs : RecordOf(m)
    BY <1>1 DEF RecordsRight
  <1>3. phase \in Phases /\ phase' \in Phases
    BY DEF LoadingTyped
  <1>4. /\ Identified => ById(n, StatusOf(n))
        /\ ~Identified => ByPath(n, StatusOf(n))
    BY <1>2, <1>3 DEF RecordOf, Identified, Phases
  <1>5. StatusOf(n) \in SUBSET Statuses
    BY <1>1, <1>3, StatusCases DEF Phases, Statuses
  <1>6. ByPath(n, Statuses) \/ (id # Unknown /\ ById(n, Statuses))
    BY <1>4, <1>5 DEF ById, ByPath
  <1>7. /\ \A k \in DOMAIN diagnostics' : \E m \in DOMAIN Dirs : k = Dirs[m] \/ k = idOf[Dirs[m]]
        /\ id = Unknown => ByPath(n, {status})'
        /\ id # Unknown => ById(n, {status})'
        /\ \A m \in DOMAIN Dirs, S \in SUBSET Statuses :
             m # n => (ByPath(m, S) => ByPath(m, S)') /\ (ById(m, S) => ById(m, S)')
    BY <1>2, <1>6, Touches
  <1>8. ASSUME NEW m \in DOMAIN Dirs PROVE RecordOf(m)'
    <2>0. m \in Nat /\ {"activated"} \in SUBSET Statuses /\ {"discovered"} \in SUBSET Statuses
      BY <1>1 DEF Statuses
    <2>1. CASE m < n
      <3>0. m < at /\ m < at'
        BY <1>1, <2>0, <2>1
      <3>1. StatusOf(m) = {"activated"} /\ m < at' /\ StatusOf(m)' = {"activated"}
        BY <1>1, <2>0, <3>0 DEF StatusOf
      <3>2. ById(m, {"activated"})
        BY <1>2, <2>1, <3>1 DEF RecordOf
      <3>3. ById(m, {"activated"})'
        BY <1>7, <2>0, <2>1, <3>2
      <3> QED
        BY <1>1, <2>0, <3>1, <3>3 DEF RecordOf, ById
    <2>2. CASE m > n
      <3>1. StatusOf(m) = {"discovered"}
        BY <1>1, <2>0, <2>2, StatusCases
      <3>2. ByPath(m, {"discovered"})
        BY <1>2, <2>2, <3>1 DEF RecordOf
      <3>3. ByPath(m, {"discovered"})'
        BY <1>7, <2>0, <2>2, <3>2
      <3>4. StatusOf(m)' = {"discovered"} /\ ~(m < at') /\ (m = at' => at' = at + 1)
        <4>1. ~(m < at') /\ (m > at' \/ (m = at' /\ at' = at + 1))
          BY <1>1, <2>0, <2>2
        <4>2. CASE m > at'
          BY <1>1, <2>0, <4>1, <4>2 DEF StatusOf
        <4>3. CASE m = at' /\ at' = at + 1
          <5>1. phase' = "none" /\ outcome' # "failed"
            BY <1>1, <4>3
          <5> QED
            BY <1>1, <2>0, <4>3, <5>1 DEF StatusOf
        <4> QED
          BY <4>1, <4>2, <4>3
      <3>5. ByPath(m, StatusOf(m))'
        BY <3>3, <3>4 DEF ByPath
      <3> QED
        BY <1>1, <2>0, <3>4, <3>5 DEF RecordOf, Identified
    <2>3. CASE m = n
      <3>1. id = Unknown => ByPath(n, StatusOf(n))'
        BY <1>7 DEF ByPath
      <3>2. id # Unknown => ById(n, StatusOf(n))'
        BY <1>7 DEF ById
      <3> QED
        BY <1>1, <1>3, <2>3, <3>1, <3>2 DEF RecordOf, Identified
    <2> QED
      BY <1>1, <2>0, <2>1, <2>2, <2>3
  <1> QED
    BY <1>7, <1>8

\* What holds while a directory is being loaded.
LEMMA Loads ==
  ASSUME LoadingTyped, at \in DOMAIN Dirs
  PROVE  /\ Path = Dirs[at] /\ Path \in DirPaths /\ DirId = idOf[Path] /\ DirId \in ExtIds /\ DirId # Unknown
         /\ at \in 1..Len(Dirs) /\ at \in Nat /\ Len(Dirs) \in Nat
  BY DirsFacts DEF LoadingTyped, Path, DirId

\* The actions that record statuses of the directory being loaded and go on with it.
LEMMA RecordsOfOne ==
  ASSUME LoadingInv, at \in DOMAIN Dirs, outcome = "loading",
         NEW id \in {Unknown, DirId}, NEW statuses \in Seq(Statuses), statuses # <<>>,
         NEW status \in Statuses, status = statuses[Len(statuses)], NEW more,
         Record(Path, id, statuses, more),
         phase' \in Phases, outcome' \in {"loading", "loaded", "failed"}, at' \in 0..(Len(Dirs) + 1),
         active' \subseteq DirPaths, contributed' \in Seq(DirPaths),
         UNCHANGED <<idOf, contextKeys, loadListening, window>>,
         \A n \in DOMAIN Dirs : n = at => StatusOf(n)' = {status},
         id = Unknown => ~Identified,
         \/ at' = at /\ id = Unknown /\ ~Identified'
         \/ at' = at /\ id # Unknown /\ (Identified' \/ (phase' = "none" /\ outcome' = "failed"))
         \/ at' = at + 1 /\ id # Unknown /\ phase' = "none" /\ outcome' # "failed",
         \/ more = <<>> /\ outcome' # "loaded"
         \/ more = <<Contributions(contributed, contextKeys)>> /\ contributed = Dirs,
         Progress'
  PROVE  LoadingInv'
  <1>1. LoadingTyped /\ WindowTold /\ RecordsRight
    BY DEF LoadingInv
  <1>2. Path \in DirPaths /\ DirId \in ExtIds /\ Path = Dirs[at] /\ DirId = idOf[Path]
    BY <1>1, Loads
  <1>3. id \in ExtIds \union {Unknown} /\ outcome # "loaded"
        /\ contextKeys' = contextKeys /\ window' = window /\ loadListening' = loadListening
    BY <1>2
  <1>4. diagnostics' \in Diagnostics /\ loadMessages' \in Seq(LoadMessages) /\ WindowTold'
    <2>1. PICK p : p = Path
      OBVIOUS
    <2>2. p \in DirPaths /\ Record(p, id, statuses, more)
      BY <1>2, <2>1
    <2>3. UNCHANGED <<contextKeys, window, loadListening>>
      BY <1>3
    <2> QED
      BY <1>1, <1>3, <2>2, <2>3, RecordTold
  <1>5. LoadingTyped'
    BY <1>1, <1>3, <1>4 DEF LoadingTyped
  <1>6. RecordsRight'
    <2>1. PICK n : n = at
      OBVIOUS
    <2>2. n \in DOMAIN Dirs /\ id \in {Unknown, idOf[Dirs[n]]} /\ status \in Statuses /\ StatusOf(n)' = {status}
      BY <1>2, <2>1
    <2>3. diagnostics' = Recorded(diagnostics, Dirs[n], id, status)
      BY <1>2, <2>1 DEF Record, Last
    <2>4. UNCHANGED idOf
      OBVIOUS
    <2> QED
      BY <1>1, <1>5, <2>1, <2>2, <2>3, <2>4, RecordStep
  <1>7. Untold'
    BY <1>1, Loads DEF Untold
  <1> QED
    BY <1>4, <1>5, <1>6, <1>7 DEF LoadingInv

\* Two statuses, one after the other, and one.
LEMMA StatusSequences ==
  ASSUME NEW s \in Statuses, NEW t \in Statuses
  PROVE  /\ <<s>> \in Seq(Statuses) /\ <<s>> # <<>> /\ Len(<<s>>) = 1 /\ <<s>>[1] = s
         /\ <<s, t>> \in Seq(Statuses) /\ <<s, t>> # <<>> /\ Len(<<s, t>>) = 2 /\ <<s, t>>[2] = t
  OBVIOUS

\* The loading of a directory begins.
LEMMA BeginInv == LoadingInv /\ Begin => LoadingInv'
  <1> SUFFICES ASSUME LoadingInv, Begin PROVE LoadingInv'
    OBVIOUS
  <1>1. /\ at \in DOMAIN Dirs /\ phase = "none" /\ outcome = "loading" /\ phase' = "manifest"
        /\ Record(Path, Unknown, <<"loading">>, <<>>)
        /\ UNCHANGED <<idOf, at, outcome, contributed, contextKeys, active, loadListening, window>>
    BY DEF Begin
  <1>2. LoadingTyped /\ Progress
    BY DEF LoadingInv
  <1>3. /\ phase' \in Phases /\ outcome' \in {"loading", "loaded", "failed"} /\ at' \in 0..(Len(Dirs) + 1)
        /\ active' \subseteq DirPaths /\ contributed' \in Seq(DirPaths)
    BY <1>1, <1>2 DEF LoadingTyped, Phases
  <1>4. Progress'
    BY <1>1, <1>2 DEF Progress, Identified
  <1>5. at \in Nat
    BY <1>1, <1>2, Loads
  <1>6. \A n \in DOMAIN Dirs : n = at => StatusOf(n)' = {"loading"}
    BY <1>1, <1>5 DEF StatusOf
  <1>7. ~Identified /\ ~Identified'
    BY <1>1 DEF Identified
  <1>8. /\ "loading" \in Statuses /\ <<"loading">> \in Seq(Statuses) /\ <<"loading">> # <<>>
        /\ <<"loading">>[Len(<<"loading">>)] = "loading"
    BY DEF Statuses
  <1>9. PICK id, statuses, status, more : /\ id = Unknown /\ statuses = <<"loading">> /\ status = "loading"
                                          /\ more = <<>>
    OBVIOUS
  <1>10. /\ id \in {Unknown, DirId} /\ statuses \in Seq(Statuses) /\ statuses # <<>> /\ status \in Statuses
         /\ status = statuses[Len(statuses)] /\ Record(Path, id, statuses, more)
         /\ more = <<>> /\ outcome' # "loaded" /\ at' = at /\ id = Unknown
         /\ \A n \in DOMAIN Dirs : n = at => StatusOf(n)' = {status}
    BY <1>1, <1>6, <1>8, <1>9
  <1>11. UNCHANGED <<idOf, contextKeys, loadListening, window>>
    BY <1>1
  <1> QED
    BY <1>1, <1>3, <1>4, <1>7, <1>10, <1>11, RecordsOfOne

\* The manifest is read: the extension has an id and its contributions are there.
LEMMA ManifestReadInv == LoadingInv /\ ManifestRead => LoadingInv'
  <1> SUFFICES ASSUME LoadingInv, ManifestRead PROVE LoadingInv'
    OBVIOUS
  <1>2. LoadingTyped /\ Progress
    BY DEF LoadingInv
  <1>1. /\ at \in DOMAIN Dirs /\ outcome = "loading" /\ phase = "manifest" /\ phase' = "mainResolution"
        /\ Record(Path, DirId, <<"loaded", "loaded">>, <<>>)
        /\ contributed' = Append(contributed, Path)
        /\ UNCHANGED <<idOf, at, outcome, contextKeys, active, loadListening, window>>
    BY <1>2 DEF ManifestRead, Progress
  <1>3. /\ Path = Dirs[at] /\ Path \in DirPaths /\ DirId # Unknown
        /\ at \in 1..Len(Dirs) /\ at \in Nat /\ Len(Dirs) \in Nat
    BY <1>1, <1>2, Loads
  <1>4. contributed' \in Seq(DirPaths) /\ Len(contributed') = Len(contributed) + 1
        /\ \A i \in 1..Len(contributed') :
             contributed'[i] = IF i \in 1..Len(contributed) THEN contributed[i] ELSE Path
    BY <1>1, <1>2, <1>3 DEF LoadingTyped
  <1>5. Progress'
    <2>1. Len(contributed) = at - 1
      BY <1>1, <1>2, <1>3 DEF Progress, Identified
    <2>2. Len(contributed') = at
      BY <1>3, <1>4, <2>1
    <2>3. \A i \in 1..Len(contributed') : i \in DOMAIN Dirs /\ contributed'[i] = Dirs[i]
      <3> SUFFICES ASSUME NEW i \in 1..Len(contributed') PROVE i \in DOMAIN Dirs /\ contributed'[i] = Dirs[i]
        OBVIOUS
      <3>1. CASE i \in 1..Len(contributed)
        BY <1>2, <1>4, <3>1 DEF Progress
      <3>2. CASE i \notin 1..Len(contributed)
        <4>1. i = at
          BY <1>3, <2>1, <2>2, <3>2
        <4> QED
          BY <1>1, <1>3, <1>4, <3>2, <4>1
      <3> QED
        BY <3>1, <3>2
    <2> QED
      BY <1>1, <1>2, <2>2, <2>3 DEF Progress, Identified
  <1>6. /\ phase' \in Phases /\ outcome' \in {"loading", "loaded", "failed"} /\ at' \in 0..(Len(Dirs) + 1)
        /\ active' \subseteq DirPaths
    BY <1>1, <1>2 DEF LoadingTyped, Phases
  <1>7. \A n \in DOMAIN Dirs : n = at => StatusOf(n)' = {"loaded"}
    BY <1>1, <1>3 DEF StatusOf
  <1>8. Identified'
    BY <1>1 DEF Identified
  <1>9. /\ "loaded" \in Statuses /\ "loaded" \in Statuses
        /\ <<"loaded", "loaded">> \in Seq(Statuses) /\ <<"loaded", "loaded">> # <<>>
        /\ <<"loaded", "loaded">>[Len(<<"loaded", "loaded">>)] = "loaded"
    BY DEF Statuses
  <1>10. PICK id, statuses, status, more : /\ id = DirId /\ statuses = <<"loaded", "loaded">> /\ status = "loaded"
                                           /\ more = <<>>
    OBVIOUS
  <1>11. /\ id \in {Unknown, DirId} /\ statuses \in Seq(Statuses) /\ statuses # <<>> /\ status \in Statuses
         /\ status = statuses[Len(statuses)] /\ Record(Path, id, statuses, more)
         /\ more = <<>> /\ outcome' # "loaded" /\ at' = at /\ id # Unknown
         /\ \A n \in DOMAIN Dirs : n = at => StatusOf(n)' = {status}
    BY <1>1, <1>3, <1>7, <1>9, <1>10
  <1>12. UNCHANGED <<idOf, contextKeys, loadListening, window>>
    BY <1>1
  <1> QED
    BY <1>1, <1>4, <1>5, <1>6, <1>8, <1>11, <1>12, RecordsOfOne

\* Its main file is found.
LEMMA MainResolvedInv == LoadingInv /\ MainResolved => LoadingInv'
  <1> SUFFICES ASSUME LoadingInv, MainResolved PROVE LoadingInv'
    OBVIOUS
  <1>2. LoadingTyped /\ Progress
    BY DEF LoadingInv
  <1>1. /\ at \in DOMAIN Dirs /\ outcome = "loading" /\ phase = "mainResolution" /\ phase' = "moduleImport"
        /\ Record(Path, DirId, <<"loaded", "loading">>, <<>>)
        /\ UNCHANGED <<idOf, at, outcome, contributed, contextKeys, active, loadListening, window>>
    BY <1>2 DEF MainResolved, Progress
  <1>3. /\ Path = Dirs[at] /\ Path \in DirPaths /\ DirId # Unknown
        /\ at \in 1..Len(Dirs) /\ at \in Nat /\ Len(Dirs) \in Nat
    BY <1>1, <1>2, Loads
  <1>4. contributed' \in Seq(DirPaths)
    BY <1>1, <1>2 DEF LoadingTyped
  <1>5. Progress'
    BY <1>1, <1>2 DEF Progress, Identified
  <1>6. /\ phase' \in Phases /\ outcome' \in {"loading", "loaded", "failed"} /\ at' \in 0..(Len(Dirs) + 1)
        /\ active' \subseteq DirPaths
    BY <1>1, <1>2 DEF LoadingTyped, Phases
  <1>7. \A n \in DOMAIN Dirs : n = at => StatusOf(n)' = {"loading"}
    BY <1>1, <1>3 DEF StatusOf
  <1>8. Identified'
    BY <1>1 DEF Identified
  <1>9. /\ "loaded" \in Statuses /\ "loading" \in Statuses
        /\ <<"loaded", "loading">> \in Seq(Statuses) /\ <<"loaded", "loading">> # <<>>
        /\ <<"loaded", "loading">>[Len(<<"loaded", "loading">>)] = "loading"
    BY DEF Statuses
  <1>10. PICK id, statuses, status, more : /\ id = DirId /\ statuses = <<"loaded", "loading">> /\ status = "loading"
                                           /\ more = <<>>
    OBVIOUS
  <1>11. /\ id \in {Unknown, DirId} /\ statuses \in Seq(Statuses) /\ statuses # <<>> /\ status \in Statuses
         /\ status = statuses[Len(statuses)] /\ Record(Path, id, statuses, more)
         /\ more = <<>> /\ outcome' # "loaded" /\ at' = at /\ id # Unknown
         /\ \A n \in DOMAIN Dirs : n = at => StatusOf(n)' = {status}
    BY <1>1, <1>3, <1>7, <1>9, <1>10
  <1>12. UNCHANGED <<idOf, contextKeys, loadListening, window>>
    BY <1>1
  <1> QED
    BY <1>1, <1>4, <1>5, <1>6, <1>8, <1>11, <1>12, RecordsOfOne

\* Its module is imported.
LEMMA ImportedInv == LoadingInv /\ Imported => LoadingInv'
  <1> SUFFICES ASSUME LoadingInv, Imported PROVE LoadingInv'
    OBVIOUS
  <1>2. LoadingTyped /\ Progress
    BY DEF LoadingInv
  <1>1. /\ at \in DOMAIN Dirs /\ outcome = "loading" /\ phase = "moduleImport" /\ phase' = "activation"
        /\ Record(Path, DirId, <<"loaded", "activating">>, <<>>)
        /\ UNCHANGED <<idOf, at, outcome, contributed, contextKeys, active, loadListening, window>>
    BY <1>2 DEF Imported, Progress
  <1>3. /\ Path = Dirs[at] /\ Path \in DirPaths /\ DirId # Unknown
        /\ at \in 1..Len(Dirs) /\ at \in Nat /\ Len(Dirs) \in Nat
    BY <1>1, <1>2, Loads
  <1>4. contributed' \in Seq(DirPaths)
    BY <1>1, <1>2 DEF LoadingTyped
  <1>5. Progress'
    BY <1>1, <1>2 DEF Progress, Identified
  <1>6. /\ phase' \in Phases /\ outcome' \in {"loading", "loaded", "failed"} /\ at' \in 0..(Len(Dirs) + 1)
        /\ active' \subseteq DirPaths
    BY <1>1, <1>2 DEF LoadingTyped, Phases
  <1>7. \A n \in DOMAIN Dirs : n = at => StatusOf(n)' = {"activating"}
    BY <1>1, <1>3 DEF StatusOf
  <1>8. Identified'
    BY <1>1 DEF Identified
  <1>9. /\ "loaded" \in Statuses /\ "activating" \in Statuses
        /\ <<"loaded", "activating">> \in Seq(Statuses) /\ <<"loaded", "activating">> # <<>>
        /\ <<"loaded", "activating">>[Len(<<"loaded", "activating">>)] = "activating"
    BY DEF Statuses
  <1>10. PICK id, statuses, status, more : /\ id = DirId /\ statuses = <<"loaded", "activating">> /\ status = "activating"
                                           /\ more = <<>>
    OBVIOUS
  <1>11. /\ id \in {Unknown, DirId} /\ statuses \in Seq(Statuses) /\ statuses # <<>> /\ status \in Statuses
         /\ status = statuses[Len(statuses)] /\ Record(Path, id, statuses, more)
         /\ more = <<>> /\ outcome' # "loaded" /\ at' = at /\ id # Unknown
         /\ \A n \in DOMAIN Dirs : n = at => StatusOf(n)' = {status}
    BY <1>1, <1>3, <1>7, <1>9, <1>10
  <1>12. UNCHANGED <<idOf, contextKeys, loadListening, window>>
    BY <1>1
  <1> QED
    BY <1>1, <1>4, <1>5, <1>6, <1>8, <1>11, <1>12, RecordsOfOne

\* It is active, and the next is loaded or the loading is done.
LEMMA ActivatedInv == LoadingInv /\ Activated => LoadingInv'
  <1> SUFFICES ASSUME LoadingInv, Activated PROVE LoadingInv'
    OBVIOUS
  <1>2. LoadingTyped /\ Progress
    BY DEF LoadingInv
  <1>0. PICK more : more = IF at = Len(Dirs) THEN <<Contributions(contributed, contextKeys)>> ELSE <<>>
    OBVIOUS
  <1>1. /\ at \in DOMAIN Dirs /\ outcome = "loading" /\ phase = "activation" /\ phase' = "none"
        /\ at' = at + 1 /\ active' = active \union {Path}
        /\ outcome' = IF at = Len(Dirs) THEN "loaded" ELSE "loading"
        /\ Record(Path, DirId, <<"activated">>, more)
        /\ UNCHANGED <<idOf, contributed, contextKeys, loadListening, window>>
    BY <1>0, <1>2 DEF Activated, Progress
  <1>3. /\ Path = Dirs[at] /\ Path \in DirPaths /\ DirId # Unknown
        /\ at \in 1..Len(Dirs) /\ at \in Nat /\ Len(Dirs) \in Nat
    BY <1>1, <1>2, Loads
  <1>4. contributed' \in Seq(DirPaths) /\ Len(contributed) = at
    BY <1>1, <1>2 DEF LoadingTyped, Progress, Identified
  <1>5. at = Len(Dirs) => contributed = Dirs
    <2> SUFFICES ASSUME at = Len(Dirs) PROVE contributed = Dirs
      OBVIOUS
    <2>1. contributed \in Seq(DirPaths) /\ Dirs \in Seq(DirPaths) /\ Len(contributed) = Len(Dirs)
      BY <1>2, <1>4, DirsFacts DEF LoadingTyped
    <2>2. \A i \in 1..Len(contributed) : contributed[i] = Dirs[i]
      BY <1>2 DEF Progress
    <2> QED
      BY <2>1, <2>2, SeqEqual
  <1>6. Progress'
    <2>1. \A p \in active' : \E n \in DOMAIN Dirs : n < at' /\ p = Dirs[n]
      <3> SUFFICES ASSUME NEW p \in active' PROVE \E n \in DOMAIN Dirs : n < at' /\ p = Dirs[n]
        OBVIOUS
      <3>1. CASE p \in active
        <4>1. PICK n \in DOMAIN Dirs : n < at /\ p = Dirs[n]
          BY <1>2, <3>1 DEF Progress
        <4>2. n \in Nat
          BY DirsFacts
        <4> QED
          BY <1>1, <1>3, <4>1, <4>2
      <3>2. CASE p = Path
        BY <1>1, <1>3, <3>2
      <3> QED
        BY <1>1, <3>1, <3>2
    <2>2. ~Identified' /\ at' # 0 /\ at' - 1 = at
      BY <1>1, <1>3 DEF Identified
    <2> QED
      BY <1>1, <1>2, <1>3, <1>4, <1>5, <2>1, <2>2 DEF Progress
  <1>7. /\ phase' \in Phases /\ outcome' \in {"loading", "loaded", "failed"} /\ at' \in 0..(Len(Dirs) + 1)
        /\ active' \subseteq DirPaths
    BY <1>1, <1>2, <1>3 DEF LoadingTyped, Phases
  <1>8. \A n \in DOMAIN Dirs : n = at => StatusOf(n)' = {"activated"}
    BY <1>1, <1>3 DEF StatusOf
  <1>9. /\ "activated" \in Statuses /\ <<"activated">> \in Seq(Statuses) /\ <<"activated">> # <<>>
        /\ <<"activated">>[Len(<<"activated">>)] = "activated"
    BY DEF Statuses
  <1>10. PICK id, statuses, status : id = DirId /\ statuses = <<"activated">> /\ status = "activated"
    OBVIOUS
  <1>11. /\ id \in {Unknown, DirId} /\ statuses \in Seq(Statuses) /\ statuses # <<>> /\ status \in Statuses
         /\ status = statuses[Len(statuses)] /\ Record(Path, id, statuses, more)
         /\ at' = at + 1 /\ id # Unknown /\ phase' = "none" /\ outcome' # "failed"
         /\ \A n \in DOMAIN Dirs : n = at => StatusOf(n)' = {status}
    BY <1>1, <1>3, <1>8, <1>9, <1>10
  <1>12. \/ more = <<>> /\ outcome' # "loaded"
         \/ more = <<Contributions(contributed, contextKeys)>> /\ contributed = Dirs
    BY <1>0, <1>1, <1>5
  <1>13. UNCHANGED <<idOf, contextKeys, loadListening, window>>
    BY <1>1
  <1> QED
    BY <1>1, <1>4, <1>6, <1>7, <1>11, <1>12, <1>13, RecordsOfOne

\* Whatever was awaited fails.
LEMMA FailsInv == LoadingInv /\ Fails => LoadingInv'
  <1> SUFFICES ASSUME LoadingInv, Fails PROVE LoadingInv'
    OBVIOUS
  <1>2. LoadingTyped /\ Progress
    BY DEF LoadingInv
  <1>1. /\ at \in DOMAIN Dirs /\ outcome = "loading" /\ phase # "none" /\ phase' = "none"
        /\ outcome' = "failed"
        /\ Record(Path, FailureId, <<"failed">>, <<>>)
        /\ UNCHANGED <<idOf, at, contributed, contextKeys, active, loadListening, window>>
    BY <1>2 DEF Fails, Progress
  <1>3. /\ Path = Dirs[at] /\ Path \in DirPaths /\ DirId # Unknown
        /\ at \in 1..Len(Dirs) /\ at \in Nat /\ Len(Dirs) \in Nat
    BY <1>1, <1>2, Loads
  <1>4. contributed' \in Seq(DirPaths)
    BY <1>1, <1>2 DEF LoadingTyped
  <1>5. Progress'
    BY <1>1, <1>2 DEF Progress, Identified
  <1>6. /\ phase' \in Phases /\ outcome' \in {"loading", "loaded", "failed"} /\ at' \in 0..(Len(Dirs) + 1)
        /\ active' \subseteq DirPaths
    BY <1>1, <1>2 DEF LoadingTyped, Phases
  <1>7. \A n \in DOMAIN Dirs : n = at => StatusOf(n)' = {"failed"}
    BY <1>1, <1>3 DEF StatusOf
  <1>8. /\ ~Identified' /\ (FailureId = Unknown => ~Identified)
        /\ FailureId \in {Unknown, DirId}
    BY <1>1, <1>3 DEF Identified, FailureId
  <1>9. /\ "failed" \in Statuses /\ <<"failed">> \in Seq(Statuses) /\ <<"failed">> # <<>>
        /\ <<"failed">>[Len(<<"failed">>)] = "failed"
    BY DEF Statuses
  <1>10. PICK id, statuses, status, more : /\ id = FailureId /\ statuses = <<"failed">> /\ status = "failed"
                                           /\ more = <<>>
    OBVIOUS
  <1>11. /\ id \in {Unknown, DirId} /\ statuses \in Seq(Statuses) /\ statuses # <<>> /\ status \in Statuses
         /\ status = statuses[Len(statuses)] /\ Record(Path, id, statuses, more)
         /\ more = <<>> /\ outcome' # "loaded" /\ at' = at
         /\ id = Unknown => ~Identified
         /\ id # Unknown => phase' = "none" /\ outcome' = "failed"
         /\ \A n \in DOMAIN Dirs : n = at => StatusOf(n)' = {status}
    BY <1>1, <1>3, <1>7, <1>8, <1>9, <1>10
  <1>12. UNCHANGED <<idOf, contextKeys, loadListening, window>>
    BY <1>1
  <1>13. \/ at' = at /\ id = Unknown /\ ~Identified'
         \/ at' = at /\ id # Unknown /\ (Identified' \/ (phase' = "none" /\ outcome' = "failed"))
    BY <1>8, <1>11
  <1> QED
    BY <1>1, <1>4, <1>5, <1>6, <1>11, <1>12, <1>13, RecordsOfOne

\* The directories are found.
LEMMA DiscoverInv == LoadingInv /\ Discover => LoadingInv'
  <1> SUFFICES ASSUME LoadingInv, Discover PROVE LoadingInv'
    OBVIOUS
  <1>1. LoadingTyped /\ Progress /\ Untold /\ WindowTold
    BY DEF LoadingInv
  <1> DEFINE found(n) == [p \in ToSet(SubSeq(Dirs, 1, n)) |-> [path |-> p, status |-> "discovered"]]
  <1>2. PICK ds : ds = [n \in DOMAIN Dirs |-> DiagnosticsSnapshot(found(n))]
    OBVIOUS
  <1>3. /\ at = 0 /\ at' = 1 /\ diagnostics' = found(Len(Dirs)) /\ loadMessages' = loadMessages \o ds
        /\ UNCHANGED <<idOf, phase, outcome, contributed, contextKeys, active, loadListening, window>>
    BY <1>2 DEF Discover
  <1>4. /\ Len(Dirs) \in Nat /\ DOMAIN Dirs = 1..Len(Dirs)
        /\ \A n \in DOMAIN Dirs : Dirs[n] \in DirPaths /\ Dirs[n] \notin ExtIds
        /\ \A p \in DirPaths : \E n \in DOMAIN Dirs : p = Dirs[n]
        /\ Dirs \in Seq(DirPaths) /\ DirPaths \intersect ExtIds = {}
    BY DirsFacts
  <1>5. phase = "none" /\ outcome = "loading"
    BY <1>1, <1>3, <1>4 DEF Progress, LoadingTyped
  <1>6. \A n \in 0..Len(Dirs) : found(n) \in Diagnostics
    <2> SUFFICES ASSUME NEW n \in 0..Len(Dirs) PROVE found(n) \in Diagnostics
      OBVIOUS
    <2>1. \A i \in 1..n : Dirs[i] \in DirPaths
      BY <1>4
    <2>2. /\ SubSeq(Dirs, 1, n) \in Seq(DirPaths)
      BY <1>4, <2>1, SubSeqProperties
    <2>3. ToSet(SubSeq(Dirs, 1, n)) \subseteq DirPaths
      BY <2>2 DEF ToSet
    <2>4. \A p \in DirPaths : [path |-> p, status |-> "discovered"] \in DiagnosticRecords
      BY DEF DiagnosticRecords, Statuses
    <2> HIDE DEF DirPaths
    <2>5. found(n) \in [ToSet(SubSeq(Dirs, 1, n)) -> DiagnosticRecords]
      BY <2>3, <2>4
    <2> QED
      BY <2>3, <2>5 DEF Diagnostics
  <1>7. /\ DOMAIN diagnostics' = DirPaths
        /\ \A p \in DirPaths : diagnostics'[p] = [path |-> p, status |-> "discovered"]
    <2>1. SubSeq(Dirs, 1, Len(Dirs)) = Dirs
      BY <1>4, SubSeqFull
    <2> QED
      BY <1>3, <2>1 DEF DirPaths
  <1>8. /\ ds \in Seq(LoadMessages) /\ Len(ds) = Len(Dirs)
        /\ \A n \in 1..Len(ds) : ds[n].group = "diagnostics" /\ ds[n].diagnostics = found(n)
    <2>1. \A n \in DOMAIN Dirs : /\ DiagnosticsSnapshot(found(n)) \in LoadMessages
                                 /\ DiagnosticsSnapshot(found(n)).group = "diagnostics"
                                 /\ DiagnosticsSnapshot(found(n)).diagnostics = found(n)
      BY <1>4, <1>6 DEF DiagnosticsSnapshot, LoadMessages
    <2> HIDE DEF found
    <2>2. ds \in [1..Len(Dirs) -> LoadMessages]
      BY <1>2, <1>4, <2>1
    <2>3. ds \in Seq(LoadMessages) /\ Len(ds) = Len(Dirs)
      BY <1>4, <2>2
    <2> QED
      BY <1>2, <1>4, <2>1, <2>3
  <1>9. loadMessages = <<>> /\ window.diagnostics = <<>> /\ loadMessages' = ds
    BY <1>1, <1>3, <1>8, ConcatEmptySeq DEF Untold
  <1>10. LoadingTyped'
    <2>1. diagnostics' \in Diagnostics /\ loadMessages' \in Seq(LoadMessages)
      <3>1. Len(Dirs) \in 0..Len(Dirs)
        BY <1>4
      <3> QED
        BY <1>3, <1>6, <1>8, <1>9, <3>1
    <2>2. at' \in 0..(Len(Dirs) + 1)
      BY <1>3, <1>4
    <2> QED
      BY <1>1, <1>3, <2>1, <2>2 DEF LoadingTyped
  <1>11. Progress'
    BY <1>1, <1>3, <1>4, <1>5 DEF Progress, Identified
  <1>12. Untold'
    BY <1>3 DEF Untold
  <1>13. RecordsRight'
    <2>1. \A n \in DOMAIN Dirs : n \in Nat /\ n >= 1 /\ StatusOf(n)' = {"discovered"}
      BY <1>3, <1>4, <1>5 DEF StatusOf
    <2>2. \A n \in DOMAIN Dirs : ByPath(n, StatusOf(n))'
      <3>1. \A n \in DOMAIN Dirs : idOf[Dirs[n]] \in ExtIds /\ Dirs[n] \in DirPaths
        BY <1>1, <1>4 DEF LoadingTyped
      <3> QED
        BY <1>3, <1>4, <1>7, <2>1, <3>1 DEF ByPath
    <2>3. \A n \in DOMAIN Dirs : RecordOf(n)'
      BY <1>3, <1>5, <2>1, <2>2 DEF RecordOf, Identified
    <2>4. \A k \in DOMAIN diagnostics' : \E n \in DOMAIN Dirs : k = Dirs[n]
      BY <1>4, <1>7
    <2> QED
      BY <2>3, <2>4 DEF RecordsRight
  <1>14. WindowTold'
    <2>1. Len(ds) \in Nat /\ Len(loadMessages) = 0
      BY <1>4, <1>8, <1>9
    <2>2. TellsDiagnostics(ds, diagnostics')
      <3> SUFFICES ASSUME NEW i \in 1..Len(ds), LastOf(ds, i, "diagnostics")
                   PROVE  ds[i].diagnostics = diagnostics'
        BY DEF TellsDiagnostics
      <3>0. Len(ds) \in 1..Len(ds)
        BY <2>1
      <3>1. Len(ds) \in 1..Len(ds) /\ ds[Len(ds)].group = "diagnostics"
        BY <1>8, <3>0
      <3>2. i = Len(ds)
        BY <2>1, <3>1 DEF LastOf
      <3> QED
        BY <1>3, <1>8, <3>1, <3>2
    <2>3. TellsContributions(ds, contextKeys, outcome)
      BY <1>8 DEF TellsContributions
    <2>4. ShowsContributions(ds, window, contextKeys, outcome)
      BY <1>1, <2>1 DEF WindowTold, ShowsContributions
    <2>5. ShowsDiagnostics(ds, window, diagnostics')
      BY <1>9 DEF ShowsDiagnostics
    <2> QED
      BY <1>1, <1>3, <1>9, <2>2, <2>3, <2>4, <2>5 DEF WindowTold
  <1> QED
    BY <1>10, <1>11, <1>12, <1>13, <1>14 DEF LoadingInv

\* Nothing the records speak of has changed.
LEMMA RecordsStay ==
  ASSUME RecordsRight, UNCHANGED <<idOf, at, phase, outcome, diagnostics>>
  PROVE  RecordsRight'
  BY DEF RecordsRight, RecordOf, ByPath, ById, StatusOf, Identified

\* An extension that runs has its directory among those loaded, or being activated.
LEMMA RunsWhenLoaded ==
  ASSUME LoadingTyped, Progress, NEW p \in DirPaths, Running(p)
  PROVE  at # 0 /\ \E n \in DOMAIN Dirs : p = Dirs[n] /\ (n < at \/ (n = at /\ phase = "activation"))
  <1>1. DOMAIN Dirs = 1..Len(Dirs) /\ Len(Dirs) \in Nat /\ at \in Nat
    BY DirsFacts DEF LoadingTyped
  <1>2. CASE p \in active
    BY <1>1, <1>2 DEF Progress
  <1>3. CASE at \in DOMAIN Dirs /\ p = Path /\ phase = "activation"
    BY <1>1, <1>3 DEF Path
  <1> QED
    BY <1>2, <1>3 DEF Running

\* One more notification, at the end.
LEMMA OneMore ==
  ASSUME NEW ms \in Seq(LoadMessages), NEW c \in LoadMessages, NEW r, r = Append(ms, c)
  PROVE  /\ r \in Seq(LoadMessages) /\ Len(r) = Len(ms) + 1 /\ r[Len(r)] = c
         /\ \A i \in 1..Len(ms) : r[i] = ms[i]
  OBVIOUS

\* An extension sets a context key or resets one.
LEMMA SetContextInv ==
  ASSUME LoadingInv, NEW p \in DirPaths, NEW k \in ContextKeys, SetContext(p, k)
  PROVE  LoadingInv'
  <1>1. LoadingTyped /\ Progress /\ Untold /\ RecordsRight /\ WindowTold
    BY DEF LoadingInv
  <1>2. PICK keys \in {contextKeys \union {k}, contextKeys \ {k}} :
          /\ Running(p) /\ contextKeys' = keys
          /\ loadMessages' = Append(loadMessages, Contributions(contributed, keys))
    BY DEF SetContext, Sent
  <1>3. UNCHANGED <<idOf, at, phase, outcome, diagnostics, contributed, active, loadListening, window>>
    BY DEF SetContext
  <1>4. PICK c : c = Contributions(contributed, keys)
    OBVIOUS
  <1>5. keys \in SUBSET ContextKeys
    BY <1>1 DEF LoadingTyped
  <1>6. /\ c \in LoadMessages /\ c.group = "contributions" /\ c.contributed = contributed
        /\ c.contextKeys = keys
    BY <1>1, <1>4, <1>5 DEF Contributions, LoadMessages, LoadingTyped
  <1>7. PICK ms, r, d, w, o : /\ ms = loadMessages /\ r = loadMessages' /\ d = diagnostics /\ w = window
                              /\ o = outcome
    OBVIOUS
  <1>8. ms \in Seq(LoadMessages) /\ r = Append(ms, c)
    BY <1>1, <1>2, <1>4, <1>7 DEF LoadingTyped
  <1>9. /\ r \in Seq(LoadMessages) /\ Len(r) = Len(ms) + 1 /\ r[Len(r)] = c
        /\ \A i \in 1..Len(ms) : r[i] = ms[i]
    BY <1>6, <1>8, OneMore
  <1>10. OneMoreContribution(ms, r, keys, o)
    BY <1>1, <1>6, <1>7, <1>9 DEF OneMoreContribution, Progress
  <1>11. TellsDiagnostics(ms, d) /\ ShowsDiagnostics(ms, w, d)
    BY <1>1, <1>7 DEF WindowTold
  <1>12. /\ TellsDiagnostics(r, d) /\ ShowsDiagnostics(r, w, d)
         /\ TellsContributions(r, keys, o) /\ ShowsContributions(r, w, keys, o)
    BY <1>8, <1>9, <1>10, <1>11, SendsContributions
  <1>13. WindowTold'
    BY <1>1, <1>2, <1>3, <1>7, <1>12 DEF WindowTold
  <1>14. LoadingTyped'
    BY <1>1, <1>2, <1>3, <1>5, <1>7, <1>9 DEF LoadingTyped
  <1>15. Progress'
    BY <1>1, <1>3 DEF Progress, Identified
  <1>16. Untold'
    BY <1>1, <1>2, <1>3, RunsWhenLoaded DEF Untold
  <1>17. RecordsRight'
    BY <1>1, <1>3, RecordsStay
  <1> QED
    BY <1>13, <1>14, <1>15, <1>16, <1>17 DEF LoadingInv

\* An extension uses an API that is not there.
LEMMA ReportUnsupportedApiInv ==
  ASSUME LoadingInv, NEW p \in DirPaths, ReportUnsupportedApi(p)
  PROVE  LoadingInv'
  <1>1. LoadingTyped /\ Progress /\ Untold /\ RecordsRight /\ WindowTold
    BY DEF LoadingInv
  <1>2. /\ Running(p) /\ diagnostics' = Ensure(diagnostics, p, idOf[p])
        /\ loadMessages' = Append(loadMessages, DiagnosticsSnapshot(diagnostics'))
        /\ UNCHANGED <<idOf, at, phase, outcome, contributed, contextKeys, active, loadListening, window>>
    BY DEF ReportUnsupportedApi
  <1>3. /\ diagnostics \in Diagnostics /\ idOf[p] \in ExtIds /\ loadMessages \in Seq(LoadMessages)
    BY <1>1 DEF LoadingTyped
  <1>4. PICK ms, r, d, w, keys, o, c : /\ ms = loadMessages /\ r = loadMessages' /\ d = diagnostics'
                                       /\ w = window /\ keys = contextKeys /\ o = outcome
                                       /\ c = DiagnosticsSnapshot(diagnostics')
    OBVIOUS
  <1>5. d \in Diagnostics
    BY <1>2, <1>3, <1>4, EnsuredTyped
  <1>6. c \in LoadMessages /\ c.group = "diagnostics" /\ c.diagnostics = d
    BY <1>4, <1>5 DEF DiagnosticsSnapshot, LoadMessages
  <1>7. ms \in Seq(LoadMessages) /\ r = Append(ms, c)
    BY <1>2, <1>3, <1>4
  <1>8. /\ r \in Seq(LoadMessages) /\ Len(r) = Len(ms) + 1 /\ r[Len(r)] = c
        /\ \A i \in 1..Len(ms) : r[i] = ms[i]
    BY <1>6, <1>7, OneMore
  <1>9. Len(ms) \in Nat /\ Len(r) > Len(ms) /\ \A i \in 1..Len(r) : i > Len(ms) => i = Len(r)
    BY <1>7, <1>8
  <1>10. MoreDiagnostics(ms, r, d)
    BY <1>6, <1>8, <1>9 DEF MoreDiagnostics
  <1>11. TellsContributions(ms, keys, o) /\ ShowsContributions(ms, w, keys, o)
    BY <1>1, <1>4 DEF WindowTold
  <1>12. /\ TellsDiagnostics(r, d) /\ ShowsDiagnostics(r, w, d)
         /\ TellsContributions(r, keys, o) /\ ShowsContributions(r, w, keys, o)
    BY <1>7, <1>8, <1>10, <1>11, SendsDiagnostics
  <1>13. WindowTold'
    BY <1>1, <1>2, <1>4, <1>12 DEF WindowTold
  <1>14. LoadingTyped'
    BY <1>1, <1>2, <1>4, <1>5, <1>8 DEF LoadingTyped
  <1>15. Progress'
    BY <1>1, <1>2 DEF Progress, Identified
  <1>16. at # 0 /\ \E n \in DOMAIN Dirs : p = Dirs[n] /\ (n < at \/ (n = at /\ phase = "activation"))
    BY <1>1, <1>2, RunsWhenLoaded
  <1>17. Untold'
    BY <1>2, <1>16 DEF Untold
  <1>18. RecordsRight'
    <2> SUFFICES ASSUME IsInjective(idOf) PROVE RecordsRight'
      BY <1>2 DEF RecordsRight
    <2>1. at > 0
      BY <1>1, <1>16 DEF LoadingTyped
    <2>2. PICK n \in DOMAIN Dirs : p = Dirs[n] /\ (n < at \/ (n = at /\ phase = "activation"))
      BY <1>16
    <2>3. ById(n, StatusOf(n))
      BY <1>1, <2>1, <2>2 DEF RecordsRight, RecordOf, Identified
    <2>4. diagnostics' = diagnostics
      BY <1>2, <1>3, <2>2, <2>3, EnsuredTyped DEF ById
    <2> QED
      BY <1>1, <1>2, <2>4, RecordsStay
  <1> QED
    BY <1>13, <1>14, <1>15, <1>17, <1>18 DEF LoadingInv

\* The window listens from now on.
LEMMA ListenInv == LoadingInv /\ Listen => LoadingInv'
  <1> SUFFICES ASSUME LoadingInv, Listen PROVE LoadingInv'
    OBVIOUS
  <1>1. LoadingTyped /\ Progress /\ Untold /\ RecordsRight /\ WindowTold
    BY DEF LoadingInv
  <1>2. /\ loadListening' = TRUE
        /\ UNCHANGED <<idOf, at, phase, outcome, diagnostics, contributed, contextKeys, active,
                       loadMessages, window>>
    BY DEF Listen
  <1>3. LoadingTyped'
    BY <1>1, <1>2 DEF LoadingTyped
  <1>4. Progress' /\ Untold'
    BY <1>1, <1>2 DEF Progress, Identified, Untold
  <1>5. RecordsRight'
    BY <1>1, <1>2, RecordsStay
  <1>6. WindowTold'
    BY <1>1, <1>2 DEF WindowTold
  <1> QED
    BY <1>3, <1>4, <1>5, <1>6 DEF LoadingInv

\* What is left when the first notification has arrived, and what it told.
TakenOff(ms, m, t, d, keys, o) ==
  /\ m \in LoadMessages /\ t \in Seq(LoadMessages)
  /\ TellsDiagnostics(t, d) /\ TellsContributions(t, keys, o)
  /\ m.group = "diagnostics" /\ (\A i \in 1..Len(t) : t[i].group # "diagnostics") => m.diagnostics = d
  /\ m.group = "contributions" /\ (\A i \in 1..Len(t) : t[i].group # "contributions") =>
       m.contextKeys = keys /\ (o = "loaded" => m.contributed = Dirs)
  /\ \A g : (\A i \in 1..Len(t) : t[i].group # g) /\ m.group # g => \A i \in 1..Len(ms) : ms[i].group # g

\* Taking one notification does that.
LEMMA OneLess ==
  ASSUME NEW ms \in Seq(LoadMessages), ms # <<>>, NEW m, m = Head(ms), NEW t, t = Tail(ms),
         NEW d, NEW keys, NEW o, TellsDiagnostics(ms, d), TellsContributions(ms, keys, o)
  PROVE  TakenOff(ms, m, t, d, keys, o)
  <1>1. /\ m \in LoadMessages /\ t \in Seq(LoadMessages) /\ Len(t) = Len(ms) - 1 /\ Len(ms) \in Nat
        /\ \A i \in 1..Len(t) : t[i] = ms[i + 1]
        /\ m = ms[1] /\ Len(ms) >= 1
    BY HeadTailProperties, EmptySeq
  <1>2. /\ 1 \in 1..Len(ms)
        /\ \A i \in 1..Len(t) : i + 1 \in 1..Len(ms) /\ i \in Nat
        /\ \A i \in 1..Len(ms) : i = 1 \/ (i - 1 \in 1..Len(t) /\ (i - 1) + 1 = i)
    BY <1>1
  <1>3. \A g : \A i \in 1..Len(t) : LastOf(t, i, g) => LastOf(ms, i + 1, g)
    <2> SUFFICES ASSUME NEW g, NEW i \in 1..Len(t), LastOf(t, i, g), NEW j \in 1..Len(ms), j > i + 1
                 PROVE  ms[j].group # g
      BY DEF LastOf
    <2>1. j - 1 \in 1..Len(t) /\ (j - 1) + 1 = j /\ j - 1 > i
      BY <1>1, <1>2
    <2>2. t[j - 1].group # g
      BY <2>1 DEF LastOf
    <2> QED
      BY <1>1, <2>1, <2>2
  <1>4. \A g : (\A i \in 1..Len(t) : t[i].group # g) => LastOf(ms, 1, g)
    <2> SUFFICES ASSUME NEW g, \A i \in 1..Len(t) : t[i].group # g, NEW j \in 1..Len(ms), j > 1
                 PROVE  ms[j].group # g
      BY DEF LastOf
    <2>1. j - 1 \in 1..Len(t) /\ (j - 1) + 1 = j
      BY <1>1, <1>2
    <2> QED
      BY <1>1, <2>1
  <1>5. TellsDiagnostics(t, d)
    BY <1>1, <1>2, <1>3 DEF TellsDiagnostics
  <1>6. TellsContributions(t, keys, o)
    BY <1>1, <1>2, <1>3 DEF TellsContributions
  <1>7. m.group = "diagnostics" /\ (\A i \in 1..Len(t) : t[i].group # "diagnostics") => m.diagnostics = d
    BY <1>1, <1>2, <1>4 DEF TellsDiagnostics
  <1>8. m.group = "contributions" /\ (\A i \in 1..Len(t) : t[i].group # "contributions") =>
          m.contextKeys = keys /\ (o = "loaded" => m.contributed = Dirs)
    BY <1>1, <1>2, <1>4 DEF TellsContributions
  <1>9. \A g : (\A i \in 1..Len(t) : t[i].group # g) /\ m.group # g => \A i \in 1..Len(ms) : ms[i].group # g
    <2> SUFFICES ASSUME NEW g, \A i \in 1..Len(t) : t[i].group # g, m.group # g, NEW i \in 1..Len(ms)
                 PROVE  ms[i].group # g
      OBVIOUS
    <2>1. CASE i = 1
      BY <1>1, <2>1
    <2>2. CASE i # 1
      BY <1>1, <1>2, <2>2
    <2> QED
      BY <2>1, <2>2
  <1> QED
    BY <1>1, <1>5, <1>6, <1>7, <1>8, <1>9 DEF TakenOff

\* A notification arrives, at a window that listens or one that does not.
LEMMA ArrivesInv == LoadingInv /\ Arrives => LoadingInv'
  <1> SUFFICES ASSUME LoadingInv, Arrives PROVE LoadingInv'
    OBVIOUS
  <1>1. LoadingTyped /\ Progress /\ Untold /\ RecordsRight /\ WindowTold
    BY DEF LoadingInv
  <1>2. PICK ms, m, t, d, keys, o : /\ ms = loadMessages /\ m = Head(loadMessages) /\ t = Tail(loadMessages)
                                    /\ d = diagnostics /\ keys = contextKeys /\ o = outcome
    OBVIOUS
  <1>3. /\ ms # <<>> /\ loadMessages' = t
        /\ ~loadListening => window' = window
        /\ loadListening /\ m.group = "diagnostics" => window' = [window EXCEPT !.diagnostics = m.diagnostics]
        /\ loadListening /\ m.group # "diagnostics" =>
             window' = [window EXCEPT !.contributed = m.contributed, !.contextKeys = m.contextKeys]
        /\ UNCHANGED <<idOf, at, phase, outcome, diagnostics, contributed, contextKeys, active, loadListening>>
    BY <1>2 DEF Arrives
  <1>4. /\ ms \in Seq(LoadMessages) /\ m = Head(ms) /\ t = Tail(ms)
        /\ TellsDiagnostics(ms, d) /\ TellsContributions(ms, keys, o)
        /\ ShowsDiagnostics(ms, window, d) /\ ShowsContributions(ms, window, keys, o)
    BY <1>1, <1>2 DEF LoadingTyped, WindowTold
  <1>5. /\ m \in LoadMessages /\ t \in Seq(LoadMessages)
        /\ TellsDiagnostics(t, d) /\ TellsContributions(t, keys, o)
        /\ m.group = "diagnostics" /\ (\A i \in 1..Len(t) : t[i].group # "diagnostics") => m.diagnostics = d
        /\ m.group = "contributions" /\ (\A i \in 1..Len(t) : t[i].group # "contributions") =>
             m.contextKeys = keys /\ (o = "loaded" => m.contributed = Dirs)
        /\ \A g : (\A i \in 1..Len(t) : t[i].group # g) /\ m.group # g => \A i \in 1..Len(ms) : ms[i].group # g
    <2>1. TakenOff(ms, m, t, d, keys, o)
      BY <1>3, <1>4, OneLess
    <2> QED
      BY <2>1 DEF TakenOff
  <1>6. window \in [diagnostics : Diagnostics, contributed : Seq(DirPaths), contextKeys : SUBSET ContextKeys]
    BY <1>1 DEF LoadingTyped
  <1>7. /\ window' \in [diagnostics : Diagnostics, contributed : Seq(DirPaths), contextKeys : SUBSET ContextKeys]
        /\ ShowsDiagnostics(t, window', d) /\ ShowsContributions(t, window', keys, o)
        /\ ~loadListening => window'.diagnostics = <<>> /\ window'.contributed = <<>>
    <2>1. CASE ~loadListening
      <3>1. window'.diagnostics = <<>> /\ window'.contributed = <<>>
        BY <1>1, <1>3, <2>1 DEF WindowTold
      <3> QED
        BY <1>3, <1>6, <2>1, <3>1 DEF ShowsDiagnostics, ShowsContributions
    <2>2. CASE loadListening /\ m.group = "diagnostics"
      <3>1. window' = [window EXCEPT !.diagnostics = m.diagnostics]
        BY <1>3, <2>2
      <3>2. m.diagnostics \in Diagnostics
        BY <1>5, <2>2 DEF LoadMessages
      <3>3. /\ window' \in [diagnostics : Diagnostics, contributed : Seq(DirPaths), contextKeys : SUBSET ContextKeys]
            /\ window'.diagnostics = m.diagnostics /\ window'.contributed = window.contributed
            /\ window'.contextKeys = window.contextKeys
        BY <1>6, <3>1, <3>2
      <3>4. ShowsDiagnostics(t, window', d)
        BY <1>5, <2>2, <3>3 DEF ShowsDiagnostics
      <3>5. ShowsContributions(t, window', keys, o)
        BY <1>4, <1>5, <2>2, <3>3 DEF ShowsContributions
      <3> QED
        BY <2>2, <3>3, <3>4, <3>5
    <2>3. CASE loadListening /\ m.group # "diagnostics"
      <3>1. window' = [window EXCEPT !.contributed = m.contributed, !.contextKeys = m.contextKeys]
        BY <1>3, <2>3
      <3>2. m.group = "contributions" /\ m.contributed \in Seq(DirPaths) /\ m.contextKeys \in SUBSET ContextKeys
        BY <1>5, <2>3 DEF LoadMessages
      <3>3. /\ window' \in [diagnostics : Diagnostics, contributed : Seq(DirPaths), contextKeys : SUBSET ContextKeys]
            /\ window'.diagnostics = window.diagnostics /\ window'.contributed = m.contributed
            /\ window'.contextKeys = m.contextKeys
        BY <1>6, <3>1, <3>2
      <3>4. ShowsDiagnostics(t, window', d)
        BY <1>4, <1>5, <2>3, <3>3 DEF ShowsDiagnostics
      <3>5. ShowsContributions(t, window', keys, o)
        BY <1>5, <3>2, <3>3 DEF ShowsContributions
      <3> QED
        BY <2>3, <3>3, <3>4, <3>5
    <2> QED
      BY <2>1, <2>2, <2>3
  <1>8. LoadingTyped'
    BY <1>1, <1>3, <1>5, <1>7 DEF LoadingTyped
  <1>9. Progress'
    BY <1>1, <1>3 DEF Progress, Identified
  <1>10. Untold'
    BY <1>1, <1>2, <1>3 DEF Untold
  <1>11. RecordsRight'
    BY <1>1, <1>3, RecordsStay
  <1>12. WindowTold'
    BY <1>2, <1>3, <1>5, <1>7 DEF WindowTold
  <1> QED
    BY <1>8, <1>9, <1>10, <1>11, <1>12 DEF LoadingInv

\* Every step keeps the invariant.
LEMMA LoadingStepInv == LoadingInv /\ [LoadingNext]_loadingVars => LoadingInv'
  <1> SUFFICES ASSUME LoadingInv, [LoadingNext]_loadingVars PROVE LoadingInv'
    OBVIOUS
  <1>1. CASE UNCHANGED loadingVars
    <2>1. LoadingTyped /\ Progress /\ Untold /\ RecordsRight /\ WindowTold
      BY DEF LoadingInv
    <2>2. UNCHANGED <<idOf, at, phase, outcome, diagnostics, contributed, contextKeys, active,
                      loadMessages, loadListening, window>>
      BY <1>1 DEF loadingVars
    <2>3. LoadingTyped'
      BY <2>1, <2>2 DEF LoadingTyped
    <2>4. Progress' /\ Untold'
      BY <2>1, <2>2 DEF Progress, Identified, Untold
    <2>5. RecordsRight'
      BY <2>1, <2>2, RecordsStay
    <2>6. WindowTold'
      BY <2>1, <2>2 DEF WindowTold
    <2> QED
      BY <2>3, <2>4, <2>5, <2>6 DEF LoadingInv
  <1>2. CASE LoadingNext
    BY <1>2, DiscoverInv, BeginInv, ManifestReadInv, MainResolvedInv, ImportedInv, ActivatedInv, FailsInv,
       SetContextInv, ReportUnsupportedApiInv, ListenInv, ArrivesInv DEF LoadingNext
  <1> QED
    BY <1>1, <1>2

\* What the invariant says of the records and of the window.
LEMMA LoadingTold == LoadingInv => LoadingTypeOK /\ LoadingIsShown
  <1> SUFFICES ASSUME LoadingInv PROVE LoadingTypeOK /\ LoadingIsShown
    OBVIOUS
  <1>1. LoadingTyped /\ Progress /\ RecordsRight /\ WindowTold
    BY DEF LoadingInv
  <1>2. LoadingTypeOK
    <2>1. PICK K \in SUBSET (DirPaths \union ExtIds) : diagnostics \in [K -> DiagnosticRecords]
      BY <1>1 DEF LoadingTyped, Diagnostics
    <2>2. /\ DOMAIN diagnostics \subseteq DirPaths \union ExtIds
          /\ \A k \in DOMAIN diagnostics : diagnostics[k] \in [path : DirPaths, status : Statuses]
      BY <2>1 DEF DiagnosticRecords
    <2>3. ToSet(contributed) \subseteq DirPaths
      BY <1>1 DEF LoadingTyped, ToSet
    <2> QED
      BY <1>1, <2>2, <2>3 DEF LoadingTyped, LoadingTypeOK
  <1>3. DiagnosticsTell
    <2> SUFFICES ASSUME IsInjective(idOf), at > 0, NEW n \in DOMAIN Dirs
                 PROVE  LET records == {k \in DOMAIN diagnostics : diagnostics[k].path = Dirs[n]}
                        IN \E k \in records : records = {k} /\ diagnostics[k].status \in StatusOf(n)
      BY DEF DiagnosticsTell
    <2>1. /\ \A k \in DOMAIN diagnostics : \E m \in DOMAIN Dirs : k = Dirs[m] \/ k = idOf[Dirs[m]]
          /\ \A m \in DOMAIN Dirs : RecordOf(m)
      BY <1>1 DEF RecordsRight
    <2>2. at \in Nat /\ DOMAIN Dirs \subseteq Nat /\ phase \in Phases
      BY <1>1, DirsFacts DEF LoadingTyped
    <2>3. \A m \in DOMAIN Dirs : ByPath(m, StatusOf(m)) \/ ById(m, StatusOf(m))
      <3> SUFFICES ASSUME NEW m \in DOMAIN Dirs PROVE ByPath(m, StatusOf(m)) \/ ById(m, StatusOf(m))
        OBVIOUS
      <3>1. m < at \/ m > at \/ m = at
        BY <2>2
      <3> QED
        BY <2>1, <2>2, <3>1 DEF RecordOf, Identified, Phases
    <2>4. PICK k \in {Dirs[n], idOf[Dirs[n]]} :
            /\ k \in DOMAIN diagnostics /\ diagnostics[k].path = Dirs[n] /\ diagnostics[k].status \in StatusOf(n)
            /\ \A l \in {Dirs[n], idOf[Dirs[n]]} : l \in DOMAIN diagnostics => l = k
      BY <2>3 DEF ByPath, ById
    <2>5. ASSUME NEW l \in DOMAIN diagnostics, diagnostics[l].path = Dirs[n] PROVE l = k
      <3>1. PICK m \in DOMAIN Dirs : l = Dirs[m] \/ l = idOf[Dirs[m]]
        BY <2>1
      <3>2. diagnostics[l].path = Dirs[m]
        BY <2>3, <3>1 DEF ByPath, ById
      <3>3. m = n
        BY <2>5, <3>2, DirsFacts
      <3> QED
        BY <2>4, <3>1, <3>3
    <2>6. {l \in DOMAIN diagnostics : diagnostics[l].path = Dirs[n]} = {k}
      BY <2>4, <2>5
    <2> QED
      BY <2>4, <2>6
  <1>4. WindowShowsHost
    <2> SUFFICES ASSUME loadListening, loadMessages = <<>>
                 PROVE  /\ window.diagnostics # <<>> => window.diagnostics = diagnostics
                        /\ window.contributed # <<>> =>
                             /\ window.contextKeys = contextKeys
                             /\ outcome = "loaded" => window.contributed = Dirs
      BY DEF WindowShowsHost
    <2>1. Len(loadMessages) = 0
      OBVIOUS
    <2>2. \A g : \A i \in 1..Len(loadMessages) : loadMessages[i].group # g
      BY <2>1
    <2> QED
      BY <1>1, <2>2 DEF WindowTold, ShowsDiagnostics, ShowsContributions
  <1> QED
    BY <1>2, <1>3, <1>4 DEF LoadingIsShown

\* The loading keeps its types, whatever fails: the records of the diagnostics,
\* the contributions and what runs.
THEOREM LoadingTypeCorrect == LoadingSpec => []LoadingTypeOK
  <1>1. LoadingInv => LoadingTypeOK
    BY LoadingTold
  <1> QED
    BY <1>1, InitLoading, LoadingStepInv, PTL DEF LoadingSpec

\* For every list of directories and any extensions in them, the diagnostics tell
\* of each directory what became of it, and a window that has taken every
\* notification shows what the host has.
THEOREM LoadingStaysShown == LoadingSpec => []LoadingIsShown
  <1>1. LoadingInv => LoadingIsShown
    BY LoadingTold
  <1> QED
    BY <1>1, InitLoading, LoadingStepInv, PTL DEF LoadingSpec

-----------------------------------------------------------------------------
(* The five services side by side.                                         *)

HostTyped == part \in {"storage", "watch", "webviews", "loading", "feedback"}

HostServicesInv == HostTyped /\ StorageInv /\ WatchInv /\ WebviewInv /\ LoadingInv /\ FeedbackInv

\* A step is one of a service; the others stay as they are.
LEMMA HostServicesStepInv ==
  ASSUME HostServicesInv, [MCNext]_hostVars
  PROVE  HostServicesInv'
  <1>1. HostTyped /\ StorageInv /\ WatchInv /\ WebviewInv /\ LoadingInv /\ FeedbackInv
    BY DEF HostServicesInv
  <1>2. /\ [StorageNext]_storageVars /\ [WatchNext]_watchVars /\ [WebviewNext]_webviewVars
        /\ [LoadingNext]_loadingVars /\ [FeedbackNext]_feedbackVars
        /\ part' = part
    BY DEF MCNext, hostVars
  <1>3. HostTyped'
    BY <1>1, <1>2 DEF HostTyped
  <1> QED
    BY <1>1, <1>2, <1>3, StorageStepInv, WatchStepInv, WebviewStepInv, LoadingStepInv,
       FeedbackStepInv DEF HostServicesInv

\* Whichever service moves keeps its types, and all that is claimed of the five
\* holds of them side by side.
THEOREM HostStaysRight ==
  MCSpec => [](/\ HostTypeOK /\ AckedIsStored /\ ListenerAgrees /\ PageIsCurrent
               /\ MessagesOnceInOrder /\ LoadingIsShown /\ ItemsAreShown)
  <1>1. MCInit => HostServicesInv
    BY InitStorage, InitWatch, InitWebviews, InitLoading, InitFeedback
       DEF MCInit, HostServicesInv, HostTyped
  <1>2. HostServicesInv /\ [MCNext]_hostVars => HostServicesInv'
    BY HostServicesStepInv
  <1>3. ASSUME HostServicesInv
        PROVE  /\ HostTypeOK /\ AckedIsStored /\ ListenerAgrees /\ PageIsCurrent
               /\ MessagesOnceInOrder /\ LoadingIsShown /\ ItemsAreShown
    <2>1. HostTyped /\ StorageInv /\ WatchInv /\ WebviewInv /\ LoadingInv /\ FeedbackInv
      BY <1>3 DEF HostServicesInv
    <2>2. /\ StorageTypeOK /\ AckedIsStored
      BY <2>1, StorageInvImplies
    <2>3. WatchTypeOK /\ ListenerAgrees
      BY <2>1, WatchInvImplies
    <2>4. WebviewTypeOK /\ PageIsCurrent /\ MessagesOnceInOrder
      BY <2>1, PagesAndMessages
    <2>5. LoadingTypeOK /\ LoadingIsShown
      BY <2>1, LoadingTold
    <2>6. FeedbackTypeOK /\ ItemsAreShown
      BY <2>1, ShownAsLeft DEF FeedbackInv, FeedbackTyped
    <2>7. HostTypeOK
      BY <2>1, <2>2, <2>3, <2>4, <2>5, <2>6 DEF HostTyped, HostTypeOK
    <2> QED
      BY <2>2, <2>3, <2>4, <2>5, <2>6, <2>7
  <1> QED
    BY <1>1, <1>2, <1>3, PTL DEF MCSpec
=============================================================================
