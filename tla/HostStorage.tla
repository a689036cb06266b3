----------------------------- MODULE HostStorage -----------------------------
(***************************************************************************)
(* What an extension of the standalone host stores: a memento              *)
(* (state.json) and its secrets (secrets.json).  Each is a JSON object that *)
(* a host process reads when it activates the extension, keeps in memory   *)
(* and writes whole, in place, on every change.  Nothing stops two         *)
(* applications, so two host processes may use the same files.             *)
(*                                                                         *)
(* fs.writeFileSync opens the file, which empties it, and then writes; the *)
(* process may end in between and the write may fail.  A file that holds   *)
(* no JSON reads as an empty object (readStoredValues, readStoredSecrets). *)
(***************************************************************************)
EXTENDS Naturals, FiniteSets

CONSTANTS
  Processes,    \* host processes that use the storage
  Keys, Values, \* what is stored
  None,         \* undefined
  MaxStarts,    \* bound on the processes started
  MaxUpdates    \* bound on the changes

ASSUME HostStorageAssumption ==
  /\ None \notin Values
  /\ {MaxStarts, MaxUpdates} \subseteq Nat

VARIABLES
  running,    \* the processes that run
  memory,     \* the object of each process, for each file
  writing,    \* the change each process is writing
  file,       \* the files
  recent,     \* for each key the last change whose promise was resolved and
              \* the changes asked for after it
  cut,        \* files a write of which was cut short, ever
  rejected,   \* files a change of which was rejected, ever
  shared,     \* two processes have run at the same time
  starts, updates

storageVars == <<running, memory, writing, file, recent, cut, rejected, shared, starts, updates>>

-----------------------------------------------------------------------------
Files   == {"state", "secrets"}
Objects == [Keys -> Values \union {None}]
Empty   == [k \in Keys |-> None]    \* no file, or one that holds no JSON
Idle    == [stage |-> "idle", file |-> "state", key |-> None, value |-> None,
            dirty |-> FALSE]

Ready(p) == p \in running /\ writing[p].stage = "idle"

StorageInit ==
  /\ running = {}
  /\ memory = [p \in Processes |-> [f \in Files |-> Empty]]
  /\ writing = [p \in Processes |-> Idle]
  /\ file = [f \in Files |-> Empty]
  /\ recent = [f \in Files |-> [k \in Keys |-> {None}]]
  /\ cut = {} /\ rejected = {}
  /\ shared = FALSE
  /\ starts = 0 /\ updates = 0

-----------------------------------------------------------------------------
\* mutant: a process starts with what it stores itself
LoadedLazily == [f \in Files |-> Empty]

Loaded == file

\* createExtensionContext: both objects are read once.
Start(p) ==
  /\ p \notin running /\ starts < MaxStarts
  /\ running' = running \union {p}
  /\ memory' = [memory EXCEPT ![p] = Loaded]
  /\ shared' = (shared \/ running # {})
  /\ starts' = starts + 1
  /\ UNCHANGED <<writing, file, recent, cut, rejected, updates>>

Changed(p, f, k, v) == [memory[p][f] EXCEPT ![k] = v]

\* The change is made in memory, then the object is written.
Change(p, f, k, v) ==
  /\ Ready(p) /\ updates < MaxUpdates
  /\ memory' = [memory EXCEPT ![p][f] = Changed(p, f, k, v)]
  /\ recent' = [recent EXCEPT ![f][k] = @ \union {v}]
  /\ writing' = [writing EXCEPT ![p] =
                   [stage |-> "open", file |-> f, key |-> k, value |-> v, dirty |-> FALSE]]
  /\ updates' = updates + 1
  /\ UNCHANGED <<running, file, cut, rejected, shared, starts>>

\* PersistentMemento.update, where undefined removes the key
MementoUpdate(p, k, v) == Change(p, "state", k, v)

\* FileSecretStorage.store
SecretStore(p, k, v) == v # None /\ Change(p, "secrets", k, v)

\* FileSecretStorage.delete of a key there is
SecretDelete(p, k) == memory[p]["secrets"][k] # None /\ Change(p, "secrets", k, None)

\* ... and of one there is not: nothing is written and the promise resolved.
SecretDeleteAbsent(p, k) ==
  /\ Ready(p) /\ updates < MaxUpdates
  /\ memory[p]["secrets"][k] = None
  /\ recent' = [recent EXCEPT !["secrets"][k] = {None}]
  /\ updates' = updates + 1
  /\ UNCHANGED <<running, memory, writing, file, cut, rejected, shared, starts>>

\* writeFileSync opens the file.
Open(p) ==
  /\ writing[p].stage = "open"
  /\ writing' = [writing EXCEPT ![p].stage = "write"]
  /\ file' = [file EXCEPT ![writing[p].file] = Empty]
  /\ UNCHANGED <<running, memory, recent, cut, rejected, shared, starts, updates>>

\* mutant: only the changed key is written
ContentOfKey(p, w) == [k \in {w.key} |-> memory[p][w.file][k]]

Content(p, w) == memory[p][w.file]

\* It writes and closes the file, and the promise is resolved.  Two processes
\* that have both opened the file write over each other.
Finish(p) ==
  LET w == writing[p]
  IN /\ w.stage = "write"
     /\ \E content \in {Content(p, w)} \union (IF w.dirty THEN {Empty} ELSE {}) :
          file' = [file EXCEPT ![w.file] = content]
     /\ recent' = [recent EXCEPT ![w.file][w.key] = {w.value}]
     /\ writing' = [q \in Processes |->
                      IF q = p THEN Idle
                      ELSE IF writing[q].stage = "write" /\ writing[q].file = w.file
                           THEN [writing[q] EXCEPT !.dirty = TRUE] ELSE writing[q]]
     /\ UNCHANGED <<running, memory, cut, rejected, shared, starts, updates>>

Cut(p) == IF writing[p].stage = "write" THEN cut \union {writing[p].file} ELSE cut

\* mkdirSync or writeFileSync throws, before or after the file was opened: the
\* promise is rejected and memory keeps the change.
Fail(p) ==
  /\ writing[p].stage # "idle"
  /\ cut' = Cut(p)
  /\ rejected' = rejected \union {writing[p].file}
  /\ writing' = [writing EXCEPT ![p] = Idle]
  /\ UNCHANGED <<running, memory, file, recent, shared, starts, updates>>

\* The process ends, perhaps in the middle of a write.
Crash(p) ==
  /\ p \in running
  /\ cut' = Cut(p)
  /\ writing' = [writing EXCEPT ![p] = Idle]
  /\ running' = running \ {p}
  /\ memory' = [memory EXCEPT ![p] = [f \in Files |-> Empty]]
  /\ UNCHANGED <<file, recent, rejected, shared, starts, updates>>

StorageNext ==
  \E p \in Processes :
    \/ Start(p)
    \/ \E k \in Keys :
         \/ \E v \in Values \union {None} : MementoUpdate(p, k, v) \/ SecretStore(p, k, v)
         \/ SecretDelete(p, k)
         \/ SecretDeleteAbsent(p, k)
    \/ Open(p)
    \/ Finish(p)
    \/ Fail(p)
    \/ Crash(p)

StorageSpec == StorageInit /\ [][StorageNext]_storageVars

-----------------------------------------------------------------------------
StorageTypeOK ==
  /\ running \subseteq Processes
  /\ memory \in [Processes -> [Files -> Objects]]
  /\ writing \in [Processes -> [stage : {"idle", "open", "write"}, file : Files,
                                key : Keys \union {None}, value : Values \union {None},
                                dirty : BOOLEAN]]
  /\ file \in [Files -> Objects]
  /\ recent \in [Files -> [Keys -> SUBSET (Values \union {None})]]
  /\ cut \subseteq Files /\ rejected \subseteq Files
  /\ shared \in BOOLEAN
  /\ starts \in Nat /\ updates \in Nat

Disturbed(f) == shared \/ (f = "secrets" /\ f \in rejected)

\* A change whose promise was resolved is what the next process reads, unless
\* a later change was asked for: a value is missing only if a write of the file
\* was cut short, and nothing brings back one that was replaced or removed.
\* Only two processes that share the files, or a secret's change that was
\* rejected, break this (PersistentMemento.update, FileSecretStorage.store).
AckedIsStored ==
  \A f \in Files, k \in Keys :
    LET lost == f \in cut \/ \E p \in Processes : writing[p].stage = "write"
                                                /\ writing[p].file = f
    IN Disturbed(f) \/ file[f][k] \in recent[f][k] \union (IF lost THEN {None} ELSE {})
=============================================================================
