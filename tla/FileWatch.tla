------------------------------ MODULE FileWatch ------------------------------
(***************************************************************************)
(* A file system watcher of the standalone host (fileSystemWatcher.ts).    *)
(* The constructor lists the paths there are and then asks the operating   *)
(* system for changes; each reported path waits 25 ms without another      *)
(* report of it and is then compared with what was known: the listener     *)
(* hears of a creation, a change or a deletion, whichever it has not asked *)
(* to leave out.                                                           *)
(*                                                                         *)
(* A path has a content, a number, or Absent.  The listener is one that    *)
(* keeps a copy: it reads the path on a creation or change and drops it on *)
(* a deletion.  The operating system reports a path some time after it has *)
(* changed, once for several changes perhaps, and may lose its name        *)
(* (filename is null when its queue overflows).                            *)
(***************************************************************************)
EXTENDS Naturals

CONSTANTS
  Paths,     \* paths under the base that match the pattern
  MaxEdits   \* bound on the changes of the file system

ASSUME FileWatchAssumption == MaxEdits \in Nat \ {0}

VARIABLES
  stage,     \* of the watcher: new, snapshot, watching, deaf, stopped
  base,      \* the base directory exists
  disk,      \* the paths
  reports,   \* paths the operating system will report
  pendingPaths, knownPaths,
  ignore,    \* ignoreCreateEvents, ignoreChangeEvents, ignoreDeleteEvents
  view,      \* the listener's copies
  unheard,   \* paths whose last change was not or will not be reported
  edits

watchVars == <<stage, base, disk, reports, pendingPaths, knownPaths, ignore, view,
               unheard, edits>>

-----------------------------------------------------------------------------
Absent   == 0
Contents == 0..MaxEdits
EventKinds    == {"create", "change", "delete"}
There(p) == disk[p] # Absent

WatchInit ==
  /\ stage = "new"
  /\ base \in BOOLEAN
  /\ disk \in [Paths -> IF base THEN {Absent, 1} ELSE {Absent}]
  /\ reports = {} /\ pendingPaths = {}
  /\ knownPaths = [p \in Paths |-> FALSE]
  /\ ignore \in SUBSET EventKinds
  /\ view = [p \in Paths |-> Absent]
  /\ unheard = {}
  /\ edits = 1

-----------------------------------------------------------------------------
(* The file system.                                                        *)

MakeBase ==
  /\ ~base
  /\ base' = TRUE
  /\ UNCHANGED <<stage, disk, reports, pendingPaths, knownPaths, ignore, view, unheard, edits>>

\* A path is made, written or removed; only a watcher that watches will hear.
Edit(p) ==
  /\ base /\ edits < MaxEdits
  /\ edits' = edits + 1
  /\ \E c \in {Absent, edits + 1} \ {disk[p]} : disk' = [disk EXCEPT ![p] = c]
  /\ IF stage = "watching"
     THEN reports' = reports \union {p} /\ unheard' = unheard \ {p}
     ELSE reports' = reports /\ unheard' = unheard \union {p}
  /\ UNCHANGED <<stage, base, pendingPaths, knownPaths, ignore, view>>

-----------------------------------------------------------------------------
(* The watcher.                                                            *)

\* mutant: what is there at the start is learnt from the first report
SnapshotEmpty == knownPaths

Snapshot == [p \in Paths |-> There(p)]

\* snapshotKnownPaths; the listener takes its first copies at the same time.
SnapshotKnownPaths ==
  /\ stage = "new"
  /\ stage' = "snapshot"
  /\ knownPaths' = Snapshot
  /\ view' = disk
  /\ unheard' = {}
  /\ UNCHANGED <<base, disk, reports, pendingPaths, ignore, edits>>

\* start: a base that does not exist yet is never watched.
StartWatching ==
  /\ stage = "snapshot"
  /\ stage' = IF base THEN "watching" ELSE "deaf"
  /\ UNCHANGED <<base, disk, reports, pendingPaths, knownPaths, ignore, view, unheard, edits>>

\* queuePath: the timer of the path is started again.
QueuePath(p) ==
  /\ p \in reports
  /\ reports' = reports \ {p}
  /\ pendingPaths' = pendingPaths \union {p}
  /\ UNCHANGED <<stage, base, disk, knownPaths, ignore, view, unheard, edits>>

\* queuePath of a report without a name: dropped.
DropUnnamed(p) ==
  /\ p \in reports
  /\ reports' = reports \ {p}
  /\ unheard' = unheard \union {p}
  /\ UNCHANGED <<stage, base, disk, pendingPaths, knownPaths, ignore, view, edits>>

\* mutant: a path that is known is not forgotten
KnownForever(p) == knownPaths[p] \/ There(p)

Known(p) == There(p)

\* emitPathChange: what the listener is told, if anything
Event(p) ==
  CASE There(p) /\ ~knownPaths[p]  -> "create"
    [] There(p) /\ knownPaths[p]   -> "change"
    [] ~There(p) /\ knownPaths[p]  -> "delete"
    [] ~There(p) /\ ~knownPaths[p] -> "none"

EmitPathChange(p) ==
  /\ p \in pendingPaths
  /\ pendingPaths' = pendingPaths \ {p}
  /\ knownPaths' = [knownPaths EXCEPT ![p] = Known(p)]
  /\ view' = IF Event(p) \in EventKinds \ ignore THEN [view EXCEPT ![p] = disk[p]] ELSE view
  /\ UNCHANGED <<stage, base, disk, reports, ignore, unheard, edits>>

\* dispose
Stop ==
  /\ stage \in {"watching", "deaf"}
  /\ stage' = "stopped"
  /\ reports' = {} /\ pendingPaths' = {}
  /\ UNCHANGED <<base, disk, knownPaths, ignore, view, unheard, edits>>

WatchNext ==
  \/ MakeBase
  \/ SnapshotKnownPaths
  \/ StartWatching
  \/ \E p \in Paths : Edit(p) \/ QueuePath(p) \/ DropUnnamed(p) \/ EmitPathChange(p)
  \/ Stop

WatchSpec == WatchInit /\ [][WatchNext]_watchVars

-----------------------------------------------------------------------------
WatchTypeOK ==
  /\ stage \in {"new", "snapshot", "watching", "deaf", "stopped"}
  /\ base \in BOOLEAN
  /\ disk \in [Paths -> Contents] /\ view \in [Paths -> Contents]
  /\ knownPaths \in [Paths -> BOOLEAN]
  /\ ignore \subseteq EventKinds
  /\ reports \subseteq Paths /\ pendingPaths \subseteq Paths /\ unheard \subseteq Paths
  /\ edits \in 0..MaxEdits

\* What the listener may rely on, given the kinds of events it leaves out: a
\* copy it has is of a path there is, a path there is it has a copy of, and
\* the copy is current.
Agrees(p) ==
  /\ "delete" \notin ignore => (There(p) \/ view[p] = Absent)
  /\ "create" \notin ignore => (~There(p) \/ view[p] # Absent)
  /\ {"create", "change"} \intersect ignore = {} => (There(p) => view[p] = disk[p])

\* A listener that keeps copies is right about every path nothing is under
\* way for, in whatever order changes, reports and timers come, except about
\* a path whose last change fell between the listing and the start of the
\* watch or whose report had no name (emitPathChange).
ListenerAgrees ==
  stage = "watching" =>
    \A p \in Paths \ (reports \union pendingPaths \union unheard) : Agrees(p)
=============================================================================
