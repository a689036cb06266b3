----------------------------- MODULE HostLoading -----------------------------
(***************************************************************************)
(* How the extension host loads the extensions it finds (ExtensionLoader)   *)
(* and what the window learns of it: the diagnostics of each extension     *)
(* (ExtensionDiagnosticsRegistry), sent whole after every record, and the  *)
(* contributions with the context keys (ContributionRegistry), sent when   *)
(* an extension sets a context key and when all are loaded.  Extensions    *)
(* are loaded one after the other; the first that fails ends the loading,  *)
(* and the host goes on.                                                   *)
(*                                                                         *)
(* A record of diagnostics is keyed by the path of the directory until the *)
(* manifest is read and by the extension's id from then on; two            *)
(* directories may hold the same extension.                                *)
(***************************************************************************)
EXTENDS Naturals, Sequences, SequencesExt, Functions

CONSTANTS
  Dirs,        \* the directories, in the order in which they are listed
  ExtIds,      \* ids of extensions
  ContextKeys,
  MaxContexts, \* bound on the calls of setContext
  MaxReports   \* bound on the reports of unsupported APIs

Unknown == "unknown"       \* extensionId is undefined

ASSUME HostLoadingAssumption ==
  /\ Unknown \notin ExtIds
  /\ Dirs \in Seq(STRING \ ExtIds) /\ IsInjective(Dirs)
  /\ {MaxContexts, MaxReports} \subseteq Nat

VARIABLES
  idOf,        \* the id each manifest has
  at,          \* the directory being loaded
  phase,       \* what loadExtension awaits
  outcome,     \* of loadAll
  diagnostics, \* ExtensionDiagnosticsRegistry.extensions
  contributed, \* ContributionRegistry.contributions
  contextKeys, \* keys that are set, and true
  active,      \* directories whose extension is active
  loadMessages,    \* notifications, host -> window
  loadListening,   \* the window listens
  window,      \* what it shows
  contexts, apiReports

loadingVars == <<idOf, at, phase, outcome, diagnostics, contributed, contextKeys, active,
                 loadMessages, loadListening, window, contexts, apiReports>>

-----------------------------------------------------------------------------
DirPaths    == ToSet(Dirs)
Phases   == {"none", "manifest", "mainResolution", "moduleImport", "activation"}
Statuses == {"discovered", "loading", "loaded", "activating", "activated", "failed"}

\* ensure: the record of a key, which takes over the record of the path, or a
\* record of its own for the path.
Ensure(d, path, id) ==
  LET key == IF id = Unknown THEN path ELSE id
  IN IF key \in DOMAIN d THEN [d EXCEPT ![key].path = path]
     ELSE IF path \in DOMAIN d
          THEN [k \in (DOMAIN d \ {path}) \union {key} |-> IF k = key THEN d[path] ELSE d[k]]
          ELSE [k \in DOMAIN d \union {key} |->
                  IF k = key THEN [path |-> path, status |-> "discovered"] ELSE d[k]]

\* recordPhase and recordFailure
Recorded(d, path, id, status) ==
  [Ensure(d, path, id) EXCEPT ![IF id = Unknown THEN path ELSE id].status = status]

DiagnosticsSnapshot(d)      == [group |-> "diagnostics", diagnostics |-> d]
Contributions(c, keys) == [group |-> "contributions", contributed |-> c, contextKeys |-> keys]

\* Records of one directory, one after the other, and what they send.
Record(path, id, statuses, more) ==
  /\ diagnostics' = Recorded(diagnostics, path, id, Last(statuses))
  /\ loadMessages' = loadMessages
       \o [n \in DOMAIN statuses |-> DiagnosticsSnapshot(Recorded(diagnostics, path, id, statuses[n]))]
       \o more

LoadingInit ==
  /\ idOf \in [DirPaths -> ExtIds]
  /\ at = 0 /\ phase = "none" /\ outcome = "loading"
  /\ diagnostics = <<>>
  /\ contributed = <<>>
  /\ contextKeys = {}
  /\ active = {}
  /\ loadMessages = <<>>
  /\ loadListening = FALSE
  /\ window = [diagnostics |-> <<>>, contributed |-> <<>>, contextKeys |-> {}]
  /\ contexts = 0 /\ apiReports = 0

-----------------------------------------------------------------------------
(* loadAll and loadExtension.                                              *)

Path == Dirs[at]
DirId   == idOf[Path]

\* loadAll: a record for each directory
Discover ==
  LET found(n) == [p \in ToSet(SubSeq(Dirs, 1, n)) |-> [path |-> p, status |-> "discovered"]]
  IN /\ at = 0
     /\ at' = 1
     /\ diagnostics' = found(Len(Dirs))
     /\ loadMessages' = loadMessages \o [n \in DOMAIN Dirs |-> DiagnosticsSnapshot(found(n))]
     /\ UNCHANGED <<idOf, phase, outcome, contributed, contextKeys, active, loadListening, window,
                    contexts, apiReports>>

Begin ==
  /\ at \in DOMAIN Dirs /\ phase = "none" /\ outcome = "loading"
  /\ phase' = "manifest"
  /\ Record(Path, Unknown, <<"loading">>, <<>>)
  /\ UNCHANGED <<idOf, at, outcome, contributed, contextKeys, active, loadListening, window,
                 contexts, apiReports>>

\* The manifest was read: recordManifest, register, recordPhase.
ManifestRead ==
  /\ phase = "manifest"
  /\ phase' = "mainResolution"
  /\ Record(Path, DirId, <<"loaded", "loaded">>, <<>>)
  /\ contributed' = Append(contributed, Path)
  /\ UNCHANGED <<idOf, at, outcome, contextKeys, active, loadListening, window, contexts, apiReports>>

MainResolved ==
  /\ phase = "mainResolution"
  /\ phase' = "moduleImport"
  /\ Record(Path, DirId, <<"loaded", "loading">>, <<>>)
  /\ UNCHANGED <<idOf, at, outcome, contributed, contextKeys, active, loadListening, window,
                 contexts, apiReports>>

Imported ==
  /\ phase = "moduleImport"
  /\ phase' = "activation"
  /\ Record(Path, DirId, <<"loaded", "activating">>, <<>>)
  /\ UNCHANGED <<idOf, at, outcome, contributed, contextKeys, active, loadListening, window,
                 contexts, apiReports>>

\* After the last one main.ts sends the contributions.
Activated ==
  /\ phase = "activation"
  /\ phase' = "none"
  /\ at' = at + 1
  /\ active' = active \union {Path}
  /\ outcome' = IF at = Len(Dirs) THEN "loaded" ELSE "loading"
  /\ Record(Path, DirId, <<"activated">>,
            IF at = Len(Dirs) THEN <<Contributions(contributed, contextKeys)>> ELSE <<>>)
  /\ UNCHANGED <<idOf, contributed, contextKeys, loadListening, window, contexts, apiReports>>

\* mutant: the failure is recorded for the directory
FailureIdUnknown == Unknown

FailureId == IF phase = "manifest" THEN Unknown ELSE DirId

\* Whatever is awaited fails.
Fails ==
  /\ phase # "none"
  /\ phase' = "none"
  /\ outcome' = "failed"
  /\ Record(Path, FailureId, <<"failed">>, <<>>)
  /\ UNCHANGED <<idOf, at, contributed, contextKeys, active, loadListening, window, contexts, apiReports>>

-----------------------------------------------------------------------------
(* What extensions do, from the import of their module on.                 *)

Running(p) == p \in active \/ (at \in DOMAIN Dirs /\ p = Path /\ phase = "activation")

\* mutant: the window is told before the key is set
SentBefore(keys) == contextKeys

Sent(keys) == keys

\* setContext: the registry of contributions is told first, then the window.
SetContext(p, k) ==
  /\ Running(p) /\ contexts < MaxContexts
  /\ contexts' = contexts + 1
  /\ \E keys \in {contextKeys \union {k}, contextKeys \ {k}} :
       /\ contextKeys' = keys
       /\ loadMessages' = Append(loadMessages, Contributions(contributed, Sent(keys)))
  /\ UNCHANGED <<idOf, at, phase, outcome, diagnostics, contributed, active, loadListening, window,
                 apiReports>>

\* recordUnsupportedApi keeps the status of the record.
ReportUnsupportedApi(p) ==
  /\ Running(p) /\ apiReports < MaxReports
  /\ apiReports' = apiReports + 1
  /\ diagnostics' = Ensure(diagnostics, p, idOf[p])
  /\ loadMessages' = Append(loadMessages, DiagnosticsSnapshot(diagnostics'))
  /\ UNCHANGED <<idOf, at, phase, outcome, contributed, contextKeys, active, loadListening, window,
                 contexts>>

-----------------------------------------------------------------------------
(* The window.                                                             *)

Listen ==
  /\ ~loadListening
  /\ loadListening' = TRUE
  /\ UNCHANGED <<idOf, at, phase, outcome, diagnostics, contributed, contextKeys, active,
                 loadMessages, window, contexts, apiReports>>

\* A notification that arrives before the window listens is lost.
Arrives ==
  /\ loadMessages # <<>>
  /\ loadMessages' = Tail(loadMessages)
  /\ LET m == Head(loadMessages)
     IN window' =
          IF ~loadListening THEN window
          ELSE IF m.group = "diagnostics"
               THEN [window EXCEPT !.diagnostics = m.diagnostics]
               ELSE [window EXCEPT !.contributed = m.contributed, !.contextKeys = m.contextKeys]
  /\ UNCHANGED <<idOf, at, phase, outcome, diagnostics, contributed, contextKeys, active,
                 loadListening, contexts, apiReports>>

LoadingNext ==
  \/ Discover \/ Begin \/ ManifestRead \/ MainResolved \/ Imported \/ Activated \/ Fails
  \/ \E p \in DirPaths :
       \/ \E k \in ContextKeys : SetContext(p, k)
       \/ ReportUnsupportedApi(p)
  \/ Listen \/ Arrives

LoadingSpec == LoadingInit /\ [][LoadingNext]_loadingVars

-----------------------------------------------------------------------------
LoadingTypeOK ==
  /\ idOf \in [DirPaths -> ExtIds]
  /\ at \in 0..(Len(Dirs) + 1)
  /\ phase \in Phases /\ outcome \in {"loading", "loaded", "failed"}
  /\ DOMAIN diagnostics \subseteq DirPaths \union ExtIds
  /\ \A k \in DOMAIN diagnostics : diagnostics[k] \in [path : DirPaths, status : Statuses]
  /\ ToSet(contributed) \subseteq DirPaths /\ contextKeys \subseteq ContextKeys
  /\ active \subseteq DirPaths
  /\ loadListening \in BOOLEAN

\* The status the window should show of the directory with number n
StatusOf(n) ==
  CASE n < at -> {"activated"}
    [] n > at -> {"discovered"}
    [] n = at /\ outcome = "failed" -> {"failed"}
    [] n = at /\ outcome # "failed" ->
         CASE phase = "none" -> {"discovered"}
           [] phase \in {"manifest", "moduleImport"} -> {"loading"}
           [] phase = "mainResolution" -> {"loaded"}
           [] phase = "activation" -> {"activating"}

\* The diagnostics tell of every directory once, and truly: what is active,
\* what is being loaded, what failed and what was never tried because of it,
\* also when an extension that runs reports in between.  (Of two directories
\* with one extension they tell less: the second takes over the record.)
DiagnosticsTell ==
  IsInjective(idOf) /\ at > 0 =>
    \A n \in DOMAIN Dirs :
      LET records == {k \in DOMAIN diagnostics : diagnostics[k].path = Dirs[n]}
      IN \E k \in records : records = {k} /\ diagnostics[k].status \in StatusOf(n)

\* A window that has listened since the last notification of a kind, and has
\* taken all, shows the diagnostics and the context keys of the host, and all
\* contributions once loading went well.
WindowShowsHost ==
  (loadListening /\ loadMessages = <<>>) =>
    /\ window.diagnostics # <<>> => window.diagnostics = diagnostics
    /\ window.contributed # <<>> =>
         /\ window.contextKeys = contextKeys
         /\ outcome = "loaded" => window.contributed = Dirs

\* What extensions do is told truly, and the window shows what is told.
LoadingIsShown == DiagnosticsTell /\ WindowShowsHost
=============================================================================
