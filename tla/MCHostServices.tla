--------------------------- MODULE MCHostServices ---------------------------
(***************************************************************************)
(* Five parts of the standalone host that share no state, checked by one   *)
(* run: a behaviour is a behaviour of one of them, the others stay in one  *)
(* initial state.                                                          *)
(***************************************************************************)
EXTENDS HostStorage, FileWatch, Webviews, HostLoading, Feedback

VARIABLE part   \* the part that moves

hostVars == <<storageVars, watchVars, webviewVars, loadingVars, feedbackVars, part>>

\* In the order in which readdir lists them
MCDirs == <<"d1", "d2">>

MCInit ==
  /\ part \in {"storage", "watch", "webviews", "loading", "feedback"}
  /\ StorageInit /\ WatchInit /\ WebviewInit /\ LoadingInit /\ FeedbackInit
  /\ part # "watch"    => base /\ ignore = {} /\ \A p \in Paths : disk[p] = Absent
  /\ part # "loading"  => \A d \in DOMAIN idOf : idOf[d] = CHOOSE i \in ExtIds : TRUE
  /\ part # "feedback" => itemListening /\ \A i \in Items : kind[i] = CHOOSE k \in ItemKinds : TRUE

MCNext ==
  /\ part' = part
  /\ \/ /\ part = "storage" /\ StorageNext
        /\ UNCHANGED <<watchVars, webviewVars, loadingVars, feedbackVars>>
     \/ /\ part = "watch" /\ WatchNext
        /\ UNCHANGED <<storageVars, webviewVars, loadingVars, feedbackVars>>
     \/ /\ part = "webviews" /\ WebviewNext
        /\ UNCHANGED <<storageVars, watchVars, loadingVars, feedbackVars>>
     \/ /\ part = "loading" /\ LoadingNext
        /\ UNCHANGED <<storageVars, watchVars, webviewVars, feedbackVars>>
     \/ /\ part = "feedback" /\ FeedbackNext
        /\ UNCHANGED <<storageVars, watchVars, webviewVars, loadingVars>>

MCSpec == MCInit /\ [][MCNext]_hostVars

\* The variables of the part that moves have their types; the others stay as
\* they began.
HostTypeOK ==
  /\ part = "storage"  => StorageTypeOK
  /\ part = "watch"    => WatchTypeOK
  /\ part = "webviews" => WebviewTypeOK
  /\ part = "loading"  => LoadingTypeOK
  /\ part = "feedback" => FeedbackTypeOK
=============================================================================
