----------------------------- MODULE MCExtension -----------------------------
(***************************************************************************)
(* Nine parts of the extension that share no state, checked by one run: a  *)
(* behaviour is a behaviour of one of them, the others stay in one initial *)
(* state.                                                                  *)
(***************************************************************************)
EXTENDS Forwards, SshClients, ExtensionViews, ConnectionStore, FtpClient,
        QueryPage, DbTree, SqlBatches, SqlSessions, TLC

VARIABLE part   \* the part that moves

extensionVars == <<forwardVars, clientVars, viewVars, storeVars, ftpVars, pageVars, treeVars,
                   batchVars, sessionVars, part>>

MCInit ==
  /\ part \in {"forwards", "clients", "views", "store", "ftp", "page", "tree", "batches",
               "sessions"}
  /\ ForwardsInit /\ ClientsInit /\ ViewsInit /\ StoreInit /\ FtpInit /\ QueryPageInit
  /\ part # "forwards" =>
       refused = {} /\ \A f \in ForwardIds : portOf[f] = CHOOSE p \in LocalPorts : TRUE
  /\ part # "ftp" => \A o \in FtpOps : op[o].kind = "list"
  /\ part = "tree" \/ row = [kind |-> "tables", ownId |-> FALSE]
  /\ DbTreeInit
  /\ part = "batches" \/ (mode = "default" /\ script = <<>>)
  /\ SqlBatchesInit
  /\ part = "sessions" \/ driver = "mysql"
  /\ SqlSessionsInit

MCNext ==
  /\ part' = part
  /\ \/ /\ part = "forwards" /\ ForwardsNext
        /\ UNCHANGED <<clientVars, viewVars, storeVars, ftpVars, pageVars, treeVars,
                       batchVars, sessionVars>>
     \/ /\ part = "clients" /\ ClientsNext
        /\ UNCHANGED <<forwardVars, viewVars, storeVars, ftpVars, pageVars, treeVars,
                       batchVars, sessionVars>>
     \/ /\ part = "views" /\ ViewsNext
        /\ UNCHANGED <<forwardVars, clientVars, storeVars, ftpVars, pageVars, treeVars,
                       batchVars, sessionVars>>
     \/ /\ part = "store" /\ StoreNext
        /\ UNCHANGED <<forwardVars, clientVars, viewVars, ftpVars, pageVars, treeVars,
                       batchVars, sessionVars>>
     \/ /\ part = "ftp" /\ FtpNext
        /\ UNCHANGED <<forwardVars, clientVars, viewVars, storeVars, pageVars, treeVars,
                       batchVars, sessionVars>>
     \/ /\ part = "page" /\ QueryPageNext
        /\ UNCHANGED <<forwardVars, clientVars, viewVars, storeVars, ftpVars, treeVars,
                       batchVars, sessionVars>>
     \/ /\ part = "tree" /\ DbTreeNext
        /\ UNCHANGED <<forwardVars, clientVars, viewVars, storeVars, ftpVars, pageVars,
                       batchVars, sessionVars>>
     \/ /\ part = "batches" /\ SqlBatchesNext
        /\ UNCHANGED <<forwardVars, clientVars, viewVars, storeVars, ftpVars, pageVars,
                       treeVars, sessionVars>>
     \/ /\ part = "sessions" /\ SqlSessionsNext
        /\ UNCHANGED <<forwardVars, clientVars, viewVars, storeVars, ftpVars, pageVars,
                       treeVars, batchVars>>

MCSpec == MCInit /\ [][MCNext]_extensionVars

\* Tables, names and calls are only compared.
Symmetry ==
  Permutations(Tables) \union Permutations(Names) \union Permutations(Batches)

\* The variables of the part that moves have their types; the others stay as
\* they began.
ExtensionTypeOK ==
  /\ part = "forwards" => ForwardsTypeOK
  /\ part = "clients"  => ClientsTypeOK
  /\ part = "views"    => ViewsTypeOK
  /\ part = "store"    => StoreTypeOK
  /\ part = "ftp"      => FtpTypeOK
  /\ part = "page"     => QueryPageTypeOK
  /\ part = "tree"     => DbTreeTypeOK
  /\ part = "batches"  => SqlBatchesTypeOK
  /\ part = "sessions" => SqlSessionsTypeOK
=============================================================================
