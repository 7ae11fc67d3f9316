---------------------------- MODULE MCReleaseParts ----------------------------
(***************************************************************************)
(* Parts of the system that share the releases and the learners, for TLC:  *)
(* the renames that releases declare, the backup of the learners' rows and *)
(* the caches of the service worker.  Each has tables or stores of its     *)
(* own, so a behaviour is of the part that Init picks; the variables of    *)
(* the others keep their values.  The backup is two parts: one exporter    *)
(* beside an activation, and two without.                                  *)
(***************************************************************************)
EXTENDS MCAliases, MCUserBackup, OfflineCache, TLC

CONSTANTS a1, a2
MCExporters == {a1, a2}
AnyExporter == Permutations(MCExporters)

VARIABLE part
partVars == <<part, aliasVars, backupVars, offlineVars>>

MCInit ==
  /\ part \in {"aliases", "renaming", "overlap", "offline"}
  /\ AliasInit /\ MCBackupInit /\ OfflineInit
  /\ part # "aliases" => active = CHOOSE rel \in ReleaseIds : TRUE
  /\ part # "renaming" => renames = {}
  /\ part \notin {"renaming", "overlap"} => tables["review_log"] = {}
  /\ served.release = CHOOSE rel \in Releases : TRUE

MCNext ==
  \/ part = "aliases" /\ AliasNext /\ UNCHANGED <<part, backupVars, offlineVars>>
  \/ /\ part = "renaming" /\ BackupNext
     /\ Cardinality({e \in Exporters : exports'[e] # Unstarted}) <= 1
     /\ UNCHANGED <<part, aliasVars, offlineVars>>
  \/ /\ part = "overlap" /\ (AccountsNext \/ ExportNext)
     /\ UNCHANGED <<part, aliasVars, offlineVars>>
  \/ part = "offline" /\ OfflineNext /\ UNCHANGED <<part, aliasVars, backupVars>>

MCSpec == MCInit /\ [][MCNext]_partVars
==============================================================================
