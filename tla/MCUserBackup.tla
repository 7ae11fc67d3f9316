----------------------------- MODULE MCUserBackup -----------------------------
(***************************************************************************)
(* The backup for TLC: r1, r2 and r3 have served in this order, the        *)
(* session of the first learner is of the oldest, and its one key may have *)
(* been renamed.                                                           *)
(***************************************************************************)
EXTENDS UserBackup, MCKeyNames

MCBackupInit ==
  /\ BackupInit
  /\ pointer = r3 /\ activatedAt[r1] = 1
  /\ renames \subseteq {[rel |-> r1, from |-> k1, to |-> k2, canonical |-> k2]}
  /\ \A session \in tables["study_session"] :
       session.release = r1 /\ session.user = CHOOSE u \in Learners : TRUE
==============================================================================
