----------------------------- MODULE MCStudyLog ------------------------------
(***************************************************************************)
(* What the log of reviews is read for, on small instances: the stack of   *)
(* grades that undo takes back (StudyRefinement) and the overview of the   *)
(* learner's statistics.  The two use tables of their own, so a behaviour  *)
(* is of the part that Init picks.                                         *)
(***************************************************************************)
EXTENDS MCStudyServer, StudyRefinement, MCStatistics

VARIABLE part
logVars == <<part, vars, statsVars>>

LogInit ==
  /\ part \in {"history", "statistics"}
  /\ Init /\ StatsInit
  /\ part = "history" => zone = CHOOSE z \in Zones : TRUE
  /\ part = "history" => now = CHOOSE t \in Clock : TRUE

LogNext ==
  \/ part = "history" /\ SerialNext /\ UNCHANGED <<part, statsVars>>
  \/ part = "statistics" /\ StatsNext /\ UNCHANGED <<part, vars>>

LogSpec == LogInit /\ [][LogNext]_logVars
==============================================================================
