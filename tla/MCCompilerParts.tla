---------------------------- MODULE MCCompilerParts ---------------------------
(***************************************************************************)
(* Stages of the compiler that share nothing, for TLC: pictures to text,   *)
(* the visual review of doubtful fields, the segmentation of the text, and *)
(* spoken texts.  Each has files of its own, so a behaviour is of the      *)
(* stage that Init picks; the variables of the others keep their values.   *)
(***************************************************************************)
EXTENDS MediaStages, VisualReview, MCSegmentation, Speech

CONSTANTS good, odd, a1, a2, oa, ob, oc

(* An edit from oa to ob keeps config_version.                             *)
MCIdentity == [o \in {oa, ob, oc} |-> IF o = oc THEN 2 ELSE 1]
MCOdd == {odd}
MCNear == {<<odd, good>>}
MCAgents == {a1, a2}                                          \* agent runs
AnyAgent == Permutations(MCAgents)

VARIABLE part
partVars == <<part, mediaVars, visualVars, segVars, speechVars>>

MCInit ==
  /\ part \in {"media", "visual", "segmentation", "speech"}
  /\ MediaInit /\ VisualInit /\ SpeechInit
  /\ part # "visual" => ocr = CHOOSE o \in [Fields -> Readings({1}, {1})] : TRUE
  /\ IF part = "segmentation" THEN MCSegInit ELSE Start(CHOOSE book \in Books : TRUE)

MCNext ==
  \/ part = "media" /\ MediaNext /\ UNCHANGED <<part, visualVars, segVars, speechVars>>
  \/ part = "visual" /\ VisualNext /\ UNCHANGED <<part, mediaVars, segVars, speechVars>>
  \/ part = "segmentation" /\ SegNext /\ UNCHANGED <<part, mediaVars, visualVars, speechVars>>
  \/ part = "speech" /\ SpeechNext /\ UNCHANGED <<part, mediaVars, visualVars, segVars>>

MCSpec == MCInit /\ [][MCNext]_partVars
==============================================================================
