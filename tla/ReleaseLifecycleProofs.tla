------------------------ MODULE ReleaseLifecycleProofs ------------------------
(* Theorems about ReleaseLifecycle, for any releases, objects, sessions and *)
(* periods.                                                                *)
EXTENDS ReleaseLifecycle, TLAPS

Admitted == {"READY", "ACTIVE", "RETIRED"}

(* What a command in progress may rely on: it runs alone, so what it has   *)
(* read about the release it works on still holds.                         *)
OpGrounded ==
  /\ At("row") => op.rel \in Releases /\ status[op.rel] = NONE
  /\ At("import") => op.rel \in Releases /\ status[op.rel] = "IMPORTING"
                                         /\ imported[op.rel] < Cards
  /\ At("upload") => op.rel \in Releases /\ (driver = "remote" => status[op.rel] = NONE)
  /\ At("verdict") => op.rel \in Releases /\ status[op.rel] = "VALIDATING"
  /\ At("demote") => op.prev \in Releases /\ op.prev # op.rel /\ status[op.prev] \in Admitted
  /\ (At("demote") \/ At("promote")) =>
        driver = "remote" /\ op.rel \in Releases /\ status[op.rel] \in Admitted
  /\ At("switch") => driver = "remote" /\ op.rel \in Releases /\ status[op.rel] = "ACTIVE"
  /\ At("delete") => op.rel \in Releases

(* A release without a row has no content.                                 *)
NoRowNoContent == \A rel \in Releases : status[rel] = NONE => imported[rel] = 0

(* With the local tool, the release served was activated after all others. *)
PointerIsLatest ==
  (driver = "local" /\ pointer # NONE) =>
    /\ activatedAt[pointer] # NONE
    /\ \A other \in Releases \ {pointer} :
         activatedAt[other] # NONE => other \in before[pointer]

(* A release about to be deleted is served, which will stop the deletion,  *)
(* or nobody uses it any more.                                             *)
Doomed == (IF At("clear") \/ At("delete") THEN op.rels ELSE {})
            \union (IF At("delete") THEN {op.rel} ELSE {})
Unused(rel) ==
  \A s \in Sessions : (session[s] # NONE /\ session[s].release = rel)
                        => session[s].expiresAt <= clock
DoomedAreUnused == \A rel \in Doomed : rel # pointer => Unused(rel)

PlanIsPast == plan # NONE => plan.now <= clock

IInv ==
  /\ TypeOK
  /\ OpGrounded
  /\ NoRowNoContent
  /\ AdmittedIsWhole
  /\ PointerServes
  /\ PointerIsLatest
  /\ DoomedAreUnused
  /\ PlanIsPast

------------------------------------------------------------------------------
(* Initially there is nothing.                                             *)
LEMMA Initially == Init => IInv
<1> SUFFICES ASSUME Init PROVE IInv
  OBVIOUS
<1>1. op \in Command
  BY DEF Init, Idle, Command, Steps
<1>2. TypeOK
  BY <1>1 DEF Init, TypeOK, Time, Cards
<1>3. OpGrounded /\ DoomedAreUnused
  BY DEF Init, Idle, OpGrounded, DoomedAreUnused, Doomed, At
<1>4. NoRowNoContent /\ AdmittedIsWhole /\ PointerServes /\ PointerIsLatest /\ PlanIsPast
  BY NullAssumption DEF Init, Statuses, NoRowNoContent, AdmittedIsWhole, PointerServes,
     PointerIsLatest, PlanIsPast
<1> QED BY <1>2, <1>3, <1>4 DEF IInv

(* The parts of the state that the conjuncts besides TypeOK are about.     *)
facts == <<driver, status, activatedAt, before, imported, pointer, session, clock, plan>>

(* A command that starts, ends or goes on without touching the releases.   *)
LEMMA OpStep ==
  ASSUME IInv, TypeOK', UNCHANGED facts, OpGrounded', Doomed' \subseteq Doomed
  PROVE  IInv'
<1>1. NoRowNoContent' /\ AdmittedIsWhole' /\ PointerServes' /\ PointerIsLatest' /\ PlanIsPast'
  BY DEF IInv, facts, NoRowNoContent, AdmittedIsWhole, PointerServes, PointerIsLatest, PlanIsPast
<1>2. DoomedAreUnused'
  BY DEF IInv, facts, DoomedAreUnused, Unused
<1> QED BY <1>1, <1>2 DEF IInv

------------------------------------------------------------------------------
(* Staging.                                                                *)

USE DEF At

LEMMA StageStep ==
  ASSUME IInv, NEW rel \in Releases, StageStart(rel) PROVE IInv'
<1>. USE DEF StageStart, database, stamps
<1>1. op' \in Command
  BY AudioAssumption DEF IInv, TypeOK, Idle, Command, Steps
<1>2. plan' \in Plan \union {NONE} /\ PlanIsPast'
  BY DEF IInv, TypeOK, PlanIsPast, Plan, Outdate
<1>3. TypeOK'
  BY <1>1, <1>2 DEF IInv, TypeOK
<1>4. OpGrounded'
  BY DEF IInv, OpGrounded, Exists, Idle
<1>5. DoomedAreUnused'
  BY DEF DoomedAreUnused, Doomed, Idle
<1>6. NoRowNoContent' /\ AdmittedIsWhole' /\ PointerServes' /\ PointerIsLatest'
  BY DEF IInv, NoRowNoContent, AdmittedIsWhole, PointerServes, PointerIsLatest
<1> QED BY <1>2, <1>3, <1>4, <1>5, <1>6 DEF IInv

LEMMA CreateStep ==
  ASSUME IInv, CreateRow PROVE IInv'
<1>. USE DEF CreateRow, stamps, Continue
<1>1. op.rel \in Releases /\ status[op.rel] = NONE /\ imported[op.rel] = 0 /\ op.rel # pointer
  BY NullAssumption DEF IInv, OpGrounded, NoRowNoContent, PointerServes, Statuses
<1>2. op' \in Command /\ op'.rel = op.rel /\ op'.at = "import"
  BY DEF IInv, TypeOK, Command, Steps
<1>3. status' \in [Releases -> Statuses \union {NONE}]
  BY DEF IInv, TypeOK, Statuses
<1>4. TypeOK'
  BY <1>2, <1>3 DEF IInv, TypeOK
<1>5. OpGrounded'
  BY <1>1, <1>2 DEF IInv, TypeOK, OpGrounded, Cards
<1>6. NoRowNoContent' /\ AdmittedIsWhole' /\ PointerServes'
  BY <1>1, NullAssumption DEF IInv, TypeOK, NoRowNoContent, AdmittedIsWhole, PointerServes, Statuses
<1>7. PointerIsLatest' /\ PlanIsPast'
  BY DEF IInv, PointerIsLatest, PlanIsPast
<1>8. DoomedAreUnused'
  BY <1>2 DEF DoomedAreUnused, Doomed
<1> QED BY <1>4, <1>5, <1>6, <1>7, <1>8 DEF IInv

LEMMA ImportStep ==
  ASSUME IInv, Import PROVE IInv'
<1>. USE DEF Import, stamps, Continue
<1>1. op.rel \in Releases /\ status[op.rel] = "IMPORTING" /\ imported[op.rel] < Cards
  BY DEF IInv, OpGrounded
<1>2. imported' \in [Releases -> 0..Cards]
  BY <1>1 DEF IInv, TypeOK, Cards
<1>3. /\ op' \in Command
      /\ op'.at \in {"import", "upload", "idle"}
      /\ op'.at = "import" => op'.rel = op.rel /\ imported'[op.rel] < Cards
      /\ op'.at = "upload" => op'.rel = op.rel /\ driver = "local"
  <2>1. op \in Command /\ Idle \in Command
    BY DEF IInv, TypeOK, Command, Idle, Steps
  <2>2. CASE imported'[op.rel] # Cards
    BY <1>1, <1>2, <2>1, <2>2 DEF Cards
  <2>3. CASE imported'[op.rel] = Cards /\ driver = "local" /\ Audio[op.rel] # {}
    BY <2>1, <2>3 DEF AfterImport, Command, Steps
  <2>4. CASE imported'[op.rel] = Cards /\ ~(driver = "local" /\ Audio[op.rel] # {})
    BY <2>1, <2>4 DEF AfterImport, Idle
  <2> QED BY <2>2, <2>3, <2>4
<1>4. TypeOK'
  BY <1>1, <1>2, <1>3 DEF IInv, TypeOK
<1>5. OpGrounded'
  BY <1>1, <1>3 DEF OpGrounded
<1>6. NoRowNoContent' /\ AdmittedIsWhole' /\ PointerServes'
  BY <1>1, NullAssumption DEF IInv, TypeOK, NoRowNoContent, AdmittedIsWhole, PointerServes, Statuses
<1>7. PointerIsLatest' /\ PlanIsPast'
  BY DEF IInv, PointerIsLatest, PlanIsPast
<1>8. DoomedAreUnused'
  BY <1>3 DEF DoomedAreUnused, Doomed
<1> QED BY <1>4, <1>5, <1>6, <1>7, <1>8 DEF IInv

LEMMA UploadStep ==
  ASSUME IInv, NEW o \in Objects, Upload(o) PROVE IInv'
<1>. USE DEF Upload, database, stamps, Continue
<1>1. /\ op' \in Command
      /\ op'.at \in {"upload", "row", "idle"}
      /\ op'.at # "idle" => op'.rel = op.rel
      /\ op'.at = "row" => driver = "remote"
  <2>1. op \in Command /\ Idle \in Command
    BY DEF IInv, TypeOK, Command, Idle, Steps
  <2>2. CASE op.keys # {o}
    BY <2>1, <2>2 DEF Command, Steps
  <2>3. CASE op.keys = {o} /\ driver = "local"
    BY <2>1, <2>3 DEF AfterUpload, Idle
  <2>4. CASE op.keys = {o} /\ driver # "local"
    <3>1. driver = "remote"
      BY <2>4, DriverAssumption DEF IInv, TypeOK
    <3>2. op' = [op EXCEPT !.at = "row"]
      BY <2>4 DEF AfterUpload
    <3> QED BY <2>1, <3>1, <3>2 DEF Command, Steps
  <2> QED BY <2>2, <2>3, <2>4
<1>2. uploadedAt' \in [Objects -> Time]
  BY DEF IInv, TypeOK, Time
<1>3. TypeOK'
  BY <1>1, <1>2 DEF IInv, TypeOK
<1>4. OpGrounded'
  BY <1>1 DEF IInv, OpGrounded
<1>5. Doomed' \subseteq Doomed
  BY <1>1 DEF Doomed
<1> QED BY <1>3, <1>4, <1>5, OpStep DEF facts

------------------------------------------------------------------------------
(* Smoke.                                                                  *)

LEMMA SmokeStartStep ==
  ASSUME IInv, NEW rel \in Releases, SmokeStart(rel) PROVE IInv'
<1>. USE DEF SmokeStart, stamps
<1>1. op' \in Command /\ op'.at = "verdict" /\ op'.rel = rel
  BY DEF Idle, Command, Steps
<1>2. plan' \in Plan \union {NONE} /\ PlanIsPast'
  BY DEF IInv, TypeOK, PlanIsPast, Plan, Outdate
<1>3. status' \in [Releases -> Statuses \union {NONE}]
  BY DEF IInv, TypeOK, Statuses
<1>4. TypeOK'
  BY <1>1, <1>2, <1>3 DEF IInv, TypeOK
<1>5. OpGrounded'
  BY <1>1 DEF IInv, TypeOK, OpGrounded
<1>6. NoRowNoContent' /\ AdmittedIsWhole' /\ PointerServes'
  BY NullAssumption DEF IInv, TypeOK, NoRowNoContent, AdmittedIsWhole, PointerServes, Statuses
<1>7. PointerIsLatest'
  BY DEF IInv, PointerIsLatest
<1>8. DoomedAreUnused'
  BY <1>1 DEF DoomedAreUnused, Doomed
<1> QED BY <1>2, <1>4, <1>5, <1>6, <1>7, <1>8 DEF IInv

(* What passes is in whole: there are reports, so there is something to    *)
(* count, and the cards are counted last.                                  *)
LEMMA PassedIsWhole ==
  ASSUME TypeOK, NEW rel \in Releases, SmokePasses(rel) PROVE imported[rel] = Cards
BY DEF TypeOK, SmokePasses, ReportsPresent, CountsAgree, Units, Content, Cards

LEMMA VerdictStep ==
  ASSUME IInv, SmokeVerdict PROVE IInv'
<1>. USE DEF SmokeVerdict, stamps
<1>1. op.rel \in Releases /\ status[op.rel] = "VALIDATING"
  BY DEF IInv, OpGrounded
<1>2. op' \in Command /\ op'.at = "idle"
  BY DEF Idle, Command, Steps
<1>3. PICK verdict \in {"READY", "FAILED"} :
        /\ status' = [status EXCEPT ![op.rel] = verdict]
        /\ verdict = "READY" => SmokePasses(op.rel)
  OBVIOUS
<1>4. verdict = "READY" => imported[op.rel] = Cards
  BY <1>1, <1>3, PassedIsWhole DEF IInv
<1>5. status' \in [Releases -> Statuses \union {NONE}]
  BY <1>3 DEF IInv, TypeOK, Statuses
<1>6. TypeOK'
  BY <1>2, <1>5 DEF IInv, TypeOK
<1>7. OpGrounded' /\ DoomedAreUnused'
  BY <1>2 DEF OpGrounded, DoomedAreUnused, Doomed
<1>8. NoRowNoContent' /\ AdmittedIsWhole' /\ PointerServes'
  BY <1>1, <1>3, <1>4, NullAssumption
  DEF IInv, TypeOK, NoRowNoContent, AdmittedIsWhole, PointerServes, Statuses
<1>9. PointerIsLatest' /\ PlanIsPast'
  BY DEF IInv, PointerIsLatest, PlanIsPast
<1> QED BY <1>6, <1>7, <1>8, <1>9 DEF IInv

------------------------------------------------------------------------------
(* Activation and rollback.                                                *)

(* The activation statements keep the types.                               *)
LEMMA StatementsTyped ==
  ASSUME TypeOK, NEW prev \in Releases \union {NONE}, NEW rel \in Releases
  PROVE  /\ Demoted(status, prev, rel) \in [Releases -> Statuses \union {NONE}]
         /\ \A st \in [Releases -> Statuses \union {NONE}] :
              Promoted(st, rel) \in [Releases -> Statuses \union {NONE}]
         /\ \A now \in Nat : Stamped(activatedAt, rel, now) \in [Releases -> Time]
         /\ Latest(before, rel) \in [Releases -> SUBSET Releases]
<1>1. Demoted(status, prev, rel) \in [Releases -> Statuses \union {NONE}]
  BY DEF TypeOK, Demoted, Statuses
<1>2. ASSUME NEW st \in [Releases -> Statuses \union {NONE}]
      PROVE  Promoted(st, rel) \in [Releases -> Statuses \union {NONE}]
  BY DEF Promoted, Statuses
<1>3. ASSUME NEW now \in Nat PROVE Stamped(activatedAt, rel, now) \in [Releases -> Time]
  BY DEF TypeOK, Stamped, Time
<1>4. Latest(before, rel) \in [Releases -> SUBSET Releases]
  BY DEF TypeOK, Latest
<1> QED BY <1>1, <1>2, <1>3, <1>4

LEMMA LocalStep ==
  ASSUME IInv, NEW rel \in Releases, status[rel] \in {"READY", "RETIRED"}, LocalBatch(rel)
  PROVE  IInv'
<1>. USE DEF LocalBatch
<1>1. TypeOK /\ rel # pointer
  BY DEF IInv, PointerServes
<1>2. plan' \in Plan \union {NONE} /\ PlanIsPast'
  BY <1>1 DEF IInv, TypeOK, PlanIsPast, Plan, Outdate
<1>3. /\ status' \in [Releases -> Statuses \union {NONE}]
      /\ activatedAt' \in [Releases -> Time]
      /\ before' \in [Releases -> SUBSET Releases]
  BY <1>1, StatementsTyped DEF TypeOK
<1>4. TypeOK'
  BY <1>1, <1>2, <1>3 DEF TypeOK
<1>5. OpGrounded' /\ DoomedAreUnused'
  BY DEF OpGrounded, DoomedAreUnused, Doomed
<1>6. \A r \in Releases : status'[r] = IF r = rel THEN "ACTIVE"
                                       ELSE IF r = pointer THEN "RETIRED" ELSE status[r]
  BY <1>1, NullAssumption DEF TypeOK, Demoted, Promoted
<1>7. NoRowNoContent' /\ AdmittedIsWhole'
  BY <1>1, <1>6, NullAssumption DEF IInv, TypeOK, NoRowNoContent, AdmittedIsWhole, PointerServes, Statuses
<1>8. PointerServes'
  BY <1>1, <1>6 DEF IInv, PointerServes
<1>9. PointerIsLatest'
  BY <1>1, NullAssumption DEF TypeOK, PointerIsLatest, Stamped, Latest
<1> QED BY <1>2, <1>4, <1>5, <1>7, <1>8, <1>9 DEF IInv

LEMMA RemoteStartStep ==
  ASSUME IInv, NEW rel \in Releases, status[rel] \in Admitted, RemoteStart(rel)
  PROVE  IInv'
<1>. USE DEF RemoteStart, database, stamps
<1>1. /\ op' \in Command
      /\ op'.at \in {"demote", "promote"}
      /\ op'.rel = rel /\ op'.prev = pointer
      /\ op'.at = "demote" => pointer \in Releases /\ pointer # rel
  BY DEF IInv, TypeOK, Idle, Command, Steps
<1>2. plan' \in Plan \union {NONE} /\ PlanIsPast'
  BY DEF IInv, TypeOK, PlanIsPast, Plan, Outdate
<1>3. TypeOK'
  BY <1>1, <1>2 DEF IInv, TypeOK
<1>4. OpGrounded'
  BY <1>1 DEF IInv, OpGrounded, Admitted, PointerServes, TypeOK
<1>5. DoomedAreUnused'
  BY <1>1 DEF DoomedAreUnused, Doomed
<1>6. NoRowNoContent' /\ AdmittedIsWhole' /\ PointerServes' /\ PointerIsLatest'
  BY DEF IInv, NoRowNoContent, AdmittedIsWhole, PointerServes, PointerIsLatest
<1> QED BY <1>2, <1>3, <1>4, <1>5, <1>6 DEF IInv

LEMMA DemoteStep ==
  ASSUME IInv, RemoteDemote PROVE IInv'
<1>. USE DEF RemoteDemote, stamps, Continue
<1>1. /\ driver = "remote"
      /\ op.prev \in Releases /\ op.rel \in Releases /\ op.prev # op.rel
      /\ status[op.prev] \in Admitted /\ status[op.rel] \in Admitted
  BY DEF IInv, OpGrounded
<1>2. op' \in Command /\ op'.at = "promote" /\ op'.rel = op.rel
  BY DEF IInv, TypeOK, Command, Steps
<1>3. status' = [status EXCEPT ![op.prev] = "RETIRED"]
  BY <1>1, NullAssumption DEF Demoted
<1>4. TypeOK'
  <2>1. status' \in [Releases -> Statuses \union {NONE}]
    BY <1>3 DEF IInv, TypeOK, Statuses
  <2> QED BY <1>2, <2>1 DEF IInv, TypeOK
<1>5. OpGrounded'
  BY <1>1, <1>2, <1>3 DEF IInv, TypeOK, OpGrounded
<1>6. NoRowNoContent' /\ AdmittedIsWhole' /\ PointerServes'
  BY <1>1, <1>3, NullAssumption
  DEF IInv, TypeOK, NoRowNoContent, AdmittedIsWhole, PointerServes, Statuses, Admitted
<1>7. PointerIsLatest' /\ PlanIsPast'
  BY DEF IInv, PointerIsLatest, PlanIsPast
<1>8. DoomedAreUnused'
  BY <1>2 DEF DoomedAreUnused, Doomed
<1> QED BY <1>4, <1>5, <1>6, <1>7, <1>8 DEF IInv

LEMMA PromoteStep ==
  ASSUME IInv, RemotePromote PROVE IInv'
<1>. USE DEF RemotePromote, Continue
<1>1. TypeOK /\ driver = "remote" /\ op.rel \in Releases /\ status[op.rel] \in Admitted
  BY DEF IInv, OpGrounded
<1>2. op' \in Command /\ op'.at = "switch" /\ op'.rel = op.rel /\ op.now \in Nat
  BY <1>1 DEF TypeOK, Command, Steps
<1>3. /\ status' \in [Releases -> Statuses \union {NONE}]
      /\ activatedAt' \in [Releases -> Time]
      /\ before' \in [Releases -> SUBSET Releases]
  BY <1>1, <1>2, StatementsTyped DEF TypeOK
<1>4. TypeOK'
  BY <1>1, <1>2, <1>3 DEF TypeOK
<1>5. status' = [status EXCEPT ![op.rel] = "ACTIVE"]
  BY DEF Promoted
<1>6. OpGrounded'
  BY <1>1, <1>2, <1>5 DEF TypeOK, OpGrounded
<1>7. NoRowNoContent' /\ AdmittedIsWhole' /\ PointerServes'
  BY <1>1, <1>5, NullAssumption
  DEF IInv, TypeOK, NoRowNoContent, AdmittedIsWhole, PointerServes, Statuses, Admitted
<1>8. PointerIsLatest' /\ PlanIsPast'
  BY <1>1 DEF IInv, PointerIsLatest, PlanIsPast
<1>9. DoomedAreUnused'
  BY <1>2 DEF DoomedAreUnused, Doomed
<1> QED BY <1>4, <1>6, <1>7, <1>8, <1>9 DEF IInv

LEMMA SwitchStep ==
  ASSUME IInv, RemoteSwitch PROVE IInv'
<1>. USE DEF RemoteSwitch, stamps
<1>1. driver = "remote" /\ op.rel \in Releases /\ status[op.rel] = "ACTIVE"
  BY DEF IInv, OpGrounded
<1>2. op' \in Command /\ op'.at = "idle"
  BY DEF Idle, Command, Steps
<1>3. TypeOK'
  BY <1>1, <1>2 DEF IInv, TypeOK
<1>4. OpGrounded' /\ DoomedAreUnused'
  BY <1>2 DEF OpGrounded, DoomedAreUnused, Doomed
<1>5. NoRowNoContent' /\ AdmittedIsWhole' /\ PointerServes' /\ PointerIsLatest' /\ PlanIsPast'
  BY <1>1 DEF IInv, NoRowNoContent, AdmittedIsWhole, PointerServes, PointerIsLatest, PlanIsPast
<1> QED BY <1>3, <1>4, <1>5 DEF IInv

------------------------------------------------------------------------------
(* Retention.                                                              *)

LEMMA PlanStep ==
  ASSUME IInv, MakePlan PROVE IInv'
<1>. USE DEF MakePlan, database, stamps
<1>1. PICK rels \in SUBSET Releases, keys \in SUBSET Objects :
        plan' = [now |-> clock, rels |-> rels, keys |-> keys, fresh |-> TRUE]
  OBVIOUS
<1>2. plan' \in Plan /\ PlanIsPast'
  BY <1>1 DEF IInv, TypeOK, Plan, PlanIsPast
<1>3. TypeOK'
  BY <1>2 DEF IInv, TypeOK
<1>4. OpGrounded' /\ NoRowNoContent' /\ AdmittedIsWhole' /\ PointerServes' /\ PointerIsLatest'
  BY DEF IInv, OpGrounded, NoRowNoContent, AdmittedIsWhole, PointerServes, PointerIsLatest
<1>5. DoomedAreUnused'
  BY DEF DoomedAreUnused, Doomed
<1> QED BY <1>2, <1>3, <1>4, <1>5 DEF IInv

LEMMA NextDeletionTyped ==
  ASSUME NEW rels \in SUBSET Releases, NEW keys \in SUBSET Objects, NextDeletion(rels, keys)
  PROVE  /\ op' \in Command
         /\ op'.at \in {"clear", "audio", "idle"}
         /\ op'.at = "clear" => op'.rels = rels
BY DEF NextDeletion, Idle, Command, Steps

(* What is not pinned at the plan's time is not pinned now, and a session  *)
(* still to be inserted is for the release that is served.                 *)
LEMMA ApplyStep ==
  ASSUME IInv, NEW rels \in SUBSET Releases, NEW keys \in SUBSET Objects, ApplyStart(rels, keys)
  PROVE  IInv'
<1>. USE DEF ApplyStart, database, stamps
<1>1. /\ op' \in Command
      /\ op'.at \in {"clear", "audio", "idle"}
      /\ op'.at = "clear" => op'.rels = rels
  BY NextDeletionTyped
<1>2. TypeOK'
  BY <1>1 DEF IInv, TypeOK
<1>3. OpGrounded'
  BY <1>1 DEF OpGrounded
<1>4. NoRowNoContent' /\ AdmittedIsWhole' /\ PointerServes' /\ PointerIsLatest' /\ PlanIsPast'
  BY DEF IInv, NoRowNoContent, AdmittedIsWhole, PointerServes, PointerIsLatest, PlanIsPast
<1>5. ASSUME NEW rel \in rels, rel # pointer,
             NEW s \in Sessions, session[s] # NONE, session[s].release = rel
      PROVE  session[s].expiresAt <= clock
  <2>1. session[s] \in Session /\ plan \in Plan /\ plan.now <= clock /\ clock \in Nat
    BY <1>5 DEF IInv, TypeOK, PlanIsPast
  <2>2. session[s].stored
    BY <1>5 DEF RequestsAreShort
  <2>3. ~(session[s].expiresAt > plan.now)
    BY <1>5, <2>2 DEF StillDeletable, PinnedAt
  <2> QED BY <2>1, <2>3 DEF Session, Plan
<1>6. DoomedAreUnused'
  BY <1>1, <1>5 DEF DoomedAreUnused, Doomed, Unused
<1> QED BY <1>2, <1>3, <1>4, <1>6 DEF IInv

LEMMA ClearStep ==
  ASSUME IInv, NEW rel \in Releases, ClearIndex(rel) PROVE IInv'
<1>. USE DEF ClearIndex, stamps
<1>1. op' \in Command /\ op'.at = "delete" /\ op'.rel = rel /\ op'.rels \subseteq op.rels
  BY DEF IInv, TypeOK, Command, Steps
<1>2. TypeOK'
  BY <1>1 DEF IInv, TypeOK
<1>3. OpGrounded'
  BY <1>1 DEF OpGrounded
<1>4. Doomed' \subseteq Doomed
  BY <1>1 DEF Doomed
<1> QED BY <1>2, <1>3, <1>4, OpStep DEF facts

LEMMA DeleteStep ==
  ASSUME IInv, DeleteRow PROVE IInv'
<1>. USE DEF DeleteRow
<1>1. op.rel \in Releases /\ op.rel # pointer
  BY DEF IInv, OpGrounded, Restricted
<1>2. op.rels \in SUBSET Releases /\ op.keys \in SUBSET Objects
  BY DEF IInv, TypeOK, Command
<1>3. /\ op' \in Command
      /\ op'.at \in {"clear", "audio", "idle"}
      /\ op'.at = "clear" => op'.rels = op.rels
  BY <1>2, NextDeletionTyped
<1>4. session' \in [Sessions -> Session \union {NONE}]
  BY DEF IInv, TypeOK
<1>5. before' \in [Releases -> SUBSET Releases]
  BY DEF IInv, TypeOK
<1>6. TypeOK'
  BY <1>1, <1>3, <1>4, <1>5 DEF IInv, TypeOK, Time, Cards
<1>7. OpGrounded'
  BY <1>3 DEF OpGrounded
<1>8. NoRowNoContent' /\ AdmittedIsWhole' /\ PointerServes'
  BY <1>1, NullAssumption
  DEF IInv, TypeOK, NoRowNoContent, AdmittedIsWhole, PointerServes, Statuses, Cards
<1>9. PointerIsLatest' /\ PlanIsPast'
  BY <1>1 DEF IInv, TypeOK, PointerIsLatest, PlanIsPast
<1>10. DoomedAreUnused'
  <2>1. Doomed' \subseteq Doomed
    BY <1>3 DEF Doomed
  <2>2. \A s \in Sessions : session'[s] \in {session[s], NONE}
    OBVIOUS
  <2> QED BY <2>1, <2>2 DEF IInv, DoomedAreUnused, Unused
<1> QED BY <1>6, <1>7, <1>8, <1>9, <1>10 DEF IInv

(* A deletion that fails, and any command that dies.                       *)
LEMMA EndStep ==
  ASSUME IInv, op' = Idle, UNCHANGED <<driver, database, uploadedAt, session, referenced, clock, plan>>
  PROVE  IInv'
<1>1. op' \in Command /\ op'.at = "idle"
  BY DEF Idle, Command, Steps
<1>2. TypeOK'
  BY <1>1 DEF IInv, TypeOK, database, stamps
<1>3. OpGrounded' /\ Doomed' = {}
  BY <1>1 DEF OpGrounded, Doomed
<1> QED BY <1>2, <1>3, OpStep DEF facts, database, stamps

LEMMA AudioStep ==
  ASSUME IInv, NEW o \in Objects, DeleteAudio(o) PROVE IInv'
<1>. USE DEF DeleteAudio, database, stamps
<1>1. op' \in Command /\ op'.at \in {"audio", "idle"}
  BY DEF IInv, TypeOK, Command, Steps, NextDeletion, Idle
<1>2. uploadedAt' \in [Objects -> Time]
  BY DEF IInv, TypeOK, Time
<1>3. TypeOK'
  BY <1>1, <1>2 DEF IInv, TypeOK
<1>4. OpGrounded' /\ Doomed' = {}
  BY <1>1 DEF OpGrounded, Doomed
<1> QED BY <1>3, <1>4, OpStep DEF facts

------------------------------------------------------------------------------
(* Readers and time.                                                       *)

LEMMA StudyStep ==
  ASSUME IInv, NEW s \in Sessions, SessionStart(s) \/ SessionInsert(s) \/ Grade(s)
  PROVE  IInv'
<1>. USE DEF database, stamps
<1>1. UNCHANGED <<driver, database, uploadedAt, clock, op, plan>>
  BY DEF SessionStart, SessionInsert, Grade
<1>2. session' \in [Sessions -> Session \union {NONE}] /\ referenced' \subseteq Releases
  <2>1. CASE SessionStart(s)
    <3>1. [release |-> pointer, expiresAt |-> clock + TTL, stored |-> FALSE] \in Session
      BY <2>1, TimeAssumption DEF SessionStart, IInv, TypeOK, Session
    <3> QED BY <2>1, <3>1 DEF SessionStart, IInv, TypeOK
  <2>2. CASE SessionInsert(s)
    <3>1. [session[s] EXCEPT !.stored = TRUE] \in Session
      BY <2>2 DEF SessionInsert, IInv, TypeOK, Session
    <3> QED BY <2>2, <3>1 DEF SessionInsert, IInv, TypeOK
  <2>3. CASE Grade(s)
    BY <2>3 DEF Grade, IInv, TypeOK, Session
  <2> QED BY <2>1, <2>2, <2>3
<1>3. TypeOK'
  BY <1>1, <1>2 DEF IInv, TypeOK
<1>4. OpGrounded' /\ NoRowNoContent' /\ AdmittedIsWhole' /\ PointerServes'
        /\ PointerIsLatest' /\ PlanIsPast'
  BY <1>1 DEF IInv, OpGrounded, NoRowNoContent, AdmittedIsWhole, PointerServes,
              PointerIsLatest, PlanIsPast
<1>5. DoomedAreUnused'
  <2>1. ASSUME NEW rel \in Releases, rel # pointer, NEW t \in Sessions,
               session'[t] # NONE, session'[t].release = rel
        PROVE  session[t] # NONE /\ session[t].release = rel
                 /\ session[t].expiresAt = session'[t].expiresAt
    <3>1. CASE SessionStart(s)
      BY <2>1, <3>1 DEF SessionStart, IInv, TypeOK
    <3>2. CASE SessionInsert(s)
      BY <2>1, <3>2 DEF SessionInsert, IInv, TypeOK, Session
    <3>3. CASE Grade(s)
      BY <2>1, <3>3 DEF Grade
    <3> QED BY <3>1, <3>2, <3>3
  <2>2. Doomed' = Doomed /\ Doomed \subseteq Releases
    BY <1>1 DEF Doomed, IInv, TypeOK, Command, OpGrounded
  <2> QED BY <1>1, <2>1, <2>2 DEF IInv, DoomedAreUnused, Unused
<1> QED BY <1>3, <1>4, <1>5 DEF IInv

LEMMA TickStep ==
  ASSUME IInv, Tick PROVE IInv'
<1>. USE DEF Tick, database, stamps
<1>1. clock' \in Nat /\ clock \in Nat /\ clock' >= clock
  BY DEF IInv, TypeOK
<1>2. TypeOK'
  BY <1>1 DEF IInv, TypeOK
<1>3. OpGrounded' /\ NoRowNoContent' /\ AdmittedIsWhole' /\ PointerServes' /\ PointerIsLatest'
  BY DEF IInv, OpGrounded, NoRowNoContent, AdmittedIsWhole, PointerServes, PointerIsLatest
<1>4. PlanIsPast'
  BY <1>1 DEF IInv, TypeOK, PlanIsPast, Plan
<1>5. DoomedAreUnused'
  BY DEF DoomedAreUnused, Doomed
<1> QED BY <1>2, <1>3, <1>4, <1>5 DEF IInv

------------------------------------------------------------------------------
(* The invariant and what follows from it.                                 *)

LEMMA Step == ASSUME IInv, Next PROVE IInv'
<1>1. CASE Publish
  <2>1. ASSUME NEW rel \in Releases, StageStart(rel) PROVE IInv'
    BY <2>1, StageStep
  <2>2. ASSUME NEW rel \in Releases, SmokeStart(rel) PROVE IInv'
    BY <2>2, SmokeStartStep
  <2>3. ASSUME NEW o \in Objects, Upload(o) PROVE IInv'
    BY <2>3, UploadStep
  <2>4. ASSUME NEW rel \in Releases, LocalActivate(rel) \/ LocalRollback(rel) PROVE IInv'
    BY <2>4, LocalStep DEF LocalActivate, LocalRollback
  <2>5. ASSUME NEW rel \in Releases, RemoteActivate(rel) \/ RemoteRollback(rel) PROVE IInv'
    BY <2>5, RemoteStartStep
    DEF RemoteActivate, RemoteRollback, MayActivate, Resuming, Admitted
  <2> QED BY <1>1, <2>1, <2>2, <2>3, <2>4, <2>5, CreateStep, ImportStep, VerdictStep,
             DemoteStep, PromoteStep, SwitchStep
         DEF Publish, ToReady, LocalSwitch, Remotely
<1>2. CASE Retain
  <2>1. ASSUME DeleteFails PROVE IInv'
    BY <2>1, EndStep DEF DeleteFails
  <2> QED BY <1>2, <2>1, PlanStep, ApplyStep, ClearStep, DeleteStep, AudioStep DEF Retain
<1>3. CASE Die
  BY <1>3, EndStep DEF Die
<1>4. CASE Study
  BY <1>4, StudyStep DEF Study
<1>5. CASE Tick
  BY <1>5, TickStep
<1> QED BY <1>1, <1>2, <1>3, <1>4, <1>5 DEF Next

LEMMA Stutter == ASSUME IInv, UNCHANGED vars PROVE IInv'
<1>1. TypeOK' /\ OpGrounded' /\ NoRowNoContent' /\ AdmittedIsWhole' /\ PointerServes'
  BY DEF IInv, vars, database, stamps, TypeOK, OpGrounded, NoRowNoContent, AdmittedIsWhole,
         PointerServes
<1>2. PointerIsLatest' /\ DoomedAreUnused' /\ PlanIsPast'
  BY DEF IInv, vars, database, stamps, PointerIsLatest, DoomedAreUnused, Doomed, Unused,
         PlanIsPast
<1> QED BY <1>1, <1>2 DEF IInv

(* The inductive invariant holds in every reachable state.                 *)
THEOREM Invariance == Spec => []IInv
<1>1. IInv /\ [Next]_vars => IInv'
  BY Step, Stutter
<1> QED BY Initially, <1>1, PTL DEF Spec

(* Tables, pointer, command and plan keep their types.                     *)
THEOREM TypeCorrect == Spec => []TypeOK
<1>1. IInv => TypeOK
  BY DEF IInv
<1> QED BY <1>1, Invariance, PTL

(* Only releases that went in whole are READY, ACTIVE or RETIRED           *)
(* (smokeRelease), whatever command died on the way.                       *)
THEOREM OnlyWholeIsAdmitted == Spec => []AdmittedIsWhole
<1>1. IInv => AdmittedIsWhole
  BY DEF IInv
<1> QED BY <1>1, Invariance, PTL

(* The pointer always names a release with its rows, and with the local    *)
(* tool the one ACTIVE release (activateBatch).                            *)
THEOREM PointerAlwaysServes == Spec => []PointerServes
<1>1. IInv => PointerServes
  BY DEF IInv
<1> QED BY <1>1, Invariance, PTL

(* The release the pointer leaves is retention's rollback target: only the *)
(* batch moves the local tool's pointer, and it stamps the new release     *)
(* alone (buildActivationBatchStatements, planRetention).                  *)
THEOREM LeftIsRollbackTarget == Spec => LeftIsPrevious
<1>1. ASSUME IInv, NEW rel \in Releases,
             driver = "local", pointer = rel, pointer' # rel, [Next]_vars
      PROVE  IsPrevious(rel)'
  <2>1. PICK new \in Releases : LocalBatch(new)
    BY <1>1 DEF Next, vars, database, stamps, Publish, ToReady, LocalSwitch, Remotely,
      Retain, Study, StageStart, SmokeStart,
       CreateRow, Import, Upload, SmokeVerdict, LocalActivate, LocalRollback, RemoteActivate,
       RemoteRollback, RemoteStart, RemoteDemote, RemotePromote, RemoteSwitch, IInv, OpGrounded,
       MakePlan, ApplyStart, ClearIndex, DeleteRow, DeleteFails, DeleteAudio, Die,
       SessionStart, SessionInsert, Grade, Tick
  <2>2. pointer' = new /\ new # rel
    BY <1>1, <2>1 DEF LocalBatch
  <2>3. activatedAt[rel] # NONE /\
        \A other \in Releases \ {rel} : activatedAt[other] # NONE => other \in before[rel]
    BY <1>1, NullAssumption DEF IInv, PointerIsLatest
  <2>4. \A r \in Releases \ {new} : activatedAt'[r] = activatedAt[r] /\ before'[r] = before[r] \ {new}
    BY <1>1, <2>1 DEF IInv, TypeOK, LocalBatch, Stamped, Latest
  <2> QED BY <2>2, <2>3, <2>4 DEF IsPrevious
<1>2. IInv /\ [Next]_vars =>
        [ \A rel \in Releases :
            (driver = "local" /\ pointer = rel /\ pointer' # rel) => IsPrevious(rel)' ]_vars
  BY <1>1
<1> QED BY <1>2, Invariance, PTL DEF Spec, LeftIsPrevious

(* A live session is never deleted, however old the plan that is applied   *)
(* (applyRetentionPlan).                                                   *)
THEOREM NoLiveSessionIsDeleted == Spec => LiveSessionsStay
<1>1. ASSUME IInv, [Next]_vars, NEW s \in Sessions,
             session[s] # NONE, session[s].stored, clock < session[s].expiresAt
      PROVE  session'[s] # NONE
  <2>1. session'[s] = session[s] \/ DeleteRow
    BY <1>1 DEF Next, vars, database, stamps, Publish, ToReady, LocalSwitch, Remotely,
      Retain, Study, StageStart, SmokeStart,
       CreateRow, Import, Upload, SmokeVerdict, LocalActivate, LocalRollback, LocalBatch,
       RemoteActivate, RemoteRollback, RemoteStart, RemoteDemote, RemotePromote, RemoteSwitch,
       MakePlan, ApplyStart, ClearIndex, DeleteFails, DeleteAudio, Die,
       SessionStart, SessionInsert, Grade, Tick, IInv, TypeOK
  <2>2. CASE DeleteRow
    <3>1. op.rel \in Doomed /\ op.rel # pointer
      BY <2>2 DEF DeleteRow, Doomed, Restricted
    <3>2. clock \in Nat /\ session[s].expiresAt \in Nat
      BY <1>1 DEF IInv, TypeOK, Session
    <3>3. session[s].release # op.rel
      BY <1>1, <3>1, <3>2 DEF IInv, DoomedAreUnused, Unused
    <3> QED BY <1>1, <2>2, <3>3 DEF DeleteRow
  <2> QED BY <1>1, <2>1, <2>2
<1>2. IInv /\ [Next]_vars =>
        [ \A s \in Sessions :
            (session[s] # NONE /\ session[s].stored /\ clock < session[s].expiresAt)
              => session'[s] # NONE ]_vars
  BY <1>1
<1> QED BY <1>2, Invariance, PTL DEF Spec, LiveSessionsStay
------------------------------------------------------------------------------
(* A fresh plan.  The order in which releases were last activated is an    *)
(* order: any of the activated releases have a latest one.  This needs no  *)
(* induction over their number, since each statement that stamps a release *)
(* or deletes one keeps it.                                                *)

Activated == {rel \in Releases : activatedAt[rel] # NONE}

LatestExists ==
  \A S \in SUBSET Activated : S # {} => \E rel \in S : S \ {rel} \subseteq before[rel]

OneWay == \A p, q \in Releases : p \in before[q] => q \notin before[p]

OrderInv == LatestExists /\ OneWay

(* As long as a plan is fresh, only deletions that it lists are under way; *)
(* what it lists stays deletable, and the rollback target is not listed.   *)
IsFresh == plan # NONE /\ plan.fresh

OnPlan ==
  /\ op.at \in {"idle", "clear", "delete", "audio"}
  /\ Doomed \subseteq plan.rels
  /\ At("idle") \/ op.keys \subseteq plan.keys

OldEnough ==
  \A rel \in plan.rels : status[rel] # NONE =>
    activatedAt[rel] # NONE /\ plan.now - activatedAt[rel] >= MinRetained

TargetSpared ==
  (\E rel \in plan.rels : rel # pointer /\ activatedAt[rel] # NONE) =>
    \E target \in Releases \ plan.rels : IsPrevious(target)

UnusedKeys == \A o \in plan.keys : ~AudioReferenced(o)

FreshInv == IsFresh => OnPlan /\ OldEnough /\ TargetSpared /\ UnusedKeys

PlanInv == IInv /\ OrderInv /\ FreshInv

(* The release stamped last is the latest of all.                          *)
LEMMA StampedLast ==
  ASSUME TypeOK, OrderInv, NEW rel \in Releases, NEW now \in Nat,
         activatedAt' = Stamped(activatedAt, rel, now), before' = Latest(before, rel)
  PROVE  OrderInv'
<1>1. /\ Activated' = Activated \union {rel}
      /\ before'[rel] = Activated \ {rel}
      /\ \A q \in Releases \ {rel} : before'[q] = before[q] \ {rel}
  BY NullAssumption DEF TypeOK, Activated, Stamped, Latest
<1>2. ASSUME NEW S \in SUBSET (Activated'), S # {}
      PROVE  \E r \in S : S \ {r} \subseteq before'[r]
  <2>1. CASE rel \in S
    BY <1>1, <2>1
  <2>2. CASE rel \notin S
    <3>1. PICK r \in S : S \ {r} \subseteq before[r]
      BY <1>1, <1>2, <2>2 DEF OrderInv, LatestExists
    <3>2. r \in Releases \ {rel}
      BY <2>2 DEF Activated
    <3> QED BY <1>1, <2>2, <3>1, <3>2
  <2> QED BY <2>1, <2>2
<1>3. OneWay'
  BY <1>1 DEF OrderInv, OneWay
<1> QED BY <1>2, <1>3 DEF OrderInv, LatestExists

(* A release that is deleted leaves the others in their order.             *)
LEMMA Unstamped ==
  ASSUME TypeOK, OrderInv, DeleteRow
  PROVE  OrderInv'
<1>. USE DEF DeleteRow
<1>1. /\ Activated' \subseteq Activated \ {op.rel}
      /\ \A q \in Releases \ {op.rel} : before'[q] = before[q] \ {op.rel}
      /\ \A q \in Releases : before'[q] \subseteq before[q]
  BY DEF TypeOK, Activated
<1>2. ASSUME NEW S \in SUBSET (Activated'), S # {}
      PROVE  \E r \in S : S \ {r} \subseteq before'[r]
  <2>1. op.rel \notin S /\ S \subseteq Activated
    BY <1>1
  <2>2. PICK r \in S : S \ {r} \subseteq before[r]
    BY <1>2, <2>1 DEF OrderInv, LatestExists
  <2>3. r \in Releases \ {op.rel}
    BY <2>1 DEF Activated
  <2> QED BY <1>1, <2>1, <2>2, <2>3
<1>3. OneWay'
  BY <1>1 DEF OrderInv, OneWay
<1> QED BY <1>2, <1>3 DEF OrderInv, LatestExists

LEMMA OrderKept == ASSUME OrderInv, UNCHANGED stamps PROVE OrderInv'
BY DEF OrderInv, LatestExists, OneWay, Activated, stamps

(* The other statements leave the stamps alone.                            *)
LEMMA OrderStep == ASSUME IInv, OrderInv, [Next]_vars PROVE OrderInv'
<1>1. \/ \E rel \in Releases : LocalBatch(rel)
      \/ RemotePromote
      \/ DeleteRow
      \/ UNCHANGED stamps
  BY DEF Next, vars, database, Publish, ToReady, LocalSwitch, Remotely, Retain, Study,
     StageStart, SmokeStart, CreateRow, Import, Upload, SmokeVerdict, LocalActivate,
     LocalRollback, RemoteActivate, RemoteRollback, RemoteStart, RemoteDemote, RemoteSwitch,
     MakePlan, ApplyStart, ClearIndex, DeleteFails, DeleteAudio, Die,
     SessionStart, SessionInsert, Grade, Tick
<1>2. TypeOK
  BY DEF IInv
<1>3. ASSUME NEW rel \in Releases, LocalBatch(rel) PROVE OrderInv'
  BY <1>2, <1>3, StampedLast DEF LocalBatch, TypeOK
<1>4. CASE RemotePromote
  <2>1. op.rel \in Releases /\ op.now \in Nat
    BY <1>4 DEF RemotePromote, IInv, TypeOK, OpGrounded, Command
  <2> QED BY <1>2, <1>4, <2>1, StampedLast DEF RemotePromote
<1>5. CASE DeleteRow
  BY <1>2, <1>5, Unstamped
<1>6. CASE UNCHANGED stamps
  BY <1>6, OrderKept
<1> QED BY <1>1, <1>3, <1>4, <1>5, <1>6

(* A new plan spares the rollback target, for there is one whenever a      *)
(* release besides the one served was activated.                           *)
LEMMA PlanIsFresh == ASSUME IInv, OrderInv, MakePlan PROVE FreshInv'
<1>. USE DEF MakePlan, database, stamps
<1>. DEFINE rels == {rel \in Releases : Eligible(rel)}
            keys == {o \in Objects : AudioEligible(o)}
<1>1. plan' = [now |-> clock, rels |-> rels, keys |-> keys, fresh |-> TRUE]
  OBVIOUS
<1>2. plan'.rels = rels /\ plan'.keys = keys /\ plan'.now = clock
  BY <1>1
<1>. HIDE DEF rels, keys
<1>3. OnPlan'
  BY <1>2 DEF OnPlan, Doomed
<1>4. OldEnough'
  BY <1>2 DEF OldEnough, Eligible, rels
<1>5. TargetSpared'
  <2> SUFFICES ASSUME NEW rel \in rels, rel # pointer, activatedAt[rel] # NONE
               PROVE  \E target \in Releases \ rels : IsPrevious(target)
    BY <1>2 DEF TargetSpared, IsPrevious
  <2>1. Activated \ {pointer} # {}
    BY DEF rels, Activated
  <2>2. PICK target \in Activated \ {pointer} :
          (Activated \ {pointer}) \ {target} \subseteq before[target]
    BY <2>1 DEF OrderInv, LatestExists
  <2>3. target \in Releases /\ IsPrevious(target)
    BY <2>2 DEF Activated, IsPrevious
  <2>4. target \notin rels
    BY <2>3 DEF rels, Eligible
  <2> QED BY <2>3, <2>4
<1>6. UnusedKeys'
  BY <1>2 DEF UnusedKeys, keys, AudioEligible, AudioReferenced
<1> QED BY <1>3, <1>4, <1>5, <1>6 DEF FreshInv

(* Steps beside the plan: the tables and the plan stay as they are.        *)
LEMMA PlanKept ==
  ASSUME FreshInv, UNCHANGED <<plan, status, activatedAt, before, imported, pointer>>,
         IsFresh => OnPlan'
  PROVE  FreshInv'
BY DEF FreshInv, IsFresh, OldEnough, TargetSpared, UnusedKeys, IsPrevious, AudioReferenced

(* Publishing makes the plan stale, or goes on with a command that started *)
(* before the plan was made, which is then not fresh.                      *)
LEMMA PublishedIsStale == ASSUME TypeOK, FreshInv, Publish PROVE ~(IsFresh')
<1>1. CASE plan' = plan
  <2>1. op.at \in {"row", "import", "upload", "verdict", "demote", "promote", "switch"}
          \/ Outdate
    BY DEF Publish, ToReady, LocalSwitch, Remotely, StageStart, SmokeStart, CreateRow, Import,
       Upload, SmokeVerdict, LocalActivate, LocalRollback, LocalBatch, RemoteActivate,
       RemoteRollback, RemoteStart, RemoteDemote, RemotePromote, RemoteSwitch
  <2>2. CASE Outdate
    BY <2>2 DEF Outdate, IsFresh, TypeOK, Plan
  <2> QED BY <1>1, <2>1, <2>2 DEF FreshInv, IsFresh, OnPlan
<1>2. CASE Outdate
  BY <1>2 DEF Outdate, IsFresh, TypeOK, Plan
<1>3. plan' = plan \/ Outdate
  BY DEF Publish, ToReady, LocalSwitch, Remotely, StageStart, SmokeStart, CreateRow, Import,
     Upload, SmokeVerdict, LocalActivate, LocalRollback, LocalBatch, RemoteActivate,
     RemoteRollback, RemoteStart, RemoteDemote, RemotePromote, RemoteSwitch
<1> QED BY <1>1, <1>2, <1>3

(* What a deletion leaves to do is part of what it was given.              *)
LEMMA DeletesOn ==
  ASSUME NEW rels \in SUBSET plan.rels, NEW keys \in SUBSET plan.keys,
         NextDeletion(rels, keys), plan' = plan
  PROVE  OnPlan'
BY DEF NextDeletion, OnPlan, Doomed, Idle

(* A deleted release is not the rollback target, and no release that is    *)
(* left loses its stamp or gets more content.                              *)
LEMMA DeletionOnPlan == ASSUME IInv, FreshInv, DeleteRow PROVE FreshInv'
<1>. USE DEF DeleteRow
<1> SUFFICES ASSUME IsFresh PROVE (OnPlan /\ OldEnough /\ TargetSpared /\ UnusedKeys)'
  BY DEF FreshInv, IsFresh
<1>1. OnPlan /\ OldEnough /\ TargetSpared /\ UnusedKeys /\ plan \in Plan
  BY DEF FreshInv, IsFresh, IInv, TypeOK
<1>2. op.rel \in plan.rels /\ op.rels \subseteq plan.rels /\ op.keys \subseteq plan.keys
  BY <1>1 DEF OnPlan, Doomed
<1>3. OnPlan'
  BY <1>2, DeletesOn
<1>4. /\ \A r \in Releases \ {op.rel} : activatedAt'[r] = activatedAt[r] /\ status'[r] = status[r]
                                          /\ before'[r] = before[r] \ {op.rel}
      /\ op.rel \in Releases
      /\ activatedAt'[op.rel] = NONE /\ status'[op.rel] = NONE
  BY DEF IInv, TypeOK, OpGrounded
<1>5. OldEnough'
  BY <1>1, <1>4 DEF OldEnough, Plan
<1>6. TargetSpared'
  <2> SUFFICES ASSUME NEW rel \in plan.rels, rel # pointer, activatedAt'[rel] # NONE
               PROVE  \E target \in Releases \ plan.rels : IsPrevious(target)'
    BY DEF TargetSpared
  <2>1. activatedAt[rel] # NONE
    BY <1>1, <1>4 DEF Plan
  <2>2. PICK target \in Releases \ plan.rels : IsPrevious(target)
    BY <1>1, <2>1 DEF TargetSpared
  <2>3. IsPrevious(target)'
    BY <1>2, <1>4, <2>2 DEF IsPrevious
  <2> QED BY <2>3
<1>7. \A o \in Objects : AudioReferenced(o)' => AudioReferenced(o)
  BY DEF AudioReferenced, IInv, TypeOK, Content
<1>8. UnusedKeys'
  BY <1>1, <1>7 DEF UnusedKeys, Plan
<1> QED BY <1>3, <1>5, <1>6, <1>8

LEMMA FreshStep == ASSUME IInv, OrderInv, FreshInv, [Next]_vars PROVE FreshInv'
<1>. USE DEF database, stamps
<1>1. CASE Publish
  BY <1>1, PublishedIsStale DEF FreshInv, IInv
<1>2. CASE Retain
  <2>1. ASSUME NEW rels \in SUBSET Releases, NEW keys \in SUBSET Objects, ApplyStart(rels, keys)
        PROVE  FreshInv'
    <3>1. OnPlan'
      BY <2>1, DeletesOn DEF ApplyStart
    <3> QED BY <2>1, <3>1, PlanKept DEF ApplyStart
  <2>2. ASSUME NEW rel \in Releases, ClearIndex(rel) PROVE FreshInv'
    <3>1. IsFresh => OnPlan'
      BY <2>2 DEF ClearIndex, FreshInv, IsFresh, OnPlan, Doomed, IInv, TypeOK, Command
    <3> QED BY <2>2, <3>1, PlanKept DEF ClearIndex
  <2>3. ASSUME DeleteFails PROVE FreshInv'
    <3>1. IsFresh => OnPlan'
      BY <2>3 DEF DeleteFails, OnPlan, Doomed, Idle
    <3> QED BY <2>3, <3>1, PlanKept DEF DeleteFails
  <2>4. ASSUME NEW o \in Objects, DeleteAudio(o) PROVE FreshInv'
    <3>1. IsFresh => OnPlan'
      BY <2>4, DeletesOn DEF DeleteAudio, FreshInv, IsFresh, OnPlan
    <3> QED BY <2>4, <3>1, PlanKept DEF DeleteAudio
  <2> QED BY <1>2, <2>1, <2>2, <2>3, <2>4, PlanIsFresh, DeletionOnPlan DEF Retain
<1>3. CASE Die
  <2>1. IsFresh => OnPlan'
    BY <1>3 DEF Die, OnPlan, Doomed, Idle
  <2> QED BY <1>3, <2>1, PlanKept DEF Die
<1>4. CASE Study \/ Tick \/ UNCHANGED vars
  <2>1. UNCHANGED <<plan, status, activatedAt, before, imported, pointer, op>>
    BY <1>4 DEF Study, SessionStart, SessionInsert, Grade, Tick, vars
  <2>2. IsFresh => OnPlan'
    BY <2>1 DEF FreshInv, OnPlan, Doomed
  <2> QED BY <2>1, <2>2, PlanKept
<1> QED BY <1>1, <1>2, <1>3, <1>4 DEF Next

(* The order of the activations and what a fresh plan lists, in every      *)
(* reachable state.                                                        *)
THEOREM PlanInvariance == Spec => []PlanInv
<1>1. Init => OrderInv /\ FreshInv
  BY DEF Init, OrderInv, LatestExists, OneWay, Activated, FreshInv, IsFresh
<1>2. IInv /\ OrderInv /\ FreshInv /\ [Next]_vars => OrderInv' /\ FreshInv'
  BY OrderStep, FreshStep
<1>3. IInv /\ OrderInv /\ FreshInv <=> PlanInv
  BY DEF PlanInv
<1> QED BY <1>1, <1>2, <1>3, Invariance, PTL DEF Spec

(* A plan that is applied before anything else is published deletes neither *)
(* the rollback target nor a release that is pinned, referenced or young,   *)
(* nor an object in use, whatever died and whoever studied in between       *)
(* (planRetention, applyRetentionPlan).                                    *)
THEOREM FreshPlansAreSafe == Spec => FreshPlanIsSafe
<1>. DEFINE Safe ==
       IsFresh =>
         /\ \A rel \in Releases : (status[rel] # NONE /\ status'[rel] = NONE) =>
              /\ rel # pointer
              /\ ~IsPrevious(rel)
              /\ ~PinnedAt(rel, clock)
              /\ rel \notin referenced
              /\ clock - activatedAt[rel] >= MinRetained
         /\ \A o \in Objects : (uploadedAt[o] # NONE /\ uploadedAt'[o] = NONE) =>
              ~AudioReferenced(o)
<1>1. ASSUME PlanInv, [Next]_vars, IsFresh, NEW rel \in Releases,
             status[rel] # NONE, status'[rel] = NONE
      PROVE  /\ rel # pointer
             /\ ~IsPrevious(rel)
             /\ ~PinnedAt(rel, clock)
             /\ rel \notin referenced
             /\ clock - activatedAt[rel] >= MinRetained
  <2>1. DeleteRow /\ op.rel = rel
    BY <1>1, NullAssumption DEF PlanInv, Next, vars, database, stamps, Publish, ToReady,
       LocalSwitch, Remotely, Retain, Study, StageStart, SmokeStart, CreateRow, Import, Upload,
       SmokeVerdict, LocalActivate, LocalRollback, LocalBatch, Demoted, Promoted,
       RemoteActivate, RemoteRollback, RemoteStart, RemoteDemote, RemotePromote, RemoteSwitch,
       MakePlan, ApplyStart, ClearIndex, DeleteRow, DeleteFails, DeleteAudio, Die,
       SessionStart, SessionInsert, Grade, Tick, IInv, TypeOK, Statuses
  <2>2. rel # pointer /\ rel \notin referenced /\ rel \in Doomed
    BY <2>1 DEF DeleteRow, Restricted, Doomed
  <2>3. ~PinnedAt(rel, clock)
    BY <1>1, <2>2 DEF PlanInv, IInv, TypeOK, Session, DoomedAreUnused, Unused, PinnedAt
  <2>4. rel \in plan.rels /\ OldEnough /\ TargetSpared
    BY <1>1, <2>2 DEF PlanInv, FreshInv, OnPlan
  <2>5. activatedAt[rel] # NONE /\ plan.now - activatedAt[rel] >= MinRetained
    BY <1>1, <2>4 DEF OldEnough
  <2>6. clock - activatedAt[rel] >= MinRetained
    BY <1>1, <2>5, TimeAssumption
    DEF PlanInv, IInv, TypeOK, PlanIsPast, IsFresh, Plan, Time
  <2>7. ~IsPrevious(rel)
    <3>1. PICK target \in Releases \ plan.rels : IsPrevious(target)
      BY <2>2, <2>4, <2>5 DEF TargetSpared
    <3>2. rel \in before[target]
      BY <2>2, <2>4, <2>5, <3>1 DEF IsPrevious
    <3>3. target \notin before[rel]
      BY <1>1, <3>2 DEF PlanInv, OrderInv, OneWay
    <3> QED BY <2>4, <3>1, <3>3 DEF IsPrevious
  <2> QED BY <2>2, <2>3, <2>6, <2>7
<1>2. ASSUME PlanInv, [Next]_vars, IsFresh, NEW o \in Objects,
             uploadedAt[o] # NONE, uploadedAt'[o] = NONE
      PROVE  ~AudioReferenced(o)
  <2>1. DeleteAudio(o)
    BY <1>2, NullAssumption DEF PlanInv, Next, vars, database, stamps, Publish, ToReady,
       LocalSwitch, Remotely, Retain, Study, StageStart, SmokeStart, CreateRow, Import, Upload,
       SmokeVerdict, LocalActivate, LocalRollback, LocalBatch,
       RemoteActivate, RemoteRollback, RemoteStart, RemoteDemote, RemotePromote, RemoteSwitch,
       MakePlan, ApplyStart, ClearIndex, DeleteRow, DeleteFails, DeleteAudio, Die,
       SessionStart, SessionInsert, Grade, Tick, IInv, TypeOK
  <2>2. o \in plan.keys
    BY <1>2, <2>1 DEF DeleteAudio, PlanInv, FreshInv, OnPlan
  <2> QED BY <1>2, <2>2 DEF PlanInv, FreshInv, UnusedKeys
<1>3. PlanInv /\ [Next]_vars => Safe
  BY <1>1, <1>2
<1>4. PlanInv /\ [Next]_vars => [Safe]_vars
  BY <1>3
<1>. HIDE DEF Safe
<1>5. Spec => [][Safe]_vars
  BY <1>4, PlanInvariance, PTL DEF Spec
<1> QED BY <1>5 DEF FreshPlanIsSafe, Safe, IsFresh
=============================================================================
