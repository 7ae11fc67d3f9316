--------------------------- MODULE ReleaseLifecycle ---------------------------
(***************************************************************************)
(* A content release from the bundle to the readers and back: staging,     *)
(* smoke checks, activation, rollback (tools/content-compiler/src/release) *)
(* and retention (apps/worker/src/releases/retention.ts).  One operator    *)
(* runs one command at a time; any command may die between two statements, *)
(* and study requests run beside it all the time.                          *)
(*                                                                         *)
(* driver says which tool applies the statements: "local" is publish.ts,   *)
(* whose activation is one atomic batch, "remote" is remote.ts, which      *)
(* sends the same statements through wrangler one by one.                  *)
(***************************************************************************)
EXTENDS Integers, FiniteSets

CONSTANTS
  Releases, Objects, Sessions, NONE,
  Audio,            \* Audio[rel]: the objects of the release's audio manifest
  Drivers,          \* the drivers a behaviour may have
  MinRetained,      \* minDaysRetained
  AudioGrace,       \* audioGraceDays
  TTL,              \* life of a study session
  MaxTime           \* bound on the clock

ASSUME AudioAssumption == Audio \in [Releases -> SUBSET Objects]
ASSUME DriverAssumption == Drivers \subseteq {"local", "remote"}
ASSUME TimeAssumption == {MinRetained, AudioGrace, TTL, MaxTime} \subseteq Nat

VARIABLES
  driver,
  status,           \* content_release.status, NONE without a row
  activatedAt,      \* content_release.activated_at: the day ...
  before,           \* ... and within it: the releases last activated before
  imported,         \* how much of the bundle's SQL is in: Units, Content, Cards
  index,            \* the releases with their rows in content_search_fts
  pointer,          \* app_meta.active_release_id
  uploadedAt,       \* the audio objects in R2
  session,          \* study_session rows, and creations on their way
  referenced,       \* releases named by word_progress or review_log rows
  clock, op, plan

stamps == <<activatedAt, before>>
database == <<status, stamps, imported, index, pointer>>
vars == <<driver, database, uploadedAt, session, referenced, clock, op, plan>>

Statuses == {"IMPORTING", "VALIDATING", "READY", "FAILED", "ACTIVE", "RETIRED"}
ASSUME NullAssumption == NONE \notin Releases /\ NONE \notin Nat /\ NONE \notin Statuses

Time == Nat \union {NONE}

(* Parts of the bundle's SQL, in the order in which they are applied: the  *)
(* unit reports; books, units, words and all that hangs on them, with the  *)
(* audio rows and links; the cards, with the rebuild of the index.         *)
Units == 1
Content == 2
Cards == 3

Steps == {"idle", "row", "import", "upload", "verdict", "demote", "promote",
          "switch", "clear", "delete", "audio"}
Command == [at : Steps, rel : Releases \union {NONE}, prev : Releases \union {NONE},
            now : Nat, rels : SUBSET Releases, keys : SUBSET Objects]
(* A plan is fresh as long as nothing is published after it.               *)
Plan == [now : Nat, rels : SUBSET Releases, keys : SUBSET Objects, fresh : BOOLEAN]
Session == [release : Releases, expiresAt : Nat, stored : BOOLEAN]

Idle == [at |-> "idle", rel |-> NONE, prev |-> NONE, now |-> 0, rels |-> {}, keys |-> {}]

TypeOK ==
  /\ driver \in Drivers
  /\ status \in [Releases -> Statuses \union {NONE}]
  /\ activatedAt \in [Releases -> Time]
  /\ before \in [Releases -> SUBSET Releases]
  /\ imported \in [Releases -> 0..Cards]
  /\ index \subseteq Releases
  /\ pointer \in Releases \union {NONE}
  /\ uploadedAt \in [Objects -> Time]
  /\ session \in [Sessions -> Session \union {NONE}]
  /\ referenced \subseteq Releases
  /\ clock \in Nat
  /\ op \in Command
  /\ plan \in Plan \union {NONE}

Init ==
  /\ driver \in Drivers
  /\ status = [rel \in Releases |-> NONE]
  /\ activatedAt = [rel \in Releases |-> NONE]
  /\ before = [rel \in Releases |-> {}]
  /\ imported = [rel \in Releases |-> 0]
  /\ index = {}
  /\ pointer = NONE
  /\ uploadedAt = [o \in Objects |-> NONE]
  /\ session = [s \in Sessions |-> NONE]
  /\ referenced = {}
  /\ clock = 0
  /\ op = Idle
  /\ plan = NONE

At(step) == op.at = step
Continue(step) == op' = [op EXCEPT !.at = step]
Exists(rel) == status[rel] # NONE
Outdate == plan' = IF plan = NONE THEN NONE ELSE [plan EXCEPT !.fresh = FALSE]

------------------------------------------------------------------------------
(* Staging.  The local tool imports first, the remote tool uploads first.  *)

(* What is left to do when the last object is uploaded, and when the last  *)
(* file is imported.                                                       *)
AfterUpload == IF driver = "local" THEN op' = Idle ELSE Continue("row")

AfterImport ==
  IF driver = "local" /\ Audio[op.rel] # {} THEN Continue("upload") ELSE op' = Idle

StageStart(rel) ==
  /\ At("idle")
  /\ ~Exists(rel)
  /\ op' = [Idle EXCEPT
       !.at = IF driver = "remote" /\ Audio[rel] # {} THEN "upload" ELSE "row",
       !.rel = rel, !.keys = Audio[rel]]
  /\ Outdate
  /\ UNCHANGED <<driver, database, uploadedAt, session, referenced, clock>>

CreateRow ==
  /\ At("row")
  /\ status' = [status EXCEPT ![op.rel] = "IMPORTING"]
  /\ Continue("import")
  /\ UNCHANGED <<driver, stamps, imported, index, pointer, uploadedAt, session,
                 referenced, clock, plan>>

(* Unit reports, then content, whose triggers fill the search index, then  *)
(* cards.  The third file only rebuilds the index from itself.             *)
Import ==
  /\ At("import")
  /\ imported' = [imported EXCEPT ![op.rel] = @ + 1]
  /\ index' = IF imported'[op.rel] = Content THEN index \union {op.rel} ELSE index
  /\ IF imported'[op.rel] = Cards THEN AfterImport ELSE UNCHANGED op
  /\ UNCHANGED <<driver, status, stamps, pointer, uploadedAt, session, referenced,
                 clock, plan>>

(* The local store is asked for the object first; the remote put is        *)
(* unconditional and renews the object's upload time.                      *)
Upload(o) ==
  /\ At("upload")
  /\ o \in op.keys
  /\ uploadedAt' = IF driver = "local" /\ uploadedAt[o] # NONE THEN uploadedAt
                   ELSE [uploadedAt EXCEPT ![o] = clock]
  /\ IF op.keys = {o} THEN AfterUpload ELSE op' = [op EXCEPT !.keys = @ \ {o}]
  /\ UNCHANGED <<driver, database, session, referenced, clock, plan>>

------------------------------------------------------------------------------
(* Smoke.                                                                  *)

SmokeStart(rel) ==
  /\ At("idle")
  /\ status[rel] = "IMPORTING"
  /\ status' = [status EXCEPT ![rel] = "VALIDATING"]
  /\ op' = [Idle EXCEPT !.at = "verdict", !.rel = rel]
  /\ Outdate
  /\ UNCHANGED <<driver, stamps, imported, index, pointer, uploadedAt, session,
                 referenced, clock>>

(* Counts are compared with what the unit reports announce, so a release   *)
(* without reports would agree with an empty import.  Only the local tool  *)
(* looks for the objects.                                                  *)
ReportsUnchecked(rel) == TRUE   \* fault: counts alone

ReportsPresent(rel) == imported[rel] >= Units

CountsAgree(rel) ==
  /\ (imported[rel] >= Units) = (imported[rel] >= Content)
  /\ (imported[rel] >= Units) = (imported[rel] >= Cards)

IndexAgrees(rel) == (rel \in index) = (imported[rel] >= Content)

AudioPresent(rel) ==
  (driver = "local" /\ imported[rel] >= Content) =>
    \A o \in Audio[rel] : uploadedAt[o] # NONE

SmokePasses(rel) ==
  ReportsPresent(rel) /\ CountsAgree(rel) /\ IndexAgrees(rel) /\ AudioPresent(rel)

SmokeVerdict ==
  /\ At("verdict")
  /\ status' = [status EXCEPT ![op.rel] = IF SmokePasses(op.rel) THEN "READY" ELSE "FAILED"]
  /\ op' = Idle
  /\ UNCHANGED <<driver, stamps, imported, index, pointer, uploadedAt, session,
                 referenced, clock, plan>>

------------------------------------------------------------------------------
(* Activation and rollback.                                                *)

(* The statements of buildActivationBatchStatements.                       *)
NotDemoted(st, prev, rel) == st   \* fault: the old release stays ACTIVE

Demoted(st, prev, rel) ==
  IF prev \in {NONE, rel} THEN st ELSE [st EXCEPT ![prev] = "RETIRED"]

Promoted(st, rel) == [st EXCEPT ![rel] = "ACTIVE"]

Stamped(at, rel, now) == [at EXCEPT ![rel] = now]

(* Fault: a rollback keeps the stamp of the first activation.             *)
FirstStamp(bef, rel) ==
  IF activatedAt[rel] # NONE THEN bef
  ELSE [bef EXCEPT ![rel] = {q \in Releases \ {rel} : activatedAt[q] # NONE}]

Latest(bef, rel) ==
  [r \in Releases |-> IF r = rel THEN {q \in Releases \ {rel} : activatedAt[q] # NONE}
                     ELSE bef[r] \ {rel}]

LocalBatch(rel) ==
  /\ driver = "local"
  /\ At("idle")
  /\ status' = Promoted(Demoted(status, pointer, rel), rel)
  /\ activatedAt' = Stamped(activatedAt, rel, clock)
  /\ before' = Latest(before, rel)
  /\ pointer' = rel
  /\ Outdate
  /\ UNCHANGED <<driver, imported, index, uploadedAt, session, referenced, clock, op>>

LocalActivate(rel) == status[rel] = "READY" /\ LocalBatch(rel)
LocalRollback(rel) == status[rel] = "RETIRED" /\ LocalBatch(rel)

(* An earlier run died between the promotion and the switch.               *)
Resuming(rel) == status[rel] = "ACTIVE" /\ pointer \notin {NONE, rel}
MayActivate(rel) == status[rel] \in {"READY", "RETIRED"} \/ Resuming(rel)

RemoteStart(rel) ==
  /\ driver = "remote"
  /\ At("idle")
  /\ op' = [Idle EXCEPT !.at = IF pointer \in {NONE, rel} THEN "promote" ELSE "demote",
                        !.rel = rel, !.prev = pointer, !.now = clock]
  /\ Outdate
  /\ UNCHANGED <<driver, database, uploadedAt, session, referenced, clock>>

RemoteActivate(rel) == MayActivate(rel) /\ RemoteStart(rel)
RemoteRollback(rel) == status[rel] = "RETIRED" /\ RemoteStart(rel)

RemoteDemote ==
  /\ At("demote")
  /\ status' = Demoted(status, op.prev, op.rel)
  /\ Continue("promote")
  /\ UNCHANGED <<driver, stamps, imported, index, pointer, uploadedAt, session,
                 referenced, clock, plan>>

RemotePromote ==
  /\ At("promote")
  /\ status' = Promoted(status, op.rel)
  /\ activatedAt' = Stamped(activatedAt, op.rel, op.now)
  /\ before' = Latest(before, op.rel)
  /\ Continue("switch")
  /\ UNCHANGED <<driver, imported, index, pointer, uploadedAt, session, referenced,
                 clock, plan>>

RemoteSwitch ==
  /\ At("switch")
  /\ pointer' = op.rel
  /\ op' = Idle
  /\ UNCHANGED <<driver, status, stamps, imported, index, uploadedAt, session,
                 referenced, clock, plan>>

------------------------------------------------------------------------------
(* Retention.                                                              *)

(* The rollback target: of the other releases, the one activated last.     *)
IsPrevious(rel) ==
  /\ rel # pointer
  /\ activatedAt[rel] # NONE
  /\ \A other \in Releases \ {pointer, rel} :
       activatedAt[other] # NONE => other \in before[rel]

PinnedAt(rel, now) ==
  \E s \in Sessions :
    session[s] # NONE /\ session[s].stored /\ session[s].release = rel
                      /\ session[s].expiresAt > now

(* Fault: the rollback target is not spared.                               *)
EligibleByAge(rel) ==
  /\ status[rel] = "RETIRED"
  /\ ~PinnedAt(rel, clock)
  /\ rel \notin referenced
  /\ activatedAt[rel] # NONE
  /\ clock - activatedAt[rel] >= MinRetained

Eligible(rel) ==
  /\ status[rel] = "RETIRED"
  /\ ~IsPrevious(rel)
  /\ ~PinnedAt(rel, clock)
  /\ rel \notin referenced
  /\ activatedAt[rel] # NONE
  /\ clock - activatedAt[rel] >= MinRetained

(* audio_asset rows come with the content.                                 *)
AudioReferenced(o) == \E rel \in Releases : imported[rel] >= Content /\ o \in Audio[rel]

AudioEligible(o) ==
  /\ uploadedAt[o] # NONE
  /\ ~AudioReferenced(o)
  /\ clock - uploadedAt[o] >= AudioGrace

(* A plan without deletions is not kept.                                   *)
MakePlan ==
  /\ At("idle")
  /\ LET rels == {rel \in Releases : Eligible(rel)}
         keys == {o \in Objects : AudioEligible(o)}
     IN  /\ rels \union keys # {}
         /\ plan' = [now |-> clock, rels |-> rels, keys |-> keys, fresh |-> TRUE]
  /\ UNCHANGED <<driver, database, uploadedAt, session, referenced, clock, op>>

(* A session creation reads the pointer and inserts a moment later.  The   *)
(* operator, who has reviewed a plan since the pointer last moved, is      *)
(* slower than that.                                                       *)
RequestsAreShort ==
  \A s \in Sessions :
    session[s] # NONE /\ ~session[s].stored => session[s].release = pointer

GuardedByReferences(rel) == rel \notin referenced   \* fault: pins not checked

(* What is checked again when a plan is applied: pins, as of the plan's    *)
(* time, and references.                                                   *)
StillDeletable(rel) == ~PinnedAt(rel, plan.now) /\ rel \notin referenced

NextDeletion(rels, keys) ==
  op' = IF rels # {} THEN [Idle EXCEPT !.at = "clear", !.rels = rels, !.keys = keys]
        ELSE IF keys # {} THEN [Idle EXCEPT !.at = "audio", !.keys = keys]
        ELSE Idle

ApplyStart(rels, keys) ==
  /\ At("idle")
  /\ plan # NONE
  /\ rels \subseteq plan.rels
  /\ keys \subseteq plan.keys
  /\ RequestsAreShort
  /\ \A rel \in rels : StillDeletable(rel)
  /\ rels \union keys # {}
  /\ NextDeletion(rels, keys)
  /\ UNCHANGED <<driver, database, uploadedAt, session, referenced, clock, plan>>

ClearIndex(rel) ==
  /\ At("clear")
  /\ rel \in op.rels
  /\ index' = index \ {rel}
  /\ op' = [op EXCEPT !.at = "delete", !.rel = rel, !.rels = @ \ {rel}]
  /\ UNCHANGED <<driver, status, stamps, imported, pointer, uploadedAt, session,
                 referenced, clock, plan>>

(* The pointer and user state restrict the deletion, sessions go with it.  *)
Restricted(rel) == rel = pointer \/ rel \in referenced

DeleteRow ==
  /\ At("delete")
  /\ ~Restricted(op.rel)
  /\ status' = [status EXCEPT ![op.rel] = NONE]
  /\ activatedAt' = [activatedAt EXCEPT ![op.rel] = NONE]
  /\ before' = [rel \in Releases |-> IF rel = op.rel THEN {} ELSE before[rel] \ {op.rel}]
  /\ imported' = [imported EXCEPT ![op.rel] = 0]
  /\ index' = index \ {op.rel}
  /\ session' = [s \in Sessions |->
       IF session[s] # NONE /\ session[s].stored /\ session[s].release = op.rel
       THEN NONE ELSE session[s]]
  /\ NextDeletion(op.rels, op.keys)
  /\ UNCHANGED <<driver, pointer, uploadedAt, referenced, clock, plan>>

DeleteFails ==
  /\ At("delete")
  /\ Restricted(op.rel)
  /\ op' = Idle
  /\ UNCHANGED <<driver, database, uploadedAt, session, referenced, clock, plan>>

DeleteAudio(o) ==
  /\ At("audio")
  /\ o \in op.keys
  /\ uploadedAt' = [uploadedAt EXCEPT ![o] = NONE]
  /\ NextDeletion({}, op.keys \ {o})
  /\ UNCHANGED <<driver, database, session, referenced, clock, plan>>

------------------------------------------------------------------------------
(* The operator's process dies, or a statement fails: what is done stays.  *)
Die ==
  /\ ~At("idle")
  /\ op' = Idle
  /\ UNCHANGED <<driver, database, uploadedAt, session, referenced, clock, plan>>

(* Study requests: a session pins the active release, and a grade in a     *)
(* live session names the session's release in user state.                 *)
SessionStart(s) ==
  /\ session[s] = NONE
  /\ pointer # NONE
  /\ session' = [session EXCEPT ![s] =
       [release |-> pointer, expiresAt |-> clock + TTL, stored |-> FALSE]]
  /\ UNCHANGED <<driver, database, uploadedAt, referenced, clock, op, plan>>

SessionInsert(s) ==
  /\ session[s] # NONE
  /\ ~session[s].stored
  /\ session' = [session EXCEPT ![s] =
       IF Exists(@.release) THEN [@ EXCEPT !.stored = TRUE] ELSE NONE]
  /\ UNCHANGED <<driver, database, uploadedAt, referenced, clock, op, plan>>

Grade(s) ==
  /\ session[s] # NONE
  /\ session[s].stored
  /\ clock < session[s].expiresAt
  /\ referenced' = referenced \union {session[s].release}
  /\ UNCHANGED <<driver, database, uploadedAt, session, clock, op, plan>>

(* Days pass between commands, not within one.                             *)
Tick ==
  /\ At("idle")
  /\ clock < MaxTime
  /\ clock' = clock + 1
  /\ UNCHANGED <<driver, database, uploadedAt, session, referenced, op, plan>>

(* From the bundle to a READY release, then to the readers: the local tool *)
(* in one batch, the remote tool statement by statement.                   *)
ToReady ==
  \/ \E rel \in Releases : StageStart(rel) \/ SmokeStart(rel)
  \/ CreateRow
  \/ Import
  \/ \E o \in Objects : Upload(o)
  \/ SmokeVerdict

LocalSwitch == \E rel \in Releases : LocalActivate(rel) \/ LocalRollback(rel)

Remotely ==
  \/ \E rel \in Releases : RemoteActivate(rel) \/ RemoteRollback(rel)
  \/ RemoteDemote
  \/ RemotePromote
  \/ RemoteSwitch

Publish == ToReady \/ LocalSwitch \/ Remotely

Retain ==
  \/ MakePlan
  \/ \E rels \in SUBSET Releases, keys \in SUBSET Objects : ApplyStart(rels, keys)
  \/ \E rel \in Releases : ClearIndex(rel)
  \/ DeleteRow
  \/ DeleteFails
  \/ \E o \in Objects : DeleteAudio(o)

Study == \E s \in Sessions : SessionStart(s) \/ SessionInsert(s) \/ Grade(s)

Next == Publish \/ Retain \/ Die \/ Study \/ Tick

Spec == Init /\ [][Next]_vars

------------------------------------------------------------------------------
(* Only a bundle that went in whole is ever admitted, whatever died on the *)
(* way: a READY, ACTIVE or RETIRED release has all its rows                *)
(* (publish.ts:9, smokeRelease).                                           *)
AdmittedIsWhole ==
  \A rel \in Releases :
    status[rel] \in {"READY", "ACTIVE", "RETIRED"} => imported[rel] = Cards

(* The pointer names a release whose rows are there, and with the local    *)
(* tool the one ACTIVE release (publish.ts:16, releases.ts:46).            *)
PointerServes ==
  /\ pointer # NONE => status[pointer] \in {"ACTIVE", "RETIRED"}
  /\ driver = "local" => \A rel \in Releases : status[rel] = "ACTIVE" <=> rel = pointer

(* When the pointer moves, the release it leaves is the one that retention *)
(* takes for the rollback target (retention.ts:9), rollbacks included.     *)
LeftIsPrevious ==
  [][ \A rel \in Releases :
        (driver = "local" /\ pointer = rel /\ pointer' # rel) => IsPrevious(rel)' ]_vars

(* No plan, however old, takes a session away that is still alive          *)
(* (retention.ts:26-28).                                                   *)
LiveSessionsStay ==
  [][ \A s \in Sessions :
        (session[s] # NONE /\ session[s].stored /\ clock < session[s].expiresAt)
          => session'[s] # NONE ]_vars

(* Applied before anything else is published, a plan deletes no release    *)
(* that is the rollback target, pinned, referenced or younger than the     *)
(* window, and no object that a release uses (retention.ts:6-24).          *)
FreshPlanIsSafe ==
  [][ (plan # NONE /\ plan.fresh) =>
        /\ \A rel \in Releases : (status[rel] # NONE /\ status'[rel] = NONE) =>
             /\ rel # pointer
             /\ ~IsPrevious(rel)
             /\ ~PinnedAt(rel, clock)
             /\ rel \notin referenced
             /\ clock - activatedAt[rel] >= MinRetained
        /\ \A o \in Objects : (uploadedAt[o] # NONE /\ uploadedAt'[o] = NONE) =>
             ~AudioReferenced(o) ]_vars

=============================================================================
