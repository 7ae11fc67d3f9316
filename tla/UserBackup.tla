------------------------------ MODULE UserBackup -----------------------------
(***************************************************************************)
(* The daily backup of the learners' rows and the drill that proves it:    *)
(* an export reads the personal tables page by page while learners study,  *)
(* then the releases, the pointer and the renames, and puts two objects    *)
(* under the key of the day (apps/worker/src/backups/export.ts); the drill *)
(* rebuilds a database of its own from them and from the retained bundles  *)
(* (restore.ts), so it is an operator on the two objects.  The cron job    *)
(* and a run by hand may overlap, and each may die at any query or put.    *)
(* Words and cards have one kind of key; user_settings follows app_user    *)
(* row by row and is left out.  An activation stores its renames (the      *)
(* graph is AliasGraph's), promotes its release and moves the pointer, one *)
(* statement after the other and possibly not to the end; the local tool   *)
(* does the same in one transaction, which is one of these behaviours.     *)
(***************************************************************************)
EXTENDS AliasGraph

CONSTANTS Learners,
          Offered,           \* the keys that a release presents
          Exporters,         \* runs of the exporter on one UTC date
          PageSize,
          MaxRowWrites,      \* bounds: rows the learners write,
          MaxPrepared,       \* and activations begun
          Nothing            \* no object, no release, no export

ASSUME BackupAssumption ==
  /\ IsFiniteSet(StableKeys) /\ Offered \in [ReleaseIds -> SUBSET StableKeys]
  /\ PageSize \in Nat \ {0} /\ {MaxRowWrites, MaxPrepared} \subseteq Nat
  /\ Nothing \notin ReleaseIds

VARIABLES
  tables,      \* the rows of the personal tables, with their rowids
  renames,     \* content_key_alias: [rel, from, to, canonical]
  pointer,     \* app_meta.active_release_id
  activatedAt, \* the last activation of every release
  activation,  \* the activation under way: its release, the rows to store,
               \* and how many there were
  exports,     \* the runs of the exporter
  bucket,      \* the two objects of the day
  rowWrites

backupVars == <<tables, renames, pointer, activatedAt, activation, exports, bucket, rowWrites>>

(* Fault: the answers are exported before the states that they made.       *)
AnswersFirst == <<"app_user", "review_log", "word_progress", "card_state", "study_session">>

TableOrder == <<"app_user", "word_progress", "card_state", "review_log", "study_session">>

TableNames == {TableOrder[i] : i \in DOMAIN TableOrder}
NoPersonalRows == [t \in TableNames |-> {}]

Unstarted == [step |-> "none", at |-> 1, after |-> 0, got |-> NoPersonalRows, served |-> <<>>,
              active |-> Nothing, known |-> {}, disturbed |-> FALSE]
NoActivation == [step |-> "none", rel |-> Nothing, todo |-> {}, count |-> 0]

OfferedBatches == BatchesOf(Offered)

(* The releases have served one after the other; a learner has a session   *)
(* of one of them, and may have answered one of its cards, whose progress  *)
(* the renames stored before have put under a root.                        *)
Started(u, rel) ==
  [NoPersonalRows EXCEPT !["app_user"] = {[id |-> 1, user |-> u]},
                 !["study_session"] = {[id |-> 1, user |-> u, release |-> rel]}]
Answered(u, rel, key, root) ==
  [Started(u, rel) EXCEPT
     !["word_progress"] = {[id |-> 1, user |-> u, key |-> root, introduced |-> rel]},
     !["card_state"] = {[id |-> 1, user |-> u, key |-> root, event |-> 1]},
     !["review_log"] = {[id |-> 1, user |-> u, key |-> root, presented |-> key, release |-> rel,
                         before |-> {}, undone |-> FALSE]}]

BackupInit ==
  \E u \in Learners, rel \in ReleaseIds :
    /\ renames \in {Rows(B) : B \in OfferedBatches}
    /\ tables \in {Started(u, rel)} \cup
                   {Answered(u, rel, key, Sink(renames, key)) : key \in Offered[rel]}
    /\ activation = NoActivation
    /\ pointer \in ReleaseIds
    /\ activatedAt \in {f \in [ReleaseIds -> 1 .. Cardinality(ReleaseIds)] :
                          \A r, q \in ReleaseIds : f[r] = f[q] => r = q}
    /\ activatedAt[pointer] = Cardinality(ReleaseIds)
    /\ exports = [e \in Exporters |-> Unstarted]
    /\ bucket = [data |-> Nothing, manifest |-> Nothing]
    /\ rowWrites = 0

-------------------------------------------------------------------------------
(* The database.                                                           *)

Highest(S) == CHOOSE n \in S \cup {0} : \A m \in S : m <= n
NextRowId(t) == Highest({r.id : r \in tables[t]}) + 1

Reading(e) == exports[e].step \in {"rows", "releases", "pointer", "renames"}

(* What an export may trip over is remembered for the properties.          *)
Disturb ==
  exports' = [e \in Exporters |->
                IF Reading(e) THEN [exports[e] EXCEPT !.disturbed = TRUE] ELSE exports[e]]

Study == rowWrites < MaxRowWrites /\ rowWrites' = rowWrites + 1

Begin(user) ==
  /\ Study
  /\ \E r \in tables["app_user"] : r.user = user
  /\ tables' = [tables EXCEPT !["study_session"] =
       @ \cup {[id |-> NextRowId("study_session"), user |-> user, release |-> pointer]}]
  /\ UNCHANGED <<renames, pointer, activatedAt, activation, exports, bucket>>

(* One batch: the answer, the state, the word, introduced once; the row of *)
(* the word, which its presentation has made before, comes with it.  All   *)
(* stand under the key at the end of the walk; one that throws fails it.   *)
Own(t, user, key) == {r \in tables[t] : r.user = user /\ r.key = key}
UpsertState(user, key, event) ==
  IF Own("card_state", user, key) = {}
  THEN tables["card_state"] \cup
         {[id |-> NextRowId("card_state"), user |-> user, key |-> key, event |-> event]}
  ELSE {IF r.user = user /\ r.key = key THEN [r EXCEPT !.event = event] ELSE r :
          r \in tables["card_state"]}
UpsertWord(user, key, rel) ==
  IF Own("word_progress", user, key) = {}
  THEN tables["word_progress"] \cup
         {[id |-> NextRowId("word_progress"), user |-> user, key |-> key, introduced |-> rel]}
  ELSE {IF r.user = user /\ r.key = key /\ r.introduced = Nothing
        THEN [r EXCEPT !.introduced = rel] ELSE r : r \in tables["word_progress"]}

GradeCard(session, key) ==
  LET root == Sink(renames, key)
      event == NextRowId("review_log")
      before == {r.event : r \in Own("card_state", session.user, root)} IN
  /\ Study
  /\ key \in Offered[session.release] /\ Resolves(renames, key)
  /\ tables' = [tables EXCEPT
       !["review_log"] = @ \cup {[id |-> event, user |-> session.user, key |-> root,
                                  presented |-> key, release |-> session.release,
                                  before |-> before, undone |-> FALSE]},
       !["card_state"] = UpsertState(session.user, root, event),
       !["word_progress"] = UpsertWord(session.user, root, session.release)]
  /\ UNCHANGED <<renames, pointer, activatedAt, activation, exports, bucket>>

(* The newest answer of the user that is not undone.  The state of a first *)
(* answer is deleted, and the word is no longer introduced.                *)
UndoNewest(row) ==
  /\ Study
  /\ row \in tables["review_log"] /\ ~row.undone
  /\ \A r \in tables["review_log"] : r.user = row.user /\ ~r.undone => r.id <= row.id
  /\ tables' = [tables EXCEPT
       !["review_log"] = (@ \ {row}) \cup {[row EXCEPT !.undone = TRUE]},
       !["card_state"] = {r \in @ : r \notin Own("card_state", row.user, row.key)} \cup
           {[r EXCEPT !.event = b] : r \in Own("card_state", row.user, row.key), b \in row.before},
       !["word_progress"] = {IF r \in Own("word_progress", row.user, row.key) /\ row.before = {}
                             THEN [r EXCEPT !.introduced = Nothing] ELSE r : r \in @}]
  /\ Disturb
  /\ UNCHANGED <<renames, pointer, activatedAt, activation, bucket>>

(* seed-users adds an account.                                             *)
Seed(user) ==
  /\ \A r \in tables["app_user"] : r.user # user
  /\ tables' = [tables EXCEPT !["app_user"] =
       @ \cup {[id |-> NextRowId("app_user"), user |-> user]}]
  /\ Disturb
  /\ UNCHANGED <<renames, pointer, activatedAt, activation, bucket, rowWrites>>

(* prepareAliasBatchFromData, which sees the stored edges and the progress *)
(* once, before the first of its statements.                               *)
Held == {r.key : r \in tables["word_progress"] \cup tables["card_state"]}
PrepareActivation(rel, B) ==
  /\ activation.step = "none" /\ activation.count < MaxPrepared
  /\ rel # pointer
  /\ FitsStored(renames, B)
  /\ \A b \in B : {b.from, b.to} \cap Held \subseteq {b.canonical}
  /\ activation' = [step |-> "renames", rel |-> rel, todo |-> Rows(B), count |-> activation.count + 1]
  /\ UNCHANGED <<tables, renames, pointer, activatedAt, exports, bucket, rowWrites>>

NoneUnderWay == [NoActivation EXCEPT !.count = activation.count]

StoreRename(row) ==
  /\ row \in activation.todo /\ ~Collides(renames, row)
  /\ renames' = Upserts(renames, row)
  /\ activation' = [activation EXCEPT !.todo = @ \ {row}]
  /\ UNCHANGED <<tables, pointer, activatedAt, exports, bucket, rowWrites>>

Promote ==
  /\ activation.step = "renames" /\ activation.todo = {}
  /\ activatedAt' = [activatedAt EXCEPT ![activation.rel] =
       1 + Highest({activatedAt[r] : r \in ReleaseIds})]
  /\ activation' = [activation EXCEPT !.step = "pointer"]
  /\ UNCHANGED <<tables, renames, pointer, exports, bucket, rowWrites>>

SwitchPointer ==
  /\ activation.step = "pointer"
  /\ pointer' = activation.rel
  /\ activation' = NoneUnderWay
  /\ UNCHANGED <<tables, renames, activatedAt, exports, bucket, rowWrites>>

(* A statement fails, or the tool dies.                                    *)
ActivationBreaks ==
  /\ activation.step # "none"
  /\ activation' = NoneUnderWay
  /\ UNCHANGED <<tables, renames, pointer, activatedAt, exports, bucket, rowWrites>>

ActivationNext ==
  \/ \E rel \in ReleaseIds, B \in OfferedBatches : PrepareActivation(rel, B)
  \/ \E row \in activation.todo : StoreRename(row)
  \/ Promote \/ SwitchPointer \/ ActivationBreaks

-------------------------------------------------------------------------------
(* The exporter.                                                           *)

StepOf(e, change) == exports' = [exports EXCEPT ![e] = change]

StartExport(e) ==
  /\ exports[e] = Unstarted
  /\ StepOf(e, [Unstarted EXCEPT !.step = "rows", !.known = {r.id : r \in tables["review_log"]}])
  /\ UNCHANGED <<tables, renames, pointer, activatedAt, activation, bucket, rowWrites>>

(* SELECT .. WHERE rowid > after ORDER BY rowid LIMIT PageSize: the last   *)
(* query of a table finds nothing.                                         *)
PageAfter(t, after) ==
  {r \in tables[t] : /\ r.id > after
                     /\ Cardinality({s \in tables[t] : after < s.id /\ s.id < r.id}) < PageSize}

ReadPage(e) ==
  LET x == exports[e]
      t == TableOrder[x.at]
      page == PageAfter(t, x.after) IN
  /\ x.step = "rows"
  /\ StepOf(e,
       IF page # {} THEN [x EXCEPT !.got[t] = @ \cup page, !.after = Highest({r.id : r \in page})]
       ELSE IF x.at < Cardinality(DOMAIN TableOrder) THEN [x EXCEPT !.at = @ + 1, !.after = 0]
       ELSE [x EXCEPT !.step = "releases"])
  /\ UNCHANGED <<tables, renames, pointer, activatedAt, activation, bucket, rowWrites>>

ReadReleases(e) ==
  /\ exports[e].step = "releases"
  /\ StepOf(e, [exports[e] EXCEPT !.step = "pointer", !.served = activatedAt])
  /\ UNCHANGED <<tables, renames, pointer, activatedAt, activation, bucket, rowWrites>>

ReadPointer(e) ==
  /\ exports[e].step = "pointer"
  /\ StepOf(e, [exports[e] EXCEPT !.step = "renames", !.active = pointer])
  /\ UNCHANGED <<tables, renames, pointer, activatedAt, activation, bucket, rowWrites>>

(* collectUserFacts *)
ReferredTo(got) ==
  ({r.introduced : r \in got["word_progress"]} \cup {r.release : r \in got["review_log"]}
     \cup {r.release : r \in got["study_session"]}) \ {Nothing}
UserKeys(got) ==
  {r.key : r \in got["word_progress"] \cup got["card_state"] \cup got["review_log"]}
    \cup {r.presented : r \in got["review_log"]}

(* The latest of the releases that served before the active one.           *)
Previous(x) ==
  {r \in ReleaseIds \ {x.active} :
     \A s \in ReleaseIds \ {x.active} : x.served[s] <= x.served[r]}

(* The search follows edges forward from the keys of the users' rows.      *)
Forward(E, K) == {e \in E : \E key \in K : e.from \in Walked(E, key)}

(* Fault: the releases of study sessions are left out of the manifest.     *)
ManifestOfGrades(x, E) ==
  [hash |-> x.got, active |-> x.active, edges |-> Forward(E, UserKeys(x.got)),
   required |-> {x.active} \cup Previous(x) \cup {e.rel : e \in Forward(E, UserKeys(x.got))}
                \cup ReferredTo([x.got EXCEPT !["study_session"] = {}])]

ManifestOf(x, E) ==
  [hash |-> x.got, active |-> x.active, edges |-> Forward(E, UserKeys(x.got)),
   required |-> {x.active} \cup Previous(x) \cup {e.rel : e \in Forward(E, UserKeys(x.got))}
                \cup ReferredTo(x.got)]

(* The exporter does not walk: whether the worker could is remembered.     *)
Walkable(E, got) == \A key \in UserKeys(got) : Resolves(E, key)

ReadRenames(e) ==
  /\ exports[e].step = "renames"
  /\ StepOf(e, [step |-> "data", manifest |-> ManifestOf(exports[e], renames),
                known |-> exports[e].known, disturbed |-> exports[e].disturbed,
                walkable |-> Walkable(renames, exports[e].got)])
  /\ UNCHANGED <<tables, renames, pointer, activatedAt, activation, bucket, rowWrites>>

PutData(e) ==
  /\ exports[e].step = "data"
  /\ bucket' = [bucket EXCEPT !.data = exports[e].manifest.hash]
  /\ StepOf(e, [exports[e] EXCEPT !.step = "manifest"])
  /\ UNCHANGED <<tables, renames, pointer, activatedAt, activation, rowWrites>>

(* With the manifest goes what only the properties look at.                *)
PutManifest(e) ==
  /\ exports[e].step = "manifest"
  /\ bucket' = [bucket EXCEPT !.manifest = exports[e]]
  /\ StepOf(e, [step |-> "ended"])
  /\ UNCHANGED <<tables, renames, pointer, activatedAt, activation, rowWrites>>

ExportDies(e) ==
  /\ exports[e].step \notin {"none", "ended"}
  /\ StepOf(e, [step |-> "ended"])
  /\ UNCHANGED <<tables, renames, pointer, activatedAt, activation, bucket, rowWrites>>

-------------------------------------------------------------------------------
(* The drill.                                                              *)

HashMatches(manifest, data) == data = manifest.hash

(* The rows go in with foreign keys on, under their primary keys, the      *)
(* edges under their unique indexes.                                       *)
UniquePerUser(S) == \A r, s \in S : r.user = s.user /\ r.key = s.key => r = s
UniqueEdges(E) ==
  \A e, f \in E : e.rel = f.rel /\ (e.from = f.from \/ e.to = f.to) => e = f

(* Then the walk of the worker, along the restored edges, must lead from   *)
(* each of them to the root that it stores.                                *)
LeadsToItsRoot(E, e) == Resolves(E, e.from) /\ Sink(E, e.from) = e.canonical

ImportSucceeds(manifest, data) ==
  LET users == {r.user : r \in data["app_user"]} IN
  /\ \A t \in TableNames : \A r \in data[t] : r.user \in users
  /\ ReferredTo(data) \subseteq manifest.required
  /\ {e.rel : e \in manifest.edges} \subseteq manifest.required
  /\ UniquePerUser(data["word_progress"]) /\ UniquePerUser(data["card_state"])
  /\ UniqueEdges(manifest.edges) /\ \A e \in manifest.edges : LeadsToItsRoot(manifest.edges, e)

(* The operator lays out bundles; the set must be exact.                   *)
DrillPasses(bundles) ==
  /\ bucket.manifest # Nothing /\ bucket.data # Nothing
  /\ HashMatches(bucket.manifest.manifest, bucket.data)
  /\ bundles = bucket.manifest.manifest.required
  /\ ImportSucceeds(bucket.manifest.manifest, bucket.data)

-------------------------------------------------------------------------------
AccountsNext ==
  \/ \E user \in Learners : Begin(user) \/ Seed(user)
  \/ \E session \in tables["study_session"], key \in StableKeys : GradeCard(session, key)
  \/ \E row \in tables["review_log"] : UndoNewest(row)

ExportNext ==
  \E e \in Exporters :
    \/ StartExport(e) \/ ReadPage(e) \/ ReadReleases(e) \/ ReadPointer(e) \/ ReadRenames(e)
    \/ PutData(e) \/ PutManifest(e) \/ ExportDies(e)

BackupNext == AccountsNext \/ ActivationNext \/ ExportNext

BackupSpec == BackupInit /\ [][BackupNext]_backupVars

-------------------------------------------------------------------------------
(* A drill that passes has restored every answer that was logged before    *)
(* the export of its manifest began, and every card state together with    *)
(* the answer that made it - however runs and their ends fall together,    *)
(* and whatever was graded or undone between two pages                     *)
(* (export.ts:178-219, 320-325, restore.ts:150-157).                       *)
RestoredHasItsAnswers ==
  \A bundles \in SUBSET ReleaseIds :
    DrillPasses(bundles) =>
      LET restored == {r.id : r \in bucket.data["review_log"]} IN
      /\ bucket.manifest.known \subseteq restored
      /\ \A s \in bucket.data["card_state"] : s.event \in restored

(* A finished export restores: with the bundles its manifest names, no row *)
(* dangles or collides and every rename it took leads to its root, however *)
(* grades, activations and broken activations fell between its queries.    *)
(* Three things may spoil it: an account added or an answer undone while   *)
(* it read, and renames that, when it read them, the worker could not walk *)
(* either from some key it had read - a key declared twice, or a chain of  *)
(* which an activation has stored some edges and not others                *)
(* (export.ts:221-296, restore.ts:191-404).                                *)
FinishedExportRestores ==
  (/\ bucket.manifest # Nothing /\ bucket.data # Nothing
   /\ bucket.data = bucket.manifest.manifest.hash
   /\ ~bucket.manifest.disturbed /\ bucket.manifest.walkable) =>
     \E bundles \in SUBSET ReleaseIds : DrillPasses(bundles)

=============================================================================
