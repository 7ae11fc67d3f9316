----------------------------- MODULE StudyServer -----------------------------
(***************************************************************************)
(* The study API of the worker (apps/worker/src/study): creating a study   *)
(* session, grading its current card, undoing the latest grade and         *)
(* patching a word's progress, over one D1 database shared by every        *)
(* request.                                                                *)
(*                                                                         *)
(* A handler is a sequence of awaited D1 reads followed by at most one     *)
(* atomic batch, so other requests run between any two of them.  A request *)
(* in flight is a slot of req whose pc names the statement it will run     *)
(* next and whose other fields hold what it has read; every action is one  *)
(* round trip.  Content is immutable (a release never changes once it is   *)
(* staged), so reads of it take no step.  A handler that answers with an   *)
(* error frees its slot and changes nothing else.                          *)
(*                                                                         *)
(* Cards and words are named by their canonical keys; LocalKey is the name *)
(* a release presents them under.  The FSRS state a grade computes is a    *)
(* function of the review_log row it writes, so it is named by the row's   *)
(* event: a card_state of value e is the after_state of event e.           *)
(***************************************************************************)
EXTENDS Integers, Sequences, FiniteSets

CONSTANTS
  Users, Sessions, Events, PatchIds,   \* identities chosen by the outside
  Requests,                            \* slots for requests in flight
  Cards, Words, Releases, NONE,
  WordOf,        \* WordOf[c]: the word card c teaches
  ReleaseWords,  \* ReleaseWords[rel]: the words of the release
  ActiveCards,   \* ActiveCards[rel]: its cards of status ACTIVE
  LocalKey,      \* LocalKey[rel][k]: the name the release gives key k
  CardOrder,     \* CardOrder[rel][c]: place of c in the order of spec 5.7
  WordOrder,     \* WordOrder[rel][w]: place of w in textbook order
  GroupSize,     \* new_words_per_group
  DueLimit,      \* DUE_QUEUE_LIMIT
  TTL,           \* SESSION_TTL_MS, in clock ticks
  MaxTime        \* bound of the clock

Keys == Cards \union Words

GradePcs == {"grade_session", "grade_now", "grade_state", "grade_progress",
             "grade_commit", "grade_reread"}
UndoPcs == {"undo_latest", "undo_session", "undo_progress", "undo_commit"}
Pcs == GradePcs \union UndoPcs \union
       {"idle", "answered", "patch_commit", "create_queue", "create_quick_test"}

LogRow == [user : Users, session : Sessions, card : Cards,
           before : Events \union {NONE}, reviewedAt : Nat, rowid : Nat,
           undone : BOOLEAN]
Progress == [stage : {"IN_PROGRESS", "INTRODUCED"},
             release : Releases \union {NONE}]
SessionRow == [user : Users, release : Releases, queue : Seq(Cards),
               position : Nat, expiresAt : Nat, patchIds : SUBSET PatchIds]
Request == [pc : Pcs, user : Users \union {NONE},
            session : Sessions \union {NONE}, event : Events \union {NONE},
            card : Cards \union {NONE}, before : Events \union {NONE},
            now : Nat, introducing : BOOLEAN, keys : SUBSET Cards,
            word : Words \union {NONE}, patchId : PatchIds \union {NONE},
            patchIds : SUBSET PatchIds, release : Releases \union {NONE},
            words : SUBSET Words]

ASSUME NoneAssumption ==
  /\ NONE \notin Users /\ NONE \notin Sessions /\ NONE \notin Events
  /\ NONE \notin Cards /\ NONE \notin Words /\ NONE \notin Releases
  /\ NONE \notin LogRow /\ NONE \notin SessionRow /\ NONE \notin Progress

ASSUME ContentAssumption ==
  /\ IsFiniteSet(Cards) /\ IsFiniteSet(Words)
  /\ WordOf \in [Cards -> Words]
  /\ ReleaseWords \in [Releases -> SUBSET Words]
  /\ ActiveCards \in [Releases -> SUBSET Cards]
  /\ \A rel \in Releases : \A c \in ActiveCards[rel] : WordOf[c] \in ReleaseWords[rel]
  /\ CardOrder \in [Releases -> [Cards -> Nat]]
  /\ WordOrder \in [Releases -> [Words -> Nat]]
  /\ \A rel \in Releases : \A c, d \in ActiveCards[rel] :
       CardOrder[rel][c] = CardOrder[rel][d] => c = d
  /\ \A rel \in Releases : \A v, w \in ReleaseWords[rel] :
       WordOrder[rel][v] = WordOrder[rel][w] => v = w

ASSUME BoundAssumption ==
  /\ GroupSize \in Nat /\ DueLimit \in Nat
  /\ TTL \in Nat \ {0} /\ MaxTime \in Nat

VARIABLES
  reviewLog,     \* event -> review_log row, or NONE
  cardState,     \* user -> card -> event whose after_state is stored, or NONE
  wordProgress,  \* user -> word -> word_progress row, or NONE
  session,       \* id -> study_session row, or NONE
  active,        \* app_meta.active_release_id
  rows,          \* rows ever inserted in review_log: the next rowid
  clock,         \* Date.now(), shared by the isolates
  req            \* slot -> request in flight

database == <<reviewLog, cardState, wordProgress, session, rows>>
vars == <<database, active, clock, req>>

------------------------------------------------------------------------------
Idle == [pc |-> "idle", user |-> NONE, session |-> NONE, event |-> NONE,
         card |-> NONE, before |-> NONE, now |-> 0, introducing |-> FALSE,
         keys |-> {}, word |-> NONE, patchId |-> NONE, patchIds |-> {},
         release |-> NONE, words |-> {}]

TypeOK ==
  /\ reviewLog \in [Events -> LogRow \union {NONE}]
  /\ cardState \in [Users -> [Cards -> Events \union {NONE}]]
  /\ wordProgress \in [Users -> [Words -> Progress \union {NONE}]]
  /\ session \in [Sessions -> SessionRow \union {NONE}]
  /\ active \in Releases
  /\ rows \in Nat
  /\ clock \in Nat
  /\ req \in [Requests -> Request]

Init ==
  /\ reviewLog = [e \in Events |-> NONE]
  /\ cardState = [u \in Users |-> [c \in Cards |-> NONE]]
  /\ wordProgress = [u \in Users |-> [w \in Words |-> NONE]]
  /\ session = [s \in Sessions |-> NONE]
  /\ active \in Releases
  /\ rows = 0
  /\ clock = 0
  /\ req = [r \in Requests |-> Idle]

------------------------------------------------------------------------------
(* What the handlers share.                                                *)

Free(r) == req[r].pc \in {"idle", "answered"}
At(r, pc) == req[r].pc = pc
Finish(r) == req' = [req EXCEPT ![r] = Idle]

(* requireSession: the caller's own, unexpired session.                    *)
OwnSession(u, s) ==
  /\ session[s] # NONE
  /\ session[s].user = u
  /\ clock < session[s].expiresAt

(* Fault: the log is not filtered by user_id.                              *)
AnyRow(u, e) == reviewLog[e] # NONE

(* review_log rows are only visible to their owner.                        *)
OwnRow(u, e) == reviewLog[e] # NONE /\ reviewLog[e].user = u

(* The session's queue item, if the position is still inside the queue.    *)
IsCurrent(s, c) ==
  /\ session[s].position < Len(session[s].queue)
  /\ session[s].queue[session[s].position + 1] = c

StageIs(progress, stage) == progress # NONE /\ progress.stage = stage

(* The canonical keys of the ACTIVE cards of the word a release names local *)
CanonicalCardKeys(rel, local) ==
  {c \in ActiveCards[rel] : LocalKey[rel][WordOf[c]] = local}

(* getLatestUnUndone: newest reviewed_at, then newest rowid.               *)
UnUndone(u) == {e \in Events : OwnRow(u, e) /\ ~reviewLog[e].undone}

(* Fault: no rowid tie-break.                                              *)
NotReviewedAfter(d, e) == reviewLog[d].reviewedAt <= reviewLog[e].reviewedAt

NotAfter(d, e) ==
  \/ reviewLog[d].reviewedAt < reviewLog[e].reviewedAt
  \/ /\ reviewLog[d].reviewedAt = reviewLog[e].reviewedAt
     /\ reviewLog[d].rowid <= reviewLog[e].rowid

(* Fault: any event that is not undone may be.                             *)
IsUnUndone(u, e) == e \in UnUndone(u)

IsLatest(u, e) == e \in UnUndone(u) /\ \A d \in UnUndone(u) : NotAfter(d, e)

------------------------------------------------------------------------------
(* Creating a session pins the active release and snapshots a queue.  The  *)
(* insert of the new row takes effect with the last read before it, since  *)
(* no other request knows the session yet; its id is a fresh UUID.         *)

Arrangements(S) ==
  {q \in [1..Cardinality(S) -> S] : \A i, j \in DOMAIN q : q[i] = q[j] => i = j}

InQueueOrder(q, rel) ==
  \A i, j \in DOMAIN q : i < j => CardOrder[rel][q[i]] < CardOrder[rel][q[j]]

(* The words a NEW_WORDS group takes: the first GroupSize not introduced.  *)
NextGroup(u, rel) ==
  LET open == {w \in ReleaseWords[rel] : ~StageIs(wordProgress[u][w], "INTRODUCED")}
  IN  {w \in open : Cardinality({v \in open : WordOrder[rel][v] < WordOrder[rel][w]}) < GroupSize}

InsertSession(r, queue) ==
  \/ /\ queue # <<>>
     /\ session' = [session EXCEPT ![req[r].session] =
          [user |-> req[r].user, release |-> req[r].release, queue |-> queue,
           position |-> 0, expiresAt |-> req[r].now + TTL, patchIds |-> {}]]
     /\ Finish(r)
  \/ /\ queue = <<>>
     /\ UNCHANGED session
     /\ Finish(r)

CreateStart(r, u, s) ==
  /\ Free(r)
  /\ session[s] = NONE
  /\ \A q \in Requests : req[q].session # s
  /\ req' = [req EXCEPT ![r] = [Idle EXCEPT
       !.pc = "create_queue", !.user = u, !.session = s, !.release = active, !.now = clock]]
  /\ UNCHANGED <<database, active, clock>>

CreateNewWords(r) ==
  /\ At(r, "create_queue")
  /\ LET rel == req[r].release
         cards == {c \in ActiveCards[rel] : WordOf[c] \in NextGroup(req[r].user, rel)}
     IN  \E q \in Arrangements(cards) : InQueueOrder(q, rel) /\ InsertSession(r, q)
  /\ UNCHANGED <<reviewLog, cardState, wordProgress, rows, active, clock>>

CreateReview(r) ==
  /\ At(r, "create_queue")
  /\ LET rel == req[r].release
         graded == {c \in Cards : cardState[req[r].user][c] # NONE}
         presentable == {c \in ActiveCards[rel] : LocalKey[rel][c] = c}
     IN  \E due \in SUBSET graded :
           /\ Cardinality(due) <= DueLimit
           /\ \E q \in Arrangements(due \intersect presentable) : InsertSession(r, q)
  /\ UNCHANGED <<reviewLog, cardState, wordProgress, rows, active, clock>>

CreateQuickTestWords(r) ==
  /\ At(r, "create_queue")
  /\ LET u == req[r].user
     IN  req' = [req EXCEPT
           ![r].pc = "create_quick_test",
           ![r].words = {w \in ReleaseWords[req[r].release] :
                           StageIs(wordProgress[u][w], "INTRODUCED")}]
  /\ UNCHANGED <<database, active, clock>>

CreateQuickTest(r) ==
  /\ At(r, "create_quick_test")
  /\ LET rel == req[r].release
         cards == {c \in ActiveCards[rel] : /\ WordOf[c] \in req[r].words
                                            /\ cardState[req[r].user][c] = NONE}
     IN  \E q \in Arrangements(cards) : InQueueOrder(q, rel) /\ InsertSession(r, q)
  /\ UNCHANGED <<reviewLog, cardState, wordProgress, rows, active, clock>>

------------------------------------------------------------------------------
(* Grading.  The client picks event_id; a retry carries the same one.      *)

Answer(r, row) ==
  req' = [req EXCEPT ![r] = [Idle EXCEPT
    !.pc = "answered", !.user = req[r].user, !.event = req[r].event,
    !.card = row.card, !.before = row.before]]

(* 1. event_id idempotency: a row of the caller is replayed.               *)
GradeReplay(r, u, e) ==
  /\ Free(r)
  /\ OwnRow(u, e)
  /\ req' = [req EXCEPT ![r] = [Idle EXCEPT
       !.pc = "answered", !.user = u, !.event = e,
       !.card = reviewLog[e].card, !.before = reviewLog[e].before]]
  /\ UNCHANGED <<database, active, clock>>

(* Only requests that name an existing session and a card of its queue are *)
(* followed: any other is refused by GradeSession.                         *)
GradeStart(r, u, s, c, e) ==
  /\ Free(r)
  /\ ~OwnRow(u, e)
  /\ session[s] # NONE
  /\ \E i \in DOMAIN session[s].queue : session[s].queue[i] = c
  /\ req' = [req EXCEPT ![r] = [Idle EXCEPT
       !.pc = "grade_session", !.user = u, !.session = s, !.card = c, !.event = e]]
  /\ UNCHANGED <<database, active, clock>>

(* 2. The session, and the card at its position.                           *)
GradeSession(r) ==
  /\ At(r, "grade_session")
  /\ \/ /\ OwnSession(req[r].user, req[r].session)
        /\ IsCurrent(req[r].session, req[r].card)
        /\ req' = [req EXCEPT ![r].pc = "grade_now"]
     \/ /\ ~(/\ OwnSession(req[r].user, req[r].session)
             /\ IsCurrent(req[r].session, req[r].card))
        /\ Finish(r)
  /\ UNCHANGED <<database, active, clock>>

(* 3. Content reads; reviewed_at is taken here, well before the commit.    *)
GradeNow(r) ==
  /\ At(r, "grade_now")
  /\ req' = [req EXCEPT ![r].pc = "grade_state", ![r].now = clock]
  /\ UNCHANGED <<database, active, clock>>

(* 4. before_state.                                                        *)
GradeState(r) ==
  /\ At(r, "grade_state")
  /\ req' = [req EXCEPT ![r].pc = "grade_progress",
                        ![r].before = cardState[req[r].user][req[r].card]]
  /\ UNCHANGED <<database, active, clock>>

(* 5. Whether the batch will carry the introduction statement.             *)
GradeProgress(r) ==
  /\ At(r, "grade_progress")
  /\ LET w == WordOf[req[r].card]
         rel == session[req[r].session].release
     IN  req' = [req EXCEPT ![r].pc = "grade_commit",
           ![r].introducing =
              /\ StageIs(wordProgress[req[r].user][w], "IN_PROGRESS")
              /\ CanonicalCardKeys(rel, LocalKey[rel][w]) # {}]
  /\ UNCHANGED <<database, active, clock>>

(* Fault: the statement does not count the graded cards.                   *)
FlipWithoutCount(u, w, rel) ==
  wordProgress' = [wordProgress EXCEPT ![u][w] =
                     [stage |-> "INTRODUCED", release |-> rel]]

(* sqlFlipWordIntroduced, evaluated after the card_state upsert.           *)
FlipWordIntroduced(u, w, rel) ==
  IF /\ StageIs(wordProgress[u][w], "IN_PROGRESS")
     /\ \A c \in CanonicalCardKeys(rel, LocalKey[rel][w]) : cardState'[u][c] # NONE
  THEN wordProgress' = [wordProgress EXCEPT ![u][w] =
                          [stage |-> "INTRODUCED", release |-> rel]]
  ELSE UNCHANGED wordProgress

GradeRow(r) ==
  [user |-> req[r].user, session |-> req[r].session, card |-> req[r].card,
   before |-> req[r].before, reviewedAt |-> req[r].now, rowid |-> rows + 1,
   undone |-> FALSE]

(* Fault: the insert replaces a row of the same event_id.                  *)
NeverTaken(e) == FALSE

(* The insert violates the primary key event_id.                           *)
EventIdTaken(e) == reviewLog[e] # NONE

(* 6. The atomic batch.  A taken event_id rolls all of it back.            *)
GradeCommit(r) ==
  /\ At(r, "grade_commit")
  /\ ~EventIdTaken(req[r].event)
  /\ LET u == req[r].user
         s == req[r].session
         e == req[r].event
         c == req[r].card
     IN  /\ reviewLog' = [reviewLog EXCEPT ![e] = GradeRow(r)]
         /\ rows' = rows + 1
         /\ cardState' = [cardState EXCEPT ![u][c] = e]
         /\ session' = [session EXCEPT ![s].position = @ + 1]
         /\ IF req[r].introducing
            THEN FlipWordIntroduced(u, WordOf[c], session[s].release)
            ELSE UNCHANGED wordProgress
  /\ Answer(r, GradeRow(r))
  /\ UNCHANGED <<active, clock>>

GradeConflict(r) ==
  /\ At(r, "grade_commit")
  /\ EventIdTaken(req[r].event)
  /\ req' = [req EXCEPT ![r].pc = "grade_reread"]
  /\ UNCHANGED <<database, active, clock>>

Winner(r) == reviewLog[req[r].event]

(* 7. After a conflict: the caller's winner, or 409 REVIEW_EVENT_ID_TAKEN. *)
GradeReread(r) ==
  /\ At(r, "grade_reread")
  /\ \/ /\ OwnRow(req[r].user, req[r].event)
        /\ Answer(r, Winner(r))
     \/ /\ ~OwnRow(req[r].user, req[r].event)
        /\ Finish(r)
  /\ UNCHANGED <<database, active, clock>>

------------------------------------------------------------------------------
(* Undo.                                                                   *)

(* The row must be the caller's and not undone; else 404 or 409 at once.   *)
UndoStart(r, u, e) ==
  /\ Free(r)
  /\ OwnRow(u, e)
  /\ ~reviewLog[e].undone
  /\ req' = [req EXCEPT ![r] =
       [Idle EXCEPT !.pc = "undo_latest", !.user = u, !.event = e]]
  /\ UNCHANGED <<database, active, clock>>

UndoLatest(r) ==
  /\ At(r, "undo_latest")
  /\ \/ /\ IsLatest(req[r].user, req[r].event)
        /\ req' = [req EXCEPT ![r].pc = "undo_session"]
     \/ /\ ~IsLatest(req[r].user, req[r].event)
        /\ Finish(r)
  /\ UNCHANGED <<database, active, clock>>

UndoSession(r) ==
  /\ At(r, "undo_session")
  /\ LET s == reviewLog[req[r].event].session
     IN  \/ /\ OwnSession(req[r].user, s)
            /\ req' = [req EXCEPT ![r].pc = "undo_progress"]
         \/ /\ ~OwnSession(req[r].user, s)
            /\ Finish(r)
  /\ UNCHANGED <<database, active, clock>>

CompletenessRelease(progress, rel) ==
  IF progress.release # NONE THEN progress.release ELSE rel

(* The cards whose completeness decides the revert; {} when the batch will *)
(* not carry the revert statement.  The word is looked up in the release   *)
(* that introduced it under the name of the session's release.             *)
UndoProgress(r) ==
  /\ At(r, "undo_progress")
  /\ LET row == reviewLog[req[r].event]
         w == WordOf[row.card]
         rel == session[row.session].release
         progress == wordProgress[req[r].user][w]
     IN  req' = [req EXCEPT ![r].pc = "undo_commit",
           ![r].keys = IF StageIs(progress, "INTRODUCED")
                       THEN CanonicalCardKeys(CompletenessRelease(progress, rel), LocalKey[rel][w])
                       ELSE {}]
  /\ UNCHANGED <<database, active, clock>>

(* Fault: the state is deleted also when there is one to restore.          *)
DeletedState(u, row) == NONE

(* A first grade deletes the card_state; else UPDATE restores a row that   *)
(* still exists.                                                           *)
RestoredState(u, row) ==
  IF row.before = NONE \/ cardState[u][row.card] = NONE THEN NONE ELSE row.before

(* Fault: the word is reopened only when none of its cards is left.        *)
RevertWhenNoneLeft(u, w, keys) ==
  IF /\ StageIs(wordProgress[u][w], "INTRODUCED")
     /\ \A c \in keys : cardState'[u][c] = NONE
  THEN wordProgress' = [wordProgress EXCEPT ![u][w] =
                          [stage |-> "IN_PROGRESS", release |-> NONE]]
  ELSE UNCHANGED wordProgress

(* sqlRevertWordIntroduced, evaluated after the delete or restore.         *)
RevertWordIntroduced(u, w, keys) ==
  IF /\ StageIs(wordProgress[u][w], "INTRODUCED")
     /\ \E c \in keys : cardState'[u][c] = NONE
  THEN wordProgress' = [wordProgress EXCEPT ![u][w] =
                          [stage |-> "IN_PROGRESS", release |-> NONE]]
  ELSE UNCHANGED wordProgress

(* Fault: a second undo of the same event takes the first one back.        *)
ToggledRow(row) == [row EXCEPT !.undone = ~@]

UndoneRow(row) == [row EXCEPT !.undone = TRUE]

(* Fault: the position is not kept from going below zero.                  *)
RewoundPastStart(position) == position - 1

Rewound(position) == IF position = 0 THEN 0 ELSE position - 1

UndoCommit(r) ==
  /\ At(r, "undo_commit")
  /\ LET u == req[r].user
         e == req[r].event
         row == reviewLog[e]
     IN  /\ reviewLog' = [reviewLog EXCEPT ![e] = UndoneRow(row)]
         /\ cardState' = [cardState EXCEPT ![u][row.card] = RestoredState(u, row)]
         /\ session' = [session EXCEPT ![row.session].position = Rewound(@)]
         /\ RevertWordIntroduced(u, WordOf[row.card], req[r].keys)
  /\ Finish(r)
  /\ UNCHANGED <<rows, active, clock>>

------------------------------------------------------------------------------
(* Patching a word's progress: WORD_PRESENTED and FAMILIARITY_SET.  The    *)
(* familiarity value itself is left out.                                   *)

GroupWords(s) == {WordOf[session[s].queue[i]] : i \in DOMAIN session[s].queue}

(* A recorded id is a replay, which writes nothing; a word outside of the  *)
(* group is refused.                                                       *)
PatchStart(r, u, s, w, p) ==
  /\ Free(r)
  /\ OwnSession(u, s)
  /\ p \notin session[s].patchIds
  /\ w \in GroupWords(s)
  /\ req' = [req EXCEPT ![r] = [Idle EXCEPT
       !.pc = "patch_commit", !.user = u, !.session = s, !.word = w,
       !.patchId = p, !.patchIds = session[s].patchIds]]
  /\ UNCHANGED <<database, active, clock>>

(* One batch: the progress upsert, and the queue snapshot as it was read   *)
(* with the id added to it.                                                *)
PatchCommit(r) ==
  /\ At(r, "patch_commit")
  /\ LET u == req[r].user
         w == req[r].word
     IN  wordProgress' = [wordProgress EXCEPT ![u][w] =
           IF @ = NONE THEN [stage |-> "IN_PROGRESS", release |-> NONE] ELSE @]
  /\ session' = [session EXCEPT ![req[r].session].patchIds =
                   req[r].patchIds \union {req[r].patchId}]
  /\ Finish(r)
  /\ UNCHANGED <<reviewLog, cardState, rows, active, clock>>

------------------------------------------------------------------------------
(* The environment: another release is activated, time passes.             *)

Activate(rel) ==
  /\ rel # active
  /\ active' = rel
  /\ UNCHANGED <<database, clock, req>>

Tick ==
  /\ clock < MaxTime
  /\ clock' = clock + 1
  /\ UNCHANGED <<database, active, req>>

CreateNext(r) ==
  \/ \E u \in Users, s \in Sessions : CreateStart(r, u, s)
  \/ CreateNewWords(r)
  \/ CreateReview(r)
  \/ CreateQuickTestWords(r)
  \/ CreateQuickTest(r)

GradeNext(r) ==
  \/ \E u \in Users, e \in Events : GradeReplay(r, u, e)
  \/ \E u \in Users, s \in Sessions, c \in Cards, e \in Events : GradeStart(r, u, s, c, e)
  \/ GradeSession(r)
  \/ GradeNow(r)
  \/ GradeState(r)
  \/ GradeProgress(r)
  \/ GradeCommit(r)
  \/ GradeConflict(r)
  \/ GradeReread(r)

UndoNext(r) ==
  \/ \E u \in Users, e \in Events : UndoStart(r, u, e)
  \/ UndoLatest(r)
  \/ UndoSession(r)
  \/ UndoProgress(r)
  \/ UndoCommit(r)

PatchNext(r) ==
  \/ \E u \in Users, s \in Sessions, w \in Words, p \in PatchIds : PatchStart(r, u, s, w, p)
  \/ PatchCommit(r)

Next ==
  \/ \E r \in Requests : CreateNext(r) \/ GradeNext(r) \/ UndoNext(r) \/ PatchNext(r)
  \/ \E rel \in Releases : Activate(rel)
  \/ Tick

Spec == Init /\ [][Next]_vars

(***************************************************************************)
(* The discipline of a client that waits for its answers: of a user's      *)
(* requests that can still write, at most one grade event or one undo is   *)
(* in flight.  A retry may run beside the request it repeats, and a        *)
(* request whose event is committed no longer counts, so late duplicates   *)
(* are everywhere.                                                         *)
(***************************************************************************)
Live(r) ==
  \/ req[r].pc \in UndoPcs
  \/ req[r].pc \in GradePcs /\ reviewLog[req[r].event] = NONE

OneAtATime ==
  \A q, r \in Requests :
    (q # r /\ Live(q) /\ Live(r) /\ req[q].user = req[r].user) =>
      /\ req[q].pc \in GradePcs
      /\ req[r].pc \in GradePcs
      /\ req[q].event = req[r].event

(* Creations, patches, activations and time do not touch what it counts.   *)
SerialNext ==
  \/ \E r \in Requests : CreateNext(r) \/ PatchNext(r)
  \/ \E r \in Requests : (GradeNext(r) \/ UndoNext(r)) /\ OneAtATime'
  \/ \E rel \in Releases : Activate(rel)
  \/ Tick

SerialSpec == Init /\ [][SerialNext]_vars

------------------------------------------------------------------------------
(* Properties of Spec: whatever the interleaving.                          *)

(* The log is append-only: a row never disappears or changes, except that  *)
(* it is marked undone, once (undo.ts:10, study.ts:251).                   *)
LogAppendOnly ==
  [][\A e \in Events : reviewLog[e] # NONE =>
       reviewLog'[e] \in {reviewLog[e], [reviewLog[e] EXCEPT !.undone = TRUE]}]_vars

(* A position only moves forward by one, together with a new row of its    *)
(* session: a duplicate grade that loses the race for its event_id does    *)
(* not skip a card (grade.ts:118-131).                                     *)
AdvancesWithRow ==
  [][\A s \in Sessions :
       (session[s] # NONE /\ session'[s].position > session[s].position) =>
          /\ session'[s].position = session[s].position + 1
          /\ \E e \in Events : /\ reviewLog[e] = NONE
                               /\ reviewLog'[e] # NONE
                               /\ reviewLog'[e].session = s]_vars

(* A grade answered with success tells the caller of a row of its own, as  *)
(* the log holds it: the loser of a race reports the winner's outcome, and *)
(* an event_id of another user is never answered with that user's row.     *)
AnswersMatchLog ==
  \A r \in Requests : req[r].pc = "answered" =>
    /\ reviewLog[req[r].event] # NONE
    /\ reviewLog[req[r].event].user = req[r].user
    /\ reviewLog[req[r].event].card = req[r].card
    /\ reviewLog[req[r].event].before = req[r].before

(* Every stored card_state was computed by a grade of that user and card.  *)
StateHasRow ==
  \A u \in Users, c \in Cards : cardState[u][c] # NONE =>
    /\ reviewLog[cardState[u][c]] # NONE
    /\ reviewLog[cardState[u][c]].user = u
    /\ reviewLog[cardState[u][c]].card = c

(* What belongs to a user changes only in a step of a request of that user.*)
UserIsolation ==
  [][\A u \in Users :
       (\/ cardState'[u] # cardState[u]
        \/ wordProgress'[u] # wordProgress[u]
        \/ \E s \in Sessions : session[s] # NONE /\ session[s].user = u
                               /\ session'[s] # session[s]
        \/ \E e \in Events : OwnRow(u, e) /\ reviewLog'[e] # reviewLog[e])
       => \E r \in Requests : req[r].user = u /\ req'[r] # req[r]]_vars

(* A word becomes INTRODUCED only when every active card of the release    *)
(* recorded with it is graded at that moment (grade.ts:107-110).           *)
IntroducedWhenComplete ==
  [][\A u \in Users, w \in Words :
       (StageIs(wordProgress'[u][w], "INTRODUCED") /\ wordProgress'[u][w] # wordProgress[u][w]) =>
          \A c \in ActiveCards[wordProgress'[u][w].release] :
             WordOf[c] = w => cardState'[u][c] # NONE]_vars

------------------------------------------------------------------------------
(* Properties of SerialSpec.                                               *)

RowsOf(s) == {e \in Events : /\ reviewLog[e] # NONE
                             /\ reviewLog[e].session = s
                             /\ ~reviewLog[e].undone}

(* What a session has graded is exactly the part of its queue before the   *)
(* position, one row that is not undone for each card and in that order.   *)
GradedPrefix ==
  \A s \in Sessions : session[s] # NONE =>
    /\ session[s].position = Cardinality(RowsOf(s))
    /\ \A e \in RowsOf(s) :
         reviewLog[e].card =
           session[s].queue[Cardinality({d \in RowsOf(s) :
                                           reviewLog[d].rowid <= reviewLog[e].rowid})]

(* card_state is what replaying the log without its undone rows gives: the *)
(* after_state of the newest such row of the card, absent if there is none.*)
StateIsNewestGrade ==
  \A u \in Users, c \in Cards :
    LET grades == {e \in UnUndone(u) : reviewLog[e].card = c}
    IN  IF grades = {} THEN cardState[u][c] = NONE
        ELSE /\ cardState[u][c] \in grades
             /\ \A e \in grades :
                  reviewLog[e].rowid <= reviewLog[cardState[u][c]].rowid

(* An INTRODUCED word has a card_state for every active card of the        *)
(* release it was introduced in (spec 8.3, undo.ts:6-9).                   *)
IntroducedIsComplete ==
  \A u \in Users, w \in Words : StageIs(wordProgress[u][w], "INTRODUCED") =>
    \A c \in ActiveCards[wordProgress[u][w].release] :
      WordOf[c] = w => cardState[u][c] # NONE
=============================================================================
