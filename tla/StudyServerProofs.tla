-------------------------- MODULE StudyServerProofs --------------------------
(***************************************************************************)
(* What StudyServer keeps for any number of users, sessions, cards, events *)
(* and requests.                                                           *)
(*   - IInv holds whatever the order of the requests: what a request under *)
(*     way still knows when its next statement runs.  The rows it has read *)
(*     may have changed since, but not what the statement relies on.       *)
(*   - SerialInv holds when no user has two requests under way: a user's   *)
(*     remaining rows are then a stack, in rowid order, and what a request *)
(*     has read still stands when it commits.                              *)
(*   - From SerialInv, the database implements ReviewHistory: every step   *)
(*     is an Open, a Grade, an Undo or is not seen.                        *)
(* Last, the counts of Statistics and the learner's calendar.              *)
(***************************************************************************)
EXTENDS StudyRefinement, Statistics, FiniteSetTheorems, SequenceTheorems,
        WellFoundedInduction, TLAPS

CreatePcs == {"create_queue", "create_quick_test"}

(* e names no row, or one of the log's rows for that user and card.        *)
HasRow(u, c, e, log) ==
  e # NONE => /\ e \in Events
              /\ log[e] # NONE
              /\ log[e].user = u
              /\ log[e].card = c

(* What request x relies on, in the log and the sessions.                  *)
Grounded(x, log, ses) ==
  /\ x.pc # "idle" => x.user \in Users
  /\ x.pc \in GradePcs =>
       /\ x.event \in Events /\ x.card \in Cards /\ x.session \in Sessions
       /\ ses[x.session] # NONE
       /\ x.pc # "grade_session" => ses[x.session].user = x.user
       /\ HasRow(x.user, x.card, x.before, log)
  /\ x.pc = "grade_reread" => log[x.event] # NONE
  /\ x.pc \in UndoPcs =>
       /\ x.event \in Events /\ x.session = NONE
       /\ log[x.event] # NONE
       /\ log[x.event].user = x.user
  /\ x.pc = "patch_commit" =>
       /\ x.session \in Sessions /\ x.word \in Words /\ x.patchId \in PatchIds
       /\ ses[x.session] # NONE
       /\ ses[x.session].user = x.user
  /\ x.pc \in CreatePcs => x.session \in Sessions /\ x.release \in Releases
  /\ x.pc = "answered" =>
       /\ x.event \in Events
       /\ log[x.event] # NONE
       /\ log[x.event].user = x.user
       /\ log[x.event].card = x.card
       /\ log[x.event].before = x.before

(* The id a creation has drawn is its own, and not in the table yet.       *)
FreshSessionIds ==
  \A r \in Requests : req[r].pc \in CreatePcs =>
    /\ session[req[r].session] = NONE
    /\ \A q \in Requests : q # r => req[q].session # req[r].session

(* A row was written for a session of its user, over a state of its card.  *)
RowsGrounded(log, ses) ==
  \A e \in Events : log[e] # NONE =>
    /\ ses[log[e].session] # NONE
    /\ ses[log[e].session].user = log[e].user
    /\ HasRow(log[e].user, log[e].card, log[e].before, log)

StatesGrounded(states, log) ==
  \A u \in Users, c \in Cards : HasRow(u, c, states[u][c], log)

IInv ==
  /\ TypeOK
  /\ \A r \in Requests : Grounded(req[r], reviewLog, session)
  /\ FreshSessionIds
  /\ RowsGrounded(reviewLog, session)
  /\ StatesGrounded(cardState, reviewLog)

(* Rows are added and marked, never taken away or rewritten.               *)
Keeps ==
  /\ \A e \in Events : reviewLog[e] # NONE =>
       reviewLog'[e] \in {reviewLog[e], [reviewLog[e] EXCEPT !.undone = TRUE]}
  /\ \A s \in Sessions : session[s] # NONE =>
       session'[s] # NONE /\ session'[s].user = session[s].user

------------------------------------------------------------------------------
(* Helpers.                                                                *)

LEMMA ArrangementIsSequence ==
  ASSUME NEW S \in SUBSET Cards, NEW q \in Arrangements(S)
  PROVE  q \in Seq(Cards)
<1>1. IsFiniteSet(S)
  BY FS_Subset, ContentAssumption
<1>2. Cardinality(S) \in Nat
  BY <1>1, FS_CardinalityType
<1>3. q \in [1..Cardinality(S) -> S]
  BY DEF Arrangements
<1>4. QED
  BY <1>2, <1>3

LEMMA IdleType == Idle \in Request /\ Idle.pc = "idle" /\ Idle.session = NONE
BY DEF Idle, Request, Pcs

LEMMA LogRowMarked ==
  ASSUME NEW row \in LogRow
  PROVE  /\ UndoneRow(row) \in LogRow
         /\ UndoneRow(row).user = row.user
         /\ UndoneRow(row).session = row.session
         /\ UndoneRow(row).card = row.card
         /\ UndoneRow(row).before = row.before
BY DEF LogRow, UndoneRow

(* A row that is kept is still the row of the same grade.                  *)
LEMMA KeptRow ==
  ASSUME TypeOK, Keeps, NEW e \in Events, reviewLog[e] # NONE
  PROVE  /\ reviewLog[e] \in LogRow
         /\ reviewLog'[e] # NONE
         /\ reviewLog'[e].user = reviewLog[e].user
         /\ reviewLog'[e].session = reviewLog[e].session
         /\ reviewLog'[e].card = reviewLog[e].card
         /\ reviewLog'[e].before = reviewLog[e].before
<1>1. reviewLog[e] \in LogRow
  BY DEF TypeOK
<1>2. reviewLog'[e] = reviewLog[e] \/ reviewLog'[e] = UndoneRow(reviewLog[e])
  BY DEF Keeps, UndoneRow
<1>3. QED
  BY <1>1, <1>2, LogRowMarked, NoneAssumption

LEMMA HasRowKept ==
  ASSUME TypeOK, Keeps, NEW u, NEW c, NEW e, HasRow(u, c, e, reviewLog)
  PROVE  HasRow(u, c, e, reviewLog')
BY KeptRow DEF HasRow

LEMMA GroundedKept ==
  ASSUME TypeOK, Keeps, NEW x \in Request, Grounded(x, reviewLog, session)
  PROVE  Grounded(x, reviewLog', session')
<1>1. x.pc \in GradePcs => HasRow(x.user, x.card, x.before, reviewLog')
  BY HasRowKept DEF Grounded
<1>2. \A e \in Events : reviewLog[e] # NONE =>
         /\ reviewLog'[e] # NONE
         /\ reviewLog'[e].user = reviewLog[e].user
         /\ reviewLog'[e].card = reviewLog[e].card
         /\ reviewLog'[e].before = reviewLog[e].before
  BY KeptRow
<1>3. \A s \in Sessions : session[s] # NONE =>
         session'[s] # NONE /\ session'[s].user = session[s].user
  BY DEF Keeps
<1>4. x.pc = "grade_reread" => x.event \in Events
  BY DEF Grounded, GradePcs
<1>5. QED
  BY <1>1, <1>2, <1>3, <1>4 DEF Grounded

LEMMA UnchangedKeeps ==
  ASSUME UNCHANGED <<reviewLog, session>>
  PROVE  Keeps
BY DEF Keeps

(* One slot changes: the invariant on requests is about its new content.   *)
LEMMA SlotStep ==
  ASSUME IInv, Keeps, NEW r \in Requests, NEW x \in Request,
         req' = [req EXCEPT ![r] = x],
         Grounded(x, reviewLog', session')
  PROVE  /\ req' \in [Requests -> Request]
         /\ \A q \in Requests : Grounded(req'[q], reviewLog', session')
<1>1. req \in [Requests -> Request]
  BY DEF IInv, TypeOK
<1>2. \A q \in Requests : q # r => req'[q] = req[q]
  BY <1>1
<1>3. \A q \in Requests : Grounded(req[q], reviewLog', session')
  BY <1>1, GroundedKept DEF IInv
<1>4. QED
  BY <1>1, <1>2, <1>3

LEMMA FinishStep ==
  ASSUME IInv, Keeps, NEW r \in Requests, Finish(r)
  PROVE  /\ req' \in [Requests -> Request]
         /\ \A q \in Requests : Grounded(req'[q], reviewLog', session')
<1>1. Grounded(Idle, reviewLog', session')
  BY IdleType DEF Grounded, GradePcs, UndoPcs, CreatePcs
<1>2. QED
  BY <1>1, IdleType, SlotStep DEF Finish

(* An id drawn by a creation stays its own: a slot that takes another      *)
(* session takes one that is in the table.                                 *)
LEMMA FreshStep ==
  ASSUME IInv, NEW r \in Requests, NEW x \in Request,
         req' = [req EXCEPT ![r] = x],
         \A s \in Sessions : session[s] = NONE =>
            session'[s] = NONE \/ (s = req[r].session /\ x.pc \notin CreatePcs),
         \/ x.session = NONE
         \/ x.pc \notin CreatePcs /\ session[x.session] # NONE
         \/ /\ req[r].pc \in CreatePcs
            /\ x.session = req[r].session
         \/ /\ session[x.session] = NONE
            /\ \A q \in Requests : req[q].session # x.session,
         x.pc \in CreatePcs => x.session \in Sessions
  PROVE  FreshSessionIds'
<1> SUFFICES ASSUME NEW q \in Requests, req'[q].pc \in CreatePcs
             PROVE  /\ session'[req'[q].session] = NONE
                    /\ \A p \in Requests : p # q => req'[p].session # req'[q].session
  BY DEF FreshSessionIds
<1>1. /\ req'[r] = x
      /\ \A p \in Requests : p # r => req'[p] = req[p]
  BY DEF IInv, TypeOK
<1>2. \A p \in Requests : req[p].pc \in CreatePcs => req[p].session \in Sessions
  BY DEF IInv, Grounded
<1>3. \A p \in Requests : req[p].pc \in CreatePcs =>
         /\ session[req[p].session] = NONE
         /\ \A o \in Requests : o # p => req[o].session # req[p].session
  BY DEF IInv, FreshSessionIds
<1>4. CASE q = r
  <2>1. x.session \in Sessions /\ x.session # NONE
    BY <1>1, <1>4, NoneAssumption
  <2>2. session[x.session] = NONE
    BY <1>1, <1>3, <1>4, <2>1
  <2>3. session'[x.session] = NONE
    BY <1>1, <1>4, <2>1, <2>2
  <2>4. \A p \in Requests : p # r => req[p].session # x.session
    BY <1>1, <1>3, <1>4, <2>1
  <2>5. QED
    BY <1>1, <1>4, <2>3, <2>4
<1>5. CASE q # r
  <2>1. req'[q] = req[q] /\ req[q].pc \in CreatePcs
    BY <1>1, <1>5
  <2>2. /\ req[q].session \in Sessions
        /\ session[req[q].session] = NONE
        /\ \A o \in Requests : o # q => req[o].session # req[q].session
    BY <2>1, <1>2, <1>3
  <2>3. req[r].session # req[q].session
    BY <2>2, <1>5
  <2>4. session'[req[q].session] = NONE
    BY <2>2, <2>3
  <2>5. x.session # req[q].session
    BY <2>2, <2>3, NoneAssumption
  <2>6. QED
    BY <1>1, <2>1, <2>2, <2>4, <2>5
<1>6. QED
  BY <1>4, <1>5

(* A statement that only reads.                                            *)
LEMMA ReadStep ==
  ASSUME IInv, NEW r \in Requests, NEW x \in Request,
         req' = [req EXCEPT ![r] = x],
         UNCHANGED <<database, active, clock>>,
         Grounded(x, reviewLog, session),
         \/ x.session = NONE
         \/ x.pc \notin CreatePcs /\ session[x.session] # NONE
         \/ /\ req[r].pc \in CreatePcs
            /\ x.session = req[r].session
         \/ /\ session[x.session] = NONE
            /\ \A q \in Requests : req[q].session # x.session
  PROVE  IInv' /\ Keeps
<1>1. UNCHANGED <<reviewLog, cardState, wordProgress, session, rows, active, clock>>
  BY DEF database
<1>2. Keeps
  BY <1>1, UnchangedKeeps
<1>3. /\ req' \in [Requests -> Request]
      /\ \A q \in Requests : Grounded(req'[q], reviewLog', session')
  BY <1>1, <1>2, SlotStep
<1>4. TypeOK'
  BY <1>1, <1>3 DEF IInv, TypeOK
<1>5. x.pc \in CreatePcs => x.session \in Sessions
  BY DEF Grounded
<1>6. FreshSessionIds'
  BY <1>1, <1>5, FreshStep
<1>7. RowsGrounded(reviewLog', session') /\ StatesGrounded(cardState', reviewLog')
  BY <1>1 DEF IInv
<1>8. QED
  BY <1>2, <1>3, <1>4, <1>6, <1>7 DEF IInv

LEMMA RefusedStep ==
  ASSUME IInv, NEW r \in Requests, Finish(r), UNCHANGED <<database, active, clock>>
  PROVE  IInv' /\ Keeps
<1>1. Grounded(Idle, reviewLog, session)
  BY IdleType DEF Grounded, GradePcs, UndoPcs, CreatePcs
<1>2. req' = [req EXCEPT ![r] = Idle]
  BY DEF Finish
<1>3. QED
  BY <1>1, <1>2, IdleType, ReadStep

------------------------------------------------------------------------------
(* The statements that only read.                                          *)

LEMMA CreateStartStep ==
  ASSUME IInv, NEW r \in Requests, NEW u \in Users, NEW s \in Sessions, CreateStart(r, u, s)
  PROVE  IInv' /\ Keeps
<1> DEFINE x == [Idle EXCEPT !.pc = "create_queue", !.user = u, !.session = s,
                             !.release = active, !.now = clock]
<1>1. /\ req' = [req EXCEPT ![r] = x]
      /\ UNCHANGED <<database, active, clock>>
      /\ session[s] = NONE
      /\ \A q \in Requests : req[q].session # s
  BY DEF CreateStart
<1>2. x \in Request
  BY DEF IInv, TypeOK, Request, Pcs, Idle
<1>3. x.pc = "create_queue" /\ x.user = u /\ x.session = s /\ x.release \in Releases
  BY DEF IInv, TypeOK, Idle
<1> HIDE DEF x
<1>4. Grounded(x, reviewLog, session)
  BY <1>3 DEF Grounded, GradePcs, UndoPcs, CreatePcs
<1>5. QED
  BY <1>1, <1>2, <1>3, <1>4, ReadStep

LEMMA CreateQuickTestWordsStep ==
  ASSUME IInv, NEW r \in Requests, CreateQuickTestWords(r)
  PROVE  IInv' /\ Keeps
<1> DEFINE words == {w \in ReleaseWords[req[r].release] :
                       StageIs(wordProgress[req[r].user][w], "INTRODUCED")}
           x == [req[r] EXCEPT !.pc = "create_quick_test", !.words = words]
<1>1. /\ req' = [req EXCEPT ![r] = x]
      /\ UNCHANGED <<database, active, clock>>
      /\ req[r].pc = "create_queue"
      /\ req[r] \in Request
      /\ Grounded(req[r], reviewLog, session)
  BY DEF CreateQuickTestWords, At, IInv, TypeOK
<1>2. words \in SUBSET Words
  BY <1>1, ContentAssumption DEF Grounded, CreatePcs
<1> HIDE DEF words
<1>3. /\ x \in Request
      /\ x.pc = "create_quick_test" /\ x.user = req[r].user
      /\ x.session = req[r].session /\ x.release = req[r].release
  BY <1>1, <1>2 DEF Request, Pcs
<1> HIDE DEF x
<1>4. Grounded(x, reviewLog, session)
  BY <1>1, <1>3 DEF Grounded, GradePcs, UndoPcs, CreatePcs
<1>5. req[r].pc \in CreatePcs
  BY <1>1 DEF CreatePcs
<1>6. QED
  BY <1>1, <1>3, <1>4, <1>5, ReadStep

LEMMA AnswerStep ==
  ASSUME IInv, NEW r \in Requests, NEW u \in Users, NEW e \in Events, OwnRow(u, e),
         req' = [req EXCEPT ![r] = [Idle EXCEPT
           !.pc = "answered", !.user = u, !.event = e,
           !.card = reviewLog[e].card, !.before = reviewLog[e].before]],
         UNCHANGED <<database, active, clock>>
  PROVE  IInv' /\ Keeps
<1> DEFINE x == [Idle EXCEPT !.pc = "answered", !.user = u, !.event = e,
                   !.card = reviewLog[e].card, !.before = reviewLog[e].before]
<1>1. /\ reviewLog[e] \in LogRow
      /\ reviewLog[e] # NONE
      /\ reviewLog[e].user = u
  BY DEF IInv, TypeOK, OwnRow
<1>2. x \in Request
  BY <1>1 DEF Request, Pcs, Idle, LogRow
<1>3. /\ x.pc = "answered" /\ x.user = u /\ x.event = e /\ x.session = NONE
      /\ x.card = reviewLog[e].card /\ x.before = reviewLog[e].before
  BY DEF Idle
<1> HIDE DEF x
<1>4. Grounded(x, reviewLog, session)
  BY <1>1, <1>3 DEF Grounded, GradePcs, UndoPcs, CreatePcs
<1>5. req' = [req EXCEPT ![r] = x]
  BY DEF x
<1>6. QED
  BY <1>2, <1>3, <1>4, <1>5, ReadStep

LEMMA GradeReplayStep ==
  ASSUME IInv, NEW r \in Requests, NEW u \in Users, NEW e \in Events, GradeReplay(r, u, e)
  PROVE  IInv' /\ Keeps
BY AnswerStep DEF GradeReplay

LEMMA GradeStartStep ==
  ASSUME IInv, NEW r \in Requests, NEW u \in Users, NEW s \in Sessions,
         NEW c \in Cards, NEW e \in Events, GradeStart(r, u, s, c, e)
  PROVE  IInv' /\ Keeps
<1> DEFINE x == [Idle EXCEPT !.pc = "grade_session", !.user = u, !.session = s,
                             !.card = c, !.event = e]
<1>1. /\ req' = [req EXCEPT ![r] = x]
      /\ UNCHANGED <<database, active, clock>>
      /\ session[s] # NONE
  BY DEF GradeStart
<1>2. x \in Request
  BY DEF Request, Pcs, GradePcs, Idle
<1>3. /\ x.pc = "grade_session" /\ x.user = u /\ x.session = s
      /\ x.card = c /\ x.event = e /\ x.before = NONE
  BY DEF Idle
<1> HIDE DEF x
<1>4. Grounded(x, reviewLog, session)
  BY <1>1, <1>3 DEF Grounded, GradePcs, UndoPcs, CreatePcs, HasRow
<1>5. x.pc \notin CreatePcs
  BY <1>3 DEF CreatePcs
<1>6. QED
  BY <1>1, <1>2, <1>3, <1>4, <1>5, ReadStep

(* A grade that goes on keeps its user, session, card and event.           *)
LEMMA GradeMove ==
  ASSUME IInv, NEW r \in Requests, NEW x \in Request,
         req' = [req EXCEPT ![r] = x],
         UNCHANGED <<database, active, clock>>,
         req[r].pc \in GradePcs, x.pc \in GradePcs \ {"grade_session"},
         x.user = req[r].user, x.session = req[r].session,
         x.card = req[r].card, x.event = req[r].event,
         session[x.session].user = x.user,
         HasRow(x.user, x.card, x.before, reviewLog),
         x.pc = "grade_reread" => reviewLog[x.event] # NONE
  PROVE  IInv' /\ Keeps
<1>1. Grounded(req[r], reviewLog, session)
  BY DEF IInv
<1>2. x.pc \notin CreatePcs /\ session[x.session] # NONE
  BY <1>1 DEF Grounded, GradePcs, CreatePcs
<1>3. Grounded(x, reviewLog, session)
  BY <1>1 DEF Grounded, GradePcs, UndoPcs, CreatePcs
<1>4. QED
  BY <1>2, <1>3, ReadStep

LEMMA GradeSessionStep ==
  ASSUME IInv, NEW r \in Requests, GradeSession(r)
  PROVE  IInv' /\ Keeps
<1>1. CASE OwnSession(req[r].user, req[r].session)
           /\ req' = [req EXCEPT ![r].pc = "grade_now"]
  <2> DEFINE x == [req[r] EXCEPT !.pc = "grade_now"]
  <2>1. /\ req' = [req EXCEPT ![r] = x]
        /\ UNCHANGED <<database, active, clock>>
        /\ req[r].pc \in GradePcs
        /\ req[r] \in Request
        /\ Grounded(req[r], reviewLog, session)
    BY <1>1 DEF GradeSession, At, IInv, TypeOK, GradePcs
  <2>2. /\ x \in Request
        /\ x.pc = "grade_now" /\ x.user = req[r].user /\ x.session = req[r].session
        /\ x.card = req[r].card /\ x.event = req[r].event /\ x.before = req[r].before
    BY <2>1 DEF Request, Pcs, GradePcs
  <2> HIDE DEF x
  <2>3. x.pc \in GradePcs \ {"grade_session"} /\ x.pc # "grade_reread"
    BY <2>2 DEF GradePcs
  <2>4. session[x.session].user = x.user
    BY <1>1, <2>2 DEF OwnSession
  <2>5. HasRow(x.user, x.card, x.before, reviewLog)
    BY <2>1, <2>2 DEF Grounded
  <2>6. QED
    BY <2>1, <2>2, <2>3, <2>4, <2>5, GradeMove
<1>2. CASE Finish(r)
  BY <1>2, RefusedStep DEF GradeSession
<1>3. QED
  BY <1>1, <1>2 DEF GradeSession

LEMMA GradeNowStep ==
  ASSUME IInv, NEW r \in Requests, GradeNow(r)
  PROVE  IInv' /\ Keeps
<1> DEFINE y == [req[r] EXCEPT !.pc = "grade_state"]
           x == [y EXCEPT !.now = clock]
<1>1. /\ req' = [req EXCEPT ![r] = x]
      /\ UNCHANGED <<database, active, clock>>
      /\ req[r].pc = "grade_now"
      /\ req[r] \in Request
      /\ clock \in Nat
      /\ Grounded(req[r], reviewLog, session)
  BY DEF GradeNow, At, IInv, TypeOK
<1>2. /\ y \in Request
      /\ y.pc = "grade_state" /\ y.user = req[r].user /\ y.session = req[r].session
      /\ y.card = req[r].card /\ y.event = req[r].event /\ y.before = req[r].before
  BY <1>1 DEF Request, Pcs, GradePcs
<1> HIDE DEF y
<1>3. /\ x \in Request
      /\ x.pc = "grade_state" /\ x.user = req[r].user /\ x.session = req[r].session
      /\ x.card = req[r].card /\ x.event = req[r].event /\ x.before = req[r].before
  BY <1>1, <1>2 DEF Request
<1> HIDE DEF x
<1>4. /\ req[r].pc \in GradePcs
      /\ x.pc \in GradePcs \ {"grade_session"} /\ x.pc # "grade_reread"
  BY <1>1, <1>3 DEF GradePcs
<1>5. /\ session[x.session].user = x.user
      /\ HasRow(x.user, x.card, x.before, reviewLog)
  BY <1>1, <1>3, <1>4 DEF Grounded
<1>6. QED
  BY <1>1, <1>3, <1>4, <1>5, GradeMove

LEMMA GradeStateStep ==
  ASSUME IInv, NEW r \in Requests, GradeState(r)
  PROVE  IInv' /\ Keeps
<1> DEFINE before == cardState[req[r].user][req[r].card]
           y == [req[r] EXCEPT !.pc = "grade_progress"]
           x == [y EXCEPT !.before = before]
<1>1. /\ req' = [req EXCEPT ![r] = x]
      /\ UNCHANGED <<database, active, clock>>
      /\ req[r].pc = "grade_state"
      /\ req[r] \in Request
      /\ Grounded(req[r], reviewLog, session)
  BY DEF GradeState, At, IInv, TypeOK
<1>2. req[r].pc \in GradePcs /\ req[r].user \in Users /\ req[r].card \in Cards
  BY <1>1 DEF Grounded, GradePcs
<1>3. /\ before \in Events \union {NONE}
      /\ HasRow(req[r].user, req[r].card, before, reviewLog)
  BY <1>2 DEF IInv, TypeOK, StatesGrounded
<1> HIDE DEF before
<1>4. /\ y \in Request
      /\ y.pc = "grade_progress" /\ y.user = req[r].user /\ y.session = req[r].session
      /\ y.card = req[r].card /\ y.event = req[r].event
  BY <1>1 DEF Request, Pcs, GradePcs
<1> HIDE DEF y
<1>5. /\ x \in Request
      /\ x.pc = "grade_progress" /\ x.user = req[r].user /\ x.session = req[r].session
      /\ x.card = req[r].card /\ x.event = req[r].event /\ x.before = before
  BY <1>3, <1>4 DEF Request
<1> HIDE DEF x
<1>6. x.pc \in GradePcs \ {"grade_session"} /\ x.pc # "grade_reread"
  BY <1>5 DEF GradePcs
<1>7. session[x.session].user = x.user
  BY <1>1, <1>2, <1>5 DEF Grounded
<1>8. QED
  BY <1>1, <1>2, <1>3, <1>5, <1>6, <1>7, GradeMove

LEMMA GradeProgressStep ==
  ASSUME IInv, NEW r \in Requests, GradeProgress(r)
  PROVE  IInv' /\ Keeps
<1> DEFINE w == WordOf[req[r].card]
           rel == session[req[r].session].release
           flag == /\ StageIs(wordProgress[req[r].user][w], "IN_PROGRESS")
                   /\ CanonicalCardKeys(rel, LocalKey[rel][w]) # {}
           y == [req[r] EXCEPT !.pc = "grade_commit"]
           x == [y EXCEPT !.introducing = flag]
<1>1. /\ req' = [req EXCEPT ![r] = x]
      /\ UNCHANGED <<database, active, clock>>
      /\ req[r].pc = "grade_progress"
      /\ req[r] \in Request
      /\ Grounded(req[r], reviewLog, session)
  BY DEF GradeProgress, At, IInv, TypeOK
<1>2. flag \in BOOLEAN
  BY DEF StageIs
<1> HIDE DEF flag
<1>3. /\ y \in Request
      /\ y.pc = "grade_commit" /\ y.user = req[r].user /\ y.session = req[r].session
      /\ y.card = req[r].card /\ y.event = req[r].event /\ y.before = req[r].before
  BY <1>1 DEF Request, Pcs, GradePcs
<1> HIDE DEF y
<1>4. /\ x \in Request
      /\ x.pc = "grade_commit" /\ x.user = req[r].user /\ x.session = req[r].session
      /\ x.card = req[r].card /\ x.event = req[r].event /\ x.before = req[r].before
  BY <1>2, <1>3 DEF Request
<1> HIDE DEF x
<1>5. /\ req[r].pc \in GradePcs
      /\ x.pc \in GradePcs \ {"grade_session"} /\ x.pc # "grade_reread"
  BY <1>1, <1>4 DEF GradePcs
<1>6. /\ session[x.session].user = x.user
      /\ HasRow(x.user, x.card, x.before, reviewLog)
  BY <1>1, <1>4, <1>5 DEF Grounded
<1>7. QED
  BY <1>1, <1>4, <1>5, <1>6, GradeMove

LEMMA GradeConflictStep ==
  ASSUME IInv, NEW r \in Requests, GradeConflict(r)
  PROVE  IInv' /\ Keeps
<1> DEFINE x == [req[r] EXCEPT !.pc = "grade_reread"]
<1>1. /\ req' = [req EXCEPT ![r] = x]
      /\ UNCHANGED <<database, active, clock>>
      /\ req[r].pc = "grade_commit"
      /\ req[r] \in Request
      /\ reviewLog[req[r].event] # NONE
      /\ Grounded(req[r], reviewLog, session)
  BY DEF GradeConflict, EventIdTaken, At, IInv, TypeOK
<1>2. /\ x \in Request
      /\ x.pc = "grade_reread" /\ x.user = req[r].user /\ x.session = req[r].session
      /\ x.card = req[r].card /\ x.event = req[r].event /\ x.before = req[r].before
  BY <1>1 DEF Request, Pcs, GradePcs
<1> HIDE DEF x
<1>3. req[r].pc \in GradePcs /\ x.pc \in GradePcs \ {"grade_session"}
  BY <1>1, <1>2 DEF GradePcs
<1>4. /\ session[x.session].user = x.user
      /\ HasRow(x.user, x.card, x.before, reviewLog)
  BY <1>1, <1>2, <1>3 DEF Grounded
<1>5. QED
  BY <1>1, <1>2, <1>3, <1>4, GradeMove

LEMMA GradeRereadStep ==
  ASSUME IInv, NEW r \in Requests, GradeReread(r)
  PROVE  IInv' /\ Keeps
<1>1. UNCHANGED <<database, active, clock>>
  BY DEF GradeReread
<1>2. CASE OwnRow(req[r].user, req[r].event) /\ Answer(r, Winner(r))
  <2>1. Grounded(req[r], reviewLog, session) /\ req[r].pc \in GradePcs
    BY DEF IInv, GradeReread, At, GradePcs
  <2>2. req[r].user \in Users /\ req[r].event \in Events
    BY <2>1 DEF Grounded, GradePcs
  <2>3. QED
    BY <1>1, <1>2, <2>2, AnswerStep DEF Answer, Winner
<1>3. CASE Finish(r)
  BY <1>1, <1>3, RefusedStep
<1>4. QED
  BY <1>2, <1>3 DEF GradeReread

(* An undo that goes on keeps its user and its event.                      *)
LEMMA UndoMove ==
  ASSUME IInv, NEW r \in Requests, NEW x \in Request,
         req' = [req EXCEPT ![r] = x],
         UNCHANGED <<database, active, clock>>,
         x.pc \in UndoPcs, x.session = NONE,
         x.user \in Users, x.event \in Events, OwnRow(x.user, x.event)
  PROVE  IInv' /\ Keeps
<1>1. Grounded(x, reviewLog, session)
  BY DEF Grounded, GradePcs, UndoPcs, CreatePcs, OwnRow
<1>2. QED
  BY <1>1, ReadStep

LEMMA UndoStartStep ==
  ASSUME IInv, NEW r \in Requests, NEW u \in Users, NEW e \in Events, UndoStart(r, u, e)
  PROVE  IInv' /\ Keeps
<1> DEFINE x == [Idle EXCEPT !.pc = "undo_latest", !.user = u, !.event = e]
<1>1. /\ req' = [req EXCEPT ![r] = x]
      /\ UNCHANGED <<database, active, clock>>
      /\ OwnRow(u, e)
  BY DEF UndoStart
<1>2. /\ x \in Request
      /\ x.pc = "undo_latest" /\ x.user = u /\ x.event = e /\ x.session = NONE
  BY DEF Request, Pcs, UndoPcs, Idle
<1> HIDE DEF x
<1>3. x.pc \in UndoPcs
  BY <1>2 DEF UndoPcs
<1>4. QED
  BY <1>1, <1>2, <1>3, UndoMove

LEMMA UndoLatestStep ==
  ASSUME IInv, NEW r \in Requests, UndoLatest(r)
  PROVE  IInv' /\ Keeps
<1> DEFINE x == [req[r] EXCEPT !.pc = "undo_session"]
<1>1. UNCHANGED <<database, active, clock>>
  BY DEF UndoLatest
<1>2. CASE req' = [req EXCEPT ![r] = x]
  <2>1. /\ req[r].pc \in UndoPcs
        /\ req[r] \in Request
        /\ Grounded(req[r], reviewLog, session)
    BY DEF UndoLatest, At, IInv, TypeOK, UndoPcs
  <2>2. /\ x \in Request
        /\ x.pc = "undo_session" /\ x.user = req[r].user
        /\ x.event = req[r].event /\ x.session = req[r].session
    BY <2>1 DEF Request, Pcs, UndoPcs
  <2> HIDE DEF x
  <2>3. x.pc \in UndoPcs
    BY <2>2 DEF UndoPcs
  <2>4. /\ x.session = NONE /\ x.user \in Users /\ x.event \in Events
        /\ OwnRow(x.user, x.event)
    BY <2>1, <2>2 DEF Grounded, OwnRow, UndoPcs
  <2>5. QED
    BY <1>1, <1>2, <2>2, <2>3, <2>4, UndoMove
<1>3. CASE Finish(r)
  BY <1>1, <1>3, RefusedStep
<1>4. QED
  BY <1>2, <1>3 DEF UndoLatest

LEMMA UndoSessionStep ==
  ASSUME IInv, NEW r \in Requests, UndoSession(r)
  PROVE  IInv' /\ Keeps
<1> DEFINE x == [req[r] EXCEPT !.pc = "undo_progress"]
<1>1. UNCHANGED <<database, active, clock>>
  BY DEF UndoSession
<1>2. CASE req' = [req EXCEPT ![r] = x]
  <2>1. /\ req[r].pc \in UndoPcs
        /\ req[r] \in Request
        /\ Grounded(req[r], reviewLog, session)
    BY DEF UndoSession, At, IInv, TypeOK, UndoPcs
  <2>2. /\ x \in Request
        /\ x.pc = "undo_progress" /\ x.user = req[r].user
        /\ x.event = req[r].event /\ x.session = req[r].session
    BY <2>1 DEF Request, Pcs, UndoPcs
  <2> HIDE DEF x
  <2>3. x.pc \in UndoPcs
    BY <2>2 DEF UndoPcs
  <2>4. /\ x.session = NONE /\ x.user \in Users /\ x.event \in Events
        /\ OwnRow(x.user, x.event)
    BY <2>1, <2>2 DEF Grounded, OwnRow, UndoPcs
  <2>5. QED
    BY <1>1, <1>2, <2>2, <2>3, <2>4, UndoMove
<1>3. CASE Finish(r)
  BY <1>1, <1>3, RefusedStep
<1>4. QED
  BY <1>2, <1>3 DEF UndoSession

LEMMA UndoProgressStep ==
  ASSUME IInv, NEW r \in Requests, UndoProgress(r)
  PROVE  IInv' /\ Keeps
<1> DEFINE row == reviewLog[req[r].event]
           w == WordOf[row.card]
           rel == session[row.session].release
           progress == wordProgress[req[r].user][w]
           keys == IF StageIs(progress, "INTRODUCED")
                   THEN CanonicalCardKeys(CompletenessRelease(progress, rel), LocalKey[rel][w])
                   ELSE {}
           y == [req[r] EXCEPT !.pc = "undo_commit"]
           x == [y EXCEPT !.keys = keys]
<1>1. /\ req' = [req EXCEPT ![r] = x]
      /\ UNCHANGED <<database, active, clock>>
      /\ req[r].pc \in UndoPcs
      /\ req[r] \in Request
      /\ Grounded(req[r], reviewLog, session)
  BY DEF UndoProgress, At, IInv, TypeOK, UndoPcs
<1>2. /\ row \in LogRow
      /\ session[row.session] \in SessionRow
      /\ req[r].user \in Users
  <2>1. /\ req[r].event \in Events /\ reviewLog[req[r].event] # NONE /\ req[r].user \in Users
    BY <1>1 DEF Grounded, UndoPcs
  <2>2. row \in LogRow /\ session[row.session] # NONE
    BY <2>1 DEF IInv, TypeOK, RowsGrounded
  <2>3. row.session \in Sessions
    BY <2>2 DEF LogRow
  <2>4. session[row.session] \in SessionRow
    BY <2>2, <2>3 DEF IInv, TypeOK
  <2>5. QED
    BY <2>1, <2>2, <2>4
<1>3. row.card \in Cards /\ rel \in Releases
  BY <1>2 DEF LogRow, SessionRow
<1>4. w \in Words
  BY <1>3, ContentAssumption
<1>5. progress \in Progress \union {NONE}
  BY <1>2, <1>4 DEF IInv, TypeOK
<1>6. keys \in SUBSET Cards
  <2>1. CASE StageIs(progress, "INTRODUCED")
    <3>1. CompletenessRelease(progress, rel) \in Releases
      BY <1>3, <1>5, <2>1 DEF StageIs, CompletenessRelease, Progress
    <3>2. CanonicalCardKeys(CompletenessRelease(progress, rel), LocalKey[rel][w])
            \in SUBSET ActiveCards[CompletenessRelease(progress, rel)]
      BY DEF CanonicalCardKeys
    <3>3. QED
      BY <2>1, <3>1, <3>2, ContentAssumption
  <2>2. CASE ~StageIs(progress, "INTRODUCED")
    BY <2>2
  <2>3. QED
    BY <2>1, <2>2
<1> HIDE DEF keys
<1>7. /\ y \in Request
      /\ y.pc = "undo_commit" /\ y.user = req[r].user
      /\ y.event = req[r].event /\ y.session = req[r].session
  BY <1>1 DEF Request, Pcs, UndoPcs
<1> HIDE DEF y
<1>8. /\ x \in Request
      /\ x.pc = "undo_commit" /\ x.user = req[r].user
      /\ x.event = req[r].event /\ x.session = req[r].session
  BY <1>6, <1>7 DEF Request
<1> HIDE DEF x
<1>9. x.pc \in UndoPcs
  BY <1>8 DEF UndoPcs
<1>10. /\ x.session = NONE /\ x.user \in Users /\ x.event \in Events
       /\ OwnRow(x.user, x.event)
  BY <1>1, <1>8 DEF Grounded, OwnRow, UndoPcs
<1>11. QED
  BY <1>1, <1>8, <1>9, <1>10, UndoMove

LEMMA PatchStartStep ==
  ASSUME IInv, NEW r \in Requests, NEW u \in Users, NEW s \in Sessions, NEW w \in Words,
         NEW p \in PatchIds, PatchStart(r, u, s, w, p)
  PROVE  IInv' /\ Keeps
<1> DEFINE ids == session[s].patchIds
           x == [Idle EXCEPT !.pc = "patch_commit", !.user = u, !.session = s,
                             !.word = w, !.patchId = p, !.patchIds = ids]
<1>1. /\ req' = [req EXCEPT ![r] = x]
      /\ UNCHANGED <<database, active, clock>>
      /\ session[s] # NONE
      /\ session[s].user = u
  BY DEF PatchStart, OwnSession
<1>2. ids \in SUBSET PatchIds
  BY <1>1 DEF IInv, TypeOK, SessionRow
<1> HIDE DEF ids
<1>3. x \in Request
  BY <1>2 DEF Request, Pcs, Idle
<1>4. /\ x.pc = "patch_commit" /\ x.user = u /\ x.session = s
      /\ x.word = w /\ x.patchId = p
  BY DEF Idle
<1> HIDE DEF x
<1>5. Grounded(x, reviewLog, session)
  BY <1>1, <1>4 DEF Grounded, GradePcs, UndoPcs, CreatePcs
<1>6. x.pc \notin CreatePcs
  BY <1>4 DEF CreatePcs
<1>7. QED
  BY <1>1, <1>3, <1>4, <1>5, <1>6, ReadStep

------------------------------------------------------------------------------
(* The statements that write.                                              *)

(* An old row is as well founded after the step as it was before.          *)
LEMMA RowKept ==
  ASSUME IInv, Keeps, NEW e \in Events, reviewLog[e] # NONE
  PROVE  /\ session'[reviewLog'[e].session] # NONE
         /\ session'[reviewLog'[e].session].user = reviewLog'[e].user
         /\ HasRow(reviewLog'[e].user, reviewLog'[e].card, reviewLog'[e].before, reviewLog')
<1>1. /\ reviewLog[e] \in LogRow
      /\ reviewLog'[e].user = reviewLog[e].user
      /\ reviewLog'[e].session = reviewLog[e].session
      /\ reviewLog'[e].card = reviewLog[e].card
      /\ reviewLog'[e].before = reviewLog[e].before
  BY KeptRow DEF IInv
<1>2. reviewLog[e].session \in Sessions
  BY <1>1 DEF LogRow
<1>3. /\ session[reviewLog[e].session] # NONE
      /\ session[reviewLog[e].session].user = reviewLog[e].user
      /\ HasRow(reviewLog[e].user, reviewLog[e].card, reviewLog[e].before, reviewLog)
  BY DEF IInv, RowsGrounded
<1>4. HasRow(reviewLog[e].user, reviewLog[e].card, reviewLog[e].before, reviewLog')
  BY <1>3, HasRowKept DEF IInv
<1>5. QED
  BY <1>1, <1>2, <1>3, <1>4 DEF Keeps

LEMMA StateKept ==
  ASSUME IInv, Keeps, NEW u \in Users, NEW c \in Cards
  PROVE  HasRow(u, c, cardState[u][c], reviewLog')
BY HasRowKept DEF IInv, StatesGrounded

(* What a grade knows when it commits.                                     *)
LEMMA CommitFacts ==
  ASSUME IInv, NEW r \in Requests, GradeCommit(r)
  PROVE  /\ req[r].user \in Users /\ req[r].session \in Sessions
         /\ req[r].event \in Events /\ req[r].card \in Cards
         /\ session[req[r].session] \in SessionRow
         /\ session[req[r].session].user = req[r].user
         /\ reviewLog[req[r].event] = NONE
         /\ HasRow(req[r].user, req[r].card, req[r].before, reviewLog)
         /\ GradeRow(r) \in LogRow
<1>1. /\ req[r].pc = "grade_commit"
      /\ req[r] \in Request
      /\ Grounded(req[r], reviewLog, session)
      /\ reviewLog[req[r].event] = NONE
  BY DEF GradeCommit, At, EventIdTaken, IInv, TypeOK
<1>2. /\ req[r].user \in Users /\ req[r].session \in Sessions
      /\ req[r].event \in Events /\ req[r].card \in Cards
      /\ session[req[r].session] # NONE
      /\ session[req[r].session].user = req[r].user
      /\ HasRow(req[r].user, req[r].card, req[r].before, reviewLog)
  BY <1>1 DEF Grounded, GradePcs
<1>3. session[req[r].session] \in SessionRow
  BY <1>2 DEF IInv, TypeOK
<1>4. GradeRow(r) \in LogRow
  <2>1. req[r].before \in Events \union {NONE} /\ req[r].now \in Nat
    BY <1>1 DEF Request
  <2>2. rows + 1 \in Nat
    BY DEF IInv, TypeOK
  <2>3. QED
    BY <1>2, <2>1, <2>2 DEF GradeRow, LogRow
<1>5. QED
  BY <1>1, <1>2, <1>3, <1>4

LEMMA GradeCommitStep ==
  ASSUME IInv, NEW r \in Requests, GradeCommit(r)
  PROVE  IInv' /\ Keeps
<1> DEFINE u == req[r].user
           s == req[r].session
           e == req[r].event
           c == req[r].card
           row == GradeRow(r)
           advanced == [session[s] EXCEPT !.position = @ + 1]
           x == [Idle EXCEPT !.pc = "answered", !.user = u, !.event = e,
                             !.card = row.card, !.before = row.before]
<1>1. /\ u \in Users /\ s \in Sessions /\ e \in Events /\ c \in Cards
      /\ session[s] \in SessionRow
      /\ session[s].user = u
      /\ reviewLog[e] = NONE
      /\ HasRow(u, c, req[r].before, reviewLog)
      /\ row \in LogRow
  BY CommitFacts
<1>2. /\ row.user = u /\ row.session = s /\ row.card = c
      /\ row.before = req[r].before
  BY DEF GradeRow
<1>3. /\ reviewLog' = [reviewLog EXCEPT ![e] = row]
      /\ rows' = rows + 1
      /\ cardState' = [cardState EXCEPT ![u][c] = e]
      /\ session' = [session EXCEPT ![s] = advanced]
      /\ UNCHANGED <<active, clock>>
      /\ \/ UNCHANGED wordProgress
         \/ FlipWordIntroduced(u, WordOf[c], session[s].release)
      /\ req' = [req EXCEPT ![r] = x]
  BY DEF GradeCommit, Answer
<1>4. x \in Request /\ x.pc = "answered" /\ x.user = u /\ x.event = e
      /\ x.card = c /\ x.before = req[r].before /\ x.session = NONE
  BY <1>1, <1>2 DEF Request, Pcs, Idle, LogRow
<1> HIDE DEF row, x
<1>5. advanced \in SessionRow /\ advanced.user = u
  BY <1>1 DEF SessionRow
<1> HIDE DEF advanced
<1>6. TypeOK
  BY DEF IInv
<1>7. /\ reviewLog'[e] = row
      /\ \A d \in Events : d # e => reviewLog'[d] = reviewLog[d]
      /\ session'[s] = advanced
      /\ \A t \in Sessions : t # s => session'[t] = session[t]
      /\ row # NONE /\ advanced # NONE /\ session[s] # NONE
  BY <1>1, <1>3, <1>5, <1>6, NoneAssumption DEF TypeOK
<1>8. Keeps
  BY <1>1, <1>5, <1>7 DEF Keeps
<1>9. Grounded(x, reviewLog', session')
  BY <1>1, <1>2, <1>4, <1>7 DEF Grounded, GradePcs, UndoPcs, CreatePcs
<1>10. /\ req' \in [Requests -> Request]
       /\ \A q \in Requests : Grounded(req'[q], reviewLog', session')
  BY <1>3, <1>4, <1>8, <1>9, SlotStep
<1>11. wordProgress' \in [Users -> [Words -> Progress \union {NONE}]]
  <2>1. wordProgress \in [Users -> [Words -> Progress \union {NONE}]]
    BY <1>6 DEF TypeOK
  <2>2. CASE FlipWordIntroduced(u, WordOf[c], session[s].release)
    <3> DEFINE flipped == [stage |-> "INTRODUCED", release |-> session[s].release]
    <3>1. WordOf[c] \in Words /\ flipped \in Progress
      BY <1>1, ContentAssumption DEF SessionRow, Progress
    <3> HIDE DEF flipped
    <3>2. \/ wordProgress' = [wordProgress EXCEPT ![u][WordOf[c]] = flipped]
          \/ wordProgress' = wordProgress
      BY <2>2 DEF FlipWordIntroduced, flipped
    <3>3. QED
      BY <2>1, <3>1, <3>2, <1>1
  <2>3. QED
    BY <1>3, <2>1, <2>2
<1>12. TypeOK'
  <2>1. /\ reviewLog' \in [Events -> LogRow \union {NONE}]
        /\ session' \in [Sessions -> SessionRow \union {NONE}]
        /\ rows' \in Nat /\ active' \in Releases /\ clock' \in Nat
    BY <1>1, <1>3, <1>5, <1>6 DEF TypeOK
  <2>2. cardState' \in [Users -> [Cards -> Events \union {NONE}]]
    BY <1>1, <1>3, <1>6 DEF TypeOK
  <2>3. QED
    BY <1>10, <1>11, <2>1, <2>2 DEF TypeOK
<1>13. FreshSessionIds'
  BY <1>3, <1>4, <1>7, FreshStep DEF CreatePcs
<1>14. RowsGrounded(reviewLog', session')
  <2>1. HasRow(u, c, req[r].before, reviewLog')
    BY <1>1, <1>6, <1>8, HasRowKept
  <2>2. ASSUME NEW d \in Events, reviewLog'[d] # NONE
        PROVE  /\ session'[reviewLog'[d].session] # NONE
               /\ session'[reviewLog'[d].session].user = reviewLog'[d].user
               /\ HasRow(reviewLog'[d].user, reviewLog'[d].card, reviewLog'[d].before, reviewLog')
    <3>1. CASE d = e
      BY <1>2, <1>5, <1>7, <2>1, <3>1
    <3>2. CASE d # e
      BY <1>7, <1>8, <2>2, <3>2, RowKept
    <3>3. QED
      BY <3>1, <3>2
  <2>3. QED
    BY <2>2 DEF RowsGrounded
<1>15. StatesGrounded(cardState', reviewLog')
  <2>1. ASSUME NEW v \in Users, NEW d \in Cards
        PROVE  HasRow(v, d, cardState'[v][d], reviewLog')
    <3>1. CASE v = u /\ d = c
      <4>1. cardState'[v][d] = e
        BY <1>1, <1>3, <1>6, <3>1 DEF TypeOK
      <4>2. QED
        BY <1>1, <1>2, <1>7, <3>1, <4>1 DEF HasRow
    <3>2. CASE ~(v = u /\ d = c)
      <4>1. cardState'[v][d] = cardState[v][d]
        BY <1>1, <1>3, <1>6, <3>2 DEF TypeOK
      <4>2. QED
        BY <1>8, <4>1, StateKept
    <3>3. QED
      BY <3>1, <3>2
  <2>2. QED
    BY <2>1 DEF StatesGrounded
<1>16. QED
  BY <1>8, <1>10, <1>12, <1>13, <1>14, <1>15 DEF IInv

(* What an undo knows when it commits.                                     *)
LEMMA UndoFacts ==
  ASSUME IInv, NEW r \in Requests, UndoCommit(r)
  PROVE  /\ req[r].user \in Users /\ req[r].event \in Events
         /\ reviewLog[req[r].event] \in LogRow
         /\ reviewLog[req[r].event] # NONE
         /\ reviewLog[req[r].event].user = req[r].user
         /\ reviewLog[req[r].event].session \in Sessions
         /\ reviewLog[req[r].event].card \in Cards
         /\ session[reviewLog[req[r].event].session] \in SessionRow
         /\ session[reviewLog[req[r].event].session] # NONE
         /\ session[reviewLog[req[r].event].session].user = req[r].user
<1>1. req[r].pc = "undo_commit" /\ Grounded(req[r], reviewLog, session)
  BY DEF UndoCommit, At, IInv
<1>2. /\ req[r].user \in Users /\ req[r].event \in Events
      /\ reviewLog[req[r].event] # NONE
      /\ reviewLog[req[r].event].user = req[r].user
  BY <1>1 DEF Grounded, UndoPcs
<1>3. /\ reviewLog[req[r].event] \in LogRow
      /\ session[reviewLog[req[r].event].session] # NONE
      /\ session[reviewLog[req[r].event].session].user = req[r].user
  BY <1>2 DEF IInv, TypeOK, RowsGrounded
<1>4. reviewLog[req[r].event].session \in Sessions /\ reviewLog[req[r].event].card \in Cards
  BY <1>3 DEF LogRow
<1>5. session[reviewLog[req[r].event].session] \in SessionRow
  BY <1>3, <1>4 DEF IInv, TypeOK
<1>6. QED
  BY <1>2, <1>3, <1>4, <1>5

LEMMA UndoCommitStep ==
  ASSUME IInv, NEW r \in Requests, UndoCommit(r)
  PROVE  IInv' /\ Keeps
<1> DEFINE u == req[r].user
           e == req[r].event
           row == reviewLog[e]
           s == row.session
           c == row.card
           marked == UndoneRow(row)
           w == WordOf[c]
           place == Rewound(session[s].position)
           rewound == [session[s] EXCEPT !.position = place]
           restored == RestoredState(u, row)
<1>1. /\ u \in Users /\ e \in Events /\ s \in Sessions /\ c \in Cards
      /\ row \in LogRow /\ row # NONE /\ row.user = u
      /\ session[s] \in SessionRow /\ session[s] # NONE /\ session[s].user = u
  BY UndoFacts
<1>2. /\ reviewLog' = [reviewLog EXCEPT ![e] = marked]
      /\ cardState' = [cardState EXCEPT ![u][c] = restored]
      /\ session' = [session EXCEPT ![s] = rewound]
      /\ UNCHANGED <<rows, active, clock>>
      /\ RevertWordIntroduced(u, w, req[r].keys)
      /\ Finish(r)
  BY DEF UndoCommit
<1>3. /\ marked \in LogRow /\ marked # NONE
      /\ marked = [row EXCEPT !.undone = TRUE]
  BY <1>1, LogRowMarked, NoneAssumption DEF UndoneRow
<1>4. rewound \in SessionRow /\ rewound # NONE /\ rewound.user = u
  <2>1. session[s].position \in Nat
    BY <1>1 DEF SessionRow
  <2>2. place \in Nat
    BY <2>1 DEF Rewound
  <2> HIDE DEF place
  <2>3. QED
    BY <1>1, <2>2, NoneAssumption DEF SessionRow
<1>5. TypeOK
  BY DEF IInv
<1>6. restored \in Events \union {NONE} /\ HasRow(u, c, restored, reviewLog)
  <2>1. row.before \in Events \union {NONE}
    BY <1>1 DEF LogRow
  <2>2. HasRow(u, c, row.before, reviewLog)
    BY <1>1 DEF IInv, RowsGrounded
  <2>3. QED
    BY <2>1, <2>2 DEF RestoredState, HasRow
<1> HIDE DEF marked, rewound, restored, w
<1>7. /\ reviewLog'[e] = marked
      /\ \A d \in Events : d # e => reviewLog'[d] = reviewLog[d]
      /\ session'[s] = rewound
      /\ \A t \in Sessions : t # s => session'[t] = session[t]
  BY <1>1, <1>2, <1>5 DEF TypeOK
<1>8. Keeps
  BY <1>1, <1>3, <1>4, <1>7 DEF Keeps
<1>9. /\ req' \in [Requests -> Request]
      /\ \A q \in Requests : Grounded(req'[q], reviewLog', session')
  BY <1>2, <1>8, FinishStep
<1>10. wordProgress' \in [Users -> [Words -> Progress \union {NONE}]]
  <2> DEFINE reverted == [stage |-> "IN_PROGRESS", release |-> NONE]
  <2>1. w \in Words /\ reverted \in Progress
    BY <1>1, ContentAssumption DEF Progress, w
  <2> HIDE DEF reverted
  <2>2. \/ wordProgress' = [wordProgress EXCEPT ![u][w] = reverted]
        \/ wordProgress' = wordProgress
    BY <1>2 DEF RevertWordIntroduced, reverted
  <2>3. u \in Users /\ wordProgress \in [Users -> [Words -> Progress \union {NONE}]]
    BY <1>1, <1>5 DEF TypeOK
  <2>4. QED
    BY <2>1, <2>2, <2>3
<1>11. TypeOK'
  <2>1. /\ reviewLog' \in [Events -> LogRow \union {NONE}]
        /\ session' \in [Sessions -> SessionRow \union {NONE}]
        /\ rows' \in Nat /\ active' \in Releases /\ clock' \in Nat
    BY <1>1, <1>2, <1>3, <1>4, <1>5 DEF TypeOK
  <2>2. cardState' \in [Users -> [Cards -> Events \union {NONE}]]
    BY <1>1, <1>2, <1>5, <1>6 DEF TypeOK
  <2>3. QED
    BY <1>9, <1>10, <2>1, <2>2 DEF TypeOK
<1>12. FreshSessionIds'
  BY <1>1, <1>2, <1>7, IdleType, FreshStep DEF Finish, CreatePcs
<1>13. RowsGrounded(reviewLog', session')
  <2>1. \A d \in Events : reviewLog'[d] # NONE => reviewLog[d] # NONE
    BY <1>1, <1>7
  <2>2. QED
    BY <1>8, <2>1, RowKept DEF RowsGrounded
<1>14. StatesGrounded(cardState', reviewLog')
  <2>1. ASSUME NEW v \in Users, NEW d \in Cards
        PROVE  HasRow(v, d, cardState'[v][d], reviewLog')
    <3>1. CASE v = u /\ d = c
      <4>1. cardState'[v][d] = restored
        BY <1>1, <1>2, <1>5, <3>1 DEF TypeOK
      <4>2. QED
        BY <1>5, <1>6, <1>8, <3>1, <4>1, HasRowKept
    <3>2. CASE ~(v = u /\ d = c)
      <4>1. cardState'[v][d] = cardState[v][d]
        BY <1>1, <1>2, <1>5, <3>2 DEF TypeOK
      <4>2. QED
        BY <1>8, <4>1, StateKept
    <3>3. QED
      BY <3>1, <3>2
  <2>2. QED
    BY <2>1 DEF StatesGrounded
<1>15. QED
  BY <1>8, <1>9, <1>11, <1>12, <1>13, <1>14 DEF IInv

LEMMA PatchCommitStep ==
  ASSUME IInv, NEW r \in Requests, PatchCommit(r)
  PROVE  IInv' /\ Keeps
<1> DEFINE u == req[r].user
           s == req[r].session
           w == req[r].word
           ids == req[r].patchIds \union {req[r].patchId}
           recorded == [session[s] EXCEPT !.patchIds = ids]
           stage == IF wordProgress[u][w] = NONE
                    THEN [stage |-> "IN_PROGRESS", release |-> NONE]
                    ELSE wordProgress[u][w]
<1>1. TypeOK
  BY DEF IInv
<1>2. /\ req[r].pc = "patch_commit"
      /\ req[r] \in Request
      /\ Grounded(req[r], reviewLog, session)
  BY DEF PatchCommit, At, IInv, TypeOK
<1>3. /\ u \in Users /\ s \in Sessions /\ w \in Words /\ req[r].patchId \in PatchIds
      /\ session[s] # NONE /\ session[s].user = u
  BY <1>2 DEF Grounded
<1>4. /\ wordProgress' = [wordProgress EXCEPT ![u][w] = stage]
      /\ session' = [session EXCEPT ![s] = recorded]
      /\ UNCHANGED <<reviewLog, cardState, rows, active, clock>>
      /\ Finish(r)
  BY DEF PatchCommit
<1>5. ids \in SUBSET PatchIds
  BY <1>2, <1>3 DEF Request
<1>6. session[s] \in SessionRow
  BY <1>1, <1>3 DEF TypeOK
<1> HIDE DEF ids
<1>7. recorded \in SessionRow /\ recorded # NONE /\ recorded.user = u
  BY <1>3, <1>5, <1>6, NoneAssumption DEF SessionRow
<1>8. stage \in Progress \union {NONE}
  BY <1>1, <1>3 DEF TypeOK, Progress
<1> HIDE DEF recorded, stage
<1>9. /\ session'[s] = recorded
      /\ \A t \in Sessions : t # s => session'[t] = session[t]
  BY <1>1, <1>3, <1>4 DEF TypeOK
<1>10. Keeps
  BY <1>3, <1>4, <1>7, <1>9 DEF Keeps
<1>11. /\ req' \in [Requests -> Request]
       /\ \A q \in Requests : Grounded(req'[q], reviewLog', session')
  BY <1>4, <1>10, FinishStep
<1>12. TypeOK'
  <2>1. session' \in [Sessions -> SessionRow \union {NONE}]
    BY <1>1, <1>3, <1>4, <1>7 DEF TypeOK
  <2>2. wordProgress' \in [Users -> [Words -> Progress \union {NONE}]]
    BY <1>1, <1>3, <1>4, <1>8 DEF TypeOK
  <2>3. QED
    BY <1>1, <1>4, <1>11, <2>1, <2>2 DEF TypeOK
<1>13. FreshSessionIds'
  BY <1>3, <1>4, <1>9, IdleType, FreshStep DEF Finish, CreatePcs
<1>14. RowsGrounded(reviewLog', session')
  BY <1>4, <1>10, RowKept DEF RowsGrounded
<1>15. StatesGrounded(cardState', reviewLog')
  BY <1>4, <1>10, StateKept DEF StatesGrounded
<1>16. QED
  BY <1>10, <1>11, <1>12, <1>13, <1>14, <1>15 DEF IInv

LEMMA InsertSessionStep ==
  ASSUME IInv, NEW r \in Requests, req[r].pc \in CreatePcs,
         NEW queue \in Seq(Cards), InsertSession(r, queue),
         UNCHANGED <<reviewLog, cardState, wordProgress, rows, active, clock>>
  PROVE  IInv' /\ Keeps
<1> DEFINE s == req[r].session
           row == [user |-> req[r].user, release |-> req[r].release, queue |-> queue,
                   position |-> 0, expiresAt |-> req[r].now + TTL, patchIds |-> {}]
<1>1. TypeOK
  BY DEF IInv
<1>2. /\ req[r] \in Request
      /\ Grounded(req[r], reviewLog, session)
  BY <1>1 DEF IInv, TypeOK
<1>3. /\ req[r].user \in Users /\ s \in Sessions /\ req[r].release \in Releases
      /\ req[r].now \in Nat
  BY <1>2 DEF Grounded, CreatePcs, Request
<1>4. session[s] = NONE
  BY DEF IInv, FreshSessionIds
<1>5. row \in SessionRow /\ row # NONE
  BY <1>3, NoneAssumption, BoundAssumption DEF SessionRow
<1>6. /\ session' = session \/ session' = [session EXCEPT ![s] = row]
      /\ Finish(r)
  BY DEF InsertSession
<1> HIDE DEF row
<1>7. \A t \in Sessions : t # s => session'[t] = session[t]
  BY <1>1, <1>3, <1>6 DEF TypeOK
<1>8. Keeps
  BY <1>4, <1>7 DEF Keeps
<1>9. /\ req' \in [Requests -> Request]
      /\ \A q \in Requests : Grounded(req'[q], reviewLog', session')
  BY <1>6, <1>8, FinishStep
<1>10. TypeOK'
  <2>1. session' \in [Sessions -> SessionRow \union {NONE}]
    BY <1>1, <1>3, <1>5, <1>6 DEF TypeOK
  <2>2. QED
    BY <1>1, <1>9, <2>1 DEF TypeOK
<1>11. FreshSessionIds'
  BY <1>6, <1>7, IdleType, FreshStep DEF Finish, CreatePcs
<1>12. RowsGrounded(reviewLog', session')
  BY <1>8, RowKept DEF RowsGrounded
<1>13. StatesGrounded(cardState', reviewLog')
  BY <1>8, StateKept DEF StatesGrounded
<1>14. QED
  BY <1>8, <1>9, <1>10, <1>11, <1>12, <1>13 DEF IInv

(* What the three ways of creating a session come down to.                 *)
Inserts(r) ==
  /\ req[r].pc \in CreatePcs
  /\ \E queue \in Seq(Cards) : InsertSession(r, queue)
  /\ UNCHANGED <<reviewLog, cardState, wordProgress, rows, active, clock>>

LEMMA CreationInserts ==
  ASSUME IInv, NEW r \in Requests,
         CreateNewWords(r) \/ CreateReview(r) \/ CreateQuickTest(r)
  PROVE  Inserts(r)
<1>1. req[r].pc \in CreatePcs
  BY DEF CreateNewWords, CreateReview, CreateQuickTest, At, CreatePcs
<1>2. req[r].release \in Releases
  BY <1>1 DEF IInv, Grounded
<1>3. ActiveCards[req[r].release] \in SUBSET Cards
  BY <1>2, ContentAssumption
<1>4. CASE CreateNewWords(r)
  <2> DEFINE cards == {c \in ActiveCards[req[r].release] :
                         WordOf[c] \in NextGroup(req[r].user, req[r].release)}
  <2>1. cards \in SUBSET Cards
    BY <1>3
  <2> HIDE DEF cards
  <2>2. PICK q \in Arrangements(cards) : InsertSession(r, q)
    BY <1>4 DEF CreateNewWords, cards
  <2>3. q \in Seq(Cards)
    BY <2>1, <2>2, ArrangementIsSequence
  <2>4. QED
    BY <1>1, <1>4, <2>2, <2>3 DEF CreateNewWords, Inserts
<1>5. CASE CreateReview(r)
  <2> DEFINE presentable == {c \in ActiveCards[req[r].release] : LocalKey[req[r].release][c] = c}
             graded == {c \in Cards : cardState[req[r].user][c] # NONE}
  <2>1. PICK due \in SUBSET graded :
          \E q \in Arrangements(due \intersect presentable) : InsertSession(r, q)
    BY <1>5 DEF CreateReview
  <2>2. PICK q \in Arrangements(due \intersect presentable) : InsertSession(r, q)
    BY <2>1
  <2>3. due \intersect presentable \in SUBSET Cards
    BY <2>1
  <2>4. q \in Seq(Cards)
    BY <2>2, <2>3, ArrangementIsSequence
  <2>5. QED
    BY <1>1, <1>5, <2>2, <2>4 DEF CreateReview, Inserts
<1>6. CASE CreateQuickTest(r)
  <2> DEFINE cards == {c \in ActiveCards[req[r].release] :
                         /\ WordOf[c] \in req[r].words
                         /\ cardState[req[r].user][c] = NONE}
  <2>1. cards \in SUBSET Cards
    BY <1>3
  <2> HIDE DEF cards
  <2>2. PICK q \in Arrangements(cards) : InsertSession(r, q)
    BY <1>6 DEF CreateQuickTest, cards
  <2>3. q \in Seq(Cards)
    BY <2>1, <2>2, ArrangementIsSequence
  <2>4. QED
    BY <1>1, <1>6, <2>2, <2>3 DEF CreateQuickTest, Inserts
<1>7. QED
  BY <1>4, <1>5, <1>6

(* Everything that is written is written by one of four statements.        *)
LEMMA Writers ==
  ASSUME IInv, Next
  PROVE  \/ UNCHANGED database
         \/ \E r \in Requests : \/ Inserts(r) \/ GradeCommit(r)
                                \/ UndoCommit(r) \/ PatchCommit(r)
<1>1. CASE \E rel \in Releases : Activate(rel)
  BY <1>1 DEF Activate
<1>2. CASE Tick
  BY <1>2 DEF Tick
<1>3. ASSUME NEW r \in Requests, CreateNext(r)
      PROVE  UNCHANGED database \/ Inserts(r)
  BY <1>3, CreationInserts DEF CreateNext, CreateStart, CreateQuickTestWords
<1>4. ASSUME NEW r \in Requests, GradeNext(r)
      PROVE  UNCHANGED database \/ GradeCommit(r)
  BY <1>4 DEF GradeNext, GradeReplay, GradeStart, GradeSession, GradeNow, GradeState,
              GradeProgress, GradeConflict, GradeReread
<1>5. ASSUME NEW r \in Requests, UndoNext(r)
      PROVE  UNCHANGED database \/ UndoCommit(r)
  BY <1>5 DEF UndoNext, UndoStart, UndoLatest, UndoSession, UndoProgress
<1>6. ASSUME NEW r \in Requests, PatchNext(r)
      PROVE  UNCHANGED database \/ PatchCommit(r)
  BY <1>6 DEF PatchNext, PatchStart
<1>7. QED
  BY <1>1, <1>2, <1>3, <1>4, <1>5, <1>6 DEF Next

------------------------------------------------------------------------------
(* The invariant is inductive.                                             *)

LEMMA InitInvariant ==
  ASSUME Init
  PROVE  IInv
<1>1. Idle \in Request /\ Idle.pc = "idle"
  BY IdleType
<1>2. TypeOK
  BY <1>1 DEF Init, TypeOK
<1>3. \A r \in Requests : Grounded(req[r], reviewLog, session)
  BY <1>1 DEF Init, Grounded, GradePcs, UndoPcs, CreatePcs
<1>4. FreshSessionIds
  BY <1>1 DEF Init, FreshSessionIds, CreatePcs
<1>5. RowsGrounded(reviewLog, session)
  BY DEF Init, RowsGrounded
<1>6. StatesGrounded(cardState, reviewLog)
  BY DEF Init, StatesGrounded, HasRow
<1>7. QED
  BY <1>2, <1>3, <1>4, <1>5, <1>6 DEF IInv

LEMMA EnvironmentStep ==
  ASSUME IInv, UNCHANGED <<database, req>>, active' \in Releases, clock' \in Nat
  PROVE  IInv' /\ Keeps
<1>1. UNCHANGED <<reviewLog, cardState, wordProgress, session, rows, req>>
  BY DEF database
<1>2. TypeOK'
  BY <1>1 DEF IInv, TypeOK
<1>3. FreshSessionIds'
  BY <1>1 DEF IInv, FreshSessionIds
<1>4. QED
  BY <1>1, <1>2, <1>3, UnchangedKeeps DEF IInv

LEMMA NextInvariant ==
  ASSUME IInv, [Next]_vars
  PROVE  IInv' /\ Keeps
<1>1. active \in Releases /\ clock \in Nat
  BY DEF IInv, TypeOK
<1>2. CASE UNCHANGED vars
  BY <1>1, <1>2, EnvironmentStep DEF vars
<1>3. CASE \E rel \in Releases : Activate(rel)
  BY <1>1, <1>3, EnvironmentStep DEF Activate
<1>4. CASE Tick
  BY <1>1, <1>4, EnvironmentStep DEF Tick
<1>5. ASSUME NEW r \in Requests, CreateNext(r)
      PROVE  IInv' /\ Keeps
  <2>1. CASE \E u \in Users, s \in Sessions : CreateStart(r, u, s)
    BY <2>1, CreateStartStep
  <2>2. CASE CreateQuickTestWords(r)
    BY <2>2, CreateQuickTestWordsStep
  <2>3. CASE CreateNewWords(r) \/ CreateReview(r) \/ CreateQuickTest(r)
    BY <2>3, CreationInserts, InsertSessionStep DEF Inserts
  <2>4. QED
    BY <1>5, <2>1, <2>2, <2>3 DEF CreateNext
<1>6. ASSUME NEW r \in Requests, GradeNext(r)
      PROVE  IInv' /\ Keeps
  <2>1. CASE \E u \in Users, e \in Events : GradeReplay(r, u, e)
    BY <2>1, GradeReplayStep
  <2>2. CASE \E u \in Users, s \in Sessions, c \in Cards, e \in Events : GradeStart(r, u, s, c, e)
    BY <2>2, GradeStartStep
  <2>3. QED
    BY <1>6, <2>1, <2>2, GradeSessionStep, GradeNowStep, GradeStateStep, GradeProgressStep,
       GradeCommitStep, GradeConflictStep, GradeRereadStep DEF GradeNext
<1>7. ASSUME NEW r \in Requests, UndoNext(r)
      PROVE  IInv' /\ Keeps
  <2>1. CASE \E u \in Users, e \in Events : UndoStart(r, u, e)
    BY <2>1, UndoStartStep
  <2>2. QED
    BY <1>7, <2>1, UndoLatestStep, UndoSessionStep, UndoProgressStep, UndoCommitStep DEF UndoNext
<1>8. ASSUME NEW r \in Requests, PatchNext(r)
      PROVE  IInv' /\ Keeps
  <2>1. CASE \E u \in Users, s \in Sessions, w \in Words, p \in PatchIds : PatchStart(r, u, s, w, p)
    BY <2>1, PatchStartStep
  <2>2. QED
    BY <1>8, <2>1, PatchCommitStep DEF PatchNext
<1>9. QED
  BY <1>2, <1>3, <1>4, <1>5, <1>6, <1>7, <1>8 DEF Next

(* IInv holds in every reachable state: a request that is about to commit  *)
(* still holds a session of its user, an event and a card that are in the  *)
(* tables as it read them, whatever ran since (grade.ts, undo.ts).         *)
THEOREM Invariance == Spec => []IInv
<1>1. Init => IInv
  BY InitInvariant
<1>2. IInv /\ [Next]_vars => IInv'
  BY NextInvariant
<1>3. QED
  BY <1>1, <1>2, PTL DEF Spec

(* Every variable keeps its type.                                          *)
THEOREM TypeCorrect == Spec => []TypeOK
<1>1. IInv => TypeOK
  BY DEF IInv
<1>2. QED
  BY <1>1, Invariance, PTL

(* Review rows are only ever added or marked undone (study.ts:251).        *)
THEOREM LogIsAppendOnly == Spec => LogAppendOnly
<1>1. IInv /\ [Next]_vars =>
        [\A e \in Events : reviewLog[e] # NONE =>
           reviewLog'[e] \in {reviewLog[e], [reviewLog[e] EXCEPT !.undone = TRUE]}]_vars
  BY NextInvariant DEF Keeps
<1>2. QED
  BY <1>1, Invariance, PTL DEF Spec, LogAppendOnly

(* A grade is only ever answered with a row of the caller, as the log has  *)
(* it, also after a lost race for the event_id (grade.ts:118-131).         *)
THEOREM AnswersAreLogged == Spec => []AnswersMatchLog
<1>1. IInv => AnswersMatchLog
  BY DEF IInv, Grounded, AnswersMatchLog
<1>2. QED
  BY <1>1, Invariance, PTL

(* A card_state always comes from a grade of its user and card, whichever  *)
(* grades and undos raced for it (grade.ts:99-117, undo.ts:67-82).         *)
THEOREM StatesAreGraded == Spec => []StateHasRow
<1>1. IInv => StateHasRow
  BY DEF IInv, StatesGrounded, HasRow, StateHasRow
<1>2. QED
  BY <1>1, Invariance, PTL

------------------------------------------------------------------------------
(* Action properties: what each of the four writing statements may do.     *)

LEMMA InsertTouchesNewSession ==
  ASSUME IInv, NEW r \in Requests, Inserts(r),
         NEW s \in Sessions, session[s] # NONE
  PROVE  session'[s] = session[s]
<1>1. session[req[r].session] = NONE /\ req[r].session \in Sessions
  BY DEF IInv, FreshSessionIds, Grounded, Inserts
<1>2. QED
  BY <1>1 DEF Inserts, InsertSession, IInv, TypeOK

LEMMA CommitTouchesSession ==
  ASSUME IInv, NEW r \in Requests, GradeCommit(r), NEW s \in Sessions
  PROVE  IF s = req[r].session
         THEN /\ session'[s].position = session[s].position + 1
              /\ reviewLog[req[r].event] = NONE
              /\ reviewLog'[req[r].event] # NONE
              /\ reviewLog'[req[r].event].session = s
         ELSE session'[s] = session[s]
<1> DEFINE row == GradeRow(r)
<1>1. /\ session[req[r].session] \in SessionRow /\ req[r].session \in Sessions
      /\ req[r].event \in Events /\ reviewLog[req[r].event] = NONE
      /\ row \in LogRow /\ row.session = req[r].session
  BY CommitFacts DEF GradeRow
<1>2. /\ reviewLog' = [reviewLog EXCEPT ![req[r].event] = row]
      /\ session' = [session EXCEPT ![req[r].session].position = @ + 1]
  BY DEF GradeCommit
<1> HIDE DEF row
<1>3. row # NONE /\ TypeOK
  BY <1>1, NoneAssumption DEF IInv
<1>4. reviewLog'[req[r].event] = row
  BY <1>1, <1>2, <1>3 DEF TypeOK
<1>5. IF s = req[r].session THEN session'[s].position = session[s].position + 1
                            ELSE session'[s] = session[s]
  BY <1>1, <1>2, <1>3 DEF TypeOK, SessionRow
<1>6. QED
  BY <1>1, <1>3, <1>4, <1>5

LEMMA UndoNeverAdvances ==
  ASSUME IInv, NEW r \in Requests, UndoCommit(r),
         NEW s \in Sessions, session[s] # NONE
  PROVE  /\ session[s].position \in Nat
         /\ session'[s].position \in {session[s].position, Rewound(session[s].position)}
<1> DEFINE t == reviewLog[req[r].event].session
           place == Rewound(session[t].position)
<1>1. /\ t \in Sessions
      /\ session[t] \in SessionRow
      /\ session[s] \in SessionRow
  BY UndoFacts DEF IInv, TypeOK
<1>2. session' = [session EXCEPT ![t] = [session[t] EXCEPT !.position = place]]
  BY DEF UndoCommit
<1> HIDE DEF t
<1>3. session'[s] = IF s = t THEN [session[t] EXCEPT !.position = place] ELSE session[s]
  BY <1>1, <1>2 DEF IInv, TypeOK
<1>4. session[s].position \in Nat
  BY <1>1 DEF SessionRow
<1> HIDE DEF place
<1>5. s = t => session'[s].position = place
  BY <1>1, <1>3 DEF SessionRow
<1>6. QED
  BY <1>3, <1>4, <1>5 DEF place

LEMMA PatchKeepsPosition ==
  ASSUME IInv, NEW r \in Requests, PatchCommit(r),
         NEW s \in Sessions, session[s] # NONE
  PROVE  session'[s].position = session[s].position
<1> DEFINE t == req[r].session
           ids == req[r].patchIds \union {req[r].patchId}
<1>1. session[s] \in SessionRow /\ t \in Sessions
  BY DEF IInv, TypeOK, Grounded, PatchCommit, At
<1>2. session' = [session EXCEPT ![t] = [session[t] EXCEPT !.patchIds = ids]]
  BY DEF PatchCommit
<1> HIDE DEF t, ids
<1>3. session'[s] = IF s = t THEN [session[t] EXCEPT !.patchIds = ids] ELSE session[s]
  BY <1>1, <1>2 DEF IInv, TypeOK
<1>4. QED
  BY <1>1, <1>3 DEF SessionRow

(* No statement moves a position forward but the one that inserts a row of *)
(* that session, and then by one (grade.ts:101-117).                       *)
THEOREM PositionsAdvanceWithRows == Spec => AdvancesWithRow
<1> DEFINE A == \A s \in Sessions :
       (session[s] # NONE /\ session'[s].position > session[s].position) =>
          /\ session'[s].position = session[s].position + 1
          /\ \E e \in Events : /\ reviewLog[e] = NONE
                               /\ reviewLog'[e] # NONE
                               /\ reviewLog'[e].session = s
<1>1. ASSUME IInv, Next  PROVE A
  <2> SUFFICES ASSUME NEW s \in Sessions, session[s] # NONE,
                      session'[s].position > session[s].position
               PROVE  /\ session'[s].position = session[s].position + 1
                      /\ \E e \in Events : /\ reviewLog[e] = NONE
                                           /\ reviewLog'[e] # NONE
                                           /\ reviewLog'[e].session = s
    OBVIOUS
  <2>1. session[s].position \in Nat
    BY <1>1 DEF IInv, TypeOK, SessionRow
  <2>2. session'[s] # session[s]
    BY <2>1
  <2>3. PICK r \in Requests : Inserts(r) \/ GradeCommit(r) \/ UndoCommit(r) \/ PatchCommit(r)
    BY <1>1, <2>2, Writers DEF database
  <2>4. ~Inserts(r)
    BY <1>1, <2>2, InsertTouchesNewSession
  <2>5. ~UndoCommit(r)
    BY <1>1, <2>1, UndoNeverAdvances DEF Rewound
  <2>6. ~PatchCommit(r)
    BY <1>1, <2>1, PatchKeepsPosition
  <2>7. GradeCommit(r)
    BY <2>3, <2>4, <2>5, <2>6
  <2>8. s = req[r].session /\ req[r].event \in Events
    BY <1>1, <2>2, <2>7, CommitTouchesSession, CommitFacts
  <2>9. QED
    BY <1>1, <2>7, <2>8, CommitTouchesSession
<1>2. IInv /\ [Next]_vars => [A]_vars
  BY <1>1
<1> HIDE DEF A
<1>3. Spec => [][A]_vars
  BY <1>2, Invariance, PTL DEF Spec
<1>4. QED
  BY <1>3 DEF AdvancesWithRow, A

(* A word is INTRODUCED only by a grade, over all active cards of the      *)
(* release it records, graded by then (grade.ts:107-110, 180-191).         *)
LEMMA IntroducedByGrade ==
  ASSUME IInv, Next, NEW u \in Users, NEW w \in Words,
         StageIs(wordProgress'[u][w], "INTRODUCED"),
         wordProgress'[u][w] # wordProgress[u][w]
  PROVE  \A c \in ActiveCards[wordProgress'[u][w].release] :
           WordOf[c] = w => cardState'[u][c] # NONE
<1>1. PICK r \in Requests : Inserts(r) \/ GradeCommit(r) \/ UndoCommit(r) \/ PatchCommit(r)
  BY Writers DEF database
<1>2. ~Inserts(r)
  BY DEF Inserts
<1>3. wordProgress \in [Users -> [Words -> Progress \union {NONE}]]
  BY DEF IInv, TypeOK
<1>4. ~UndoCommit(r)
  <2> SUFFICES ASSUME UndoCommit(r) PROVE FALSE
    OBVIOUS
  <2> DEFINE v == WordOf[reviewLog[req[r].event].card]
             reverted == [stage |-> "IN_PROGRESS", release |-> NONE]
  <2>1. req[r].user \in Users /\ v \in Words
    BY UndoFacts, ContentAssumption
  <2>2. \/ wordProgress' = wordProgress
        \/ wordProgress' = [wordProgress EXCEPT ![req[r].user][v] = reverted]
    BY DEF UndoCommit, RevertWordIntroduced
  <2>3. reverted.stage # "INTRODUCED"
    OBVIOUS
  <2> HIDE DEF v, reverted
  <2>4. wordProgress'[u][w] = reverted
    BY <1>3, <2>1, <2>2
  <2>5. QED
    BY <2>3, <2>4 DEF StageIs
<1>5. ~PatchCommit(r)
  <2> SUFFICES ASSUME PatchCommit(r) PROVE FALSE
    OBVIOUS
  <2> DEFINE old == wordProgress[req[r].user][req[r].word]
             new == IF old = NONE THEN [stage |-> "IN_PROGRESS", release |-> NONE] ELSE old
  <2>1. req[r].user \in Users /\ req[r].word \in Words
    BY DEF IInv, Grounded, PatchCommit, At
  <2>2. wordProgress' = [wordProgress EXCEPT ![req[r].user][req[r].word] = new]
    BY DEF PatchCommit
  <2>3. new = old \/ new.stage # "INTRODUCED"
    OBVIOUS
  <2> HIDE DEF new
  <2>4. u = req[r].user /\ w = req[r].word /\ wordProgress'[u][w] = new
    BY <1>3, <2>1, <2>2
  <2>5. QED
    BY <2>3, <2>4 DEF StageIs
<1>6. GradeCommit(r)
  BY <1>1, <1>2, <1>4, <1>5
<1> DEFINE c0 == req[r].card
           rel == session[req[r].session].release
           flipped == [stage |-> "INTRODUCED", release |-> rel]
<1>7. /\ req[r].user \in Users /\ c0 \in Cards /\ rel \in Releases /\ WordOf[c0] \in Words
  BY <1>6, CommitFacts, ContentAssumption DEF SessionRow
<1>8. FlipWordIntroduced(req[r].user, WordOf[c0], rel)
  BY <1>6 DEF GradeCommit
<1>9. /\ wordProgress' = [wordProgress EXCEPT ![req[r].user][WordOf[c0]] = flipped]
      /\ \A c \in CanonicalCardKeys(rel, LocalKey[rel][WordOf[c0]]) :
           cardState'[req[r].user][c] # NONE
  BY <1>8 DEF FlipWordIntroduced
<1>10. flipped.release = rel
  OBVIOUS
<1> HIDE DEF flipped
<1>11. u = req[r].user /\ w = WordOf[c0] /\ wordProgress'[u][w] = flipped
  BY <1>3, <1>7, <1>9
<1>12. QED
  BY <1>9, <1>10, <1>11 DEF CanonicalCardKeys

(* No step makes a word INTRODUCED before all of its cards are graded.     *)
THEOREM IntroductionIsComplete == Spec => IntroducedWhenComplete
<1> DEFINE A == \A u \in Users, w \in Words :
       (StageIs(wordProgress'[u][w], "INTRODUCED") /\ wordProgress'[u][w] # wordProgress[u][w]) =>
          \A c \in ActiveCards[wordProgress'[u][w].release] :
             WordOf[c] = w => cardState'[u][c] # NONE
<1>1. ASSUME IInv, Next  PROVE A
  BY <1>1, IntroducedByGrade
<1>2. IInv /\ [Next]_vars => [A]_vars
  BY <1>1
<1> HIDE DEF A
<1>3. Spec => [][A]_vars
  BY <1>2, Invariance, PTL DEF Spec
<1>4. QED
  BY <1>3 DEF IntroducedWhenComplete, A

(* What a request may change belongs to its user.                          *)
Untouched(u) ==
  /\ cardState'[u] = cardState[u]
  /\ wordProgress'[u] = wordProgress[u]
  /\ \A s \in Sessions : session[s] # NONE /\ session[s].user = u => session'[s] = session[s]
  /\ \A e \in Events : OwnRow(u, e) => reviewLog'[e] = reviewLog[e]

LEMMA CommitIsOwn ==
  ASSUME IInv, NEW r \in Requests, GradeCommit(r), NEW u \in Users, u # req[r].user
  PROVE  Untouched(u)
<1>1. /\ req[r].user \in Users /\ req[r].event \in Events
      /\ session[req[r].session].user = req[r].user
      /\ reviewLog[req[r].event] = NONE
  BY CommitFacts
<1>2. TypeOK
  BY DEF IInv
<1>3. cardState'[u] = cardState[u]
  BY <1>1, <1>2 DEF GradeCommit, TypeOK
<1>4. wordProgress'[u] = wordProgress[u]
  BY <1>1, <1>2 DEF GradeCommit, FlipWordIntroduced, TypeOK
<1>5. \A s \in Sessions : session[s] # NONE /\ session[s].user = u => session'[s] = session[s]
  BY <1>1, CommitTouchesSession
<1>6. \A e \in Events : OwnRow(u, e) => reviewLog'[e] = reviewLog[e]
  BY <1>1, <1>2 DEF GradeCommit, OwnRow, TypeOK
<1>7. QED
  BY <1>3, <1>4, <1>5, <1>6 DEF Untouched

LEMMA UndoIsOwn ==
  ASSUME IInv, NEW r \in Requests, UndoCommit(r), NEW u \in Users, u # req[r].user
  PROVE  Untouched(u)
<1>1. /\ req[r].user \in Users /\ req[r].event \in Events
      /\ reviewLog[req[r].event].user = req[r].user
      /\ session[reviewLog[req[r].event].session].user = req[r].user
  BY UndoFacts
<1>2. TypeOK
  BY DEF IInv
<1>3. cardState'[u] = cardState[u]
  BY <1>1, <1>2 DEF UndoCommit, TypeOK
<1>4. wordProgress'[u] = wordProgress[u]
  BY <1>1, <1>2 DEF UndoCommit, RevertWordIntroduced, TypeOK
<1>5. \A s \in Sessions : session[s] # NONE /\ session[s].user = u => session'[s] = session[s]
  BY <1>1, <1>2 DEF UndoCommit, TypeOK
<1>6. \A e \in Events : OwnRow(u, e) => reviewLog'[e] = reviewLog[e]
  BY <1>1, <1>2 DEF UndoCommit, OwnRow, TypeOK
<1>7. QED
  BY <1>3, <1>4, <1>5, <1>6 DEF Untouched

LEMMA PatchIsOwn ==
  ASSUME IInv, NEW r \in Requests, PatchCommit(r), NEW u \in Users, u # req[r].user
  PROVE  Untouched(u)
<1>1. req[r].user \in Users /\ session[req[r].session].user = req[r].user
  BY DEF IInv, Grounded, PatchCommit, At
<1>2. TypeOK
  BY DEF IInv
<1>3. wordProgress'[u] = wordProgress[u]
  BY <1>1, <1>2 DEF PatchCommit, TypeOK
<1>4. \A s \in Sessions : session[s] # NONE /\ session[s].user = u => session'[s] = session[s]
  BY <1>1, <1>2 DEF PatchCommit, TypeOK
<1>5. QED
  BY <1>3, <1>4 DEF Untouched, PatchCommit

(* No request, whatever session, card or event_id it names, changes what   *)
(* belongs to another user (grade.ts:72-86, undo.ts:38-60, study.ts).      *)
THEOREM UsersAreIsolated == Spec => UserIsolation
<1> DEFINE A == \A u \in Users :
       (\/ cardState'[u] # cardState[u]
        \/ wordProgress'[u] # wordProgress[u]
        \/ \E s \in Sessions : session[s] # NONE /\ session[s].user = u
                               /\ session'[s] # session[s]
        \/ \E e \in Events : OwnRow(u, e) /\ reviewLog'[e] # reviewLog[e])
       => \E r \in Requests : req[r].user = u /\ req'[r] # req[r]
<1>1. ASSUME IInv, Next  PROVE A
  <2> SUFFICES ASSUME NEW u \in Users, ~Untouched(u)
               PROVE  \E r \in Requests : req[r].user = u /\ req'[r] # req[r]
    BY DEF Untouched
  <2>1. PICK r \in Requests : Inserts(r) \/ GradeCommit(r) \/ UndoCommit(r) \/ PatchCommit(r)
    BY <1>1, Writers DEF database, Untouched
  <2>2. ~Inserts(r)
    <3>1. Inserts(r) => Untouched(u)
      BY <1>1, InsertTouchesNewSession DEF Inserts, Untouched
    <3>2. QED
      BY <3>1
  <2>3. req[r].user = u
    BY <1>1, <2>1, <2>2, CommitIsOwn, UndoIsOwn, PatchIsOwn
  <2>4. req'[r] # req[r]
    <3>1. req \in [Requests -> Request]
      BY <1>1 DEF IInv, TypeOK
    <3>2. CASE GradeCommit(r)
      <4>1. req[r].pc = "grade_commit" /\ req'[r].pc = "answered"
        BY <3>1, <3>2 DEF GradeCommit, At, Answer, Idle
      <4>2. QED
        BY <4>1
    <3>3. CASE UndoCommit(r) \/ PatchCommit(r)
      <4>1. req[r].pc # "idle" /\ req'[r].pc = "idle"
        BY <3>1, <3>3, IdleType DEF UndoCommit, PatchCommit, At, Finish
      <4>2. QED
        BY <4>1
    <3>4. QED
      BY <2>1, <2>2, <3>2, <3>3
  <2>5. QED
    BY <2>3, <2>4
<1>2. IInv /\ [Next]_vars => [A]_vars
  BY <1>1
<1> HIDE DEF A
<1>3. Spec => [][A]_vars
  BY <1>2, Invariance, PTL DEF Spec
<1>4. QED
  BY <1>3 DEF UserIsolation, A

------------------------------------------------------------------------------
(***************************************************************************)
(* SerialSpec: one live grade or undo of a user at a time.  The user's     *)
(* rows that are not undone are then a stack in the order of rowid, each   *)
(* over the state the row below it left, and what a live request has read  *)
(* is still so when it commits.                                            *)
(***************************************************************************)

Grades(u, c) == {e \in UnUndone(u) : reviewLog[e].card = c}

(* x is the newest of the rows in S, or NONE if there is none.             *)
IsNewest(x, S) ==
  IF S = {} THEN x = NONE
  ELSE x \in S /\ \A d \in S : reviewLog[d].rowid <= reviewLog[x].rowid

UpTo(s, e) == {d \in RowsOf(s) : reviewLog[d].rowid <= reviewLog[e].rowid}

(* rowid is the order of the inserts, and reviewed_at agrees with it.      *)
RowsInOrder ==
  /\ \A e \in Events : reviewLog[e] # NONE =>
       reviewLog[e].rowid <= rows /\ reviewLog[e].reviewedAt <= clock
  /\ \A d, e \in Events : reviewLog[d] # NONE /\ reviewLog[e] # NONE =>
       /\ reviewLog[d].rowid = reviewLog[e].rowid => d = e
       /\ reviewLog[d].user = reviewLog[e].user /\ reviewLog[d].rowid < reviewLog[e].rowid =>
            reviewLog[d].reviewedAt <= reviewLog[e].reviewedAt

Below(e) == {d \in Grades(reviewLog[e].user, reviewLog[e].card) :
               reviewLog[d].rowid < reviewLog[e].rowid}

(* before_state is what the newest remaining grade of the card below left. *)
Chained ==
  \A e \in Events : reviewLog[e] # NONE /\ ~reviewLog[e].undone =>
    IsNewest(reviewLog[e].before, Below(e))

RowsAreFinite == \A s \in Sessions : IsFiniteSet(RowsOf(s))

IntroducedSomewhere ==
  \A u \in Users, w \in Words : StageIs(wordProgress[u][w], "INTRODUCED") =>
    wordProgress[u][w].release \in Releases

LogInv == RowsInOrder /\ Chained /\ RowsAreFinite /\ GradedPrefix /\ StateIsNewestGrade

PlacePcs == {"grade_now", "grade_state", "grade_progress", "grade_commit"}
TimePcs == {"grade_state", "grade_progress", "grade_commit"}
StatePcs == {"grade_progress", "grade_commit"}
CheckedPcs == {"undo_session", "undo_progress", "undo_commit"}

IsLive(x) ==
  \/ x.pc \in UndoPcs
  \/ x.pc \in GradePcs /\ reviewLog[x.event] = NONE

(* What a live grade has read.                                             *)
GradeHolds(x) ==
  /\ x.pc \in PlacePcs => IsCurrent(x.session, x.card)
  /\ x.pc \in TimePcs =>
       /\ x.now <= clock
       /\ \A e \in Events : OwnRow(x.user, e) => reviewLog[e].reviewedAt <= x.now
  /\ x.pc \in StatePcs => x.before = cardState[x.user][x.card]

(* The cards that decide whether the undo of e reopens the word.           *)
DecidingCards(u, e) ==
  LET w == WordOf[reviewLog[e].card]
      rel == session[reviewLog[e].session].release
  IN  CanonicalCardKeys(wordProgress[u][w].release, LocalKey[rel][w])

(* What an undo has read.                                                  *)
UndoHolds(x) ==
  /\ x.pc \in CheckedPcs => IsLatest(x.user, x.event)
  /\ (/\ x.pc = "undo_commit"
      /\ StageIs(wordProgress[x.user][WordOf[reviewLog[x.event].card]], "INTRODUCED"))
       => x.keys = DecidingCards(x.user, x.event)

Holds(x) == IsLive(x) => GradeHolds(x) /\ UndoHolds(x)

ReadsHold == \A r \in Requests : Holds(req[r])

SerialInv == IInv /\ LogInv /\ IntroducedSomewhere /\ OneAtATime /\ ReadsHold

LEMMA LiveIs == \A r \in Requests : Live(r) <=> IsLive(req[r])
BY DEF Live, IsLive

LEMMA NewestStates ==
  StateIsNewestGrade <=> \A u \in Users, c \in Cards : IsNewest(cardState[u][c], Grades(u, c))
BY DEF StateIsNewestGrade, IsNewest, Grades

(* Steps that leave the log and what a request may have read of the        *)
(* sessions and stages as they are, except that new sessions appear.       *)
Quiet ==
  /\ UNCHANGED <<reviewLog, cardState, rows>>
  /\ clock <= clock'
  /\ \A s \in Sessions : session[s] # NONE =>
       /\ session'[s] # NONE
       /\ session'[s].queue = session[s].queue
       /\ session'[s].position = session[s].position
       /\ session'[s].release = session[s].release
  /\ \A s \in Sessions : session[s] = NONE /\ session'[s] # NONE => session'[s].position = 0
  /\ \A u \in Users, w \in Words : StageIs(wordProgress'[u][w], "INTRODUCED") =>
       wordProgress'[u][w] = wordProgress[u][w]

LEMMA QuietLog ==
  ASSUME IInv, LogInv, clock' \in Nat, Quiet
  PROVE  LogInv'
<1>1. /\ reviewLog' = reviewLog /\ cardState' = cardState /\ rows' = rows
      /\ clock <= clock' /\ clock \in Nat /\ clock' \in Nat
      /\ \A e \in Events : reviewLog[e] # NONE => reviewLog[e].reviewedAt \in Nat
  BY DEF Quiet, IInv, TypeOK, LogRow
<1>2. RowsInOrder'
  <2>1. \A e \in Events : reviewLog[e] # NONE =>
          reviewLog[e].rowid <= rows /\ reviewLog[e].reviewedAt <= clock'
    BY <1>1 DEF LogInv, RowsInOrder
  <2>2. QED
    BY <1>1, <2>1 DEF LogInv, RowsInOrder
<1>3. Chained'
  BY <1>1 DEF LogInv, Chained, IsNewest, Below, Grades, UnUndone, OwnRow
<1>4. \A s \in Sessions : RowsOf(s)' = RowsOf(s)
  BY <1>1 DEF RowsOf
<1>5. RowsAreFinite'
  BY <1>4 DEF LogInv, RowsAreFinite
<1>6. GradedPrefix'
  <2> SUFFICES ASSUME NEW s \in Sessions, session'[s] # NONE
      PROVE /\ session'[s].position = Cardinality(RowsOf(s)')
            /\ \A e \in RowsOf(s)' :
                 reviewLog'[e].card =
                   session'[s].queue[Cardinality({d \in RowsOf(s)' :
                                           reviewLog'[d].rowid <= reviewLog'[e].rowid})]
    BY DEF GradedPrefix
  <2>1. CASE session[s] # NONE
    <3>1. /\ session[s].position = Cardinality(RowsOf(s))
          /\ \A e \in RowsOf(s) : reviewLog[e].card = session[s].queue[Cardinality(UpTo(s, e))]
      BY <2>1 DEF LogInv, GradedPrefix, UpTo
    <3>2. /\ session'[s].position = session[s].position
          /\ session'[s].queue = session[s].queue
      BY <2>1 DEF Quiet
    <3>3. \A e \in RowsOf(s) : {d \in RowsOf(s)' : reviewLog'[d].rowid <= reviewLog'[e].rowid}
                                = UpTo(s, e)
      BY <1>1, <1>4 DEF UpTo
    <3>4. QED
      BY <1>1, <1>4, <3>1, <3>2, <3>3
  <2>2. CASE session[s] = NONE
    <3>1. RowsOf(s) = {}
      BY <2>2 DEF RowsOf, IInv, RowsGrounded
    <3>2. session'[s].position = 0
      BY <2>2 DEF Quiet
    <3>3. QED
      BY <1>4, <3>1, <3>2, FS_EmptySet
  <2>3. QED
    BY <2>1, <2>2
<1>7. StateIsNewestGrade'
  BY <1>1 DEF LogInv, StateIsNewestGrade, UnUndone, OwnRow
<1>8. QED
  BY <1>2, <1>3, <1>5, <1>6, <1>7 DEF LogInv

(* What a request has read is still so after a quiet step.                 *)
LEMMA QuietHolds ==
  ASSUME IInv, clock' \in Nat, Quiet, NEW x \in Request,
         Grounded(x, reviewLog, session), Holds(x)
  PROVE  Holds(x)'
<1> SUFFICES ASSUME IsLive(x)' PROVE GradeHolds(x)' /\ UndoHolds(x)'
  BY DEF Holds
<1>1. /\ reviewLog' = reviewLog /\ cardState' = cardState /\ clock <= clock'
      /\ clock \in Nat /\ x.now \in Nat
  BY DEF Quiet, IInv, TypeOK, Request
<1>2. IsLive(x) /\ GradeHolds(x) /\ UndoHolds(x)
  BY <1>1 DEF Holds, IsLive
<1>3. x.pc \in PlacePcs => IsCurrent(x.session, x.card)'
  <2>1. SUFFICES ASSUME x.pc \in PlacePcs PROVE IsCurrent(x.session, x.card)'
    OBVIOUS
  <2>2. x.session \in Sessions /\ session[x.session] # NONE
    BY <2>1 DEF PlacePcs, GradePcs, Grounded
  <2>3. IsCurrent(x.session, x.card)
    BY <1>2, <2>1 DEF GradeHolds
  <2>4. QED
    BY <2>2, <2>3 DEF IsCurrent, Quiet
<1>4. x.pc \in TimePcs => x.now <= clock'
  BY <1>1, <1>2 DEF GradeHolds
<1>5. GradeHolds(x)'
  BY <1>1, <1>2, <1>3, <1>4 DEF GradeHolds, OwnRow
<1>6. x.pc \in CheckedPcs => IsLatest(x.user, x.event)'
  BY <1>1, <1>2 DEF UndoHolds, IsLatest, UnUndone, OwnRow, NotAfter
<1>7. x.pc = "undo_commit" =>
        (StageIs(wordProgress'[x.user][WordOf[reviewLog[x.event].card]], "INTRODUCED") =>
           x.keys = DecidingCards(x.user, x.event)')
  <2> SUFFICES ASSUME x.pc = "undo_commit",
                      StageIs(wordProgress'[x.user][WordOf[reviewLog[x.event].card]], "INTRODUCED")
               PROVE  x.keys = DecidingCards(x.user, x.event)'
    OBVIOUS
  <2> DEFINE row == reviewLog[x.event]
  <2>1. /\ x.user \in Users /\ x.event \in Events /\ row # NONE
    BY DEF Grounded, UndoPcs
  <2>2. row \in LogRow
    BY <2>1 DEF IInv, TypeOK
  <2>3. row.session \in Sessions /\ WordOf[row.card] \in Words /\ session[row.session] # NONE
    BY <2>1, <2>2, ContentAssumption DEF LogRow, IInv, RowsGrounded
  <2>4. wordProgress'[x.user][WordOf[row.card]] = wordProgress[x.user][WordOf[row.card]]
    BY <2>1, <2>3 DEF Quiet
  <2>5. session'[row.session].release = session[row.session].release
    BY <2>3 DEF Quiet
  <2>6. x.keys = DecidingCards(x.user, x.event)
    BY <1>2, <2>4 DEF UndoHolds
  <2>7. QED
    BY <1>1, <2>4, <2>5, <2>6 DEF DecidingCards
<1>8. UndoHolds(x)'
  BY <1>1, <1>6, <1>7 DEF UndoHolds
<1>9. QED
  BY <1>5, <1>8

------------------------------------------------------------------------------
(* A grade adds the newest row of its user, session and card.              *)

Adds(e, row) ==
  /\ reviewLog[e] = NONE
  /\ reviewLog' = [reviewLog EXCEPT ![e] = row]
  /\ row \in LogRow /\ row.rowid = rows + 1 /\ ~row.undone
  /\ rows' = rows + 1
  /\ row.reviewedAt <= clock
  /\ clock' = clock
  /\ cardState' = [cardState EXCEPT ![row.user][row.card] = e]
  /\ \A d \in Events : OwnRow(row.user, d) => reviewLog[d].reviewedAt <= row.reviewedAt
  /\ row.before = cardState[row.user][row.card]
  /\ session[row.session] # NONE
  /\ IsCurrent(row.session, row.card)
  /\ session'[row.session].position = session[row.session].position + 1
  /\ \A s \in Sessions : session'[s] # NONE =>
       /\ session[s] # NONE
       /\ session'[s].queue = session[s].queue
       /\ s # row.session => session'[s].position = session[s].position

LEMMA AddedRows ==
  ASSUME IInv, NEW e \in Events, NEW row, Adds(e, row)
  PROVE  /\ reviewLog'[e] = row /\ row # NONE
         /\ \A d \in Events : d # e => reviewLog'[d] = reviewLog[d]
         /\ \A u \in Users : UnUndone(u)' =
              IF u = row.user THEN UnUndone(u) \cup {e} ELSE UnUndone(u)
         /\ \A s \in Sessions : RowsOf(s)' =
              IF s = row.session THEN RowsOf(s) \cup {e} ELSE RowsOf(s)
         /\ \A u \in Users, c \in Cards : Grades(u, c)' =
              IF u = row.user /\ c = row.card THEN Grades(u, c) \cup {e} ELSE Grades(u, c)
<1>1. /\ reviewLog'[e] = row /\ row # NONE /\ reviewLog[e] = NONE
      /\ \A d \in Events : d # e => reviewLog'[d] = reviewLog[d]
      /\ ~row.undone
  BY NoneAssumption DEF Adds, IInv, TypeOK
<1>2. \A u \in Users : UnUndone(u)' =
        IF u = row.user THEN UnUndone(u) \cup {e} ELSE UnUndone(u)
  BY <1>1 DEF UnUndone, OwnRow
<1>3. \A s \in Sessions : RowsOf(s)' =
        IF s = row.session THEN RowsOf(s) \cup {e} ELSE RowsOf(s)
  BY <1>1 DEF RowsOf
<1>4. \A u \in Users, c \in Cards : Grades(u, c)' =
        IF u = row.user /\ c = row.card THEN Grades(u, c) \cup {e} ELSE Grades(u, c)
  <2> SUFFICES ASSUME NEW u \in Users, NEW c \in Cards
               PROVE  Grades(u, c)' =
                 IF u = row.user /\ c = row.card THEN Grades(u, c) \cup {e} ELSE Grades(u, c)
    OBVIOUS
  <2>1. \A d \in UnUndone(u) : d \in Events /\ reviewLog[d] # NONE /\ reviewLog'[d] = reviewLog[d]
    BY <1>1 DEF UnUndone, OwnRow
  <2>2. QED
    BY <1>1, <1>2, <2>1 DEF Grades
<1>5. QED
  BY <1>1, <1>2, <1>3, <1>4

LEMMA AddLog ==
  ASSUME IInv, LogInv, NEW e \in Events, NEW row, Adds(e, row)
  PROVE  LogInv'
<1>1. /\ reviewLog'[e] = row /\ row # NONE
      /\ \A d \in Events : d # e => reviewLog'[d] = reviewLog[d]
  BY AddedRows
<1>2. /\ row.user \in Users /\ row.session \in Sessions /\ row.card \in Cards
      /\ row.before \in Events \cup {NONE} /\ row.reviewedAt \in Nat
      /\ row.rowid = rows + 1 /\ rows \in Nat /\ clock \in Nat /\ clock' = clock
      /\ rows' = rows + 1 /\ row.reviewedAt <= clock
      /\ reviewLog[e] = NONE /\ ~row.undone
  BY DEF Adds, LogRow, IInv, TypeOK
<1>3. \A d \in Events : reviewLog[d] # NONE =>
        /\ reviewLog[d].rowid \in Nat /\ reviewLog[d].reviewedAt \in Nat
        /\ reviewLog[d].rowid <= rows /\ reviewLog[d].reviewedAt <= clock
        /\ reviewLog[d].user \in Users /\ reviewLog[d].card \in Cards
  BY DEF LogInv, RowsInOrder, IInv, TypeOK, LogRow
<1>4. RowsInOrder'
  <2>1. \A d \in Events : reviewLog'[d] # NONE =>
          reviewLog'[d].rowid <= rows' /\ reviewLog'[d].reviewedAt <= clock'
    BY <1>1, <1>2, <1>3
  <2>2. \A d, f \in Events : reviewLog'[d] # NONE /\ reviewLog'[f] # NONE =>
          (reviewLog'[d].rowid = reviewLog'[f].rowid => d = f)
    BY <1>1, <1>2, <1>3 DEF LogInv, RowsInOrder
  <2>3. \A d \in Events : reviewLog[d] # NONE /\ reviewLog[d].user = row.user =>
          reviewLog[d].reviewedAt <= row.reviewedAt
    BY DEF Adds, OwnRow
  <2>4. \A d, f \in Events : reviewLog'[d] # NONE /\ reviewLog'[f] # NONE =>
          (reviewLog'[d].user = reviewLog'[f].user /\ reviewLog'[d].rowid < reviewLog'[f].rowid =>
             reviewLog'[d].reviewedAt <= reviewLog'[f].reviewedAt)
    <3> SUFFICES ASSUME NEW d \in Events, NEW f \in Events,
                        reviewLog'[d] # NONE, reviewLog'[f] # NONE,
                        reviewLog'[d].user = reviewLog'[f].user,
                        reviewLog'[d].rowid < reviewLog'[f].rowid
                 PROVE  reviewLog'[d].reviewedAt <= reviewLog'[f].reviewedAt
      OBVIOUS
    <3>1. CASE d # e /\ f # e
      BY <1>1, <3>1 DEF LogInv, RowsInOrder
    <3>2. CASE d = e /\ f # e
      BY <1>1, <1>2, <1>3, <3>2
    <3>3. CASE d # e /\ f = e
      BY <1>1, <2>3, <3>3
    <3>4. CASE d = e /\ f = e
      BY <1>1, <1>2, <3>4
    <3>5. QED
      BY <3>1, <3>2, <3>3, <3>4
  <2>5. QED
    BY <2>1, <2>2, <2>4 DEF RowsInOrder
<1>5. \A u \in Users, c \in Cards : Grades(u, c)' =
        IF u = row.user /\ c = row.card THEN Grades(u, c) \cup {e} ELSE Grades(u, c)
  BY AddedRows
<1>6. \A u \in Users, c \in Cards : \A d \in Grades(u, c) :
        /\ d \in Events /\ reviewLog[d] # NONE /\ d # e /\ reviewLog'[d] = reviewLog[d]
        /\ reviewLog[d].rowid < row.rowid /\ reviewLog[d].rowid \in Nat
  <2>1. \A u \in Users, c \in Cards : \A d \in Grades(u, c) : d \in Events /\ reviewLog[d] # NONE
    BY DEF Grades, UnUndone, OwnRow
  <2>2. QED
    BY <1>1, <1>2, <1>3, <2>1
<1>7. \A u \in Users, c \in Cards : IsNewest(cardState[u][c], Grades(u, c))
  BY NewestStates DEF LogInv
<1>8. Chained'
  <2> SUFFICES ASSUME NEW d \in Events, reviewLog'[d] # NONE, ~reviewLog'[d].undone
               PROVE  IsNewest(reviewLog[d].before, Below(d))'
    BY DEF Chained
  <2>1. CASE d # e
    <3>1. /\ reviewLog'[d] = reviewLog[d] /\ reviewLog[d] # NONE /\ ~reviewLog[d].undone
          /\ reviewLog[d].user \in Users /\ reviewLog[d].card \in Cards
          /\ reviewLog[d].rowid < row.rowid
      BY <1>1, <1>2, <1>3, <2>1
    <3>2. IsNewest(reviewLog[d].before, Below(d))
      BY <3>1 DEF LogInv, Chained
    <3>3. \A f \in Below(d) : reviewLog'[f] = reviewLog[f]
      BY <1>6, <3>1 DEF Below
    <3>4. Below(d)' = Below(d)
      <4>1. Below(d)' = {f \in Grades(reviewLog[d].user, reviewLog[d].card)' :
                           reviewLog'[f].rowid < reviewLog[d].rowid}
        BY <3>1, <1>5 DEF Below, Grades, UnUndone, OwnRow
      <4>2. ~(row.rowid < reviewLog[d].rowid)
        BY <1>2, <1>3, <3>1
      <4>3. QED
        BY <1>1, <1>5, <1>6, <3>1, <4>1, <4>2 DEF Below
    <3>5. QED
      BY <3>1, <3>2, <3>3, <3>4 DEF IsNewest
  <2>2. CASE d = e
    <3> DEFINE S == Grades(row.user, row.card)
    <3>1. reviewLog'[d].before = row.before /\ row.before = cardState[row.user][row.card]
      BY <1>1, <2>2 DEF Adds
    <3>2. IsNewest(cardState[row.user][row.card], S)
      BY <1>2, <1>7
    <3>3. Below(d)' = {f \in S \cup {e} : reviewLog'[f].rowid < row.rowid}
      BY <1>1, <1>2, <1>5, <2>2 DEF Below, Grades, UnUndone, OwnRow
    <3>4. Below(d)' = S
      BY <1>1, <1>2, <1>6, <3>3
    <3>5. QED
      BY <1>2, <1>6, <3>1, <3>2, <3>4 DEF IsNewest
  <2>3. QED
    BY <2>1, <2>2
<1>9. StateIsNewestGrade'
  <2> SUFFICES ASSUME NEW u \in Users, NEW c \in Cards
               PROVE  IsNewest(cardState[u][c], Grades(u, c))'
    BY DEF StateIsNewestGrade, IsNewest, Grades
  <2>1. CASE u = row.user /\ c = row.card
    <3>1. cardState'[u][c] = e
      BY <1>2, <2>1 DEF Adds, IInv, TypeOK
    <3>2. Grades(u, c)' = Grades(u, c) \cup {e}
      BY <1>5, <2>1
    <3>3. \A d \in Grades(u, c) : reviewLog'[d].rowid <= row.rowid
      BY <1>2, <1>6
    <3>4. row.rowid <= row.rowid
      BY <1>2
    <3>5. QED
      BY <1>1, <3>1, <3>2, <3>3, <3>4 DEF IsNewest
  <2>2. CASE ~(u = row.user /\ c = row.card)
    <3>1. cardState'[u][c] = cardState[u][c]
      BY <1>2, <2>2 DEF Adds, IInv, TypeOK
    <3>2. Grades(u, c)' = Grades(u, c)
      BY <1>5, <2>2
    <3>3. QED
      BY <1>6, <1>7, <3>1, <3>2 DEF IsNewest
  <2>3. QED
    BY <2>1, <2>2
<1>10. \A s \in Sessions : RowsOf(s)' = IF s = row.session THEN RowsOf(s) \cup {e} ELSE RowsOf(s)
  BY AddedRows
<1>11. \A s \in Sessions : IsFiniteSet(RowsOf(s))
  BY DEF LogInv, RowsAreFinite
<1>12. RowsAreFinite'
  <2>1. \A s \in Sessions : IsFiniteSet(RowsOf(s) \cup {e})
    BY <1>11, FS_AddElement
  <2>2. QED
    BY <1>10, <1>11, <2>1 DEF RowsAreFinite
<1>13. GradedPrefix'
  <2> SUFFICES ASSUME NEW s \in Sessions, session'[s] # NONE
               PROVE  /\ session'[s].position = Cardinality(RowsOf(s)')
                      /\ \A d \in RowsOf(s)' :
                           reviewLog'[d].card = session'[s].queue[Cardinality(UpTo(s, d)')]
    BY DEF GradedPrefix, UpTo
  <2>1. /\ session[s] # NONE /\ session'[s].queue = session[s].queue
        /\ s # row.session => session'[s].position = session[s].position
    BY DEF Adds
  <2>2. /\ session[s].position = Cardinality(RowsOf(s))
        /\ \A d \in RowsOf(s) : reviewLog[d].card = session[s].queue[Cardinality(UpTo(s, d))]
    BY <2>1 DEF LogInv, GradedPrefix, UpTo
  <2>3. \A d \in RowsOf(s) :
          /\ d \in Events /\ reviewLog[d] # NONE /\ d # e /\ reviewLog'[d] = reviewLog[d]
          /\ reviewLog[d].rowid < row.rowid /\ reviewLog[d].rowid \in Nat
    <3>1. \A d \in RowsOf(s) : d \in Events /\ reviewLog[d] # NONE
      BY DEF RowsOf
    <3>2. QED
      BY <1>1, <1>2, <1>3, <3>1
  <2>4. \A d \in RowsOf(s) : UpTo(s, d)' = UpTo(s, d)
    <3> SUFFICES ASSUME NEW d \in RowsOf(s) PROVE UpTo(s, d)' = UpTo(s, d)
      OBVIOUS
    <3>1. UpTo(s, d)' = {f \in RowsOf(s)' : reviewLog'[f].rowid <= reviewLog[d].rowid}
      BY <2>3 DEF UpTo
    <3>2. ~(row.rowid <= reviewLog[d].rowid)
      BY <1>2, <2>3
    <3>3. QED
      BY <1>1, <1>10, <2>3, <3>1, <3>2 DEF UpTo
  <2>5. CASE s # row.session
    BY <1>10, <2>1, <2>2, <2>3, <2>4, <2>5
  <2>6. CASE s = row.session
    <3>1. RowsOf(s)' = RowsOf(s) \cup {e} /\ e \notin RowsOf(s)
      BY <1>10, <2>3, <2>6
    <3>2. Cardinality(RowsOf(s)') = Cardinality(RowsOf(s)) + 1
      BY <1>11, <3>1, FS_AddElement
    <3>3. session'[s].position = session[s].position + 1
      BY <2>6 DEF Adds
    <3>4. UpTo(s, e)' = RowsOf(s)'
      <4>1. UpTo(s, e)' = {f \in RowsOf(s) \cup {e} : reviewLog'[f].rowid <= row.rowid}
        BY <1>1, <3>1 DEF UpTo
      <4>2. row.rowid <= row.rowid
        BY <1>2
      <4>3. \A f \in RowsOf(s) : reviewLog'[f].rowid <= row.rowid
        BY <1>2, <2>3
      <4>4. QED
        BY <1>1, <3>1, <4>1, <4>2, <4>3
    <3>5. row.card = session[s].queue[session[s].position + 1]
      BY <2>6 DEF Adds, IsCurrent
    <3>6. reviewLog'[e].card = session'[s].queue[Cardinality(UpTo(s, e)')]
      BY <1>1, <2>1, <2>2, <3>2, <3>4, <3>5
    <3>7. \A d \in RowsOf(s) : reviewLog'[d].card = session'[s].queue[Cardinality(UpTo(s, d)')]
      BY <2>1, <2>2, <2>3, <2>4
    <3>8. QED
      BY <2>2, <3>1, <3>2, <3>3, <3>6, <3>7
  <2>7. QED
    BY <2>5, <2>6
<1>14. QED
  BY <1>4, <1>8, <1>9, <1>12, <1>13 DEF LogInv

(* An undo takes the newest remaining row of its user away.                *)

Removes(e, row) ==
  /\ row = reviewLog[e] /\ row # NONE
  /\ reviewLog' = [reviewLog EXCEPT ![e] = UndoneRow(row)]
  /\ rows' = rows
  /\ clock' = clock
  /\ IsLatest(row.user, e)
  /\ cardState' = [cardState EXCEPT ![row.user][row.card] = RestoredState(row.user, row)]
  /\ session[row.session] # NONE
  /\ session'[row.session].position = Rewound(session[row.session].position)
  /\ \A s \in Sessions : session'[s] # NONE =>
       /\ session[s] # NONE
       /\ session'[s].queue = session[s].queue
       /\ s # row.session => session'[s].position = session[s].position

LEMMA RemovedRows ==
  ASSUME IInv, NEW e \in Events, NEW row, Removes(e, row)
  PROVE  /\ row \in LogRow /\ ~row.undone
         /\ reviewLog'[e].undone
         /\ \A d \in Events : reviewLog'[d] # NONE <=> reviewLog[d] # NONE
         /\ \A d \in Events : reviewLog[d] # NONE =>
              /\ reviewLog'[d].user = reviewLog[d].user
              /\ reviewLog'[d].session = reviewLog[d].session
              /\ reviewLog'[d].card = reviewLog[d].card
              /\ reviewLog'[d].before = reviewLog[d].before
              /\ reviewLog'[d].rowid = reviewLog[d].rowid
              /\ reviewLog'[d].reviewedAt = reviewLog[d].reviewedAt
              /\ d # e => reviewLog'[d] = reviewLog[d]
         /\ \A u \in Users : UnUndone(u)' = UnUndone(u) \ {e}
         /\ \A s \in Sessions : RowsOf(s)' = RowsOf(s) \ {e}
         /\ \A u \in Users, c \in Cards : Grades(u, c)' = Grades(u, c) \ {e}
<1> DEFINE marked == UndoneRow(row)
<1>1. row \in LogRow /\ ~row.undone /\ reviewLog[e] = row /\ row # NONE
  BY DEF Removes, IsLatest, UnUndone, IInv, TypeOK
<1>2. /\ marked \in LogRow /\ marked # NONE
      /\ marked.user = row.user /\ marked.session = row.session
      /\ marked.card = row.card /\ marked.before = row.before
      /\ marked.rowid = row.rowid /\ marked.reviewedAt = row.reviewedAt
      /\ marked.undone = TRUE
  BY <1>1, LogRowMarked, NoneAssumption DEF UndoneRow, LogRow
<1> HIDE DEF marked
<1>3. /\ reviewLog'[e] = marked
      /\ \A d \in Events : d # e => reviewLog'[d] = reviewLog[d]
  BY DEF Removes, marked, IInv, TypeOK
<1>4. \A d \in Events : reviewLog'[d] # NONE <=> reviewLog[d] # NONE
  BY <1>1, <1>2, <1>3
<1>5. reviewLog'[e].undone
  BY <1>2, <1>3
<1>6. \A d \in Events : reviewLog[d] # NONE =>
              /\ reviewLog'[d].user = reviewLog[d].user
              /\ reviewLog'[d].session = reviewLog[d].session
              /\ reviewLog'[d].card = reviewLog[d].card
              /\ reviewLog'[d].before = reviewLog[d].before
              /\ reviewLog'[d].rowid = reviewLog[d].rowid
              /\ reviewLog'[d].reviewedAt = reviewLog[d].reviewedAt
              /\ d # e => reviewLog'[d] = reviewLog[d]
  BY <1>1, <1>2, <1>3
<1>7. \A u \in Users : UnUndone(u)' = UnUndone(u) \ {e}
  BY <1>3, <1>5 DEF UnUndone, OwnRow
<1>8. \A s \in Sessions : RowsOf(s)' = RowsOf(s) \ {e}
  BY <1>3, <1>5 DEF RowsOf
<1>9. \A u \in Users, c \in Cards : Grades(u, c)' = Grades(u, c) \ {e}
  <2> SUFFICES ASSUME NEW u \in Users, NEW c \in Cards PROVE Grades(u, c)' = Grades(u, c) \ {e}
    OBVIOUS
  <2>1. \A d \in UnUndone(u) : d \in Events /\ reviewLog[d] # NONE
    BY DEF UnUndone, OwnRow
  <2>2. QED
    BY <1>6, <1>7, <2>1 DEF Grades
<1>10. QED
  BY <1>1, <1>4, <1>5, <1>6, <1>7, <1>8, <1>9

(* In the order of rowid the latest row of a user comes last.              *)
LEMMA LatestIsLast ==
  ASSUME IInv, LogInv, NEW u \in Users, NEW e \in Events, IsLatest(u, e)
  PROVE  \A d \in UnUndone(u) : d # e => reviewLog[d].rowid < reviewLog[e].rowid
<1> SUFFICES ASSUME NEW d \in UnUndone(u), d # e
             PROVE  reviewLog[d].rowid < reviewLog[e].rowid
  OBVIOUS
<1>1. /\ d \in Events /\ reviewLog[d] # NONE /\ reviewLog[e] # NONE
      /\ reviewLog[d].user = u /\ reviewLog[e].user = u
      /\ NotAfter(d, e)
  BY DEF IsLatest, UnUndone, OwnRow
<1>2. /\ reviewLog[d].rowid \in Nat /\ reviewLog[e].rowid \in Nat
      /\ reviewLog[d].reviewedAt \in Nat /\ reviewLog[e].reviewedAt \in Nat
  BY <1>1 DEF IInv, TypeOK, LogRow
<1>3. /\ reviewLog[d].rowid # reviewLog[e].rowid
      /\ reviewLog[e].rowid < reviewLog[d].rowid =>
           reviewLog[e].reviewedAt <= reviewLog[d].reviewedAt
  BY <1>1 DEF LogInv, RowsInOrder
<1>4. QED
  BY <1>1, <1>2, <1>3 DEF NotAfter

LEMMA RemoveLog ==
  ASSUME IInv, LogInv, NEW e \in Events, NEW row, Removes(e, row)
  PROVE  LogInv'
<1>1. row = reviewLog[e] /\ row # NONE /\ clock' = clock /\ rows' = rows
  BY DEF Removes
<1>2. /\ row \in LogRow /\ ~row.undone /\ row = reviewLog[e] /\ row # NONE
      /\ reviewLog'[e].undone
      /\ clock' = clock /\ rows' = rows
  BY <1>1, RemovedRows
<1>3. /\ row.user \in Users /\ row.session \in Sessions /\ row.card \in Cards
      /\ row.rowid \in Nat
  BY <1>2 DEF LogRow
<1>4. /\ \A d \in Events : reviewLog'[d] # NONE <=> reviewLog[d] # NONE
      /\ \A d \in Events : reviewLog[d] # NONE =>
           /\ reviewLog'[d].user = reviewLog[d].user
           /\ reviewLog'[d].session = reviewLog[d].session
           /\ reviewLog'[d].card = reviewLog[d].card
           /\ reviewLog'[d].before = reviewLog[d].before
           /\ reviewLog'[d].rowid = reviewLog[d].rowid
           /\ reviewLog'[d].reviewedAt = reviewLog[d].reviewedAt
           /\ d # e => reviewLog'[d] = reviewLog[d]
  BY RemovedRows
<1>5. \A d \in Events : reviewLog[d] # NONE =>
        /\ reviewLog[d].rowid \in Nat
        /\ reviewLog[d].user \in Users /\ reviewLog[d].card \in Cards
        /\ reviewLog[d].session \in Sessions /\ reviewLog[d].undone \in BOOLEAN
        /\ session[reviewLog[d].session].user = reviewLog[d].user
  BY DEF IInv, TypeOK, LogRow, RowsGrounded
<1>6. \A d \in UnUndone(row.user) : d # e => reviewLog[d].rowid < row.rowid
  BY <1>2, <1>3, LatestIsLast DEF Removes
<1>7. RowsInOrder'
  BY <1>2, <1>4 DEF LogInv, RowsInOrder
<1>8. \A u \in Users, c \in Cards : Grades(u, c)' = Grades(u, c) \ {e}
  BY RemovedRows
<1>9. \A u \in Users, c \in Cards : \A d \in Grades(u, c) :
        /\ d \in Events /\ reviewLog[d] # NONE /\ reviewLog'[d].rowid = reviewLog[d].rowid
        /\ reviewLog[d].user = u /\ reviewLog[d].card = c
  BY <1>4 DEF Grades, UnUndone, OwnRow
<1>10. \A u \in Users, c \in Cards : IsNewest(cardState[u][c], Grades(u, c))
  BY NewestStates DEF LogInv
<1>11. Chained'
  <2> SUFFICES ASSUME NEW d \in Events, reviewLog'[d] # NONE, ~reviewLog'[d].undone
               PROVE  IsNewest(reviewLog[d].before, Below(d))'
    BY DEF Chained
  <2>1. /\ d # e /\ reviewLog[d] # NONE /\ ~reviewLog[d].undone
        /\ reviewLog[d].user \in Users /\ reviewLog[d].card \in Cards
        /\ reviewLog[d].rowid \in Nat
        /\ reviewLog'[d].before = reviewLog[d].before
    BY <1>2, <1>4, <1>5
  <2>2. IsNewest(reviewLog[d].before, Below(d))
    BY <2>1 DEF LogInv, Chained
  <2>3. e \notin Below(d)
    <3>1. SUFFICES ASSUME e \in Below(d) PROVE FALSE
      OBVIOUS
    <3>2. reviewLog[e].user = reviewLog[d].user /\ reviewLog[e].rowid < reviewLog[d].rowid
      BY <2>1, <3>1, <1>9 DEF Below
    <3>3. d \in UnUndone(row.user)
      BY <1>2, <2>1, <3>2 DEF UnUndone, OwnRow
    <3>4. QED
      BY <1>2, <1>3, <1>6, <2>1, <3>2, <3>3
  <2>4. Below(d)' = Below(d)
    <3>1. PICK u \in Users, c \in Cards : u = reviewLog[d].user /\ c = reviewLog[d].card
      BY <2>1
    <3>2. Below(d) = {f \in Grades(u, c) : reviewLog[f].rowid < reviewLog[d].rowid}
      BY <3>1 DEF Below
    <3>3. Below(d)' = {f \in Grades(u, c)' : reviewLog'[f].rowid < reviewLog[d].rowid}
      BY <1>4, <2>1, <3>1 DEF Below, Grades, UnUndone, OwnRow
    <3>4. Grades(u, c)' = Grades(u, c) \ {e}
      BY <1>8
    <3>5. \A f \in Grades(u, c) : reviewLog'[f].rowid = reviewLog[f].rowid
      BY <1>9
    <3>6. QED
      BY <2>3, <3>2, <3>3, <3>4, <3>5
  <2>5. \A f \in Below(d) : reviewLog'[f].rowid = reviewLog[f].rowid
    BY <1>9, <2>1 DEF Below
  <2>6. QED
    BY <2>1, <2>2, <2>4, <2>5 DEF IsNewest
<1>12. StateIsNewestGrade'
  <2> SUFFICES ASSUME NEW u \in Users, NEW c \in Cards
               PROVE  IsNewest(cardState[u][c], Grades(u, c))'
    BY DEF StateIsNewestGrade, IsNewest, Grades
  <2>1. CASE u = row.user /\ c = row.card
    <3>1. e \in Grades(u, c)
      BY <1>2, <2>1 DEF Grades, UnUndone, OwnRow
    <3>2. \A d \in Grades(u, c) : d # e => reviewLog[d].rowid < row.rowid
      BY <1>6, <2>1 DEF Grades
    <3>3. cardState[u][c] = e
      <4>1. /\ cardState[u][c] \in Grades(u, c)
            /\ reviewLog[e].rowid <= reviewLog[cardState[u][c]].rowid
        BY <1>10, <3>1 DEF IsNewest
      <4>2. reviewLog[cardState[u][c]].rowid \in Nat
        BY <1>5, <1>9, <4>1
      <4>3. QED
        BY <1>2, <1>3, <3>2, <4>1, <4>2
    <3>4. cardState'[u][c] = RestoredState(u, row)
      BY <1>3, <2>1 DEF Removes, IInv, TypeOK
    <3>5. cardState'[u][c] = row.before
      BY <2>1, <3>3, <3>4, NoneAssumption DEF RestoredState
    <3>6. Below(e) = Grades(u, c) \ {e}
      BY <1>2, <1>3, <2>1, <3>2 DEF Below
    <3>7. IsNewest(row.before, Grades(u, c) \ {e})
      BY <1>2, <3>6 DEF LogInv, Chained
    <3>8. Grades(u, c)' = Grades(u, c) \ {e}
      BY <1>8
    <3>9. \A d \in Grades(u, c) : reviewLog'[d].rowid = reviewLog[d].rowid
      BY <1>9
    <3>10. QED
      BY <3>5, <3>7, <3>8, <3>9 DEF IsNewest
  <2>2. CASE ~(u = row.user /\ c = row.card)
    <3>1. cardState'[u][c] = cardState[u][c]
      BY <1>3, <2>2 DEF Removes, IInv, TypeOK
    <3>2. e \notin Grades(u, c)
      BY <1>2, <1>9, <2>2
    <3>3. Grades(u, c)' = Grades(u, c)
      BY <1>8, <3>2
    <3>4. \A d \in Grades(u, c) : reviewLog'[d].rowid = reviewLog[d].rowid
      BY <1>9
    <3>5. QED
      BY <1>10, <3>1, <3>3, <3>4 DEF IsNewest
  <2>3. QED
    BY <2>1, <2>2
<1>13. \A s \in Sessions : RowsOf(s)' = RowsOf(s) \ {e}
  BY RemovedRows
<1>14. \A s \in Sessions : IsFiniteSet(RowsOf(s))
  BY DEF LogInv, RowsAreFinite
<1>15. RowsAreFinite'
  <2>1. \A s \in Sessions : IsFiniteSet(RowsOf(s) \ {e})
    BY <1>14, FS_RemoveElement
  <2>2. QED
    BY <1>13, <2>1 DEF RowsAreFinite
<1>16. GradedPrefix'
  <2> SUFFICES ASSUME NEW s \in Sessions, session'[s] # NONE
               PROVE  /\ session'[s].position = Cardinality(RowsOf(s)')
                      /\ \A d \in RowsOf(s)' :
                           reviewLog'[d].card = session'[s].queue[Cardinality(UpTo(s, d)')]
    BY DEF GradedPrefix, UpTo
  <2>1. /\ session[s] # NONE /\ session'[s].queue = session[s].queue
        /\ s # row.session => session'[s].position = session[s].position
    BY DEF Removes
  <2>2. /\ session[s].position = Cardinality(RowsOf(s))
        /\ \A d \in RowsOf(s) : reviewLog[d].card = session[s].queue[Cardinality(UpTo(s, d))]
    BY <2>1 DEF LogInv, GradedPrefix, UpTo
  <2>3. \A d \in RowsOf(s) :
          /\ d \in Events /\ reviewLog[d] # NONE /\ ~reviewLog[d].undone
          /\ reviewLog[d].session = s
          /\ reviewLog'[d].rowid = reviewLog[d].rowid /\ reviewLog'[d].card = reviewLog[d].card
          /\ reviewLog[d].rowid \in Nat
    <3>1. \A d \in RowsOf(s) : /\ d \in Events /\ reviewLog[d] # NONE /\ ~reviewLog[d].undone
                               /\ reviewLog[d].session = s
      BY DEF RowsOf
    <3>2. QED
      BY <1>4, <1>5, <3>1
  <2>4. CASE s # row.session
    <3>1. e \notin RowsOf(s)
      BY <1>2, <2>3, <2>4
    <3>2. RowsOf(s)' = RowsOf(s)
      BY <1>13, <3>1
    <3>3. \A d \in RowsOf(s) : UpTo(s, d)' = UpTo(s, d)
      BY <2>3, <3>2 DEF UpTo
    <3>4. QED
      BY <2>1, <2>2, <2>3, <2>4, <3>2, <3>3
  <2>5. CASE s = row.session
    <3>1. e \in RowsOf(s)
      BY <1>2, <2>5 DEF RowsOf
    <3>2. /\ Cardinality(RowsOf(s)') = Cardinality(RowsOf(s)) - 1
          /\ Cardinality(RowsOf(s)) \in Nat /\ Cardinality(RowsOf(s)) # 0
      BY <1>13, <1>14, <3>1, FS_RemoveElement, FS_EmptySet, FS_CardinalityType
    <3>3. session'[s].position = Cardinality(RowsOf(s)')
      BY <2>2, <2>5, <3>2 DEF Removes, Rewound
    <3>4. \A d \in RowsOf(s) : d # e => reviewLog[d].rowid < row.rowid
      <4>1. \A d \in RowsOf(s) : d \in UnUndone(row.user)
        BY <1>2, <1>5, <2>3, <2>5 DEF UnUndone, OwnRow
      <4>2. QED
        BY <1>6, <4>1
    <3>5. \A d \in RowsOf(s) : d # e => UpTo(s, d)' = UpTo(s, d)
      <4> SUFFICES ASSUME NEW d \in RowsOf(s), d # e PROVE UpTo(s, d)' = UpTo(s, d)
        OBVIOUS
      <4>1. ~(reviewLog[e].rowid <= reviewLog[d].rowid)
        BY <1>2, <1>3, <2>3, <3>4
      <4>2. QED
        BY <1>13, <2>3, <4>1 DEF UpTo
    <3>6. QED
      BY <1>13, <2>1, <2>2, <2>3, <3>3, <3>5
  <2>6. QED
    BY <2>4, <2>5
<1>17. QED
  BY <1>7, <1>11, <1>12, <1>15, <1>16 DEF LogInv

LEMMA CommitAdds ==
  ASSUME IInv, NEW r \in Requests, GradeCommit(r), GradeHolds(req[r])
  PROVE  \E e \in Events, row \in LogRow :
           Adds(e, row) /\ e = req[r].event /\ row = GradeRow(r)
<1>1. PICK e \in Events, row \in LogRow : e = req[r].event /\ row = GradeRow(r)
  BY CommitFacts
<1>2. /\ row.user = req[r].user /\ row.session = req[r].session /\ row.card = req[r].card
      /\ row.before = req[r].before /\ row.reviewedAt = req[r].now
      /\ row.rowid = rows + 1 /\ ~row.undone
  BY <1>1 DEF GradeRow
<1>3. /\ row.session \in Sessions /\ session[row.session] \in SessionRow
      /\ session[row.session] # NONE /\ reviewLog[e] = NONE
      /\ req[r].pc = "grade_commit"
  BY <1>1, <1>2, CommitFacts, NoneAssumption DEF GradeCommit, At
<1>4. /\ reviewLog' = [reviewLog EXCEPT ![e] = row]
      /\ rows' = rows + 1 /\ clock' = clock
      /\ cardState' = [cardState EXCEPT ![row.user][row.card] = e]
  BY <1>1, <1>2 DEF GradeCommit
<1>5. /\ IsCurrent(row.session, row.card)
      /\ row.reviewedAt <= clock
      /\ \A d \in Events : OwnRow(row.user, d) => reviewLog[d].reviewedAt <= row.reviewedAt
      /\ row.before = cardState[row.user][row.card]
  BY <1>2, <1>3 DEF GradeHolds, PlacePcs, TimePcs, StatePcs
<1>6. /\ session'[row.session].position = session[row.session].position + 1
      /\ \A s \in Sessions : s # row.session => session'[s] = session[s]
  BY <1>2, <1>3, CommitTouchesSession
<1>7. session'[row.session].queue = session[row.session].queue
  BY <1>2, <1>3 DEF GradeCommit, IInv, TypeOK, SessionRow
<1>8. Adds(e, row)
  BY <1>2, <1>3, <1>4, <1>5, <1>6, <1>7 DEF Adds
<1>9. QED
  BY <1>1, <1>8

LEMMA UndoRemoves ==
  ASSUME IInv, NEW r \in Requests, UndoCommit(r), UndoHolds(req[r])
  PROVE  \E e \in Events, row \in LogRow :
           Removes(e, row) /\ e = req[r].event /\ row.user = req[r].user
<1>1. PICK e \in Events, row \in LogRow : e = req[r].event /\ row = reviewLog[e]
  BY UndoFacts
<1>2. /\ row # NONE /\ row.user = req[r].user /\ row.session \in Sessions
      /\ session[row.session] \in SessionRow /\ session[row.session] # NONE
      /\ req[r].pc = "undo_commit"
  BY <1>1, UndoFacts DEF UndoCommit, At
<1> DEFINE place == Rewound(session[row.session].position)
           rewound == [session[row.session] EXCEPT !.position = place]
<1>3. /\ reviewLog' = [reviewLog EXCEPT ![e] = UndoneRow(row)]
      /\ cardState' = [cardState EXCEPT ![row.user][row.card] = RestoredState(row.user, row)]
      /\ session' = [session EXCEPT ![row.session] = rewound]
      /\ rows' = rows /\ clock' = clock
  BY <1>1, <1>2 DEF UndoCommit
<1> HIDE DEF place
<1>4. rewound.position = place /\ rewound.queue = session[row.session].queue
  BY <1>2 DEF SessionRow
<1> HIDE DEF rewound
<1>5. /\ session'[row.session] = rewound
      /\ \A s \in Sessions : s # row.session => session'[s] = session[s]
  BY <1>2, <1>3 DEF IInv, TypeOK
<1>6. IsLatest(row.user, e)
  BY <1>1, <1>2 DEF UndoHolds, CheckedPcs
<1>7. Removes(e, row)
  BY <1>1, <1>2, <1>3, <1>4, <1>5, <1>6 DEF Removes, place
<1>8. QED
  BY <1>1, <1>2, <1>7

------------------------------------------------------------------------------
(* What a live request has read stands while another user's rows change.   *)
LEMMA OthersHold ==
  ASSUME IInv, Keeps, clock' = clock, NEW x \in Request,
         Grounded(x, reviewLog, session), Holds(x), x.pc # "idle",
         Untouched(x.user),
         \A e \in Events : OwnRow(x.user, e)' => OwnRow(x.user, e)
  PROVE  Holds(x)'
<1> SUFFICES ASSUME IsLive(x)' PROVE GradeHolds(x)' /\ UndoHolds(x)'
  BY DEF Holds
<1>1. x.user \in Users /\ (x.pc \in GradePcs => x.event \in Events)
  BY DEF Grounded
<1>2. IsLive(x)
  <2>1. x.pc \in GradePcs /\ reviewLog'[x.event] = NONE => reviewLog[x.event] = NONE
    BY <1>1, KeptRow DEF IInv
  <2>2. QED
    BY <2>1 DEF IsLive
<1>3. GradeHolds(x) /\ UndoHolds(x)
  BY <1>2 DEF Holds
<1>4. cardState'[x.user] = cardState[x.user] /\ wordProgress'[x.user] = wordProgress[x.user]
  BY DEF Untouched
<1>5. \A e \in Events : OwnRow(x.user, e) => reviewLog'[e] = reviewLog[e]
  BY DEF Untouched
<1>6. \A e \in Events : OwnRow(x.user, e)' <=> OwnRow(x.user, e)
  BY <1>5 DEF OwnRow
<1>7. x.pc \in PlacePcs => IsCurrent(x.session, x.card)'
  <2> SUFFICES ASSUME x.pc \in PlacePcs PROVE IsCurrent(x.session, x.card)'
    OBVIOUS
  <2>1. x.pc \in GradePcs /\ x.pc # "grade_session"
    BY DEF PlacePcs, GradePcs
  <2>2. x.session \in Sessions /\ session[x.session] # NONE /\ session[x.session].user = x.user
    BY <2>1 DEF Grounded
  <2>3. session'[x.session] = session[x.session]
    BY <2>2 DEF Untouched
  <2>4. IsCurrent(x.session, x.card)
    BY <1>3 DEF GradeHolds
  <2>5. QED
    BY <2>3, <2>4 DEF IsCurrent
<1>8. x.pc \in TimePcs =>
        \A e \in Events : OwnRow(x.user, e)' => reviewLog'[e].reviewedAt <= x.now
  BY <1>3, <1>5, <1>6 DEF GradeHolds
<1>9. GradeHolds(x)'
  BY <1>3, <1>4, <1>7, <1>8 DEF GradeHolds
<1>10. x.pc \in CheckedPcs => IsLatest(x.user, x.event)'
  <2> SUFFICES ASSUME x.pc \in CheckedPcs PROVE IsLatest(x.user, x.event)'
    OBVIOUS
  <2>1. IsLatest(x.user, x.event)
    BY <1>3 DEF UndoHolds
  <2>2. \A e \in UnUndone(x.user) : e \in Events /\ OwnRow(x.user, e) /\ ~reviewLog[e].undone
    BY DEF UnUndone
  <2>3. UnUndone(x.user)' = UnUndone(x.user)
    BY <1>5, <1>6 DEF UnUndone
  <2>4. \A e \in UnUndone(x.user) : reviewLog'[e] = reviewLog[e]
    BY <1>5, <2>2
  <2>5. QED
    BY <2>1, <2>3, <2>4 DEF IsLatest, NotAfter
<1>11. x.pc = "undo_commit" =>
         (StageIs(wordProgress'[x.user][WordOf[reviewLog'[x.event].card]], "INTRODUCED") =>
            x.keys = DecidingCards(x.user, x.event)')
  <2> SUFFICES ASSUME x.pc = "undo_commit",
                      StageIs(wordProgress'[x.user][WordOf[reviewLog'[x.event].card]], "INTRODUCED")
               PROVE  x.keys = DecidingCards(x.user, x.event)'
    OBVIOUS
  <2>1. x.event \in Events /\ reviewLog[x.event] # NONE /\ reviewLog[x.event].user = x.user
    BY DEF Grounded, UndoPcs
  <2>2. reviewLog'[x.event] = reviewLog[x.event]
    BY <1>5, <2>1 DEF OwnRow
  <2>3. /\ reviewLog[x.event].session \in Sessions
        /\ session[reviewLog[x.event].session] # NONE
        /\ session[reviewLog[x.event].session].user = x.user
    BY <2>1 DEF IInv, TypeOK, LogRow, RowsGrounded
  <2>4. session'[reviewLog[x.event].session] = session[reviewLog[x.event].session]
    BY <2>3 DEF Untouched
  <2>5. x.keys = DecidingCards(x.user, x.event)
    BY <1>3, <1>4, <2>2 DEF UndoHolds
  <2>6. QED
    BY <1>4, <2>2, <2>4, <2>5 DEF DecidingCards
<1>12. UndoHolds(x)'
  BY <1>10, <1>11 DEF UndoHolds
<1>13. QED
  BY <1>9, <1>12

------------------------------------------------------------------------------
(* The writers.                                                            *)

SerialStep == LogInv' /\ IntroducedSomewhere' /\ ReadsHold'

LEMMA GradeCommitSerial ==
  ASSUME SerialInv, NEW r \in Requests, GradeCommit(r)
  PROVE  SerialStep
<1>1. /\ IInv /\ LogInv /\ Holds(req[r]) /\ req \in [Requests -> Request]
      /\ req[r].pc = "grade_commit" /\ reviewLog[req[r].event] = NONE
      /\ \A q \in Requests : Grounded(req[q], reviewLog, session)
  BY CommitFacts DEF SerialInv, ReadsHold, GradeCommit, At, IInv, TypeOK
<1>2. IsLive(req[r]) /\ GradeHolds(req[r])
  BY <1>1 DEF IsLive, Holds, GradePcs
<1>3. PICK e \in Events, row \in LogRow :
        Adds(e, row) /\ e = req[r].event /\ row = GradeRow(r)
  BY <1>1, <1>2, CommitAdds
<1>4. LogInv'
  BY <1>1, <1>3, AddLog
<1>5. /\ row.user = req[r].user /\ row.user \in Users
      /\ reviewLog'[e] = row /\ row # NONE
      /\ \A d \in Events : d # e => reviewLog'[d] = reviewLog[d]
  <2>1. GradeRow(r).user = req[r].user
    BY DEF GradeRow
  <2>2. row.user \in Users
    BY DEF LogRow
  <2>3. /\ reviewLog'[e] = row /\ row # NONE
        /\ \A d \in Events : d # e => reviewLog'[d] = reviewLog[d]
    BY <1>1, <1>3, AddedRows
  <2>4. QED
    BY <1>3, <2>1, <2>2, <2>3
<1>6. Keeps /\ clock' = clock
  BY <1>1, GradeCommitStep DEF GradeCommit
<1>7. IntroducedSomewhere'
  <2> DEFINE w == WordOf[req[r].card]
             rel == session[req[r].session].release
             flipped == [stage |-> "INTRODUCED", release |-> rel]
  <2>1. /\ req[r].user \in Users /\ w \in Words /\ rel \in Releases
        /\ wordProgress \in [Users -> [Words -> Progress \union {NONE}]]
    BY <1>1, CommitFacts, ContentAssumption DEF SessionRow, IInv, TypeOK
  <2>2. \/ wordProgress' = wordProgress
        \/ wordProgress' = [wordProgress EXCEPT ![req[r].user][w] = flipped]
    BY DEF GradeCommit, FlipWordIntroduced
  <2>3. flipped.release = rel
    OBVIOUS
  <2> HIDE DEF flipped
  <2>4. \A u \in Users, v \in Words : wordProgress'[u][v] \in {wordProgress[u][v], flipped}
    BY <2>1, <2>2
  <2>5. QED
    BY <2>1, <2>3, <2>4 DEF SerialInv, IntroducedSomewhere
<1>8. ASSUME NEW q \in Requests PROVE Holds(req[q])'
  <2>1. CASE q = r
    <3>1. req'[r].pc = "answered"
      BY <1>1 DEF GradeCommit, Answer, Idle
    <3>2. QED
      BY <2>1, <3>1 DEF Holds, IsLive, GradePcs, UndoPcs
  <2>2. CASE q # r
    <3>1. PICK x \in Request : x = req[q] /\ x = req'[q]
      BY <1>1, <2>2 DEF GradeCommit, Answer
    <3>2. Grounded(x, reviewLog, session) /\ Holds(x)
      BY <1>1, <3>1 DEF SerialInv, ReadsHold
    <3>3. CASE ~IsLive(x)'
      BY <3>1, <3>3 DEF Holds, IsLive
    <3>4. CASE IsLive(x)'
      <4>1. x.pc # "idle" /\ x.user \in Users /\ (x.pc \in GradePcs => x.event \in Events)
        BY <3>2, <3>4 DEF IsLive, GradePcs, UndoPcs, Grounded
      <4>2. x.user # req[r].user
        <5> SUFFICES ASSUME x.user = req[r].user PROVE FALSE
          OBVIOUS
        <5>1. IsLive(x)
          BY <1>5, <3>4, <4>1, <1>1, <1>3 DEF IsLive
        <5>2. x.pc \in GradePcs /\ x.event = req[r].event
          BY <1>2, <2>2, <3>1, <5>1, LiveIs DEF SerialInv, OneAtATime
        <5>3. x.pc \notin UndoPcs
          BY <5>2 DEF GradePcs, UndoPcs
        <5>4. QED
          BY <1>3, <1>5, <3>4, <5>2, <5>3 DEF IsLive
      <4>3. Untouched(x.user)
        BY <1>1, <4>1, <4>2, CommitIsOwn
      <4>4. \A d \in Events : OwnRow(x.user, d)' => OwnRow(x.user, d)
        BY <1>5, <4>2 DEF OwnRow
      <4>5. Holds(x)'
        BY <1>1, <1>6, <3>2, <4>1, <4>3, <4>4, OthersHold
      <4>6. QED
        BY <3>1, <4>5 DEF Holds, IsLive, GradeHolds, UndoHolds
    <3>5. QED
      BY <3>3, <3>4
  <2>3. QED
    BY <2>1, <2>2
<1>9. QED
  BY <1>4, <1>7, <1>8 DEF SerialStep, ReadsHold

LEMMA UndoCommitSerial ==
  ASSUME SerialInv, NEW r \in Requests, UndoCommit(r)
  PROVE  SerialStep
<1>1. /\ IInv /\ LogInv /\ Holds(req[r]) /\ req \in [Requests -> Request]
      /\ req[r].pc = "undo_commit"
      /\ \A q \in Requests : Grounded(req[q], reviewLog, session)
  BY DEF SerialInv, ReadsHold, UndoCommit, At, IInv, TypeOK
<1>2. IsLive(req[r]) /\ UndoHolds(req[r]) /\ req[r].pc \notin GradePcs
  BY <1>1 DEF IsLive, Holds, UndoPcs, GradePcs
<1>3. PICK e \in Events, row \in LogRow : Removes(e, row)
  BY <1>1, <1>2, UndoRemoves
<1>4. LogInv'
  BY <1>1, <1>3, RemoveLog
<1>5. \A d \in Events : /\ reviewLog'[d] # NONE <=> reviewLog[d] # NONE
                        /\ reviewLog[d] # NONE => reviewLog'[d].user = reviewLog[d].user
  BY <1>1, <1>3, RemovedRows
<1>6. Keeps /\ clock' = clock
  BY <1>1, UndoCommitStep DEF UndoCommit
<1>7. IntroducedSomewhere'
  <2> DEFINE w == WordOf[reviewLog[req[r].event].card]
             reverted == [stage |-> "IN_PROGRESS", release |-> NONE]
  <2>1. /\ req[r].user \in Users /\ w \in Words
        /\ wordProgress \in [Users -> [Words -> Progress \union {NONE}]]
    BY <1>1, UndoFacts, ContentAssumption DEF IInv, TypeOK
  <2>2. \/ wordProgress' = wordProgress
        \/ wordProgress' = [wordProgress EXCEPT ![req[r].user][w] = reverted]
    BY DEF UndoCommit, RevertWordIntroduced
  <2>3. ~StageIs(reverted, "INTRODUCED")
    BY DEF StageIs
  <2> HIDE DEF reverted
  <2>4. \A u \in Users, v \in Words : wordProgress'[u][v] \in {wordProgress[u][v], reverted}
    BY <2>1, <2>2
  <2>5. QED
    BY <2>1, <2>3, <2>4 DEF SerialInv, IntroducedSomewhere, StageIs
<1>8. ASSUME NEW q \in Requests PROVE Holds(req[q])'
  <2>1. CASE q = r
    <3>1. req'[r].pc = "idle"
      BY <1>1, IdleType DEF UndoCommit, Finish
    <3>2. QED
      BY <2>1, <3>1 DEF Holds, IsLive, GradePcs, UndoPcs
  <2>2. CASE q # r
    <3>1. PICK x \in Request : x = req[q] /\ x = req'[q]
      BY <1>1, <2>2 DEF UndoCommit, Finish
    <3>2. Grounded(x, reviewLog, session) /\ Holds(x)
      BY <1>1, <3>1 DEF SerialInv, ReadsHold
    <3>3. CASE ~IsLive(x)'
      BY <3>1, <3>3 DEF Holds, IsLive
    <3>4. CASE IsLive(x)'
      <4>1. x.pc # "idle" /\ x.user \in Users /\ (x.pc \in GradePcs => x.event \in Events)
        BY <3>2, <3>4 DEF IsLive, GradePcs, UndoPcs, Grounded
      <4>2. x.user # req[r].user
        <5> SUFFICES ASSUME x.user = req[r].user PROVE FALSE
          OBVIOUS
        <5>1. IsLive(x)
          BY <1>5, <3>4, <4>1 DEF IsLive
        <5>2. req[r].pc \in GradePcs
          BY <1>2, <2>2, <3>1, <5>1, LiveIs DEF SerialInv, OneAtATime
        <5>3. QED
          BY <1>2, <5>2
      <4>3. Untouched(x.user)
        BY <1>1, <4>1, <4>2, UndoIsOwn
      <4>4. \A d \in Events : OwnRow(x.user, d)' => OwnRow(x.user, d)
        BY <1>5 DEF OwnRow
      <4>5. Holds(x)'
        BY <1>1, <1>6, <3>2, <4>1, <4>3, <4>4, OthersHold
      <4>6. QED
        BY <3>1, <4>5 DEF Holds, IsLive, GradeHolds, UndoHolds
    <3>5. QED
      BY <3>3, <3>4
  <2>3. QED
    BY <2>1, <2>2
<1>9. QED
  BY <1>4, <1>7, <1>8 DEF SerialStep, ReadsHold

(* Any other step of a request: its slot takes x, which holds what it says *)
(* it holds.                                                               *)
LEMMA QuietSlot ==
  ASSUME SerialInv, Quiet, clock' \in Nat, NEW r \in Requests, NEW x \in Request,
         req' = [req EXCEPT ![r] = x],
         IsLive(x) => Grounded(x, reviewLog, session) /\ GradeHolds(x) /\ UndoHolds(x)
  PROVE  SerialStep
<1>1. IInv /\ LogInv /\ IntroducedSomewhere /\ req \in [Requests -> Request]
  BY DEF SerialInv, IInv, TypeOK
<1>2. LogInv'
  BY <1>1, QuietLog
<1>3. IntroducedSomewhere'
  BY <1>1 DEF IntroducedSomewhere, Quiet
<1>4. ASSUME NEW y \in Request,
             IsLive(y) => Grounded(y, reviewLog, session) /\ GradeHolds(y) /\ UndoHolds(y)
      PROVE  Holds(y)'
  <2>1. IsLive(y)' => IsLive(y)
    BY DEF IsLive, Quiet
  <2>2. CASE IsLive(y)
    BY <1>1, <1>4, <2>2, QuietHolds DEF Holds
  <2>3. QED
    BY <2>1, <2>2 DEF Holds
<1>5. ASSUME NEW q \in Requests PROVE Holds(req[q])'
  <2>1. PICK y \in Request : /\ y = req'[q]
                             /\ IsLive(y) => /\ Grounded(y, reviewLog, session)
                                             /\ GradeHolds(y) /\ UndoHolds(y)
    <3>1. CASE q = r
      BY <1>1, <3>1
    <3>2. CASE q # r
      <4>1. req'[q] = req[q]
        BY <1>1, <3>2
      <4>2. Grounded(req[q], reviewLog, session) /\ Holds(req[q])
        BY DEF SerialInv, ReadsHold, IInv
      <4>3. QED
        BY <1>1, <4>1, <4>2 DEF Holds
    <3>3. QED
      BY <3>1, <3>2
  <2>2. Holds(y)'
    BY <1>4, <2>1
  <2>3. QED
    BY <2>1, <2>2 DEF Holds, IsLive, GradeHolds, UndoHolds
<1>6. QED
  BY <1>2, <1>3, <1>5 DEF SerialStep, ReadsHold

LEMMA ReadIsQuiet ==
  ASSUME SerialInv, UNCHANGED <<database, clock>>
  PROVE  Quiet /\ clock' \in Nat
BY DEF SerialInv, IInv, TypeOK, database, Quiet

------------------------------------------------------------------------------
(* The statements that only read.                                          *)

LEMMA NotLiveStep ==
  ASSUME SerialInv, NEW r \in Requests, NEW x \in Request,
         req' = [req EXCEPT ![r] = x], UNCHANGED <<database, clock>>, ~IsLive(x)
  PROVE  SerialStep
BY ReadIsQuiet, QuietSlot

(* A slot that is not live is not one too many.                            *)
LEMMA SlotNotLive ==
  ASSUME SerialInv, NEW r \in Requests, NEW x \in Request,
         req' = [req EXCEPT ![r] = x], reviewLog' = reviewLog,
         x.pc \notin GradePcs, x.pc \notin UndoPcs
  PROVE  OneAtATime'
<1>1. req \in [Requests -> Request] /\ OneAtATime
  BY DEF SerialInv, IInv, TypeOK
<1>2. \A q \in Requests : Live(q)' => q # r /\ req'[q] = req[q] /\ Live(q)
  BY <1>1 DEF Live
<1>3. QED
  BY <1>1, <1>2 DEF OneAtATime

LEMMA FinishSerial ==
  ASSUME SerialInv, NEW r \in Requests, Finish(r), Quiet, clock' \in Nat
  PROVE  SerialStep
<1>1. ~IsLive(Idle)
  BY IdleType DEF IsLive, GradePcs, UndoPcs
<1>2. QED
  BY <1>1, IdleType, QuietSlot DEF Finish

(* A live grade that goes on keeps its user, session, card and event.      *)
LEMMA GradeGoesOn ==
  ASSUME SerialInv, NEW r \in Requests, NEW x \in Request,
         req' = [req EXCEPT ![r] = x], UNCHANGED <<database, clock>>,
         req[r].pc \in GradePcs, x.pc \in GradePcs \ {"grade_session", "grade_reread"},
         x.user = req[r].user, x.session = req[r].session,
         x.card = req[r].card, x.event = req[r].event,
         session[x.session].user = x.user,
         HasRow(x.user, x.card, x.before, reviewLog),
         GradeHolds(req[r]) => GradeHolds(x)
  PROVE  SerialStep
<1>1. Grounded(req[r], reviewLog, session) /\ Holds(req[r])
  BY DEF SerialInv, ReadsHold, IInv
<1>2. Grounded(x, reviewLog, session)
  BY <1>1 DEF Grounded, GradePcs, UndoPcs, CreatePcs
<1>3. IsLive(x) => IsLive(req[r])
  BY DEF IsLive, GradePcs, UndoPcs
<1>4. IsLive(x) => GradeHolds(x)
  BY <1>1, <1>3 DEF Holds
<1>5. UndoHolds(x)
  BY DEF UndoHolds, CheckedPcs, GradePcs
<1>6. QED
  BY <1>2, <1>4, <1>5, ReadIsQuiet, QuietSlot

LEMMA GradeStartSerial ==
  ASSUME SerialInv, NEW r \in Requests, NEW u \in Users, NEW s \in Sessions,
         NEW c \in Cards, NEW e \in Events, GradeStart(r, u, s, c, e)
  PROVE  SerialStep
<1> DEFINE x == [Idle EXCEPT !.pc = "grade_session", !.user = u, !.session = s,
                             !.card = c, !.event = e]
<1>1. /\ req' = [req EXCEPT ![r] = x]
      /\ UNCHANGED <<database, clock>>
      /\ session[s] # NONE
  BY DEF GradeStart
<1>2. x \in Request
  BY DEF Request, Pcs, GradePcs, Idle
<1>3. /\ x.pc = "grade_session" /\ x.user = u /\ x.session = s
      /\ x.card = c /\ x.event = e /\ x.before = NONE
  BY DEF Idle
<1> HIDE DEF x
<1>4. Grounded(x, reviewLog, session)
  BY <1>1, <1>3 DEF Grounded, GradePcs, UndoPcs, CreatePcs, HasRow
<1>5. GradeHolds(x) /\ UndoHolds(x)
  BY <1>3 DEF GradeHolds, UndoHolds, PlacePcs, TimePcs, StatePcs, CheckedPcs
<1>6. QED
  BY <1>1, <1>2, <1>4, <1>5, ReadIsQuiet, QuietSlot

LEMMA GradeSessionSerial ==
  ASSUME SerialInv, NEW r \in Requests, GradeSession(r)
  PROVE  SerialStep
<1> DEFINE x == [req[r] EXCEPT !.pc = "grade_now"]
<1>1. UNCHANGED <<database, clock>> /\ req[r].pc = "grade_session" /\ req[r] \in Request
      /\ Grounded(req[r], reviewLog, session)
  BY DEF GradeSession, At, SerialInv, IInv, TypeOK
<1>2. CASE /\ OwnSession(req[r].user, req[r].session)
           /\ IsCurrent(req[r].session, req[r].card)
           /\ req' = [req EXCEPT ![r] = x]
  <2>1. /\ x \in Request
        /\ x.pc = "grade_now" /\ x.user = req[r].user /\ x.session = req[r].session
        /\ x.card = req[r].card /\ x.event = req[r].event /\ x.before = req[r].before
    BY <1>1 DEF Request, Pcs, GradePcs
  <2> HIDE DEF x
  <2>2. x.pc \in GradePcs \ {"grade_session", "grade_reread"} /\ req[r].pc \in GradePcs
    BY <1>1, <2>1 DEF GradePcs
  <2>3. session[x.session].user = x.user /\ IsCurrent(x.session, x.card)
    BY <1>2, <2>1 DEF OwnSession
  <2>4. HasRow(x.user, x.card, x.before, reviewLog)
    BY <1>1, <2>1, <2>2 DEF Grounded
  <2>5. GradeHolds(x)
    BY <2>1, <2>3 DEF GradeHolds, TimePcs, StatePcs
  <2>6. QED
    BY <1>1, <1>2, <2>1, <2>2, <2>3, <2>4, <2>5, GradeGoesOn
<1>3. CASE Finish(r)
  BY <1>1, <1>3, ReadIsQuiet, FinishSerial
<1>4. QED
  BY <1>2, <1>3 DEF GradeSession

LEMMA GradeNowSerial ==
  ASSUME SerialInv, NEW r \in Requests, GradeNow(r)
  PROVE  SerialStep
<1> DEFINE y == [req[r] EXCEPT !.pc = "grade_state"]
           x == [y EXCEPT !.now = clock]
<1>1. /\ req' = [req EXCEPT ![r] = x]
      /\ UNCHANGED <<database, clock>>
      /\ req[r].pc = "grade_now"
      /\ req[r] \in Request
      /\ clock \in Nat
      /\ Grounded(req[r], reviewLog, session)
  BY DEF GradeNow, At, SerialInv, IInv, TypeOK
<1>2. /\ y \in Request
      /\ y.pc = "grade_state" /\ y.user = req[r].user /\ y.session = req[r].session
      /\ y.card = req[r].card /\ y.event = req[r].event /\ y.before = req[r].before
  BY <1>1 DEF Request, Pcs, GradePcs
<1> HIDE DEF y
<1>3. /\ x \in Request
      /\ x.pc = "grade_state" /\ x.user = req[r].user /\ x.session = req[r].session
      /\ x.card = req[r].card /\ x.event = req[r].event /\ x.before = req[r].before
      /\ x.now = clock
  BY <1>1, <1>2 DEF Request
<1> HIDE DEF x
<1>4. /\ req[r].pc \in GradePcs
      /\ x.pc \in GradePcs \ {"grade_session", "grade_reread"}
  BY <1>1, <1>3 DEF GradePcs
<1>5. /\ session[x.session].user = x.user
      /\ HasRow(x.user, x.card, x.before, reviewLog)
  BY <1>1, <1>3, <1>4 DEF Grounded
<1>6. GradeHolds(req[r]) => GradeHolds(x)
  <2>1. \A e \in Events : OwnRow(x.user, e) => reviewLog[e].reviewedAt <= clock
    BY DEF OwnRow, SerialInv, LogInv, RowsInOrder
  <2>2. QED
    BY <1>1, <1>3, <2>1 DEF GradeHolds, PlacePcs, StatePcs
<1>7. QED
  BY <1>1, <1>3, <1>4, <1>5, <1>6, GradeGoesOn

LEMMA GradeStateSerial ==
  ASSUME SerialInv, NEW r \in Requests, GradeState(r)
  PROVE  SerialStep
<1> DEFINE before == cardState[req[r].user][req[r].card]
           y == [req[r] EXCEPT !.pc = "grade_progress"]
           x == [y EXCEPT !.before = before]
<1>1. /\ req' = [req EXCEPT ![r] = x]
      /\ UNCHANGED <<database, clock>>
      /\ req[r].pc = "grade_state" /\ req[r].pc \in GradePcs
      /\ req[r] \in Request
      /\ Grounded(req[r], reviewLog, session)
  BY DEF GradeState, At, SerialInv, IInv, TypeOK, GradePcs
<1>2. /\ req[r].user \in Users /\ req[r].card \in Cards
      /\ before \in Events \union {NONE}
  BY <1>1 DEF Grounded, SerialInv, IInv, TypeOK
<1>3. HasRow(req[r].user, req[r].card, before, reviewLog)
  BY <1>2 DEF SerialInv, IInv, StatesGrounded
<1> HIDE DEF before
<1>4. /\ y \in Request
      /\ y.pc = "grade_progress" /\ y.user = req[r].user /\ y.session = req[r].session
      /\ y.card = req[r].card /\ y.event = req[r].event /\ y.now = req[r].now
  BY <1>1 DEF Request, Pcs, GradePcs
<1> HIDE DEF y
<1>5. /\ x \in Request
      /\ x.pc = "grade_progress" /\ x.user = req[r].user /\ x.session = req[r].session
      /\ x.card = req[r].card /\ x.event = req[r].event /\ x.now = req[r].now
      /\ x.before = before
  BY <1>2, <1>4 DEF Request
<1> HIDE DEF x
<1>6. x.pc \in GradePcs \ {"grade_session", "grade_reread"}
  BY <1>5 DEF GradePcs
<1>7. session[x.session].user = x.user
  BY <1>1, <1>5 DEF Grounded
<1>8. GradeHolds(req[r]) => GradeHolds(x)
  BY <1>1, <1>5 DEF GradeHolds, PlacePcs, TimePcs, before
<1>9. QED
  BY <1>1, <1>3, <1>5, <1>6, <1>7, <1>8, GradeGoesOn

LEMMA GradeProgressSerial ==
  ASSUME SerialInv, NEW r \in Requests, GradeProgress(r)
  PROVE  SerialStep
<1> DEFINE w == WordOf[req[r].card]
           rel == session[req[r].session].release
           introducing == /\ StageIs(wordProgress[req[r].user][w], "IN_PROGRESS")
                          /\ CanonicalCardKeys(rel, LocalKey[rel][w]) # {}
           y == [req[r] EXCEPT !.pc = "grade_commit"]
           x == [y EXCEPT !.introducing = introducing]
<1>1. /\ req' = [req EXCEPT ![r] = x]
      /\ UNCHANGED <<database, clock>>
      /\ req[r].pc = "grade_progress" /\ req[r].pc \in GradePcs
      /\ req[r] \in Request
      /\ Grounded(req[r], reviewLog, session)
  BY DEF GradeProgress, At, SerialInv, IInv, TypeOK, GradePcs
<1>2. introducing \in BOOLEAN
  BY DEF StageIs
<1> HIDE DEF introducing
<1>3. /\ y \in Request
      /\ y.pc = "grade_commit" /\ y.user = req[r].user /\ y.session = req[r].session
      /\ y.card = req[r].card /\ y.event = req[r].event /\ y.now = req[r].now
      /\ y.before = req[r].before
  BY <1>1 DEF Request, Pcs, GradePcs
<1> HIDE DEF y
<1>4. /\ x \in Request
      /\ x.pc = "grade_commit" /\ x.user = req[r].user /\ x.session = req[r].session
      /\ x.card = req[r].card /\ x.event = req[r].event /\ x.now = req[r].now
      /\ x.before = req[r].before
  BY <1>2, <1>3 DEF Request
<1> HIDE DEF x
<1>5. x.pc \in GradePcs \ {"grade_session", "grade_reread"}
  BY <1>4 DEF GradePcs
<1>6. /\ session[x.session].user = x.user
      /\ HasRow(x.user, x.card, x.before, reviewLog)
  BY <1>1, <1>4 DEF Grounded
<1>7. GradeHolds(req[r]) => GradeHolds(x)
  BY <1>1, <1>4 DEF GradeHolds, PlacePcs, TimePcs, StatePcs
<1>8. QED
  BY <1>1, <1>4, <1>5, <1>6, <1>7, GradeGoesOn

LEMMA AnswerSerial ==
  ASSUME SerialInv, NEW r \in Requests, NEW u \in Users, NEW e \in Events, OwnRow(u, e),
         req' = [req EXCEPT ![r] = [Idle EXCEPT
           !.pc = "answered", !.user = u, !.event = e,
           !.card = reviewLog[e].card, !.before = reviewLog[e].before]],
         UNCHANGED <<database, clock>>
  PROVE  SerialStep
<1> DEFINE x == [Idle EXCEPT !.pc = "answered", !.user = u, !.event = e,
                   !.card = reviewLog[e].card, !.before = reviewLog[e].before]
<1>1. reviewLog[e] \in LogRow
  BY DEF SerialInv, IInv, TypeOK, OwnRow
<1>2. x \in Request
  BY <1>1 DEF Request, Pcs, Idle, LogRow
<1>3. x.pc = "answered"
  BY DEF Idle
<1>4. req' = [req EXCEPT ![r] = x]
  OBVIOUS
<1> HIDE DEF x
<1>5. ~IsLive(x)
  BY <1>3 DEF IsLive, GradePcs, UndoPcs
<1>6. QED
  BY <1>2, <1>4, <1>5, NotLiveStep

LEMMA GradeConflictSerial ==
  ASSUME SerialInv, NEW r \in Requests, GradeConflict(r)
  PROVE  SerialStep
<1> DEFINE x == [req[r] EXCEPT !.pc = "grade_reread"]
<1>1. /\ req' = [req EXCEPT ![r] = x] /\ UNCHANGED <<database, clock>>
      /\ req[r] \in Request /\ reviewLog[req[r].event] # NONE
  BY DEF GradeConflict, EventIdTaken, SerialInv, IInv, TypeOK
<1>2. x \in Request /\ x.pc = "grade_reread" /\ x.event = req[r].event
  BY <1>1 DEF Request, Pcs, GradePcs
<1> HIDE DEF x
<1>3. ~IsLive(x)
  BY <1>1, <1>2 DEF IsLive, UndoPcs
<1>4. QED
  BY <1>1, <1>2, <1>3, NotLiveStep

LEMMA GradeRereadSerial ==
  ASSUME SerialInv, NEW r \in Requests, GradeReread(r)
  PROVE  SerialStep
<1>1. /\ UNCHANGED <<database, clock>>
      /\ req[r].user \in Users /\ req[r].event \in Events
  BY DEF GradeReread, At, SerialInv, IInv, Grounded, GradePcs
<1>2. CASE OwnRow(req[r].user, req[r].event) /\ Answer(r, Winner(r))
  BY <1>1, <1>2, AnswerSerial DEF Answer, Winner
<1>3. CASE Finish(r)
  BY <1>1, <1>3, ReadIsQuiet, FinishSerial
<1>4. QED
  BY <1>2, <1>3 DEF GradeReread

(* An undo that goes on keeps its user and its event.                      *)
LEMMA UndoGoesOn ==
  ASSUME SerialInv, NEW r \in Requests, NEW x \in Request,
         req' = [req EXCEPT ![r] = x], UNCHANGED <<database, clock>>,
         x.pc \in UndoPcs, x.session = NONE, x.user \in Users, x.event \in Events,
         OwnRow(x.user, x.event), UndoHolds(x)
  PROVE  SerialStep
<1>1. Grounded(x, reviewLog, session)
  BY DEF Grounded, GradePcs, UndoPcs, CreatePcs, OwnRow
<1>2. GradeHolds(x)
  BY DEF GradeHolds, UndoPcs, PlacePcs, TimePcs, StatePcs
<1>3. QED
  BY <1>1, <1>2, ReadIsQuiet, QuietSlot

LEMMA UndoStartSerial ==
  ASSUME SerialInv, NEW r \in Requests, NEW u \in Users, NEW e \in Events, UndoStart(r, u, e)
  PROVE  SerialStep
<1> DEFINE x == [Idle EXCEPT !.pc = "undo_latest", !.user = u, !.event = e]
<1>1. /\ req' = [req EXCEPT ![r] = x]
      /\ UNCHANGED <<database, clock>>
      /\ OwnRow(u, e)
  BY DEF UndoStart
<1>2. /\ x \in Request
      /\ x.pc = "undo_latest" /\ x.user = u /\ x.event = e /\ x.session = NONE
  BY DEF Request, Pcs, UndoPcs, Idle
<1> HIDE DEF x
<1>3. x.pc \in UndoPcs
  BY <1>2 DEF UndoPcs
<1>4. UndoHolds(x)
  BY <1>2 DEF UndoHolds, CheckedPcs
<1>5. QED
  BY <1>1, <1>2, <1>3, <1>4, UndoGoesOn

LEMMA UndoLatestSerial ==
  ASSUME SerialInv, NEW r \in Requests, UndoLatest(r)
  PROVE  SerialStep
<1> DEFINE x == [req[r] EXCEPT !.pc = "undo_session"]
<1>1. UNCHANGED <<database, clock>> /\ req[r].pc \in UndoPcs /\ req[r] \in Request
      /\ Grounded(req[r], reviewLog, session)
  BY DEF UndoLatest, At, SerialInv, IInv, TypeOK, UndoPcs
<1>2. CASE IsLatest(req[r].user, req[r].event) /\ req' = [req EXCEPT ![r] = x]
  <2>1. /\ x \in Request
        /\ x.pc = "undo_session" /\ x.user = req[r].user
        /\ x.event = req[r].event /\ x.session = req[r].session
    BY <1>1 DEF Request, Pcs, UndoPcs
  <2> HIDE DEF x
  <2>2. x.pc \in UndoPcs
    BY <2>1 DEF UndoPcs
  <2>3. /\ x.session = NONE /\ x.user \in Users /\ x.event \in Events
        /\ OwnRow(x.user, x.event)
    BY <1>1, <2>1 DEF Grounded, OwnRow, UndoPcs
  <2>4. UndoHolds(x)
    BY <1>2, <2>1 DEF UndoHolds
  <2>5. QED
    BY <1>1, <1>2, <2>1, <2>2, <2>3, <2>4, UndoGoesOn
<1>3. CASE Finish(r)
  BY <1>1, <1>3, ReadIsQuiet, FinishSerial
<1>4. QED
  BY <1>2, <1>3 DEF UndoLatest

LEMMA UndoSessionSerial ==
  ASSUME SerialInv, NEW r \in Requests, UndoSession(r)
  PROVE  SerialStep
<1> DEFINE x == [req[r] EXCEPT !.pc = "undo_progress"]
<1>1. /\ UNCHANGED <<database, clock>>
      /\ req[r].pc = "undo_session" /\ req[r].pc \in UndoPcs /\ req[r] \in Request
      /\ Grounded(req[r], reviewLog, session) /\ Holds(req[r])
  BY DEF UndoSession, At, SerialInv, ReadsHold, IInv, TypeOK, UndoPcs
<1>2. CASE req' = [req EXCEPT ![r] = x]
  <2>1. /\ x \in Request
        /\ x.pc = "undo_progress" /\ x.user = req[r].user
        /\ x.event = req[r].event /\ x.session = req[r].session
    BY <1>1 DEF Request, Pcs, UndoPcs
  <2> HIDE DEF x
  <2>2. x.pc \in UndoPcs
    BY <2>1 DEF UndoPcs
  <2>3. /\ x.session = NONE /\ x.user \in Users /\ x.event \in Events
        /\ OwnRow(x.user, x.event)
    BY <1>1, <2>1 DEF Grounded, OwnRow, UndoPcs
  <2>4. IsLatest(x.user, x.event)
    BY <1>1, <2>1 DEF Holds, IsLive, UndoHolds, CheckedPcs
  <2>5. UndoHolds(x)
    BY <2>1, <2>4 DEF UndoHolds
  <2>6. QED
    BY <1>1, <1>2, <2>1, <2>2, <2>3, <2>5, UndoGoesOn
<1>3. CASE Finish(r)
  BY <1>1, <1>3, ReadIsQuiet, FinishSerial
<1>4. QED
  BY <1>2, <1>3 DEF UndoSession

LEMMA UndoProgressSerial ==
  ASSUME SerialInv, NEW r \in Requests, UndoProgress(r)
  PROVE  SerialStep
<1> DEFINE row == reviewLog[req[r].event]
           w == WordOf[row.card]
           rel == session[row.session].release
           progress == wordProgress[req[r].user][w]
           keys == IF StageIs(progress, "INTRODUCED")
                   THEN CanonicalCardKeys(CompletenessRelease(progress, rel), LocalKey[rel][w])
                   ELSE {}
           y == [req[r] EXCEPT !.pc = "undo_commit"]
           x == [y EXCEPT !.keys = keys]
<1>1. /\ UNCHANGED <<database, clock>>
      /\ req[r].pc = "undo_progress" /\ req[r].pc \in UndoPcs /\ req[r] \in Request
      /\ Grounded(req[r], reviewLog, session) /\ Holds(req[r])
      /\ req' = [req EXCEPT ![r] = x]
  BY DEF UndoProgress, At, SerialInv, ReadsHold, IInv, TypeOK, UndoPcs
<1>2. /\ req[r].user \in Users /\ req[r].event \in Events /\ req[r].session = NONE
      /\ row # NONE /\ row.user = req[r].user
  BY <1>1 DEF Grounded
<1>3. /\ row \in LogRow /\ row.session \in Sessions /\ w \in Words
      /\ session[row.session] \in SessionRow /\ rel \in Releases
  BY <1>2, ContentAssumption DEF SerialInv, IInv, TypeOK, LogRow, RowsGrounded, SessionRow
<1>4. progress \in Progress \union {NONE}
      /\ (StageIs(progress, "INTRODUCED") => progress.release \in Releases)
  BY <1>2, <1>3 DEF SerialInv, IInv, TypeOK, IntroducedSomewhere
<1>5. keys \in SUBSET Cards
  <2>1. CASE StageIs(progress, "INTRODUCED")
    <3>1. CompletenessRelease(progress, rel) \in Releases
      BY <1>4, <2>1, NoneAssumption DEF CompletenessRelease
    <3>2. CanonicalCardKeys(CompletenessRelease(progress, rel), LocalKey[rel][w])
            \in SUBSET ActiveCards[CompletenessRelease(progress, rel)]
      BY DEF CanonicalCardKeys
    <3>3. QED
      BY <2>1, <3>1, <3>2, ContentAssumption
  <2>2. CASE ~StageIs(progress, "INTRODUCED")
    BY <2>2
  <2>3. QED
    BY <2>1, <2>2
<1>6. StageIs(progress, "INTRODUCED") => keys = DecidingCards(req[r].user, req[r].event)
  BY <1>4, NoneAssumption DEF DecidingCards, CompletenessRelease
<1> HIDE DEF keys
<1>7. /\ y \in Request
      /\ y.pc = "undo_commit" /\ y.user = req[r].user
      /\ y.event = req[r].event /\ y.session = req[r].session
  BY <1>1 DEF Request, Pcs, UndoPcs
<1> HIDE DEF y
<1>8. /\ x \in Request
      /\ x.pc = "undo_commit" /\ x.user = req[r].user
      /\ x.event = req[r].event /\ x.session = req[r].session /\ x.keys = keys
  BY <1>5, <1>7 DEF Request
<1> HIDE DEF x
<1>9. x.pc \in UndoPcs /\ OwnRow(x.user, x.event)
  BY <1>2, <1>8 DEF UndoPcs, OwnRow
<1>10. IsLatest(x.user, x.event)
  BY <1>1, <1>8 DEF Holds, IsLive, UndoHolds, CheckedPcs
<1>11. UndoHolds(x)
  BY <1>6, <1>8, <1>10 DEF UndoHolds
<1>12. QED
  BY <1>1, <1>2, <1>8, <1>9, <1>11, UndoGoesOn

LEMMA CreateSerial ==
  ASSUME SerialInv, NEW r \in Requests, CreateNext(r)
  PROVE  SerialStep /\ OneAtATime'
<1>1. IInv /\ req \in [Requests -> Request] /\ Grounded(req[r], reviewLog, session)
  BY DEF SerialInv, IInv, TypeOK
<1>2. ASSUME NEW x \in Request, req' = [req EXCEPT ![r] = x],
             UNCHANGED <<database, clock>>, x.pc \in CreatePcs
      PROVE  SerialStep /\ OneAtATime'
  <2>1. x.pc \notin GradePcs /\ x.pc \notin UndoPcs
    BY <1>2 DEF CreatePcs, GradePcs, UndoPcs
  <2>2. SerialStep
    BY <1>2, <2>1, NotLiveStep DEF IsLive
  <2>3. OneAtATime'
    BY <1>1, <1>2, <2>1, SlotNotLive DEF database
  <2>4. QED
    BY <2>2, <2>3
<1>3. ASSUME NEW u \in Users, NEW s \in Sessions, CreateStart(r, u, s)
      PROVE  SerialStep /\ OneAtATime'
  <2> DEFINE x == [Idle EXCEPT !.pc = "create_queue", !.user = u, !.session = s,
                               !.release = active, !.now = clock]
  <2>1. req' = [req EXCEPT ![r] = x] /\ UNCHANGED <<database, clock>>
    BY <1>3 DEF CreateStart
  <2>2. x \in Request
    BY <1>1 DEF IInv, TypeOK, Request, Pcs, Idle
  <2>3. x.pc = "create_queue"
    BY DEF Idle
  <2> HIDE DEF x
  <2>4. QED
    BY <1>2, <2>1, <2>2, <2>3 DEF CreatePcs
<1>4. CASE CreateQuickTestWords(r)
  <2> DEFINE words == {w \in ReleaseWords[req[r].release] :
                         StageIs(wordProgress[req[r].user][w], "INTRODUCED")}
             x == [req[r] EXCEPT !.pc = "create_quick_test", !.words = words]
  <2>1. /\ req' = [req EXCEPT ![r] = x] /\ UNCHANGED <<database, clock>>
        /\ req[r].pc = "create_queue" /\ req[r] \in Request
    BY <1>1, <1>4 DEF CreateQuickTestWords, At
  <2>2. words \in SUBSET Words
    BY <1>1, <2>1, ContentAssumption DEF Grounded, CreatePcs
  <2> HIDE DEF words
  <2>3. x \in Request /\ x.pc = "create_quick_test"
    BY <2>1, <2>2 DEF Request, Pcs
  <2> HIDE DEF x
  <2>4. QED
    BY <1>2, <2>1, <2>3 DEF CreatePcs
<1>5. ASSUME Inserts(r) PROVE SerialStep /\ OneAtATime'
  <2>1. PICK queue \in Seq(Cards) : InsertSession(r, queue)
    BY <1>5 DEF Inserts
  <2>2. /\ UNCHANGED <<reviewLog, cardState, wordProgress, rows, clock>>
        /\ clock \in Nat /\ Finish(r)
    BY <1>1, <1>5, <2>1 DEF Inserts, InsertSession, IInv, TypeOK
  <2>3. \A s \in Sessions : session[s] # NONE => session'[s] = session[s]
    BY <1>1, <1>5, InsertTouchesNewSession
  <2>4. \A s \in Sessions : session[s] = NONE /\ session'[s] # NONE => session'[s].position = 0
    <3> DEFINE row == [user |-> req[r].user, release |-> req[r].release, queue |-> queue,
                       position |-> 0, expiresAt |-> req[r].now + TTL, patchIds |-> {}]
    <3>1. session' = session \/ session' = [session EXCEPT ![req[r].session] = row]
      BY <2>1 DEF InsertSession
    <3>2. row.position = 0
      OBVIOUS
    <3> HIDE DEF row
    <3>3. QED
      BY <1>1, <3>1, <3>2 DEF IInv, TypeOK
  <2>5. Quiet /\ clock' \in Nat
    BY <2>2, <2>3, <2>4 DEF Quiet
  <2>6. SerialStep
    BY <2>2, <2>5, FinishSerial
  <2>7. OneAtATime'
    BY <2>2, IdleType, SlotNotLive DEF Finish, GradePcs, UndoPcs
  <2>8. QED
    BY <2>6, <2>7
<1>6. QED
  BY <1>1, <1>3, <1>4, <1>5, CreationInserts DEF CreateNext

LEMMA PatchSerial ==
  ASSUME SerialInv, NEW r \in Requests, PatchNext(r)
  PROVE  SerialStep /\ OneAtATime'
<1>1. IInv /\ req \in [Requests -> Request] /\ Grounded(req[r], reviewLog, session)
  BY DEF SerialInv, IInv, TypeOK
<1>2. ASSUME NEW u \in Users, NEW s \in Sessions, NEW w \in Words, NEW p \in PatchIds,
             PatchStart(r, u, s, w, p)
      PROVE  SerialStep /\ OneAtATime'
  <2> DEFINE x == [Idle EXCEPT !.pc = "patch_commit", !.user = u, !.session = s,
                     !.word = w, !.patchId = p, !.patchIds = session[s].patchIds]
  <2>1. /\ req' = [req EXCEPT ![r] = x] /\ UNCHANGED <<database, clock>>
        /\ session[s] \in SessionRow
    BY <1>1, <1>2 DEF PatchStart, OwnSession, IInv, TypeOK
  <2>2. x \in Request
    BY <2>1 DEF Request, Pcs, Idle, SessionRow
  <2>3. x.pc = "patch_commit"
    BY DEF Idle
  <2> HIDE DEF x
  <2>4. x.pc \notin GradePcs /\ x.pc \notin UndoPcs
    BY <2>3 DEF GradePcs, UndoPcs
  <2>5. SerialStep
    BY <2>1, <2>2, <2>4, NotLiveStep DEF IsLive
  <2>6. OneAtATime'
    BY <2>1, <2>2, <2>4, SlotNotLive DEF database
  <2>7. QED
    BY <2>5, <2>6
<1>3. CASE PatchCommit(r)
  <2> DEFINE u == req[r].user
             s == req[r].session
             w == req[r].word
             ids == req[r].patchIds \union {req[r].patchId}
             recorded == [session[s] EXCEPT !.patchIds = ids]
             stage == IF wordProgress[u][w] = NONE
                      THEN [stage |-> "IN_PROGRESS", release |-> NONE]
                      ELSE wordProgress[u][w]
  <2>1. /\ u \in Users /\ s \in Sessions /\ w \in Words
        /\ session[s] \in SessionRow /\ session[s] # NONE
    BY <1>1, <1>3 DEF PatchCommit, At, Grounded, IInv, TypeOK
  <2>2. /\ wordProgress' = [wordProgress EXCEPT ![u][w] = stage]
        /\ session' = [session EXCEPT ![s] = recorded]
        /\ UNCHANGED <<reviewLog, cardState, rows, clock>>
        /\ Finish(r) /\ clock \in Nat
    BY <1>1, <1>3 DEF PatchCommit, IInv, TypeOK
  <2>3. ~StageIs(stage, "INTRODUCED") \/ stage = wordProgress[u][w]
    BY DEF StageIs
  <2> HIDE DEF stage, ids
  <2>4. /\ recorded.queue = session[s].queue /\ recorded.position = session[s].position
        /\ recorded.release = session[s].release
    BY <2>1 DEF SessionRow
  <2>5. recorded # NONE
    <3>1. ids \in SUBSET PatchIds
      BY <1>1, <1>3 DEF ids, PatchCommit, At, Grounded, Request
    <3>2. recorded \in SessionRow
      BY <2>1, <3>1 DEF SessionRow
    <3>3. QED
      BY <3>2, NoneAssumption
  <2> HIDE DEF recorded
  <2>6. \A t \in Sessions : session'[t] = IF t = s THEN recorded ELSE session[t]
    BY <1>1, <2>1, <2>2 DEF IInv, TypeOK
  <2>7. \A v \in Users, y \in Words :
          wordProgress'[v][y] = IF v = u /\ y = w THEN stage ELSE wordProgress[v][y]
    BY <1>1, <2>1, <2>2 DEF IInv, TypeOK
  <2>8. \A v \in Users, y \in Words : StageIs(wordProgress'[v][y], "INTRODUCED") =>
          wordProgress'[v][y] = wordProgress[v][y]
    BY <2>3, <2>7
  <2>9. Quiet /\ clock' \in Nat
    BY <2>1, <2>2, <2>4, <2>5, <2>6, <2>8 DEF Quiet
  <2>10. SerialStep
    BY <2>2, <2>9, FinishSerial
  <2>11. OneAtATime'
    BY <2>2, IdleType, SlotNotLive DEF Finish, GradePcs, UndoPcs
  <2>12. QED
    BY <2>10, <2>11
<1>4. QED
  BY <1>2, <1>3 DEF PatchNext

LEMMA GradeSerial ==
  ASSUME SerialInv, NEW r \in Requests, GradeNext(r)
  PROVE  SerialStep
<1>1. CASE \E u \in Users, e \in Events : GradeReplay(r, u, e)
  BY <1>1, AnswerSerial DEF GradeReplay
<1>2. CASE \E u \in Users, s \in Sessions, c \in Cards, e \in Events : GradeStart(r, u, s, c, e)
  BY <1>2, GradeStartSerial
<1>3. QED
  BY <1>1, <1>2, GradeSessionSerial, GradeNowSerial, GradeStateSerial, GradeProgressSerial,
     GradeCommitSerial, GradeConflictSerial, GradeRereadSerial DEF GradeNext

LEMMA UndoSerial ==
  ASSUME SerialInv, NEW r \in Requests, UndoNext(r)
  PROVE  SerialStep
<1>1. CASE \E u \in Users, e \in Events : UndoStart(r, u, e)
  BY <1>1, UndoStartSerial
<1>2. QED
  BY <1>1, UndoLatestSerial, UndoSessionSerial, UndoProgressSerial, UndoCommitSerial DEF UndoNext

(* A release, time or nothing at all.                                      *)
LEMMA EnvironmentSerial ==
  ASSUME SerialInv, UNCHANGED <<database, req>>, clock <= clock', clock' \in Nat
  PROVE  SerialStep /\ OneAtATime'
<1>1. Quiet
  BY DEF Quiet, database
<1>2. LogInv' /\ IntroducedSomewhere'
  BY <1>1, QuietLog DEF SerialInv, IntroducedSomewhere, Quiet
<1>3. ASSUME NEW q \in Requests PROVE Holds(req[q])'
  <2>1. PICK x \in Request : x = req[q] /\ x = req'[q]
    BY DEF SerialInv, IInv, TypeOK
  <2>2. Holds(x)'
    BY <1>1, <2>1, QuietHolds DEF SerialInv, ReadsHold, IInv
  <2>3. QED
    BY <2>1, <2>2 DEF Holds, IsLive, GradeHolds, UndoHolds
<1>4. OneAtATime'
  BY DEF SerialInv, OneAtATime, Live, database
<1>5. QED
  BY <1>2, <1>3, <1>4 DEF SerialStep, ReadsHold

LEMMA SerialIsNext == SerialNext => Next
BY DEF SerialNext, Next

LEMMA SerialNextInvariant ==
  ASSUME SerialInv, [SerialNext]_vars
  PROVE  SerialInv'
<1>1. IInv' /\ clock \in Nat
  BY SerialIsNext, NextInvariant DEF SerialInv, IInv, TypeOK
<1>2. SerialStep /\ OneAtATime'
  <2>1. CASE UNCHANGED vars
    BY <1>1, <2>1, EnvironmentSerial DEF vars
  <2>2. CASE \E rel \in Releases : Activate(rel)
    BY <1>1, <2>2, EnvironmentSerial DEF Activate
  <2>3. CASE Tick
    BY <1>1, <2>3, EnvironmentSerial DEF Tick
  <2>4. QED
    BY <2>1, <2>2, <2>3, CreateSerial, PatchSerial, GradeSerial, UndoSerial DEF SerialNext
<1>3. QED
  BY <1>1, <1>2 DEF SerialInv, SerialStep

LEMMA SerialInitInvariant ==
  ASSUME Init
  PROVE  SerialInv
<1>1. IInv
  BY InitInvariant
<1>2. \A r \in Requests : req[r].pc = "idle"
  BY IdleType DEF Init
<1>3. OneAtATime /\ ReadsHold
  BY <1>2 DEF OneAtATime, Live, ReadsHold, Holds, IsLive, GradePcs, UndoPcs
<1>4. /\ \A s \in Sessions : RowsOf(s) = {}
      /\ \A u \in Users : UnUndone(u) = {}
  BY DEF Init, RowsOf, UnUndone, OwnRow
<1>5. RowsInOrder /\ Chained
  BY DEF Init, RowsInOrder, Chained
<1>6. RowsAreFinite
  BY <1>4, FS_EmptySet DEF RowsAreFinite
<1>7. GradedPrefix
  BY DEF Init, GradedPrefix
<1>8. StateIsNewestGrade
  BY <1>4 DEF Init, StateIsNewestGrade
<1>9. IntroducedSomewhere
  BY DEF Init, IntroducedSomewhere, StageIs
<1>10. QED
  BY <1>1, <1>3, <1>5, <1>6, <1>7, <1>8, <1>9 DEF SerialInv, LogInv

(* For clients that wait for their answers, what a live grade or undo has  *)
(* read is still so when it commits (grade.ts:78-114, undo.ts:45-67).      *)
THEOREM SerialInvariance == SerialSpec => []SerialInv
<1>1. Init => SerialInv
  BY SerialInitInvariant
<1>2. SerialInv /\ [SerialNext]_vars => SerialInv'
  BY SerialNextInvariant
<1>3. QED
  BY <1>1, <1>2, PTL DEF SerialSpec

(* The position of a session counts its rows that are not undone, and they *)
(* are the part of the queue before it (grade.ts:104, undo.ts:74).         *)
THEOREM PositionsCountRows == SerialSpec => []GradedPrefix
<1>1. SerialInv => GradedPrefix
  BY DEF SerialInv, LogInv
<1>2. QED
  BY <1>1, SerialInvariance, PTL

(* A card_state is what the newest remaining grade of the card computed,   *)
(* after any sequence of grades and undos (undo.ts:51-67, 101-110).        *)
THEOREM StatesAreNewest == SerialSpec => []StateIsNewestGrade
<1>1. SerialInv => StateIsNewestGrade
  BY DEF SerialInv, LogInv
<1>2. QED
  BY <1>1, SerialInvariance, PTL
------------------------------------------------------------------------------
(* Completeness.  When no release renames a word, the cards an undo counts *)
(* (undo.ts:63-67) are those the introduction counted (grade.ts:180-191).  *)
NamesAgree ==
  \A rel, other \in Releases, w \in Words : LocalKey[rel][w] = LocalKey[other][w]

(* Only an undo takes a card_state away, from the card of its own row.     *)
LEMMA StateIsTakenByUndo ==
  ASSUME IInv, Next, NEW u \in Users, NEW c \in Cards,
         cardState[u][c] # NONE, cardState'[u][c] = NONE
  PROVE  \E r \in Requests :
           UndoCommit(r) /\ req[r].user = u /\ reviewLog[req[r].event].card = c
<1>1. cardState \in [Users -> [Cards -> Events \union {NONE}]]
  BY DEF IInv, TypeOK
<1>2. PICK r \in Requests : GradeCommit(r) \/ UndoCommit(r)
  BY Writers DEF database, Inserts, PatchCommit
<1>3. ~GradeCommit(r)
  <2> SUFFICES ASSUME GradeCommit(r) PROVE FALSE
    OBVIOUS
  <2>1. req[r].user \in Users /\ req[r].card \in Cards /\ req[r].event \in Events
    BY CommitFacts
  <2>2. cardState' = [cardState EXCEPT ![req[r].user][req[r].card] = req[r].event]
    BY DEF GradeCommit
  <2>3. QED
    BY <1>1, <2>1, <2>2, NoneAssumption
<1>4. UndoCommit(r)
  BY <1>2, <1>3
<1> DEFINE row == reviewLog[req[r].event]
           restored == RestoredState(req[r].user, row)
<1>5. req[r].user \in Users /\ row.card \in Cards
  BY <1>4, UndoFacts
<1>6. cardState' = [cardState EXCEPT ![req[r].user][row.card] = restored]
  BY <1>4 DEF UndoCommit
<1> HIDE DEF restored
<1>7. req[r].user = u /\ row.card = c
  BY <1>1, <1>5, <1>6
<1>8. QED
  BY <1>4, <1>7

LEMMA CompletenessKept ==
  ASSUME NamesAgree, SerialInv, IntroducedIsComplete, SerialNext
  PROVE  IntroducedIsComplete'
<1>1. IInv /\ Next
  BY SerialIsNext DEF SerialInv
<1> SUFFICES ASSUME NEW u \in Users, NEW w \in Words,
                    StageIs(wordProgress'[u][w], "INTRODUCED"),
                    NEW c \in ActiveCards[wordProgress'[u][w].release],
                    WordOf[c] = w
             PROVE  cardState'[u][c] # NONE
  BY DEF IntroducedIsComplete
<1>2. CASE wordProgress'[u][w] # wordProgress[u][w]
  BY <1>1, <1>2, IntroducedByGrade
<1>3. CASE wordProgress'[u][w] = wordProgress[u][w]
  <2> DEFINE rel == wordProgress[u][w].release
  <2>1. StageIs(wordProgress[u][w], "INTRODUCED") /\ rel \in Releases
    BY <1>3 DEF SerialInv, IntroducedSomewhere
  <2>2. c \in ActiveCards[rel] /\ c \in Cards
    BY <1>3, <2>1, ContentAssumption
  <2>3. cardState[u][c] # NONE
    BY <2>1, <2>2 DEF IntroducedIsComplete
  <2> SUFFICES ASSUME cardState'[u][c] = NONE PROVE FALSE
    OBVIOUS
  <2>4. PICK r \in Requests :
          UndoCommit(r) /\ req[r].user = u /\ reviewLog[req[r].event].card = c
    BY <1>1, <2>2, <2>3, StateIsTakenByUndo
  <2> DEFINE own == session[reviewLog[req[r].event].session].release
  <2>5. own \in Releases
    BY <1>1, <2>4, UndoFacts DEF SessionRow
  <2>6. req[r].keys = DecidingCards(u, req[r].event)
    <3>1. req[r].pc = "undo_commit" /\ Holds(req[r])
      BY <2>4 DEF UndoCommit, At, SerialInv, ReadsHold
    <3>2. UndoHolds(req[r])
      BY <3>1 DEF Holds, IsLive, UndoPcs
    <3>3. QED
      BY <2>1, <2>4, <3>1, <3>2 DEF UndoHolds
  <2>7. LocalKey[rel][w] = LocalKey[own][w]
    BY <2>1, <2>5 DEF NamesAgree
  <2>8. c \in req[r].keys
    BY <2>2, <2>4, <2>6, <2>7 DEF DecidingCards, CanonicalCardKeys
  <2> DEFINE reverted == [stage |-> "IN_PROGRESS", release |-> NONE]
  <2>9. RevertWordIntroduced(u, w, req[r].keys)
    BY <2>4 DEF UndoCommit
  <2>10. wordProgress' = [wordProgress EXCEPT ![u][w] = reverted]
    BY <2>1, <2>8, <2>9 DEF RevertWordIntroduced
  <2>11. wordProgress \in [Users -> [Words -> Progress \union {NONE}]]
    BY <1>1 DEF IInv, TypeOK
  <2>12. reverted.stage # "INTRODUCED"
    OBVIOUS
  <2> HIDE DEF reverted
  <2>13. wordProgress'[u][w] = reverted
    BY <2>10, <2>11
  <2>14. QED
    BY <2>12, <2>13 DEF StageIs
<1>4. QED
  BY <1>2, <1>3

(* For clients that wait and releases that agree on names, an INTRODUCED   *)
(* word has a state for every active card of the release that introduced   *)
(* it: the undo that takes one away reopens the word (undo.ts:6-9).        *)
THEOREM IntroducedWordsAreComplete ==
  ASSUME NamesAgree
  PROVE  SerialSpec => []IntroducedIsComplete
<1> DEFINE CompleteInv == SerialInv /\ IntroducedIsComplete
<1>1. Init => CompleteInv
  BY SerialInitInvariant DEF Init, IntroducedIsComplete, StageIs
<1>2. CompleteInv /\ [SerialNext]_vars => CompleteInv'
  <2>1. ASSUME CompleteInv, [SerialNext]_vars PROVE SerialInv'
    BY <2>1, SerialNextInvariant
  <2>2. ASSUME CompleteInv, UNCHANGED vars PROVE IntroducedIsComplete'
    BY <2>2 DEF vars, database, IntroducedIsComplete
  <2>3. ASSUME CompleteInv, SerialNext PROVE IntroducedIsComplete'
    BY <2>3, CompletenessKept
  <2>4. QED
    BY <2>1, <2>2, <2>3
<1>3. CompleteInv => IntroducedIsComplete
  OBVIOUS
<1> HIDE DEF CompleteInv
<1>4. QED
  BY <1>1, <1>2, <1>3, PTL DEF SerialSpec


------------------------------------------------------------------------------
(* The refinement of ReviewHistory.  In the order of rowid the rows of a   *)
(* user that are not undone have the ranks 1 to n, so they are a stack.    *)

LEMMA StackIsFinite ==
  ASSUME IInv, LogInv, NEW u \in Users
  PROVE  IsFiniteSet(UnUndone(u)) /\ Cardinality(UnUndone(u)) \in Nat
<1> DEFINE f == [e \in UnUndone(u) |-> reviewLog[e].rowid]
<1>1. \A e \in UnUndone(u) : e \in Events /\ reviewLog[e] # NONE /\ reviewLog[e] \in LogRow
  BY DEF UnUndone, OwnRow, IInv, TypeOK
<1>2. rows \in Nat /\ \A e \in UnUndone(u) : reviewLog[e].rowid \in 0..rows
  BY <1>1 DEF LogInv, RowsInOrder, LogRow, IInv, TypeOK
<1>3. \A d, e \in UnUndone(u) : reviewLog[d].rowid = reviewLog[e].rowid => d = e
  BY <1>1 DEF LogInv, RowsInOrder
<1>4. f \in Injection(UnUndone(u), 0..rows)
  BY <1>2, <1>3 DEF Injection, IsInjective
<1>5. IsFiniteSet(0..rows)
  BY <1>2, FS_Interval
<1>6. IsFiniteSet(UnUndone(u))
  BY <1>4, <1>5, FS_Injection
<1>7. QED
  BY <1>6, FS_CardinalityType

LEMMA RankOrders ==
  ASSUME IInv, LogInv, NEW u \in Users, NEW d \in UnUndone(u), NEW e \in UnUndone(u)
  PROVE  /\ Rank(u, e) \in 1..Cardinality(UnUndone(u))
         /\ Rank(u, d) \in 1..Cardinality(UnUndone(u))
         /\ Rank(u, d) <= Rank(u, e) <=> reviewLog[d].rowid <= reviewLog[e].rowid
         /\ Rank(u, d) = Rank(u, e) => d = e
<1> DEFINE Down(x) == {y \in UnUndone(u) : reviewLog[y].rowid <= reviewLog[x].rowid}
<1>1. \A x \in UnUndone(u) : x \in Events /\ reviewLog[x] # NONE /\ reviewLog[x].rowid \in Nat
  BY DEF UnUndone, OwnRow, IInv, TypeOK, LogRow
<1>2. reviewLog[d].rowid = reviewLog[e].rowid => d = e
  BY <1>1 DEF LogInv, RowsInOrder
<1>3. IsFiniteSet(UnUndone(u)) /\ Cardinality(UnUndone(u)) \in Nat
  BY StackIsFinite
<1>4. \A x \in UnUndone(u) : /\ IsFiniteSet(Down(x)) /\ Cardinality(Down(x)) \in Nat
                             /\ Cardinality(Down(x)) <= Cardinality(UnUndone(u))
                             /\ Cardinality(Down(x)) # 0
  <2> SUFFICES ASSUME NEW x \in UnUndone(u)
               PROVE  /\ IsFiniteSet(Down(x)) /\ Cardinality(Down(x)) \in Nat
                      /\ Cardinality(Down(x)) <= Cardinality(UnUndone(u))
                      /\ Cardinality(Down(x)) # 0
    OBVIOUS
  <2>1. Down(x) \in SUBSET UnUndone(u)
    OBVIOUS
  <2>2. x \in Down(x)
    BY <1>1
  <2> HIDE DEF Down
  <2>3. IsFiniteSet(Down(x)) /\ Cardinality(Down(x)) <= Cardinality(UnUndone(u))
    BY <1>3, <2>1, FS_Subset
  <2>4. QED
    BY <2>2, <2>3, FS_CardinalityType, FS_EmptySet
<1>5. \A x \in UnUndone(u) : Rank(u, x) = Cardinality(Down(x))
  BY DEF Rank
<1>6. \A x, y \in UnUndone(u) : reviewLog[x].rowid <= reviewLog[y].rowid =>
        Cardinality(Down(x)) <= Cardinality(Down(y))
  <2> SUFFICES ASSUME NEW x \in UnUndone(u), NEW y \in UnUndone(u),
                      reviewLog[x].rowid <= reviewLog[y].rowid
               PROVE  Cardinality(Down(x)) <= Cardinality(Down(y))
    OBVIOUS
  <2>1. Down(x) \in SUBSET Down(y)
    BY <1>1
  <2> HIDE DEF Down
  <2>2. QED
    BY <1>4, <2>1, FS_Subset
<1>7. \A x, y \in UnUndone(u) : reviewLog[x].rowid < reviewLog[y].rowid =>
        Cardinality(Down(x)) # Cardinality(Down(y))
  <2> SUFFICES ASSUME NEW x \in UnUndone(u), NEW y \in UnUndone(u),
                      reviewLog[x].rowid < reviewLog[y].rowid
               PROVE  Cardinality(Down(x)) # Cardinality(Down(y))
    OBVIOUS
  <2>1. Down(x) \in SUBSET Down(y) /\ y \in Down(y) /\ y \notin Down(x)
    BY <1>1
  <2> HIDE DEF Down
  <2>2. QED
    BY <1>4, <2>1, FS_Subset
<1> HIDE DEF Down
<1>8. /\ reviewLog[d].rowid \in Nat /\ reviewLog[e].rowid \in Nat
      /\ Cardinality(Down(d)) \in Nat /\ Cardinality(Down(e)) \in Nat
      /\ Cardinality(Down(d)) # 0 /\ Cardinality(Down(e)) # 0
      /\ Cardinality(Down(d)) <= Cardinality(UnUndone(u))
      /\ Cardinality(Down(e)) <= Cardinality(UnUndone(u))
  BY <1>1, <1>4
<1>9. /\ reviewLog[d].rowid <= reviewLog[e].rowid => Cardinality(Down(d)) <= Cardinality(Down(e))
      /\ reviewLog[e].rowid <= reviewLog[d].rowid => Cardinality(Down(e)) <= Cardinality(Down(d))
      /\ reviewLog[d].rowid < reviewLog[e].rowid => Cardinality(Down(d)) # Cardinality(Down(e))
      /\ reviewLog[e].rowid < reviewLog[d].rowid => Cardinality(Down(e)) # Cardinality(Down(d))
  BY <1>6, <1>7
<1>10. QED
  BY <1>2, <1>3, <1>5, <1>8, <1>9

(* Every place of the stack is taken, by one row.                          *)
PlacesAreTaken ==
  \A u \in Users :
    \A i \in 1..Cardinality(UnUndone(u)) :
      /\ Standing(u, i) \in UnUndone(u) /\ Rank(u, Standing(u, i)) = i
      /\ \A e \in UnUndone(u) : Rank(u, e) = i => Standing(u, i) = e

LEMMA StackIsRanked == IInv /\ LogInv => PlacesAreTaken
<1> SUFFICES ASSUME IInv, LogInv, NEW u \in Users
             PROVE  \A i \in 1..Cardinality(UnUndone(u)) :
                      /\ Standing(u, i) \in UnUndone(u) /\ Rank(u, Standing(u, i)) = i
                      /\ \A e \in UnUndone(u) : Rank(u, e) = i => Standing(u, i) = e
  BY DEF PlacesAreTaken
<1> DEFINE n == Cardinality(UnUndone(u))
           f == [e \in UnUndone(u) |-> Rank(u, e)]
<1>1. \A d, e \in UnUndone(u) : Rank(u, e) \in 1..n /\ (Rank(u, d) = Rank(u, e) => d = e)
  BY RankOrders
<1>3. f \in Injection(UnUndone(u), 1..n)
  BY <1>1 DEF Injection, IsInjective
<1>4. n \in Nat
  BY StackIsFinite
<1>5. IsFiniteSet(1..n) /\ Cardinality(1..n) = n
  BY <1>4, FS_Interval
<1>6. f \in Surjection(UnUndone(u), 1..n)
  BY <1>3, <1>5, FS_Injection
<1>7. ASSUME NEW i \in 1..n PROVE \E e \in UnUndone(u) : Rank(u, e) = i
  BY <1>6 DEF Surjection
<1>8. QED
  BY <1>1, <1>7 DEF Standing

(* The schedule of a card is what the stack gives for it.                  *)
SchedulesFollow ==
  \A u \in Users, c \in Cards : History!LastGrade(Stack(u), c) = cardState[u][c]

LEMMA StackSchedules == IInv /\ LogInv => SchedulesFollow
<1> SUFFICES ASSUME IInv, LogInv, NEW u \in Users, NEW c \in Cards
             PROVE  History!LastGrade(Stack(u), c) = cardState[u][c]
  BY DEF SchedulesFollow
<1> DEFINE n == Cardinality(UnUndone(u))
           h == Stack(u)
<1>1. \A i \in 1..n : Standing(u, i) \in UnUndone(u) /\ Rank(u, Standing(u, i)) = i
  BY StackIsRanked DEF PlacesAreTaken
<1>2. \A e \in UnUndone(u) : Standing(u, Rank(u, e)) = e /\ Rank(u, e) \in 1..n
  BY StackIsRanked, RankOrders DEF PlacesAreTaken
<1>3. DOMAIN h = 1..n
  BY DEF Stack
<1>4. \A i \in 1..n : h[i].card = reviewLog[Standing(u, i)].card /\ h[i].event = Standing(u, i)
  BY DEF Stack, GradeOf
<1>5. n \in Nat
  BY StackIsFinite
<1>6. CASE Grades(u, c) = {}
  <2>1. \A i \in DOMAIN h : h[i].card # c
    BY <1>1, <1>3, <1>4, <1>6 DEF Grades
  <2>2. cardState[u][c] = NONE
    BY <1>6, NewestStates DEF LogInv, IsNewest
  <2>3. QED
    BY <2>1, <2>2 DEF History!LastGrade
<1>7. CASE Grades(u, c) # {}
  <2> DEFINE e == cardState[u][c]
             k == Rank(u, e)
             Last(i) == h[i].card = c /\ \A j \in DOMAIN h : h[j].card = c => j <= i
  <2>1. /\ e \in Grades(u, c)
        /\ \A d \in Grades(u, c) : reviewLog[d].rowid <= reviewLog[e].rowid
    BY <1>7, NewestStates DEF LogInv, IsNewest
  <2>2. e \in UnUndone(u) /\ reviewLog[e].card = c
    BY <2>1 DEF Grades
  <2>3. k \in DOMAIN h /\ h[k].card = c /\ h[k].event = e
    BY <1>2, <1>3, <1>4, <2>2
  <2>4. ASSUME NEW j \in DOMAIN h, h[j].card = c PROVE j <= k
    <3>1. Standing(u, j) \in Grades(u, c) /\ Rank(u, Standing(u, j)) = j
      BY <1>1, <1>3, <1>4, <2>4 DEF Grades
    <3>2. QED
      BY <2>1, <2>2, <3>1, RankOrders DEF Grades
  <2> HIDE DEF h, k
  <2>5. Last(k)
    BY <2>3, <2>4
  <2>6. \A i \in DOMAIN h : Last(i) => i = k
    BY <1>3, <1>5, <2>3, <2>5
  <2>7. (CHOOSE i \in DOMAIN h : Last(i)) = k
    BY <2>3, <2>5, <2>6
  <2>8. QED
    BY <2>3, <2>7 DEF History!LastGrade, h
<1>8. QED
  BY <1>6, <1>7

LEMMA RankedNext == (IInv /\ LogInv)' => (PlacesAreTaken /\ SchedulesFollow)'
BY StackIsRanked, StackSchedules, PTL

(* A place whose row keeps its rank keeps its row.                         *)
LEMMA StandingKept ==
  ASSUME IInv, LogInv, PlacesAreTaken', NEW u \in Users,
         NEW i \in 1..Cardinality(UnUndone(u)), i \in 1..Cardinality(UnUndone(u)'),
         \A e \in UnUndone(u) : Rank(u, e) = i => e \in UnUndone(u)' /\ Rank(u, e)' = i
  PROVE  /\ Standing(u, i)' = Standing(u, i)
         /\ Standing(u, i) \in UnUndone(u)
         /\ Rank(u, Standing(u, i)) = i
<1>1. Standing(u, i) \in UnUndone(u) /\ Rank(u, Standing(u, i)) = i
  BY StackIsRanked DEF PlacesAreTaken
<1>2. PICK e \in UnUndone(u) : e = Standing(u, i)
  BY <1>1
<1>3. e \in UnUndone(u)' /\ Rank(u, e)' = i
  BY <1>1, <1>2
<1>4. Standing(u, i)' = e
  BY <1>3 DEF PlacesAreTaken
<1>5. QED
  BY <1>1, <1>2, <1>3, <1>4

(* What a step does to the log of another user's rows leaves a stack be.   *)
LEMMA StackStays ==
  ASSUME IInv, LogInv, PlacesAreTaken', NEW u \in Users,
         UnUndone(u)' = UnUndone(u),
         \A e \in UnUndone(u) : reviewLog'[e] = reviewLog[e]
  PROVE  Stack(u)' = Stack(u)
<1> DEFINE n == Cardinality(UnUndone(u))
<1>1. \A e \in UnUndone(u) : Rank(u, e)' = Rank(u, e)
  BY DEF Rank
<1>2. \A i \in 1..n : Standing(u, i)' = Standing(u, i) /\ Standing(u, i) \in UnUndone(u)
  BY <1>1, StandingKept
<1>3. \A i \in 1..n : GradeOf(Standing(u, i))' = GradeOf(Standing(u, i))
  BY <1>2 DEF GradeOf
<1>4. QED
  BY <1>3 DEF Stack

StackRow == [event : Events, session : Sessions, card : Cards]

LEMMA StackType ==
  ASSUME IInv, LogInv, NEW u \in Users
  PROVE  /\ Stack(u) \in Seq(StackRow)
         /\ Len(Stack(u)) = Cardinality(UnUndone(u))
         /\ Len(Stack(u)) \in Nat
<1>1. Cardinality(UnUndone(u)) \in Nat
  BY StackIsFinite
<1>2. \A i \in 1..Cardinality(UnUndone(u)) : Standing(u, i) \in UnUndone(u)
  BY StackIsRanked DEF PlacesAreTaken
<1>3. \A e \in UnUndone(u) : GradeOf(e) \in StackRow
  <2>1. \A e \in UnUndone(u) : e \in Events /\ reviewLog[e] \in LogRow
    BY DEF UnUndone, OwnRow, IInv, TypeOK
  <2>2. QED
    BY <2>1 DEF GradeOf, StackRow, LogRow
<1>4. \A i \in 1..Cardinality(UnUndone(u)) : GradeOf(Standing(u, i)) \in StackRow
  BY <1>2, <1>3
<1>5. QED
  BY <1>1, <1>4 DEF Stack

LEMMA Appended ==
  ASSUME NEW S, NEW s \in Seq(S), NEW x \in S, NEW n \in Nat, n = Len(s)
  PROVE  Append(s, x) = [i \in 1..(n + 1) |-> IF i = n + 1 THEN x ELSE s[i]]
<1> DEFINE t == Append(s, x)
<1>1. /\ t \in Seq(S) /\ Len(t) = n + 1 /\ t[n + 1] = x
      /\ \A i \in 1..n : t[i] = s[i]
  BY AppendProperties
<1> HIDE DEF t
<1>2. t = [i \in 1..(n + 1) |-> t[i]]
  BY <1>1
<1>3. \A i \in 1..(n + 1) : t[i] = IF i = n + 1 THEN x ELSE s[i]
  <2>1. \A i \in 1..(n + 1) : i = n + 1 \/ i \in 1..n
    OBVIOUS
  <2>2. QED
    BY <1>1, <2>1
<1>4. t = [i \in 1..(n + 1) |-> IF i = n + 1 THEN x ELSE s[i]]
  BY <1>2, <1>3
<1>5. QED
  BY <1>4 DEF t

(* A grade is pushed.                                                      *)
LEMMA StackGrows ==
  ASSUME IInv, LogInv, PlacesAreTaken', NEW e \in Events, NEW row \in LogRow, Adds(e, row)
  PROVE  \A u \in Users : Stack(u)' =
           IF u = row.user
           THEN Append(Stack(u), [event |-> e, session |-> row.session, card |-> row.card])
           ELSE Stack(u)
<1>1. /\ reviewLog'[e] = row
      /\ \A d \in Events : d # e => reviewLog'[d] = reviewLog[d]
      /\ \A u \in Users : UnUndone(u)' =
           IF u = row.user THEN UnUndone(u) \cup {e} ELSE UnUndone(u)
  BY AddedRows
<1>2. reviewLog[e] = NONE /\ row.rowid = rows + 1
  BY DEF Adds
<1>3. \A u \in Users : \A d \in UnUndone(u) :
        /\ d \in Events /\ d # e /\ reviewLog'[d] = reviewLog[d]
        /\ reviewLog[d].rowid \in Nat /\ reviewLog[d].rowid < row.rowid
  <2>1. \A u \in Users : \A d \in UnUndone(u) : d \in Events /\ reviewLog[d] # NONE
    BY DEF UnUndone, OwnRow
  <2>2. \A d \in Events : reviewLog[d] # NONE =>
          reviewLog[d].rowid \in Nat /\ reviewLog[d].rowid <= rows
    BY DEF IInv, TypeOK, LogRow, LogInv, RowsInOrder
  <2>3. rows \in Nat
    BY DEF IInv, TypeOK
  <2>4. QED
    BY <1>1, <1>2, <2>1, <2>2, <2>3
<1> SUFFICES ASSUME NEW u \in Users
             PROVE  Stack(u)' =
                      IF u = row.user
                      THEN Append(Stack(u), [event |-> e, session |-> row.session, card |-> row.card])
                      ELSE Stack(u)
  OBVIOUS
<1>4. CASE u # row.user
  BY <1>1, <1>3, <1>4, StackStays
<1>5. CASE u = row.user
  <2> DEFINE new == [event |-> e, session |-> row.session, card |-> row.card]
  <2>1. PICK n \in Nat : n = Cardinality(UnUndone(u))
    BY StackIsFinite
  <2>2. UnUndone(u)' = UnUndone(u) \cup {e} /\ e \notin UnUndone(u)
    BY <1>1, <1>3, <1>5
  <2>3. IsFiniteSet(UnUndone(u))
    BY StackIsFinite
  <2>4. Cardinality(UnUndone(u)') = n + 1
    BY <2>1, <2>2, <2>3, FS_AddElement
  <2>5. \A d \in UnUndone(u) : Rank(u, d)' = Rank(u, d)
    <3> SUFFICES ASSUME NEW d \in UnUndone(u) PROVE Rank(u, d)' = Rank(u, d)
      OBVIOUS
    <3>1. {x \in UnUndone(u)' : reviewLog'[x].rowid <= reviewLog'[d].rowid} =
          {x \in UnUndone(u) : reviewLog[x].rowid <= reviewLog[d].rowid}
      <4>1. ~(row.rowid <= reviewLog[d].rowid)
        BY <1>3, <2>2 DEF LogRow
      <4>2. QED
        BY <1>1, <1>3, <2>2, <4>1
    <3>2. QED
      BY <3>1 DEF Rank
  <2>6. Rank(u, e)' = n + 1
    <3>1. {x \in UnUndone(u)' : reviewLog'[x].rowid <= reviewLog'[e].rowid} = UnUndone(u)'
      <4>1. row.rowid <= row.rowid /\ \A x \in UnUndone(u) : reviewLog[x].rowid <= row.rowid
        BY <1>3 DEF LogRow
      <4>2. QED
        BY <1>1, <1>3, <2>2, <4>1
    <3>2. QED
      BY <2>4, <3>1 DEF Rank
  <2>7. \A i \in 1..n : Standing(u, i)' = Standing(u, i) /\ Standing(u, i) \in UnUndone(u)
    <3> SUFFICES ASSUME NEW i \in 1..n
                 PROVE  Standing(u, i)' = Standing(u, i) /\ Standing(u, i) \in UnUndone(u)
      OBVIOUS
    <3>1. i \in 1..Cardinality(UnUndone(u)) /\ i \in 1..Cardinality(UnUndone(u)')
      BY <2>1, <2>4
    <3>2. \A d \in UnUndone(u) : Rank(u, d) = i => d \in UnUndone(u)' /\ Rank(u, d)' = i
      BY <2>2, <2>5
    <3>3. QED
      BY <3>1, <3>2, StandingKept
  <2>8. \A i \in 1..n : GradeOf(Standing(u, i))' = GradeOf(Standing(u, i))
    BY <1>3, <2>7 DEF GradeOf
  <2>9. Standing(u, n + 1)' = e
    <3>1. n + 1 \in 1..Cardinality(UnUndone(u)') /\ e \in UnUndone(u)'
      BY <2>2, <2>4
    <3>2. QED
      BY <2>6, <3>1 DEF PlacesAreTaken
  <2>10. GradeOf(Standing(u, n + 1))' = new
    BY <1>1, <2>9 DEF GradeOf
  <2>11. Stack(u)' = [i \in 1..(n + 1) |-> GradeOf(Standing(u, i))']
    BY <2>4 DEF Stack
  <2>12. Stack(u) \in Seq(StackRow) /\ Len(Stack(u)) = n
    BY <2>1, StackType
  <2>13. \A i \in 1..n : Stack(u)[i] = GradeOf(Standing(u, i))
    BY <2>1 DEF Stack
  <2>14. new \in StackRow
    BY DEF StackRow, LogRow
  <2> HIDE DEF new
  <2>15. Append(Stack(u), new) = [i \in 1..(n + 1) |-> IF i = n + 1 THEN new ELSE Stack(u)[i]]
    BY <2>12, <2>14, Appended
  <2>16. \A i \in 1..(n + 1) : GradeOf(Standing(u, i))' = IF i = n + 1 THEN new ELSE Stack(u)[i]
    <3> SUFFICES ASSUME NEW i \in 1..(n + 1)
                 PROVE  GradeOf(Standing(u, i))' = IF i = n + 1 THEN new ELSE Stack(u)[i]
      OBVIOUS
    <3>1. CASE i = n + 1
      BY <2>10, <3>1
    <3>2. CASE i # n + 1
      <4>1. i \in 1..n
        BY <3>2
      <4>2. QED
        BY <2>8, <2>13, <3>2, <4>1
    <3>3. QED
      BY <3>1, <3>2
  <2>17. Stack(u)' = Append(Stack(u), new)
    BY <2>11, <2>15, <2>16
  <2>18. QED
    BY <1>5, <2>17 DEF new
<1>6. QED
  BY <1>4, <1>5

(* An undo pops.                                                           *)
LEMMA StackShrinks ==
  ASSUME IInv, LogInv, PlacesAreTaken', NEW e \in Events, NEW row \in LogRow, Removes(e, row)
  PROVE  LET top == Stack(row.user)[Len(Stack(row.user))]
         IN  /\ Stack(row.user) # <<>>
             /\ top.session = row.session /\ top.card = row.card
             /\ \A u \in Users : Stack(u)' =
                  IF u = row.user THEN SubSeq(Stack(u), 1, Len(Stack(u)) - 1) ELSE Stack(u)
<1>1. PICK v \in Users : v = row.user
  BY DEF LogRow
<1>2. PICK n \in Nat : n = Cardinality(UnUndone(v))
  BY StackIsFinite
<1>3. /\ \A d \in Events : reviewLog[d] # NONE =>
           /\ reviewLog'[d].rowid = reviewLog[d].rowid
           /\ d # e => reviewLog'[d] = reviewLog[d]
      /\ \A u \in Users : UnUndone(u)' = UnUndone(u) \ {e}
  BY RemovedRows
<1>4. e \in UnUndone(v) /\ row = reviewLog[e] /\ row # NONE /\ row.rowid \in Nat
  BY <1>1 DEF LogRow, Removes, IsLatest
<1>5. \A d \in UnUndone(v) : d # e => reviewLog[d].rowid < row.rowid
  BY <1>1, <1>4, LatestIsLast DEF Removes
<1>6. \A u \in Users : \A d \in UnUndone(u) :
        d \in Events /\ reviewLog[d] # NONE /\ reviewLog[d].user = u /\ reviewLog[d].rowid \in Nat
  BY DEF UnUndone, OwnRow, IInv, TypeOK, LogRow
<1>7. IsFiniteSet(UnUndone(v))
  BY StackIsFinite
<1>8. Cardinality(UnUndone(v)') = n - 1 /\ n # 0
  <2>1. UnUndone(v)' = UnUndone(v) \ {e} /\ UnUndone(v) # {}
    BY <1>3, <1>4
  <2>2. QED
    BY <1>2, <1>4, <1>7, <2>1, FS_RemoveElement, FS_EmptySet
<1>9. Rank(v, e) = n
  <2>1. {x \in UnUndone(v) : reviewLog[x].rowid <= reviewLog[e].rowid} = UnUndone(v)
    BY <1>4, <1>5, <1>6
  <2>2. QED
    BY <1>2, <2>1 DEF Rank
<1>10. Standing(v, n) = e
  BY <1>2, <1>4, <1>8, <1>9, StackIsRanked DEF PlacesAreTaken
<1>11. Stack(v) \in Seq(StackRow) /\ Len(Stack(v)) = n
  BY <1>2, StackType
<1>12. \A i \in 1..n : Stack(v)[i] = GradeOf(Standing(v, i))
  BY <1>2 DEF Stack
<1>13. Stack(v)[n].session = row.session /\ Stack(v)[n].card = row.card /\ Stack(v) # <<>>
  <2>1. Stack(v)[n] = GradeOf(e)
    BY <1>8, <1>10, <1>12
  <2>2. QED
    BY <1>4, <1>8, <1>11, <2>1 DEF GradeOf
<1>14. \A u \in Users : u # v => Stack(u)' = Stack(u)
  <2> SUFFICES ASSUME NEW u \in Users, u # v PROVE Stack(u)' = Stack(u)
    OBVIOUS
  <2>1. e \notin UnUndone(u)
    BY <1>1, <1>4, <1>6
  <2>2. UnUndone(u)' = UnUndone(u) /\ \A d \in UnUndone(u) : reviewLog'[d] = reviewLog[d]
    <3>1. \A d \in UnUndone(u) : d \in Events /\ reviewLog[d] # NONE /\ d # e
      BY <1>6, <2>1
    <3>2. QED
      BY <1>3, <3>1
  <2>3. QED
    BY <2>2, StackStays
<1>15. Stack(v)' = SubSeq(Stack(v), 1, n - 1)
  <2>1. \A d \in UnUndone(v) \ {e} : Rank(v, d)' = Rank(v, d)
    <3> SUFFICES ASSUME NEW d \in UnUndone(v) \ {e} PROVE Rank(v, d)' = Rank(v, d)
      OBVIOUS
    <3>1. {x \in UnUndone(v)' : reviewLog'[x].rowid <= reviewLog'[d].rowid} =
          {x \in UnUndone(v) : reviewLog[x].rowid <= reviewLog[d].rowid}
      <4>1. ~(reviewLog[e].rowid <= reviewLog[d].rowid)
        BY <1>4, <1>5, <1>6
      <4>2. QED
        BY <1>3, <1>4, <1>6, <4>1
    <3>2. QED
      BY <3>1 DEF Rank
  <2>2. \A i \in 1..(n - 1) : Standing(v, i)' = Standing(v, i)
                              /\ Standing(v, i) \in UnUndone(v) \ {e}
    <3> SUFFICES ASSUME NEW i \in 1..(n - 1)
                 PROVE  Standing(v, i)' = Standing(v, i) /\ Standing(v, i) \in UnUndone(v) \ {e}
      OBVIOUS
    <3>1. i \in 1..n /\ i # n
      OBVIOUS
    <3>2. i \in 1..Cardinality(UnUndone(v)) /\ i \in 1..Cardinality(UnUndone(v)')
      BY <1>2, <1>8, <3>1
    <3>3. \A d \in UnUndone(v) : Rank(v, d) = i => d \in UnUndone(v)' /\ Rank(v, d)' = i
      BY <1>3, <1>4, <1>9, <2>1, <3>1
    <3>4. QED
      <4>1. Standing(v, i)' = Standing(v, i) /\ Standing(v, i) \in UnUndone(v)
        BY <3>2, <3>3, StandingKept
      <4>2. Rank(v, Standing(v, i)) = i
        BY <3>2, <3>3, StandingKept
      <4>3. QED
        BY <1>9, <3>1, <4>1, <4>2
  <2>3. \A i \in 1..(n - 1) : GradeOf(Standing(v, i))' = Stack(v)[i]
    <3>1. \A i \in 1..(n - 1) : i \in 1..n
      OBVIOUS
    <3>2. QED
      BY <1>3, <1>4, <1>6, <1>12, <2>2, <3>1 DEF GradeOf
  <2>4. Stack(v)' = [i \in 1..(n - 1) |-> GradeOf(Standing(v, i))']
    BY <1>8 DEF Stack
  <2>5. SubSeq(Stack(v), 1, n - 1) = [i \in 1..(n - 1) |-> Stack(v)[i]]
    BY <1>8, <1>11
  <2>6. QED
    BY <2>3, <2>4, <2>5
<1>16. QED
  BY <1>1, <1>11, <1>13, <1>14, <1>15

LEMMA StacksStay ==
  ASSUME IInv, LogInv, PlacesAreTaken', reviewLog' = reviewLog
  PROVE  Stacks' = Stacks /\ EventsUsed' = EventsUsed
<1>1. \A u \in Users : UnUndone(u)' = UnUndone(u)
  BY DEF UnUndone, OwnRow
<1>2. \A u \in Users : Stack(u)' = Stack(u)
  BY <1>1, StackStays
<1>3. QED
  BY <1>2 DEF Stacks, EventsUsed

(* What the mapping sees of the sessions.                                  *)
LEMMA SessionsSeen ==
  ASSUME \A s \in Sessions : /\ session'[s] = NONE <=> session[s] = NONE
                             /\ session[s] # NONE => session'[s].queue = session[s].queue
  PROVE  /\ Queues' = Queues
         /\ (\A s \in Sessions : session[s] # NONE => session'[s].position = session[s].position)
              => Positions' = Positions
<1>1. \A s \in Sessions : (IF session'[s] = NONE THEN <<>> ELSE session'[s].queue) =
                          (IF session[s] = NONE THEN <<>> ELSE session[s].queue)
  OBVIOUS
<1>2. Queues' = Queues
  BY <1>1 DEF Queues
<1>3. ASSUME \A s \in Sessions : session[s] # NONE => session'[s].position = session[s].position
      PROVE  Positions' = Positions
  <2>1. \A s \in Sessions : (IF session'[s] = NONE THEN 0 ELSE session'[s].position) =
                            (IF session[s] = NONE THEN 0 ELSE session[s].position)
    BY <1>3
  <2>2. QED
    BY <2>1 DEF Positions
<1>4. QED
  BY <1>2, <1>3

LEMMA InsertOpens ==
  ASSUME SerialInv, PlacesAreTaken', NEW r \in Requests, Inserts(r)
  PROVE  (\E s \in Sessions : History!Open(s, Queues'[s])) \/ UNCHANGED History!vars
<1>1. /\ IInv /\ LogInv /\ session \in [Sessions -> SessionRow \union {NONE}]
      /\ UNCHANGED <<reviewLog, cardState>>
  BY DEF SerialInv, IInv, TypeOK, Inserts
<1>2. UNCHANGED <<Stacks, EventsUsed, cardState>>
  BY <1>1, StacksStay
<1>3. PICK queue \in Seq(Cards) : InsertSession(r, queue)
  BY DEF Inserts
<1>4. PICK sid \in Sessions : sid = req[r].session /\ session[sid] = NONE
  BY <1>1 DEF IInv, FreshSessionIds, Grounded, Inserts
<1>5. CASE session' = session
  BY <1>2, <1>5 DEF History!vars, Queues, Positions
<1> DEFINE row == [user |-> req[r].user, release |-> req[r].release, queue |-> queue,
                   position |-> 0, expiresAt |-> req[r].now + TTL, patchIds |-> {}]
<1>6. CASE session' = [session EXCEPT ![sid] = row]
  <2>1. row.queue = queue /\ row.position = 0
    OBVIOUS
  <2>2. row # NONE
    <3>1. /\ req[r].pc \in CreatePcs /\ req[r].user \in Users /\ req[r].release \in Releases
          /\ req[r] \in Request
      BY <1>1 DEF IInv, TypeOK, Grounded, Inserts, CreatePcs
    <3>2. req[r].now + TTL \in Nat
      BY <3>1, BoundAssumption DEF Request
    <3>3. row \in SessionRow
      BY <3>1, <3>2 DEF SessionRow
    <3>4. QED
      BY <3>3, NoneAssumption
  <2> HIDE DEF row
  <2>3. \A s \in Sessions : session'[s] = IF s = sid THEN row ELSE session[s]
    BY <1>1, <1>6
  <2>4. Queues' = [Queues EXCEPT ![sid] = queue]
    <3>1. \A s \in Sessions : (IF session'[s] = NONE THEN <<>> ELSE session'[s].queue) =
            IF s = sid THEN queue ELSE IF session[s] = NONE THEN <<>> ELSE session[s].queue
      BY <2>1, <2>2, <2>3
    <3>2. QED
      BY <3>1 DEF Queues
  <2>5. Positions' = Positions
    <3>1. \A s \in Sessions : (IF session'[s] = NONE THEN 0 ELSE session'[s].position) =
                              (IF session[s] = NONE THEN 0 ELSE session[s].position)
      BY <1>4, <2>1, <2>2, <2>3
    <3>2. QED
      BY <3>1 DEF Positions
  <2>6. Queues[sid] = <<>> /\ Queues'[sid] = queue
    BY <1>4, <2>4 DEF Queues
  <2>7. History!Open(sid, Queues'[sid])
    BY <1>2, <2>4, <2>5, <2>6 DEF History!Open
  <2>8. QED
    BY <2>7
<1>7. QED
  BY <1>3, <1>4, <1>5, <1>6 DEF InsertSession

LEMMA CommitGrades ==
  ASSUME SerialInv, SerialInv', NEW r \in Requests, GradeCommit(r)
  PROVE  \E u \in Users, s \in Sessions, e \in Events : History!Grade(u, s, e)
<1>1. IInv /\ LogInv /\ PlacesAreTaken' /\ Holds(req[r]) /\ req[r].pc = "grade_commit"
  BY RankedNext DEF SerialInv, ReadsHold, GradeCommit, At
<1>2. GradeHolds(req[r])
  BY <1>1, CommitFacts DEF Holds, IsLive, GradePcs
<1>3. PICK e \in Events, row \in LogRow :
        Adds(e, row) /\ e = req[r].event /\ row = GradeRow(r)
  BY <1>1, <1>2, CommitAdds
<1>4. PICK u \in Users, s \in Sessions, c \in Cards :
        u = row.user /\ s = row.session /\ c = row.card
  BY DEF LogRow
<1>5. /\ session[s] # NONE /\ IsCurrent(s, c)
      /\ session'[s].position = session[s].position + 1
      /\ cardState' = [cardState EXCEPT ![u][c] = e]
      /\ reviewLog[e] = NONE
  BY <1>3, <1>4 DEF Adds
<1>6. \A t \in Sessions : /\ session'[t] = NONE <=> session[t] = NONE
                          /\ session[t] # NONE => session'[t].queue = session[t].queue
                          /\ t # s => session'[t] = session[t]
  <2>1. \A t \in Sessions : t # s => session'[t] = session[t]
    BY <1>1, <1>3, <1>4, CommitTouchesSession DEF GradeRow
  <2>2. session'[s] # NONE
    BY <1>1, <1>5, GradeCommitStep DEF Keeps
  <2>3. QED
    BY <1>3, <1>5, <2>1, <2>2 DEF Adds
<1>7. Queues' = Queues
  BY <1>6, SessionsSeen
<1>8. Positions' = [Positions EXCEPT ![s] = @ + 1]
  <2>1. \A t \in Sessions : (IF session'[t] = NONE THEN 0 ELSE session'[t].position) =
          IF t = s THEN session[t].position + 1
                   ELSE IF session[t] = NONE THEN 0 ELSE session[t].position
    BY <1>5, <1>6
  <2>2. QED
    BY <1>5, <2>1 DEF Positions
<1>9. Positions[s] < Len(Queues[s]) /\ Queues[s][Positions[s] + 1] = c
  BY <1>5 DEF Positions, Queues, IsCurrent
<1>10. e \notin EventsUsed /\ EventsUsed' = EventsUsed \union {e}
  <2>1. /\ reviewLog'[e] = row /\ row # NONE
        /\ \A d \in Events : d # e => reviewLog'[d] = reviewLog[d]
    BY <1>1, <1>3, AddedRows
  <2>2. QED
    BY <1>5, <2>1 DEF EventsUsed
<1> DEFINE grade == [event |-> e, session |-> s, card |-> c]
<1>11. Stacks' = [Stacks EXCEPT ![u] = Append(@, grade)]
  <2>1. \A v \in Users : Stack(v)' = IF v = u THEN Append(Stack(v), grade) ELSE Stack(v)
    BY <1>1, <1>3, <1>4, StackGrows
  <2> HIDE DEF grade
  <2>2. QED
    BY <2>1 DEF Stacks
<1>12. History!Grade(u, s, e)
  BY <1>5, <1>7, <1>8, <1>9, <1>10, <1>11 DEF History!Grade
<1>13. QED
  BY <1>12

LEMMA UndoPops ==
  ASSUME SerialInv, SerialInv', NEW r \in Requests, UndoCommit(r)
  PROVE  \E u \in Users : History!Undo(u)
<1>1. /\ IInv /\ LogInv /\ PlacesAreTaken' /\ SchedulesFollow'
      /\ Holds(req[r]) /\ req[r].pc = "undo_commit"
  BY RankedNext DEF SerialInv, ReadsHold, UndoCommit, At
<1>2. UndoHolds(req[r])
  BY <1>1 DEF Holds, IsLive, UndoPcs
<1>3. PICK e \in Events, row \in LogRow : Removes(e, row)
  BY <1>1, <1>2, UndoRemoves
<1>4. PICK u \in Users, s \in Sessions, c \in Cards :
        u = row.user /\ s = row.session /\ c = row.card
  BY DEF LogRow
<1>5. /\ session[s] # NONE /\ row = reviewLog[e] /\ row # NONE
      /\ session'[s].position = Rewound(session[s].position)
      /\ cardState' = [cardState EXCEPT ![u][c] = RestoredState(u, row)]
      /\ ~row.undone
  <2>1. ~row.undone
    BY <1>1, <1>3, RemovedRows
  <2>2. QED
    BY <1>3, <1>4, <2>1 DEF Removes
<1>6. \A t \in Sessions : /\ session'[t] = NONE <=> session[t] = NONE
                          /\ session[t] # NONE =>
                               /\ session'[t].queue = session[t].queue
                               /\ t # s => session'[t].position = session[t].position
  <2>1. \A t \in Sessions : session[t] # NONE => session'[t] # NONE
    BY <1>1, UndoCommitStep DEF Keeps
  <2>2. QED
    BY <1>3, <1>4, <2>1 DEF Removes
<1>7. Queues' = Queues
  BY <1>6, SessionsSeen
<1>8. session[s].position \in Nat \ {0}
  <2>1. e \in RowsOf(s)
    BY <1>4, <1>5 DEF RowsOf
  <2>2. session[s].position = Cardinality(RowsOf(s)) /\ IsFiniteSet(RowsOf(s))
    BY <1>1, <1>5 DEF LogInv, GradedPrefix, RowsAreFinite
  <2>3. QED
    BY <2>1, <2>2, FS_CardinalityType, FS_EmptySet
<1>9. Positions' = [Positions EXCEPT ![s] = @ - 1]
  <2>1. \A t \in Sessions : (IF session'[t] = NONE THEN 0 ELSE session'[t].position) =
          IF t = s THEN session[t].position - 1
                   ELSE IF session[t] = NONE THEN 0 ELSE session[t].position
    BY <1>5, <1>6, <1>8 DEF Rewound
  <2>2. QED
    BY <1>5, <2>1 DEF Positions
<1>10. EventsUsed' = EventsUsed
  BY <1>1, <1>3, RemovedRows DEF EventsUsed
<1> DEFINE top == Stack(u)[Len(Stack(u))]
           rest == SubSeq(Stack(u), 1, Len(Stack(u)) - 1)
<1>11. /\ Stack(u) # <<>> /\ top.session = s /\ top.card = c
       /\ \A v \in Users : Stack(v)' = IF v = u THEN SubSeq(Stack(v), 1, Len(Stack(v)) - 1)
                                                ELSE Stack(v)
  BY <1>1, <1>3, <1>4, StackShrinks
<1>12. Stacks[u] = Stack(u)
  BY DEF Stacks
<1>13. Stacks' = [Stacks EXCEPT ![u] = rest]
  BY <1>11 DEF Stacks
<1>14. cardState' = [cardState EXCEPT ![u][c] = History!LastGrade(rest, c)]
  <2>1. RestoredState(u, row) = cardState'[u][c]
    BY <1>1, <1>5 DEF IInv, TypeOK
  <2>2. cardState'[u][c] = History!LastGrade(Stack(u), c)'
    BY <1>1 DEF SchedulesFollow
  <2>3. Stack(u)' = rest
    BY <1>11
  <2>4. History!LastGrade(Stack(u), c)' = History!LastGrade(rest, c)
    BY <2>3 DEF History!LastGrade
  <2>5. QED
    BY <1>5, <2>1, <2>2, <2>4
<1> HIDE DEF top, rest
<1>15. History!Undo(u)
  BY <1>7, <1>9, <1>10, <1>11, <1>12, <1>13, <1>14 DEF History!Undo, top, rest
<1>16. QED
  BY <1>15

LEMMA PatchIsUnseen ==
  ASSUME SerialInv, PlacesAreTaken', NEW r \in Requests, PatchCommit(r)
  PROVE  UNCHANGED History!vars
<1>1. /\ IInv /\ LogInv /\ session \in [Sessions -> SessionRow \union {NONE}]
      /\ UNCHANGED <<reviewLog, cardState>>
      /\ req[r].session \in Sessions /\ session[req[r].session] # NONE
      /\ req[r] \in Request
  BY DEF SerialInv, IInv, TypeOK, PatchCommit, Grounded, At
<1>2. UNCHANGED <<Stacks, EventsUsed, cardState>>
  BY <1>1, StacksStay
<1> DEFINE s == req[r].session
           ids == req[r].patchIds \union {req[r].patchId}
           recorded == [session[s] EXCEPT !.patchIds = ids]
<1>3. session' = [session EXCEPT ![s] = recorded]
  BY DEF PatchCommit
<1>4. ids \in SUBSET PatchIds
  BY <1>1 DEF SerialInv, IInv, PatchCommit, At, Grounded, Request
<1> HIDE DEF ids
<1>5. session[s] \in SessionRow
  BY <1>1
<1>6. recorded \in SessionRow
  BY <1>4, <1>5 DEF SessionRow
<1>7. recorded # NONE
  BY <1>6, NoneAssumption
<1>8. recorded.queue = session[s].queue /\ recorded.position = session[s].position
  BY <1>5 DEF SessionRow
<1> HIDE DEF recorded
<1>9. \A t \in Sessions : session'[t] = IF t = s THEN recorded ELSE session[t]
  BY <1>1, <1>3
<1>10. Queues' = Queues /\ Positions' = Positions
  BY <1>1, <1>7, <1>8, <1>9, SessionsSeen
<1>11. QED
  BY <1>2, <1>10 DEF History!vars

LEMMA StepRefines ==
  ASSUME SerialInv, SerialInv', [SerialNext]_vars
  PROVE  [History!Next]_(History!vars)
<1>1. IInv /\ LogInv /\ PlacesAreTaken'
  BY RankedNext DEF SerialInv
<1>2. CASE UNCHANGED database
  <2>1. UNCHANGED <<Stacks, EventsUsed, cardState>>
    BY <1>1, <1>2, StacksStay DEF database
  <2>2. UNCHANGED History!vars
    BY <1>2, <2>1 DEF History!vars, database, Queues, Positions
  <2>3. QED
    BY <2>2
<1>3. ASSUME NEW r \in Requests,
             Inserts(r) \/ GradeCommit(r) \/ UndoCommit(r) \/ PatchCommit(r)
      PROVE  [History!Next]_(History!vars)
  BY <1>1, <1>3, InsertOpens, CommitGrades, UndoPops, PatchIsUnseen DEF History!Next
<1>4. CASE UNCHANGED vars
  BY <1>2, <1>4 DEF vars
<1>5. CASE SerialNext
  BY <1>1, <1>2, <1>3, <1>5, SerialIsNext, Writers
<1>6. QED
  BY <1>4, <1>5

LEMMA InitRefines ==
  ASSUME Init
  PROVE  History!Init
<1>1. Queues = [s \in Sessions |-> <<>>] /\ Positions = [s \in Sessions |-> 0]
  BY DEF Init, Queues, Positions
<1>2. \A u \in Users : UnUndone(u) = {}
  BY DEF Init, UnUndone, OwnRow
<1>3. \A u \in Users : Stack(u) = <<>>
  BY <1>2, FS_EmptySet DEF Stack
<1>4. Stacks = [u \in Users |-> <<>>] /\ EventsUsed = {}
  BY <1>3 DEF Stacks, EventsUsed, Init
<1>5. QED
  BY <1>1, <1>4 DEF Init, History!Init

(* For clients that wait for their answers the database shows nothing but  *)
(* a stack of grades for each user: every step is a session that opens, a  *)
(* grade that is pushed, an undo that pops, or is not seen (spec 8.3).     *)
THEOREM HistoryIsImplemented == SerialSpec => ImplementsHistory
<1>1. Init => History!Init
  BY InitRefines
<1>2. SerialInv /\ SerialInv' /\ [SerialNext]_vars => [History!Next]_(History!vars)
  BY StepRefines
<1>3. QED
  BY <1>1, <1>2, SerialInvariance, PTL DEF SerialSpec, ImplementsHistory, History!Spec

-------------------------------------------------------------------------------
(***************************************************************************)
(* Why the overview of the statistics is on the learner's calendar: the    *)
(* counts are taken by instants, between starts of days, and mean dates.   *)
(***************************************************************************)
DueRows == [due : Int, lapses : Int]
StatsLogRows == [at : Nat, card : DOMAIN WordOfCard, undone : BOOLEAN, before : DueRows]

(* The days with a review, within the window of the streak.               *)
RecentDays(log, today) ==
  {LocalDateKey(log[i].at) : i \in Since(log, StartOfLocalDay(today - STREAK_LOOKBACK_DAYS))}

(* What the queries of an overview have read: each count is that of the   *)
(* log, or of the rows, as it was at its own query.                       *)
StatsInv ==
  /\ zone \in Zones /\ now \in Clock
  /\ review_log \in Seq(StatsLogRows)
  /\ card_state \in [DOMAIN WordOfCard -> DueRows]
  /\ request.step \in {"idle", "today", "activity", "answered"}
  /\ request.step # "idle" =>
       request.today \in Int /\ request.rows \in [DOMAIN WordOfCard -> DueRows]
  /\ request.step \in {"activity", "answered"} =>
       /\ request.counted \in Seq(StatsLogRows)
       /\ request.reviews_today =
            Cardinality(Since(request.counted, StartOfLocalDay(request.today)))
  /\ request.step = "answered" =>
       /\ request.activity \in Seq(StatsLogRows)
       /\ request.streak_days =
            StreakDays(RecentDays(request.activity, request.today), request.today)
       /\ request.due_forecast = DueForecast(request.rows, request.today)

(* Offsets and the instant of the change are numbers.                     *)
LEMMA ZoneTypes ==
  ASSUME zone \in Zones
  PROVE  /\ zone.before \in -12 .. 14 /\ zone.after \in -12 .. 14 /\ zone.at \in Nat
         /\ zone.after - zone.before \in -1 .. 1
BY StatisticsAssumption DEF StatisticsAssumption

(* The two passes find where a day starts: an instant is at or after it   *)
(* exactly if its date is that day or a later one. The first pass may     *)
(* read the offset on the wrong side of a change; the second then reads   *)
(* it on the right one, but for a midnight that is skipped or repeated.   *)
LEMMA DayStarts ==
  ASSUME zone \in Zones, ~SkipsMidnight, ~RepeatsMidnight, NEW i \in Int, NEW date \in Int
  PROVE  /\ StartOfLocalDay(date) \in Int /\ LocalDateKey(i) \in Int
         /\ i >= StartOfLocalDay(date) <=> LocalDateKey(i) >= date
<1> DEFINE b == zone.before
           a == zone.after
           t == zone.at
           o(x) == IF x < t THEN b ELSE a
           m == 24 * date
<1>1. /\ b \in -12 .. 14 /\ a \in -12 .. 14 /\ t \in Nat
      /\ a = b \/ a = b + 1 \/ a = b - 1
  BY ZoneTypes
<1>2. \A x : ZoneOffset(x) = o(x)
  BY DEF ZoneOffset
<1>3. LocalDateKey(i) \in Int /\ (LocalDateKey(i) >= date <=> i + o(i) >= m)
  <2>1. o(i) \in Int
    BY <1>1
  <2> DEFINE y == i + o(i)
  <2>2. y \in Int
    BY <2>1
  <2>3. LocalDateKey(i) = y \div 24
    BY <1>2 DEF LocalDateKey
  <2> HIDE DEF y, o
  <2>4. y \div 24 \in Int /\ (y \div 24 >= date <=> y >= 24 * date)
    BY <2>2
  <2> QED BY <2>3, <2>4 DEF y
<1>4. StartOfLocalDay(date) = m - o(m - o(m))
  BY <1>2 DEF StartOfLocalDay
<1>5. m \in Int
  OBVIOUS
<1>6. a = b + 1 /\ m = t + b => b >= 0
  <2> SUFFICES ASSUME a = b + 1, m = t + b PROVE b >= 0
    OBVIOUS
  <2>1. (t + b) % 24 = 0
    BY <1>1
  <2> QED BY <1>1, <2>1 DEF SkipsMidnight
<1>7. a = b - 1 /\ m = t + b - 1 => b <= 0
  <2> SUFFICES ASSUME a = b - 1, m = t + b - 1 PROVE b <= 0
    OBVIOUS
  <2>1. (t + b) % 24 = 1
    BY <1>1
  <2> QED BY <1>1, <2>1 DEF RepeatsMidnight
<1> HIDE DEF a, b, t, m
<1>8. m - o(m - o(m)) \in Int /\ (i >= m - o(m - o(m)) <=> i + o(i) >= m)
  BY <1>1, <1>5, <1>6, <1>7
<1> QED BY <1>3, <1>4, <1>8

(* Nothing has been asked or graded.                                      *)
LEMMA InitiallyUnasked == StatsInit => StatsInv
<1> SUFFICES ASSUME StatsInit PROVE StatsInv
  OBVIOUS
<1>1. zone \in Zones /\ now \in Clock /\ review_log \in Seq(StatsLogRows)
  BY EmptySeq DEF StatsInit
<1>2. card_state \in [DOMAIN WordOfCard -> DueRows]
  BY DEF StatsInit, NoRow, DueRows
<1>3. request.step = "idle"
  BY DEF StatsInit, Unasked
<1> QED BY <1>1, <1>2, <1>3 DEF StatsInv

(* What a request has read and counted stays, the zone being one.         *)
LEMMA RequestKept ==
  ASSUME StatsInv, zone' = zone, request' = request, now' \in Clock,
         review_log' \in Seq(StatsLogRows), card_state' \in [DOMAIN WordOfCard -> DueRows]
  PROVE  StatsInv'
<1>1. Since(request.counted, StartOfLocalDay(request.today))'
        = Since(request.counted, StartOfLocalDay(request.today))
  BY DEF Since, NotUndone, StartOfLocalDay, ZoneOffset
<1>2. RecentDays(request.activity, request.today)' = RecentDays(request.activity, request.today)
  BY DEF RecentDays, Since, NotUndone, StartOfLocalDay, ZoneOffset, LocalDateKey
<1>3. DueForecast(request.rows, request.today)' = DueForecast(request.rows, request.today)
  BY DEF DueForecast, Bucket, Graded, StartOfLocalDay, ZoneOffset
<1>4. StreakDays(RecentDays(request.activity, request.today), request.today)'
        = StreakDays(RecentDays(request.activity, request.today), request.today)
  BY <1>2 DEF StreakDays
<1> QED BY <1>1, <1>3, <1>4 DEF StatsInv

(* Grading: the row that the grade replaces goes into the log.            *)
LEMMA StatsGradeStep ==
  ASSUME StatsInv, NEW c \in DOMAIN WordOfCard, NEW forgotten \in BOOLEAN, Grade(c, forgotten)
  PROVE  StatsInv'
<1>1. card_state[c] \in DueRows /\ now \in Nat /\ Interval[IF forgotten THEN 2 ELSE 1] \in Nat
  BY StatisticsAssumption DEF StatsInv, StatisticsAssumption
<1> DEFINE row == [at |-> now, card |-> c, undone |-> FALSE, before |-> card_state[c]]
           new == [due |-> now + Interval[IF forgotten THEN 2 ELSE 1],
                   lapses |-> IF card_state[c] = NoRow THEN 0
                              ELSE IF forgotten THEN card_state[c].lapses + 1
                              ELSE card_state[c].lapses]
<1>2. row \in StatsLogRows
  BY <1>1 DEF StatsLogRows
<1>3. new \in DueRows
  BY <1>1 DEF DueRows
<1>4. review_log' = Append(review_log, row) /\ card_state' = [card_state EXCEPT ![c] = new]
  BY DEF Grade, StatsInv
<1> HIDE DEF row, new
<1>5. review_log' \in Seq(StatsLogRows)
  BY <1>2, <1>4, AppendProperties DEF StatsInv
<1>6. card_state' \in [DOMAIN WordOfCard -> DueRows]
  BY <1>3, <1>4 DEF StatsInv
<1> QED BY <1>5, <1>6, RequestKept DEF Grade, StatsInv

(* Least and greatest elements: Max chooses the greatest.                 *)
LEMMA LeastOf ==
  ASSUME NEW T \in SUBSET Nat, T # {}
  PROVE  \E x \in T : \A y \in T : x <= y
<1>1. PICK x \in T : \A y \in T : ~(<<y, x>> \in OpToRel(<, Nat))
  BY WFMin, NatLessThanWellFounded
<1>2. OpToRel(<, Nat) = {ss \in Nat \X Nat : ss[1] < ss[2]}
  BY Zenon DEF OpToRel
<1>3. ASSUME NEW y \in T
      PROVE  x <= y
  <2>1. <<y, x>> \notin {ss \in Nat \X Nat : ss[1] < ss[2]}
    BY <1>1, <1>2
  <2> QED BY <2>1
<1> QED BY <1>3

LEMMA GreatestOf ==
  ASSUME NEW n \in Nat, NEW T \in SUBSET (0 .. n), T # {}
  PROVE  Max(T) \in T /\ \A y \in T : Max(T) >= y
<1> DEFINE D == {i \in Nat : \E x \in T : i = n - x}
<1>1. D \in SUBSET Nat /\ D # {}
  <2>1. PICK x \in T : TRUE
    OBVIOUS
  <2>2. n - x \in D
    OBVIOUS
  <2> QED BY <2>2
<1>2. PICK d \in D : \A e \in D : d <= e
  BY <1>1, LeastOf
<1>3. PICK x \in T : d = n - x
  BY <1>2
<1>4. ASSUME NEW y \in T PROVE x >= y
  <2>1. n - y \in D
    OBVIOUS
  <2> QED BY <1>2, <1>3, <2>1
<1> QED BY <1>4 DEF Max

(* Undoing: the newest review is of the log, and its card gets a row      *)
(* back.                                                                  *)
LEMMA StatsUndoStep ==
  ASSUME StatsInv, Undo
  PROVE  StatsInv'
<1> DEFINE i == Max(NotUndone(review_log))
           c == review_log[i].card
           undone == [review_log[i] EXCEPT !.undone = TRUE]
<1>1. i \in DOMAIN review_log
  <2>1. NotUndone(review_log) \subseteq 0 .. Len(review_log) /\ Len(review_log) \in Nat
    BY DEF NotUndone, StatsInv
  <2>2. i \in NotUndone(review_log)
    BY <2>1, GreatestOf DEF Undo
  <2> QED BY <2>2 DEF NotUndone
<1>2. review_log[i] \in StatsLogRows
  BY <1>1, ElementOfSeq DEF StatsInv
<1>3. undone \in StatsLogRows /\ c \in DOMAIN WordOfCard /\ review_log[i].before \in DueRows
  BY <1>2 DEF StatsLogRows
<1>4. /\ review_log' = [review_log EXCEPT ![i] = undone]
      /\ card_state' = [card_state EXCEPT ![c] = review_log[i].before]
  BY DEF Undo
<1> HIDE DEF i, c, undone
<1>5. review_log' \in Seq(StatsLogRows)
  BY <1>1, <1>3, <1>4, ExceptSeq DEF StatsInv
<1>6. card_state' \in [DOMAIN WordOfCard -> DueRows]
  BY <1>3, <1>4 DEF StatsInv
<1> QED BY <1>5, <1>6, RequestKept DEF Undo, StatsInv

(* Time passes.                                                           *)
LEMMA StatsWaitStep ==
  ASSUME StatsInv, Wait
  PROVE  StatsInv'
BY RequestKept DEF Wait, StatsInv

(* The queries, one by one.                                               *)
LEMMA ReadStatesStep ==
  ASSUME StatsInv, ReadStates
  PROVE  StatsInv'
<1>1. LocalDateKey(now) \in Int
  <2> DEFINE local == now + ZoneOffset(now)
  <2>1. now \in Int /\ zone \in Zones
    BY StatisticsAssumption DEF StatsInv, StatisticsAssumption
  <2>2. local \in Int
    BY <2>1, ZoneTypes DEF ZoneOffset
  <2> HIDE DEF local
  <2>3. local \div 24 \in Int
    BY <2>2
  <2> QED BY <2>3 DEF LocalDateKey, local
<1>2. /\ request'.step = "today" /\ request'.today \in Int
      /\ request'.rows \in [DOMAIN WordOfCard -> DueRows]
  BY <1>1 DEF ReadStates, StatsInv
<1> QED BY <1>2 DEF ReadStates, StatsInv

LEMMA CountTodayStep ==
  ASSUME StatsInv, CountToday
  PROVE  StatsInv'
<1>1. /\ request'.step = "activity" /\ request'.today = request.today
      /\ request'.rows = request.rows /\ request'.counted = review_log
      /\ request'.reviews_today = Cardinality(Since(review_log, StartOfLocalDay(request.today)))
  BY DEF CountToday
<1>2. Since(request.counted, StartOfLocalDay(request.today))'
        = Since(review_log, StartOfLocalDay(request.today))
  BY <1>1 DEF CountToday, Since, NotUndone, StartOfLocalDay, ZoneOffset
<1>3. request.step # "idle"
  BY DEF CountToday
<1> QED BY <1>1, <1>2, <1>3 DEF CountToday, StatsInv

LEMMA AnswerOverviewStep ==
  ASSUME StatsInv, AnswerOverview
  PROVE  StatsInv'
<1>1. /\ request'.step = "answered" /\ request'.today = request.today
      /\ request'.rows = request.rows /\ request'.counted = request.counted
      /\ request'.reviews_today = request.reviews_today
      /\ request'.activity = review_log
  BY DEF AnswerOverview
<1>2. /\ request'.streak_days = StreakDays(RecentDays(review_log, request.today), request.today)
      /\ request'.due_forecast = DueForecast(request.rows, request.today)
  BY DEF AnswerOverview, RecentDays
<1>3. Since(request.counted, StartOfLocalDay(request.today))'
        = Since(request.counted, StartOfLocalDay(request.today))
  BY <1>1 DEF AnswerOverview, Since, NotUndone, StartOfLocalDay, ZoneOffset
<1>4. RecentDays(request.activity, request.today)' = RecentDays(review_log, request.today)
  BY <1>1 DEF AnswerOverview, RecentDays, Since, NotUndone, StartOfLocalDay, ZoneOffset,
              LocalDateKey
<1>5. DueForecast(request.rows, request.today)' = DueForecast(request.rows, request.today)
  BY <1>1 DEF AnswerOverview, DueForecast, Bucket, Graded, StartOfLocalDay, ZoneOffset
<1>6. StreakDays(RecentDays(request.activity, request.today), request.today)'
        = StreakDays(RecentDays(review_log, request.today), request.today)
  BY <1>1, <1>4 DEF StreakDays
<1>7. request.step = "activity"
  BY DEF AnswerOverview
<1> QED BY <1>1, <1>2, <1>3, <1>5, <1>6, <1>7 DEF AnswerOverview, StatsInv

LEMMA ShownStep ==
  ASSUME StatsInv, Shown
  PROVE  StatsInv'
BY DEF Shown, Unasked, StatsInv

(* The counts of an overview are those of the tables at its queries, in   *)
(* days of the learner's zone as startOfLocalDay gives them               *)
(* (stats/queries.ts:213-290).                                            *)
THEOREM StatsInvariance == StatsSpec => []StatsInv
<1>1. StatsInv /\ [StatsNext]_statsVars => StatsInv'
  <2> SUFFICES ASSUME StatsInv, [StatsNext]_statsVars PROVE StatsInv'
    OBVIOUS
  <2>1. CASE StatsNext
    BY <2>1, StatsGradeStep, StatsUndoStep, StatsWaitStep, ReadStatesStep, CountTodayStep,
       AnswerOverviewStep, ShownStep DEF StatsNext
  <2>2. CASE UNCHANGED statsVars
    BY <2>2, RequestKept DEF statsVars, StatsInv
  <2> QED BY <2>1, <2>2
<1> QED BY <1>1, InitiallyUnasked, PTL DEF StatsSpec

(* The reviews from the start of a day on are those dated that day or     *)
(* later.                                                                 *)
LEMMA TodayCounts ==
  ASSUME zone \in Zones, ~SkipsMidnight, ~RepeatsMidnight,
         NEW log \in Seq(StatsLogRows), NEW date \in Int
  PROVE  Since(log, StartOfLocalDay(date))
           = {i \in NotUndone(log) : LocalDateKey(log[i].at) >= date}
<1>1. ASSUME NEW i \in NotUndone(log)
      PROVE  log[i].at >= StartOfLocalDay(date) <=> LocalDateKey(log[i].at) >= date
  <2>1. log[i] \in StatsLogRows
    BY ElementOfSeq DEF NotUndone
  <2>2. log[i].at \in Int
    BY <2>1 DEF StatsLogRows
  <2> QED BY <2>2, DayStarts
<1> QED BY <1>1 DEF Since

(* The days in a row, from today or yesterday, as far back as one looks.  *)
DaysInARow(days, today, start, back) ==
  {n \in start .. back : \A k \in start .. n : today - k \in days}

(* The days in a row that end today or yesterday, counted over as many as *)
(* there are days with a review, are those counted over the window: a run *)
(* of days has no more days than all of them.                             *)
LEMMA StreakCounts ==
  ASSUME NEW days \in SUBSET Int, IsFiniteSet(days), NEW today \in Int, NEW back \in Nat,
         \A d \in days : d >= today - back,
         NEW start \in {0, 1}, start = IF today \in days THEN 0 ELSE 1
  PROVE  StreakDays(days, today) = Cardinality(DaysInARow(days, today, start, back))
<1> DEFINE last == today - start
           A == {n \in 0 .. Cardinality(days) : \A k \in 0 .. n : last - k \in days}
           B == {n \in start .. back : \A k \in start .. n : today - k \in days}
           f == [n \in A |-> n + start]
<1>1. StreakDays(days, today) = Cardinality(A)
  BY DEF StreakDays
<1>2. Cardinality(days) \in Nat
  BY FS_CardinalityType
<1>3. IsFiniteSet(A)
  <2>1. IsFiniteSet(0 .. Cardinality(days)) /\ A \subseteq 0 .. Cardinality(days)
    BY <1>2, FS_Interval
  <2> QED BY <2>1, FS_Subset
<1>4. ASSUME NEW n \in A PROVE n + start \in B
  <2>1. n \in Nat /\ last - n \in days
    BY <1>2
  <2>2. n + start \in start .. back
    BY <2>1
  <2>3. ASSUME NEW k \in start .. n + start PROVE today - k \in days
    <3>1. k - start \in 0 .. n /\ last - (k - start) = today - k
      BY <2>1
    <3> QED BY <3>1
  <2> QED BY <2>2, <2>3
<1>5. ASSUME NEW m \in B PROVE m - start \in A
  <2>1. m - start \in Nat
    OBVIOUS
  <2>2. ASSUME NEW k \in 0 .. m - start PROVE last - k \in days
    <3>1. k + start \in start .. m /\ last - k = today - (k + start)
      BY <2>1
    <3> QED BY <3>1
  <2> DEFINE run == (today - m) .. last
  <2>3. run \subseteq days
    <3> SUFFICES ASSUME NEW d \in run PROVE d \in days
      OBVIOUS
    <3>1. last - d \in 0 .. m - start /\ last - (last - d) = d
      OBVIOUS
    <3> QED BY <2>2, <3>1
  <2>4. Cardinality(run) = m - start + 1
    BY <2>1, FS_Interval
  <2> HIDE DEF run
  <2>5. Cardinality(run) <= Cardinality(days)
    BY <2>3, FS_Subset
  <2>6. m - start + 1 <= Cardinality(days)
    BY <2>4, <2>5
  <2> QED BY <1>2, <2>1, <2>2, <2>6
<1>6. f \in Bijection(A, B)
  <2>1. f \in [A -> B]
    BY <1>4
  <2>2. \A x, y \in A : f[x] = f[y] => x = y
    BY <1>2
  <2>3. \A m \in B : m - start \in A /\ f[m - start] = m
    BY <1>5
  <2> HIDE DEF f, A, B
  <2> QED BY <2>1, <2>2, <2>3 DEF Bijection, Injection, Surjection, IsInjective
<1> HIDE DEF f, A, B
<1>7. ExistsBijection(A, B)
  BY <1>6 DEF ExistsBijection
<1> QED BY <1>1, <1>3, <1>7, FS_Bijection DEF B, DaysInARow

(* The three counts, one by one.                                          *)
LEMMA TodayOnCalendar ==
  ASSUME StatsInv, request.step = "answered", ~SkipsMidnight, ~RepeatsMidnight
  PROVE  TodayIsLocal
BY TodayCounts DEF StatsInv, TodayIsLocal

LEMMA StreakOnCalendar ==
  ASSUME StatsInv, request.step = "answered", ~SkipsMidnight, ~RepeatsMidnight
  PROVE  StreakIsLocal
<1> DEFINE log == request.activity
           today == request.today
           back == STREAK_LOOKBACK_DAYS
           recent == Since(log, StartOfLocalDay(today - back))
           days == RecentDays(log, today)
           start == IF OnDay(log, today) = {} THEN 1 ELSE 0
<1>1. log \in Seq(StatsLogRows) /\ today \in Int /\ back \in Nat /\ zone \in Zones
  BY StatisticsAssumption DEF StatsInv, StatisticsAssumption
<1>2. recent = {i \in NotUndone(log) : LocalDateKey(log[i].at) >= today - back}
  BY <1>1, TodayCounts
<1>3. days = {LocalDateKey(log[i].at) : i \in recent}
  BY DEF RecentDays
<1>4. \A i \in NotUndone(log) : LocalDateKey(log[i].at) \in Int
  <2> SUFFICES ASSUME NEW i \in NotUndone(log) PROVE LocalDateKey(log[i].at) \in Int
    OBVIOUS
  <2>1. log[i] \in StatsLogRows
    BY <1>1, ElementOfSeq DEF NotUndone
  <2>2. log[i].at \in Int
    BY <2>1 DEF StatsLogRows
  <2> QED BY <1>1, <2>2, DayStarts
<1> HIDE DEF recent, days, log, today
<1>5. days \in SUBSET Int /\ \A d \in days : d >= today - back
  BY <1>2, <1>3, <1>4
<1>6. IsFiniteSet(days)
  <2> DEFINE g == [i \in recent |-> LocalDateKey(log[i].at)]
  <2>1. IsFiniteSet(recent)
    <3>1. recent \subseteq 1 .. Len(log) /\ Len(log) \in Nat
      BY <1>1, <1>2, LenProperties DEF NotUndone
    <3>2. IsFiniteSet(1 .. Len(log))
      BY <3>1, FS_Interval
    <3> QED BY <3>1, <3>2, FS_Subset
  <2>2. g \in [recent -> days] /\ \A d \in days : \E i \in recent : g[i] = d
    BY <1>3
  <2> HIDE DEF g
  <2>3. g \in Surjection(recent, days)
    BY <2>2 DEF Surjection
  <2> QED BY <2>1, <2>3, FS_Surjection
<1>7. \A d \in Int : d >= today - back => (d \in days <=> OnDay(log, d) # {})
  BY <1>2, <1>3 DEF OnDay
<1>8. start \in {0, 1} /\ start = IF today \in days THEN 0 ELSE 1
  BY <1>1, <1>7
<1> HIDE DEF start
<1>9. StreakDays(days, today)
        = Cardinality({n \in start .. back : \A k \in start .. n : today - k \in days})
  <2> HIDE DEF back
  <2>1. StreakDays(days, today) = Cardinality(DaysInARow(days, today, start, back))
    BY <1>1, <1>5, <1>6, <1>8, StreakCounts
  <2> QED BY <2>1 DEF DaysInARow
<1>10. ASSUME NEW n \in start .. back, NEW k \in start .. n
       PROVE  today - k \in days <=> OnDay(log, today - k) # {}
  <2>1. today - k \in Int /\ today - k >= today - back
    BY <1>1, <1>8
  <2> QED BY <1>7, <2>1
<1>11. {n \in start .. back : \A k \in start .. n : today - k \in days}
         = {n \in start .. back : \A k \in start .. n : OnDay(log, today - k) # {}}
  BY <1>10
<1>12. request.streak_days = StreakDays(days, today)
  BY DEF StatsInv, days, log, today
<1> QED BY <1>9, <1>11, <1>12 DEF StreakIsLocal, start, log, today

(* A due card is in the bucket of its date, or in the first if overdue.   *)
LEMMA Buckets ==
  ASSUME zone \in Zones, ~SkipsMidnight, ~RepeatsMidnight, NEW due \in Int, NEW today \in Int,
         due < StartOfLocalDay(today + FORECAST_DAYS), NEW n \in 0 .. FORECAST_DAYS - 1
  PROVE  LET day == LocalDateKey(due) - today
         IN  Bucket(due, today) = n <=> IF n = 0 THEN day <= 0 ELSE day = n
<1> DEFINE day == LocalDateKey(due) - today
           T == {0} \cup {k \in 0 .. FORECAST_DAYS - 1 : due >= StartOfLocalDay(today + k)}
<1>1. FORECAST_DAYS \in Nat /\ FORECAST_DAYS > 0
  BY StatisticsAssumption DEF StatisticsAssumption
<1>2. day \in Int
  BY DayStarts
<1>3. \A k \in Int : due >= StartOfLocalDay(today + k) <=> day >= k
  <2> SUFFICES ASSUME NEW k \in Int PROVE due >= StartOfLocalDay(today + k) <=> day >= k
    OBVIOUS
  <2>1. today + k \in Int
    OBVIOUS
  <2>2. LocalDateKey(due) \in Int
    BY DayStarts
  <2>3. due >= StartOfLocalDay(today + k) <=> LocalDateKey(due) >= today + k
    BY <2>1, DayStarts
  <2> QED BY <2>2, <2>3
<1>4. day < FORECAST_DAYS
  <2>1. StartOfLocalDay(today + FORECAST_DAYS) \in Int
    BY <1>1, DayStarts
  <2> QED BY <1>1, <1>2, <1>3, <2>1
<1> HIDE DEF day
<1>5. T = {0} \cup {k \in 0 .. FORECAST_DAYS - 1 : day >= k}
  BY <1>1, <1>3
<1>6. Max(T) \in T /\ \A y \in T : Max(T) >= y
  <2>1. T \in SUBSET (0 .. FORECAST_DAYS - 1) /\ T # {} /\ FORECAST_DAYS - 1 \in Nat
    BY <1>1
  <2> QED BY <2>1, GreatestOf
<1>7. Bucket(due, today) = Max(T)
  BY DEF Bucket
<1> HIDE DEF T
<1> DEFINE m == Max(T)
<1> HIDE DEF m
<1>8. m \in 0 .. FORECAST_DAYS - 1 /\ (m = 0 \/ day >= m)
      /\ \A k \in 0 .. FORECAST_DAYS - 1 : day >= k => m >= k
  BY <1>1, <1>5, <1>6 DEF m
<1>9. m = n <=> IF n = 0 THEN day <= 0 ELSE day = n
  BY <1>1, <1>2, <1>4, <1>8
<1> QED BY <1>7, <1>9 DEF m, day

LEMMA ForecastOnCalendar ==
  ASSUME StatsInv, request.step = "answered", ~SkipsMidnight, ~RepeatsMidnight
  PROVE  ForecastIsLocal
<1> SUFFICES ASSUME NEW n \in 0 .. FORECAST_DAYS - 1
             PROVE  request.due_forecast[n] =
                      Cardinality({c \in Graded(request.rows) :
                        LET day == LocalDateKey(request.rows[c].due) - request.today
                        IN  IF n = 0 THEN day <= 0 ELSE day = n})
  BY DEF ForecastIsLocal
<1> DEFINE held == request.rows
           today == request.today
           end == StartOfLocalDay(today + FORECAST_DAYS)
           on(c) == LET day == LocalDateKey(held[c].due) - today
                    IN  IF n = 0 THEN day <= 0 ELSE day = n
<1>1. held \in [DOMAIN WordOfCard -> DueRows] /\ today \in Int /\ zone \in Zones
      /\ FORECAST_DAYS \in Nat
  BY StatisticsAssumption DEF StatsInv, StatisticsAssumption
<1>2. request.due_forecast[n]
        = Cardinality({c \in {x \in Graded(held) : held[x].due < end} :
                         Bucket(held[c].due, today) = n})
  BY DEF StatsInv, DueForecast
<1>3. ASSUME NEW c \in Graded(held)
      PROVE  on(c) <=> held[c].due < end /\ Bucket(held[c].due, today) = n
  <2>1. held[c].due \in Int
    <3>1. held[c] \in DueRows
      BY <1>1 DEF Graded
    <3> QED BY <3>1 DEF DueRows
  <2> DEFINE due == held[c].due
  <2> HIDE DEF held, today, due
  <2>2. CASE due < end
    BY <1>1, <2>1, <2>2, Buckets DEF due
  <2>3. CASE ~(due < end)
    <3>1. end \in Int /\ LocalDateKey(due) \in Int /\ LocalDateKey(due) >= today + FORECAST_DAYS
      BY <1>1, <2>1, <2>3, DayStarts DEF due
    <3> HIDE DEF end
    <3>2. ~on(c)
      BY <1>1, <3>1 DEF due
    <3> QED BY <2>3, <3>2 DEF due
  <2> QED BY <2>2, <2>3
<1>4. {c \in {x \in Graded(held) : held[x].due < end} : Bucket(held[c].due, today) = n}
        = {c \in Graded(held) : on(c)}
  BY <1>3
<1> QED BY <1>2, <1>4

(* The counts of today, the streak and the forecast agree with the dates  *)
(* of the learner's calendar, for any zone whose clocks move by an hour   *)
(* at any instant, unless they skip a midnight west of Greenwich or       *)
(* repeat one east of it; for any cards, window, grades and undos between *)
(* the queries (stats/queries.ts:129-157, 237-290).                       *)
THEOREM CountsOnTheCalendar == StatsSpec => []OverviewOnTheCalendar
<1>1. StatsInv => OverviewOnTheCalendar
  BY TodayOnCalendar, StreakOnCalendar, ForecastOnCalendar DEF OverviewOnTheCalendar
<1> QED BY <1>1, StatsInvariance, PTL

=============================================================================
