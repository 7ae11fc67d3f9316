---------------------------- MODULE ReviewClient ----------------------------
(***************************************************************************)
(* The review page of the web application (useReviewSession.ts and         *)
(* ReviewPage.tsx) against the study API.                                  *)
(*                                                                         *)
(* The page is a reducer whose state is review, and three asynchronous     *)
(* functions: opening a session (the automatic resume and start), rating a *)
(* card and undoing the last rating.  Each is a lane: the record lane[l]   *)
(* names the request its function awaits and what was answered.  A request *)
(* is sent, served by the worker, and its answer is dispatched; another    *)
(* lane or the user may move between any two of these.  A request or its   *)
(* answer may be lost, the function then sees a network error; a lost      *)
(* request may still reach the worker later.  Leaving the page and coming  *)
(* back mounts it anew: what was in flight is abandoned.                   *)
(*                                                                         *)
(* The worker's handlers are single steps here; StudyServer has their      *)
(* interleavings.  A queue snapshot never changes, so a view of a session  *)
(* is its id and position.                                                 *)
(***************************************************************************)
EXTENDS Naturals, Sequences, FiniteSets

CONSTANTS
  ReviewCards,   \* the cards that are due
  MaxSessions,   \* bounds: sessions created,
  MaxReveals,    \*   event ids generated,
  MaxLosses,     \*   requests or answers lost,
  MaxMounts      \*   times the page is mounted

ASSUME ReviewBounds ==
  /\ IsFiniteSet(ReviewCards) /\ 0 \notin ReviewCards
  /\ {MaxSessions, MaxReveals, MaxLosses, MaxMounts} \subseteq Nat

VARIABLES
  worker,   \* the study sessions and the review log of the user
  review,   \* MachineState of useReviewSession
  boot,     \* the content bootstrap query
  lane,     \* opening, grading, undoing: the awaited request of each
  late,     \* requests abandoned by the client that may still be served
  reveals,  \* history: what was on the screen when event id e was generated
  parted,   \* history: an undo was served of which the client knows nothing,
            \* or an abandoned request was served
  lost, mounts

reviewVars == <<worker, review, boot, lane, late, reveals, parted, lost, mounts>>

ReviewPhases == {"IDLE", "PREPARING", "QUESTION", "REVEALED", "COMPLETE"}
Lanes == {"opening", "grading", "undoing"}
Steps == {"none", "list", "get", "create", "contents", "grade", "undo", "reread"}

NoAnswer == [code |-> "none", id |-> 0, position |-> 0]
NoCall == [step |-> "none", session |-> 0, event |-> 0, card |-> 0, answer |-> NoAnswer]

Calling(step, s, e, c) ==
  [NoCall EXCEPT !.step = step, !.session = s, !.event = e, !.card = c]

------------------------------------------------------------------------------
(* The worker: one user's sessions, and the log of grades in commit order. *)

Kept == {i \in DOMAIN worker.log : ~worker.log[i].undone}
Latest == {i \in Kept : \A j \in Kept : j <= i}
Logged(e) == \E i \in DOMAIN worker.log : worker.log[i].event = e
Queue(s) == worker.sessions[s].queue
Position(s) == worker.sessions[s].position

Due == ReviewCards \ {worker.log[i].card : i \in Kept}

(* Some order of the due cards: the client follows whatever order it gets. *)
AsQueue(S) ==
  CHOOSE q \in [1..Cardinality(S) -> S] : \A i, j \in DOMAIN q : q[i] = q[j] => i = j

Resumable ==
  {s \in DOMAIN worker.sessions : /\ worker.sessions[s].open
                                  /\ Position(s) < Len(Queue(s))}

Answer(code, s) ==
  [code |-> code, id |-> s, position |-> IF s = 0 THEN 0 ELSE Position(s)]
Refused == [NoAnswer EXCEPT !.code = "refused"]

(* A handler is the pair of the state it leaves and the answer it sends.   *)
Serves(w, answer) == [worker |-> w, answer |-> answer]

ServeList ==
  {Serves(worker, Answer("ok", s)) : s \in IF Resumable = {} THEN {0} ELSE Resumable}

ServeGet(s) ==
  IF worker.sessions[s].open THEN {Serves(worker, Answer("ok", s))}
                             ELSE {Serves(worker, Refused)}

ServeCreate ==
  IF Due = {} THEN {Serves(worker, [NoAnswer EXCEPT !.code = "empty"])}
  ELSE LET new == Append(worker.sessions,
                    [queue |-> AsQueue(Due), position |-> 0, open |-> TRUE])
       IN  {Serves([worker EXCEPT !.sessions = new],
                   [code |-> "ok", id |-> Len(new), position |-> 0])}

ServeGrade(s, e, c) ==
  IF Logged(e) THEN {Serves(worker, Answer("ok", s))}
  ELSE IF /\ worker.sessions[s].open
          /\ Position(s) < Len(Queue(s))
          /\ Queue(s)[Position(s) + 1] = c
       THEN {Serves([worker EXCEPT
               !.sessions[s].position = @ + 1,
               !.log = Append(@, [event |-> e, session |-> s, card |-> c, undone |-> FALSE])],
               Answer("ok", s))}
       ELSE {Serves(worker, Refused)}

Undoable(e) ==
  {i \in Latest : worker.log[i].event = e /\ worker.sessions[worker.log[i].session].open}

OneBack(s) == IF Position(s) = 0 THEN 0 ELSE Position(s) - 1

ServeUndo(e) ==
  IF Undoable(e) = {} THEN {Serves(worker, Refused)}
  ELSE {LET s == worker.log[i].session
        IN  Serves([worker EXCEPT !.sessions[s].position = OneBack(s), !.log[i].undone = TRUE],
                   [code |-> "ok", id |-> s, position |-> OneBack(s)]) : i \in Undoable(e)}

Serve(call) ==
  CASE call.step = "list"   -> ServeList
    [] call.step = "get"    -> ServeGet(call.session)
    [] call.step = "reread" -> ServeGet(call.session)
    [] call.step = "create" -> ServeCreate
    [] call.step = "grade"  -> ServeGrade(call.session, call.event, call.card)
    [] call.step = "undo"   -> ServeUndo(call.event)
    [] call.step = "contents" -> {Serves(worker, Answer("ok", call.session))}

Awaited(l) == lane[l].step # "none" /\ lane[l].answer = NoAnswer
Answered(l) == lane[l].step # "none" /\ lane[l].answer # NoAnswer

WorkerServes(l) ==
  /\ Awaited(l)
  /\ \E served \in Serve(lane[l]) :
       /\ worker' = served.worker
       /\ lane' = [lane EXCEPT ![l].answer = served.answer]
  /\ UNCHANGED <<review, boot, late, reveals, parted, lost, mounts>>

SessionExpires(s) ==
  /\ worker.sessions[s].open
  /\ worker' = [worker EXCEPT !.sessions[s].open = FALSE]
  /\ UNCHANGED <<review, boot, lane, late, reveals, parted, lost, mounts>>

(* The network: the function sees an ApiError of status 0.                 *)
Writes == {"create", "grade", "undo"}

Lose(l) ==
  /\ lane[l].step # "none" /\ lost < MaxLosses
  /\ lane[l].answer.code # "lost"
  /\ lane' = [lane EXCEPT ![l].answer = [NoAnswer EXCEPT !.code = "lost"]]
  /\ lost' = lost + 1
  /\ \/ UNCHANGED late
     \/ /\ Awaited(l) /\ lane[l].step \in Writes
        /\ late' = late \union {lane[l]}
  /\ UNCHANGED <<worker, review, boot, reveals, parted, mounts>>

LateServed(call) ==
  /\ \E served \in Serve(call) :
       /\ worker' = served.worker
       /\ parted' = (parted \/ worker' # worker)
  /\ late' = late \ {call}
  /\ UNCHANGED <<review, boot, lane, reveals, lost, mounts>>

------------------------------------------------------------------------------
(* The reducer.                                                            *)

InitialState ==
  [phase |-> "IDLE", session |-> 0, settled |-> FALSE, prompts |-> 0, index |-> 0,
   event |-> 0, gradePending |-> FALSE, lastEvent |-> 0, undoPending |-> FALSE]

Length(s) == Len(Queue(s))

(* The card of the prompt on the screen; 0 past the end of the queue.      *)
OnScreen(m) ==
  IF m.index < Length(m.session) THEN Queue(m.session)[m.index + 1] ELSE 0

Prepared(m) == [m EXCEPT !.phase = "PREPARING"]
BackToIdle(m) == [m EXCEPT !.phase = "IDLE"]

SessionSelected(m, view) ==
  [m EXCEPT !.session = view.id, !.settled = FALSE, !.prompts = 0,
            !.index = view.position, !.event = 0, !.lastEvent = 0]

SessionReady(m) ==
  [m EXCEPT !.prompts = m.session,
            !.phase = IF m.index >= Length(m.session) THEN "COMPLETE" ELSE "QUESTION"]

Revealed(m, e) == [m EXCEPT !.phase = "REVEALED", !.event = e]

GradeAdvanced(m, view, e) ==
  [m EXCEPT !.gradePending = FALSE, !.event = 0, !.lastEvent = e,
            !.index = view.position,
            !.phase = IF view.position >= Length(view.id) THEN "COMPLETE" ELSE "QUESTION"]

(* Fault: the undone card comes back with the event id of the card before. *)
UndoneInPlace(m, view) ==
  [m EXCEPT !.undoPending = FALSE, !.index = view.position, !.lastEvent = 0,
            !.phase = "QUESTION"]

(* Fault: the undone card is asked again but the position is not restored. *)
UndoneAhead(m, view) ==
  [m EXCEPT !.undoPending = FALSE, !.lastEvent = 0, !.event = 0, !.phase = "QUESTION"]

UndoDone(m, view) ==
  [m EXCEPT !.undoPending = FALSE, !.index = view.position, !.lastEvent = 0,
            !.event = 0, !.phase = "QUESTION"]

(* Fault: the failed undo leaves the button waiting.                       *)
UndoStillPending(m) == [m EXCEPT !.lastEvent = 0]

UndoFailed(m) == [m EXCEPT !.undoPending = FALSE, !.lastEvent = 0]

------------------------------------------------------------------------------
(* Opening: the resume at the mount, start, and what both end in.          *)

Mounted == Prepared(InitialState)

Await(l, call) == lane' = [lane EXCEPT ![l] = call]
Return(l) == Await(l, NoCall)
Settled(l) == lane[l].answer.code = "ok"

ReviewInit ==
  /\ worker = [sessions |-> <<>>, log |-> <<>>]
  /\ review = Mounted
  /\ boot = "loading"
  /\ lane = [l \in Lanes |-> IF l = "opening" THEN Calling("list", 0, 0, 0) ELSE NoCall]
  /\ late = {}
  /\ reveals = <<>>
  /\ parted = FALSE
  /\ lost = 0 /\ mounts = 1

(* The bootstrap query is not retried (createAppQueryClient).              *)
BootSettles ==
  /\ boot = "loading"
  /\ boot' \in {"ready", "failed"}
  /\ UNCHANGED <<worker, review, lane, late, reveals, parted, lost, mounts>>

Start ==
  /\ review.phase = "IDLE"
  /\ Len(worker.sessions) + Cardinality({c \in late : c.step = "create"}) < MaxSessions
  /\ review' = Prepared(review)
  /\ Await("opening", Calling("create", 0, 0, 0))
  /\ UNCHANGED <<worker, boot, late, reveals, parted, lost, mounts>>

(* select: the contents are only read for a session with cards left.       *)
Select(view) ==
  LET selected == SessionSelected(review, view)
  IN  \/ /\ view.position < Length(view.id)
         /\ review' = selected
         /\ Await("opening", Calling("contents", view.id, 0, 0))
      \/ /\ view.position >= Length(view.id)
         /\ review' = BackToIdle(selected)
         /\ Return("opening")

OpeningContinues ==
  LET call == lane["opening"] IN
  /\ Answered("opening")
  /\ \/ /\ call.step = "list" /\ Settled("opening") /\ call.answer.id # 0
        /\ Await("opening", Calling("get", call.answer.id, 0, 0))
        /\ UNCHANGED <<review, parted>>
     \/ /\ call.step \in {"get", "create"} /\ Settled("opening")
        /\ Select(call.answer)
        /\ parted' = (call.answer.position # Position(call.answer.id))
     \/ /\ call.step = "contents"    \* a failed entry degrades one prompt
        /\ review' = [review EXCEPT !.settled = TRUE]
        /\ Return("opening")
        /\ UNCHANGED parted
     \/ /\ call.step # "contents"
        /\ ~Settled("opening") \/ (call.step = "list" /\ call.answer.id = 0)
        /\ review' = BackToIdle(review)
        /\ Return("opening")
        /\ UNCHANGED parted
  /\ UNCHANGED <<worker, boot, late, reveals, lost, mounts>>

(* The prompts are built once the contents are settled and the books known *)
Derive ==
  /\ review.phase = "PREPARING" /\ review.session # 0
  /\ review.settled /\ boot = "ready"
  /\ review' = SessionReady(review)
  /\ UNCHANGED <<worker, boot, lane, late, reveals, parted, lost, mounts>>

------------------------------------------------------------------------------
(* The cards.                                                              *)

Reveal ==
  /\ review.phase = "QUESTION"
  /\ Len(reveals) < MaxReveals
  /\ review' = Revealed(review, Len(reveals) + 1)
  /\ reveals' = Append(reveals, [session |-> review.session,
                                 card |-> OnScreen(review)])
  /\ UNCHANGED <<worker, boot, lane, late, parted, lost, mounts>>

Rate ==
  /\ review.event # 0 /\ ~review.gradePending
  /\ OnScreen(review) # 0
  /\ review' = [review EXCEPT !.gradePending = TRUE]
  /\ Await("grading", Calling("grade", review.session, review.event, OnScreen(review)))
  /\ UNCHANGED <<worker, boot, late, reveals, parted, lost, mounts>>

GradingContinues ==
  LET call == lane["grading"] IN
  /\ Answered("grading")
  /\ \/ /\ call.step = "grade" /\ Settled("grading")
        /\ Await("grading", Calling("reread", call.session, call.event, 0))
        /\ UNCHANGED review
     \/ /\ call.step = "reread" /\ Settled("grading")
        /\ review' = GradeAdvanced(review, call.answer, call.event)
        /\ Return("grading")
     \/ /\ ~Settled("grading")
        /\ review' = [review EXCEPT !.gradePending = FALSE]
        /\ Return("grading")
  /\ UNCHANGED <<worker, boot, late, reveals, parted, lost, mounts>>

Undo ==
  /\ review.lastEvent # 0 /\ ~review.undoPending
  /\ review' = [review EXCEPT !.undoPending = TRUE]
  /\ Await("undoing", Calling("undo", review.session, review.lastEvent, 0))
  /\ UNCHANGED <<worker, boot, late, reveals, parted, lost, mounts>>

UndoingContinues ==
  LET call == lane["undoing"]
      served == \E i \in DOMAIN worker.log :
                  worker.log[i].event = call.event /\ worker.log[i].undone
  IN
  /\ Answered("undoing")
  /\ \/ /\ call.step = "undo" /\ Settled("undoing")
        /\ Await("undoing", Calling("reread", call.session, call.event, 0))
        /\ UNCHANGED <<review, parted>>
     \/ /\ call.step = "reread" /\ Settled("undoing")
        /\ review' = UndoDone(review, call.answer)
        /\ Return("undoing")
        /\ UNCHANGED parted
     \/ /\ ~Settled("undoing")
        /\ review' = UndoFailed(review)
        /\ Return("undoing")
        /\ parted' = (parted \/ served)
  /\ UNCHANGED <<worker, boot, late, reveals, lost, mounts>>

Abandoned == {lane[l] : l \in {k \in Lanes : Awaited(k) /\ lane[k].step \in Writes}}

(* The full entry of a word, and back.                                     *)
Remount ==
  /\ mounts < MaxMounts
  /\ mounts' = mounts + 1
  /\ review' = Mounted
  /\ lane' = [l \in Lanes |-> IF l = "opening" THEN Calling("list", 0, 0, 0) ELSE NoCall]
  /\ late' = late \union Abandoned
  /\ UNCHANGED <<worker, boot, reveals, parted, lost>>

ReviewNext ==
  \/ \E l \in Lanes : WorkerServes(l) \/ Lose(l)
  \/ \E s \in DOMAIN worker.sessions : SessionExpires(s)
  \/ \E call \in late : LateServed(call)
  \/ BootSettles \/ Start \/ OpeningContinues \/ Derive
  \/ Reveal \/ Rate \/ GradingContinues \/ Undo \/ UndoingContinues
  \/ Remount

(* The browser keeps delivering answers and running effects, the worker    *)
(* keeps serving; the user, the network's losses and the clock are free.   *)
ReviewFairness ==
  /\ \A l \in Lanes : WF_reviewVars(WorkerServes(l))
  /\ WF_reviewVars(BootSettles) /\ WF_reviewVars(Derive)
  /\ WF_reviewVars(OpeningContinues)
  /\ WF_reviewVars(GradingContinues) /\ WF_reviewVars(UndoingContinues)

ReviewSpec == ReviewInit /\ [][ReviewNext]_reviewVars /\ ReviewFairness

------------------------------------------------------------------------------
Views == [code : {"none", "ok", "empty", "refused", "lost"}, id : Nat, position : Nat]
Calls == [step : Steps, session : Nat, event : Nat, card : ReviewCards \union {0},
          answer : Views]

(* A rating is recorded for the card whose answer was on the screen when   *)
(* its event id was generated, whatever was undone, retried, lost or late  *)
(* in between (useReviewSession.ts:327-368).                               *)
GradedAsShown ==
  \A i \in DOMAIN worker.log :
    LET row == worker.log[i]
    IN  row.event \in DOMAIN reveals
        /\ reveals[row.event] = [session |-> row.session, card |-> row.card]

(* With no rating or undo under way the page shows the card the worker     *)
(* expects next, or one whose rating is recorded and will be replayed with *)
(* the same id.  The only ways to part are an undo whose answer was lost   *)
(* and an abandoned request that is served after all.                      *)
InStep ==
  /\ review.phase \in {"QUESTION", "REVEALED", "COMPLETE"}
  /\ ~review.gradePending /\ ~review.undoPending /\ ~parted
  => \/ Position(review.session) = review.index
     \/ Position(review.session) = review.index + 1 /\ Logged(review.event)

(* No wait is for ever: a rating and an undo under way come to an answer   *)
(* or an error, and preparing ends unless the bootstrap query failed       *)
(* (useReviewSession.ts:303-325 waits for it and nothing asks again).      *)
ReviewWaitsEnd ==
  /\ review.gradePending ~> ~review.gradePending
  /\ review.undoPending ~> ~review.undoPending
  /\ review.phase = "PREPARING" ~> (review.phase # "PREPARING" \/ boot = "failed")
==============================================================================
