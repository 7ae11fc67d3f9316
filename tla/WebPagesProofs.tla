---------------------------- MODULE WebPagesProofs ----------------------------
(***************************************************************************)
(* Theorems about the review page and the learning page, for any cards,    *)
(* groups, reveals, losses, remounts and expiries.                         *)
(***************************************************************************)
EXTENDS ReviewClient, LearnClient, FiniteSetTheorems, SequenceTheorems, TLAPS

------------------------------------------------------------------------------
(***************************************************************************)
(* The review page.  A request names the session and card that were on the *)
(* screen when its event id was made, so whenever and however often it is  *)
(* served it records that card.  And as long as nothing is recorded or     *)
(* undone behind the page's back, the position is that of the page, but    *)
(* for one grade that is recorded and not yet known, or one undo that is   *)
(* served and not yet known - never both, since the worker refuses an undo *)
(* after the grade, and the grade after an undo.                           *)
(***************************************************************************)

SessionRows == [queue : Seq(ReviewCards), position : Nat, open : BOOLEAN]
LogRows == [event : Nat, session : Nat, card : ReviewCards, undone : BOOLEAN]
WorkerRows == [sessions : Seq(SessionRows), log : Seq(LogRows)]
Sights == [session : Nat, card : ReviewCards \cup {0}]

MachineStates ==
  [phase : ReviewPhases, session : Nat, settled : BOOLEAN, prompts : Nat, index : Nat,
   event : Nat, gradePending : BOOLEAN, lastEvent : Nat, undoPending : BOOLEAN]

ReviewTypes ==
  /\ worker \in WorkerRows /\ review \in MachineStates
  /\ lane \in [Lanes -> Calls] /\ late \subseteq Calls
  /\ reveals \in Seq(Sights) /\ parted \in BOOLEAN

(* Of a state w of the worker: which events are logged, undone, undoable.  *)
LoggedIn(w, e) == \E i \in DOMAIN w.log : w.log[i].event = e
UndoneIn(w, e) == \E i \in DOMAIN w.log : w.log[i].event = e /\ w.log[i].undone
LatestIn(w, i) ==
  /\ i \in DOMAIN w.log /\ ~w.log[i].undone
  /\ \A j \in DOMAIN w.log : ~w.log[j].undone => j <= i
LatestEvent(w, e) == \E i \in DOMAIN w.log : LatestIn(w, i) /\ w.log[i].event = e

CardIn(w, s, n) ==
  IF n < Len(w.sessions[s].queue) THEN w.sessions[s].queue[n + 1] ELSE 0

Distinct(q) == \A i, j \in DOMAIN q : q[i] = q[j] => i = j

(* Every event has one row, of what was revealed under it.                 *)
WorkerSound(w, rv) ==
  /\ \A i, j \in DOMAIN w.log : w.log[i].event = w.log[j].event => i = j
  /\ \A i \in DOMAIN w.log :
       /\ w.log[i].session \in DOMAIN w.sessions
       /\ w.log[i].event \in DOMAIN rv
       /\ rv[w.log[i].event] = [session |-> w.log[i].session, card |-> w.log[i].card]
  /\ \A s \in DOMAIN w.sessions : Distinct(w.sessions[s].queue)

(* What a request names exists, whether it is in flight, late or answered. *)
Addressed(w, rv, call) ==
  /\ call.step \in {"get", "contents", "grade", "undo", "reread"}
       => call.session \in DOMAIN w.sessions
  /\ call.step = "grade" =>
       /\ call.card \in ReviewCards /\ call.event \in DOMAIN rv
       /\ rv[call.event] = [session |-> call.session, card |-> call.card]
  /\ call.step = "undo" => call.event \in DOMAIN rv /\ rv[call.event].session = call.session
  /\ call.answer.code = "ok" =>
       \/ call.answer.id \in DOMAIN w.sessions
       \/ call.step = "list" /\ call.answer.id = 0

------------------------------------------------------------------------------
(* Serving.                                                                *)

(* What a request may do to the worker.                                    *)
CreatesIn(w, v) ==
  \E row \in SessionRows :
    Distinct(row.queue) /\ v = [w EXCEPT !.sessions = Append(w.sessions, row)]

GradesIn(w, v, s, e, c) ==
  /\ s \in DOMAIN w.sessions /\ ~LoggedIn(w, e)
  /\ w.sessions[s].position < Len(w.sessions[s].queue)
  /\ w.sessions[s].queue[w.sessions[s].position + 1] = c
  /\ v.sessions = [w.sessions EXCEPT ![s].position = @ + 1]
  /\ v.log = Append(w.log, [event |-> e, session |-> s, card |-> c, undone |-> FALSE])

Lower(n) == IF n = 0 THEN 0 ELSE n - 1

UndoesIn(w, v, e) ==
  \E i \in DOMAIN w.log :
    /\ LatestIn(w, i) /\ w.log[i].event = e
    /\ v.sessions = [w.sessions EXCEPT ![w.log[i].session].position = Lower(@)]
    /\ v.log = [w.log EXCEPT ![i].undone = TRUE]

Effect(w, v, call) ==
  \/ v = w
  \/ call.step = "create" /\ CreatesIn(w, v)
  \/ call.step = "grade" /\ GradesIn(w, v, call.session, call.event, call.card)
  \/ call.step = "undo" /\ UndoesIn(w, v, call.event)

(* What the answer to a request says of the state it leaves.               *)
Truthful(v, call, answer) ==
  answer.code = "ok" =>
    /\ call.step = "grade" => LoggedIn(v, call.event)
    /\ call.step = "undo" => UndoneIn(v, call.event)
    /\ call.step = "reread" => answer.position = v.sessions[call.session].position

ServesWell(w, v, rv, call, answer) ==
  /\ v \in WorkerRows /\ Effect(w, v, call)
  /\ answer \in Views /\ answer # NoAnswer
  /\ Addressed(v, rv, [call EXCEPT !.answer = answer])
  /\ Truthful(v, call, answer)

(* A queue is some order of the due cards, which are finitely many.        *)
LEMMA QueueOrder ==
  ASSUME NEW S \in SUBSET ReviewCards
  PROVE  AsQueue(S) \in Seq(ReviewCards) /\ Distinct(AsQueue(S))
<1>1. IsFiniteSet(S)
  BY ReviewBounds, FS_Subset
<1>2. ExistsBijection(1 .. Cardinality(S), S) /\ Cardinality(S) \in Nat
  BY <1>1, FS_CardinalityType
<1>3. \E q \in [1 .. Cardinality(S) -> S] : \A i, j \in DOMAIN q : q[i] = q[j] => i = j
  BY <1>2 DEF ExistsBijection, Bijection, Injection, Surjection, IsInjective
<1>4. /\ AsQueue(S) \in [1 .. Cardinality(S) -> S]
      /\ \A i, j \in DOMAIN AsQueue(S) : AsQueue(S)[i] = AsQueue(S)[j] => i = j
  BY <1>3 DEF AsQueue
<1>5. AsQueue(S) \in Seq(S)
  BY <1>2, <1>4
<1>6. AsQueue(S) \in Seq(ReviewCards)
  BY <1>5
<1> QED BY <1>4, <1>6 DEF Distinct

LEMMA EmptyRow ==
  ASSUME NEW S \in SUBSET ReviewCards
  PROVE  [queue |-> AsQueue(S), position |-> 0, open |-> TRUE] \in SessionRows
BY QueueOrder DEF SessionRows

(* The parts of the worker's state and of a request have their types.      *)
LEMMA WorkerParts ==
  ASSUME NEW w \in WorkerRows
  PROVE  /\ w.sessions \in Seq(SessionRows) /\ w.log \in Seq(LogRows)
         /\ \A s \in DOMAIN w.sessions :
              /\ s \in Nat \ {0} /\ w.sessions[s] \in SessionRows
              /\ w.sessions[s].queue \in Seq(ReviewCards) /\ w.sessions[s].position \in Nat
         /\ \A i \in DOMAIN w.log : i \in Nat /\ w.log[i] \in LogRows
<1>1. w.sessions \in Seq(SessionRows) /\ w.log \in Seq(LogRows)
  BY DEF WorkerRows
<1>2. \A s \in DOMAIN w.sessions : s \in Nat \ {0} /\ w.sessions[s] \in SessionRows
  BY <1>1, ElementOfSeq, LenProperties
<1>3. \A i \in DOMAIN w.log : i \in Nat /\ w.log[i] \in LogRows
  BY <1>1, ElementOfSeq, LenProperties
<1> QED BY <1>1, <1>2, <1>3 DEF SessionRows

LEMMA Reread ==
  ASSUME worker \in WorkerRows, NEW rv, NEW call \in Calls, Addressed(worker, rv, call),
         call.step \in {"get", "reread"}, NEW served \in ServeGet(call.session)
  PROVE  ServesWell(worker, served.worker, rv, call, served.answer)
<1>1. call.session \in DOMAIN worker.sessions
  BY DEF Addressed
<1>2. call.session \in Nat /\ Position(call.session) \in Nat /\ call.session # 0
  BY <1>1, WorkerParts DEF Position
<1>3. served.worker = worker /\ served.answer \in {Answer("ok", call.session), Refused}
  BY DEF ServeGet, Serves
<1>4. served.answer \in Views /\ served.answer # NoAnswer
  BY <1>2, <1>3 DEF Answer, Refused, NoAnswer, Views
<1>5. served.answer.code = "ok" =>
        served.answer.id = call.session /\ served.answer.position = Position(call.session)
  BY <1>2, <1>3 DEF Answer, Refused, NoAnswer
<1>6. Addressed(worker, rv, [call EXCEPT !.answer = served.answer])
  BY <1>1, <1>5 DEF Addressed, Calls
<1>7. Truthful(worker, call, served.answer)
  BY <1>5 DEF Truthful, Position
<1> QED BY <1>3, <1>4, <1>6, <1>7 DEF ServesWell, Effect

LEMMA ListsAndContents ==
  ASSUME worker \in WorkerRows, NEW rv, NEW call \in Calls, Addressed(worker, rv, call),
         call.step \in {"list", "contents"}, NEW served \in Serve(call)
  PROVE  ServesWell(worker, served.worker, rv, call, served.answer)
<1>1. PICK s \in (DOMAIN worker.sessions) \cup {0} :
        /\ served = Serves(worker, Answer("ok", s))
        /\ call.step = "contents" => s # 0
  <2>1. CASE call.step = "list"
    BY <2>1 DEF Serve, ServeList, Resumable
  <2>2. CASE call.step = "contents"
    <3>1. call.session \in DOMAIN worker.sessions /\ call.session # 0
      BY <2>2, WorkerParts DEF Addressed
    <3> QED BY <2>2, <3>1 DEF Serve
  <2> QED BY <2>1, <2>2
<1>2. s \in Nat /\ (s # 0 => Position(s) \in Nat)
  BY WorkerParts DEF Position
<1>3. served.worker = worker /\ served.answer = Answer("ok", s)
  BY <1>1 DEF Serves
<1>4. served.answer \in Views /\ served.answer # NoAnswer /\ served.answer.id = s
  BY <1>2, <1>3 DEF Answer, NoAnswer, Views
<1>5. Addressed(worker, rv, [call EXCEPT !.answer = served.answer])
  BY <1>1, <1>4 DEF Addressed, Calls
<1>6. Truthful(worker, call, served.answer)
  BY DEF Truthful
<1> QED BY <1>3, <1>4, <1>5, <1>6 DEF ServesWell, Effect

LEMMA Creates ==
  ASSUME worker \in WorkerRows, NEW rv, NEW call \in Calls, Addressed(worker, rv, call),
         call.step = "create", NEW served \in ServeCreate
  PROVE  ServesWell(worker, served.worker, rv, call, served.answer)
<1>1. CASE Due = {}
  <2>1. served.worker = worker /\ served.answer = [NoAnswer EXCEPT !.code = "empty"]
    BY <1>1 DEF ServeCreate, Serves
  <2>2. served.answer \in Views /\ served.answer # NoAnswer /\ served.answer.code = "empty"
    BY <2>1 DEF Views, NoAnswer
  <2>3. Addressed(worker, rv, [call EXCEPT !.answer = served.answer])
    BY <2>2 DEF Addressed, Calls
  <2> QED BY <2>1, <2>2, <2>3 DEF ServesWell, Effect, Truthful
<1>2. CASE Due # {}
  <2>. DEFINE row == [queue |-> AsQueue(Due), position |-> 0, open |-> TRUE]
  <2>1. row \in SessionRows /\ Distinct(row.queue)
    BY EmptyRow, QueueOrder DEF Due
  <2>. HIDE DEF row
  <2>. DEFINE new == Append(worker.sessions, row)
  <2>2. new \in Seq(SessionRows) /\ Len(new) \in DOMAIN new /\ Len(new) \in Nat \ {0}
    BY <2>1, WorkerParts
  <2>3. /\ served.worker = [worker EXCEPT !.sessions = new]
        /\ served.answer = [code |-> "ok", id |-> Len(new), position |-> 0]
    BY <1>2 DEF ServeCreate, Serves, row
  <2>. HIDE DEF new
  <2>4. served.worker \in WorkerRows /\ served.worker.sessions = new
    BY <2>2, <2>3 DEF WorkerRows
  <2>5. CreatesIn(worker, served.worker)
    BY <2>1, <2>3 DEF CreatesIn, new
  <2>6. served.answer \in Views /\ served.answer # NoAnswer /\ served.answer.id = Len(new)
    BY <2>2, <2>3 DEF Views, NoAnswer
  <2>7. Addressed(served.worker, rv, [call EXCEPT !.answer = served.answer])
    BY <2>2, <2>4, <2>6 DEF Addressed, Calls
  <2>8. Truthful(served.worker, call, served.answer)
    BY DEF Truthful
  <2> QED BY <2>4, <2>5, <2>6, <2>7, <2>8 DEF ServesWell, Effect
<1> QED BY <1>1, <1>2

LEMMA GradeServed ==
  ASSUME worker \in WorkerRows, NEW rv, NEW call \in Calls, Addressed(worker, rv, call),
         call.step = "grade",
         NEW served \in ServeGrade(call.session, call.event, call.card)
  PROVE  ServesWell(worker, served.worker, rv, call, served.answer)
<1>. DEFINE s == call.session
            e == call.event
            c == call.card
<1>1. /\ s \in DOMAIN worker.sessions /\ s \in Nat /\ s # 0 /\ e \in Nat /\ c \in ReviewCards
      /\ Position(s) \in Nat
  BY WorkerParts DEF Addressed, Calls, Position
<1>2. Logged(e) <=> LoggedIn(worker, e)
  BY DEF Logged, LoggedIn
<1>3. CASE Logged(e)
  <2>1. served.worker = worker /\ served.answer = Answer("ok", s)
    BY <1>3 DEF ServeGrade, Serves
  <2>2. served.answer \in Views /\ served.answer # NoAnswer /\ served.answer.id = s
    BY <1>1, <2>1 DEF Answer, Views, NoAnswer
  <2>3. Addressed(worker, rv, [call EXCEPT !.answer = served.answer])
    BY <1>1, <2>2 DEF Addressed, Calls
  <2> QED BY <1>2, <1>3, <2>1, <2>2, <2>3 DEF ServesWell, Effect, Truthful
<1>. DEFINE row == [event |-> e, session |-> s, card |-> c, undone |-> FALSE]
            next == [worker EXCEPT !.sessions[s].position = @ + 1, !.log = Append(@, row)]
<1>4. CASE ~Logged(e) /\ served = Serves(worker, Refused)
  <2>1. served.worker = worker /\ served.answer = Refused
    BY <1>4 DEF Serves
  <2>2. served.answer \in Views /\ served.answer # NoAnswer /\ served.answer.code = "refused"
    BY <2>1 DEF Views, NoAnswer, Refused
  <2>3. Addressed(worker, rv, [call EXCEPT !.answer = served.answer])
    BY <2>2 DEF Addressed, Calls
  <2> QED BY <2>1, <2>2, <2>3 DEF ServesWell, Effect, Truthful
<1>5. CASE /\ ~Logged(e) /\ Position(s) < Len(Queue(s)) /\ Queue(s)[Position(s) + 1] = c
           /\ served = Serves(next, Answer("ok", s))
  <2>1. row \in LogRows
    BY <1>1 DEF LogRows
  <2>2. /\ next.sessions = [worker.sessions EXCEPT ![s].position = @ + 1]
        /\ next.log = Append(worker.log, row)
        /\ next \in WorkerRows
    <3>. HIDE DEF row, s
    <3>. DEFINE old == worker.sessions[s]
    <3>0. old \in SessionRows
      BY <1>1, WorkerParts
    <3>1. [worker.sessions[s] EXCEPT !.position = @ + 1] \in SessionRows
      <4>. HIDE DEF old
      <4>1. [old EXCEPT !.position = @ + 1] \in SessionRows
        BY <3>0 DEF SessionRows
      <4> QED BY <4>1 DEF old
    <3>2. [worker.sessions EXCEPT ![s].position = @ + 1] \in Seq(SessionRows)
      BY <1>1, <3>1, WorkerParts
    <3>3. Append(worker.log, row) \in Seq(LogRows)
      BY <2>1, WorkerParts
    <3>4. /\ next.sessions = [worker.sessions EXCEPT ![s].position = @ + 1]
          /\ next.log = Append(worker.log, row)
          /\ next = [worker EXCEPT !.sessions = [worker.sessions EXCEPT ![s].position = @ + 1],
                                   !.log = Append(worker.log, row)]
      BY DEF WorkerRows
    <3>. HIDE DEF next
    <3> QED BY <3>2, <3>3, <3>4 DEF WorkerRows
  <2>3. served.worker = next /\ served.answer = Answer("ok", s)
    BY <1>5 DEF Serves
  <2>4. GradesIn(worker, next, s, e, c)
    BY <1>1, <1>2, <1>5, <2>2 DEF GradesIn, Position, Queue
  <2>5. served.answer \in Views /\ served.answer # NoAnswer /\ served.answer.id = s
    BY <1>1, <2>3 DEF Answer, Views, NoAnswer
  <2>6. DOMAIN next.sessions = DOMAIN worker.sessions /\ LoggedIn(next, e)
    <3>1. next.log[Len(worker.log) + 1] = row /\ Len(worker.log) + 1 \in DOMAIN next.log
      BY <2>1, <2>2, WorkerParts
    <3> QED BY <2>2, <3>1 DEF LoggedIn
  <2>. HIDE DEF next, row
  <2>7. Addressed(next, rv, [call EXCEPT !.answer = served.answer])
    BY <1>1, <2>5, <2>6 DEF Addressed, Calls
  <2>8. Truthful(next, call, served.answer)
    BY <2>6 DEF Truthful
  <2> QED BY <2>2, <2>3, <2>4, <2>5, <2>7, <2>8 DEF ServesWell, Effect
<1> QED BY <1>3, <1>4, <1>5 DEF ServeGrade

LEMMA UndoServed ==
  ASSUME worker \in WorkerRows, NEW rv, WorkerSound(worker, rv),
         NEW call \in Calls, Addressed(worker, rv, call),
         call.step = "undo", NEW served \in ServeUndo(call.event)
  PROVE  ServesWell(worker, served.worker, rv, call, served.answer)
<1>. DEFINE e == call.event
<1>1. CASE Undoable(e) = {}
  <2>1. served.worker = worker /\ served.answer = Refused
    BY <1>1 DEF ServeUndo, Serves
  <2>2. served.answer \in Views /\ served.answer # NoAnswer /\ served.answer.code = "refused"
    BY <2>1 DEF Views, NoAnswer, Refused
  <2>3. Addressed(worker, rv, [call EXCEPT !.answer = served.answer])
    BY <2>2 DEF Addressed, Calls
  <2> QED BY <2>1, <2>2, <2>3 DEF ServesWell, Effect, Truthful
<1>2. CASE Undoable(e) # {}
  <2>1. PICK i \in Undoable(e) :
          served = LET s == worker.log[i].session
                   IN  Serves([worker EXCEPT !.sessions[s].position = OneBack(s),
                                             !.log[i].undone = TRUE],
                              [code |-> "ok", id |-> s, position |-> OneBack(s)])
    BY <1>2 DEF ServeUndo
  <2>2. LatestIn(worker, i) /\ i \in DOMAIN worker.log /\ worker.log[i].event = e
    BY <2>1 DEF Undoable, Latest, Kept, LatestIn
  <2>. DEFINE s == worker.log[i].session
              n == OneBack(s)
              next == [worker EXCEPT !.sessions[s].position = n, !.log[i].undone = TRUE]
  <2>3. s \in DOMAIN worker.sessions /\ s \in Nat /\ s # 0
    BY <2>2, WorkerParts DEF WorkerSound
  <2>. HIDE DEF s
  <2>4. n = Lower(worker.sessions[s].position) /\ n \in Nat
    BY <2>3, WorkerParts DEF OneBack, Position, Lower
  <2>5. served.worker = next /\ served.answer = [code |-> "ok", id |-> s, position |-> n]
    BY <2>1 DEF Serves, s
  <2>. HIDE DEF n
  <2>6. /\ next.sessions = [worker.sessions EXCEPT ![s].position = n]
        /\ next.log = [worker.log EXCEPT ![i].undone = TRUE]
        /\ next \in WorkerRows
    <3>1. [worker.sessions[s] EXCEPT !.position = n] \in SessionRows
      BY <2>3, <2>4, WorkerParts DEF SessionRows
    <3>2. [worker.sessions EXCEPT ![s].position = n] \in Seq(SessionRows)
      BY <2>3, <3>1, WorkerParts
    <3>3. [worker.log[i] EXCEPT !.undone = TRUE] \in LogRows
      BY <2>2, WorkerParts DEF LogRows
    <3>4. [worker.log EXCEPT ![i].undone = TRUE] \in Seq(LogRows)
      BY <2>2, <3>3, WorkerParts
    <3> QED BY <3>2, <3>4 DEF WorkerRows
  <2>7. UndoesIn(worker, next, e)
    BY <2>2, <2>3, <2>4, <2>6 DEF UndoesIn, s
  <2>8. DOMAIN next.sessions = DOMAIN worker.sessions /\ UndoneIn(next, e)
    BY <2>2, <2>6, WorkerParts DEF UndoneIn, LogRows
  <2>9. served.answer \in Views /\ served.answer # NoAnswer /\ served.answer.id = s
    BY <2>3, <2>4, <2>5 DEF Views, NoAnswer
  <2>. HIDE DEF next
  <2>10. Addressed(next, rv, [call EXCEPT !.answer = served.answer])
    BY <2>3, <2>8, <2>9 DEF Addressed, Calls
  <2>11. Truthful(next, call, served.answer)
    BY <2>8 DEF Truthful
  <2> QED BY <2>5, <2>6, <2>7, <2>9, <2>10, <2>11 DEF ServesWell, Effect
<1> QED BY <1>1, <1>2

LEMMA Served ==
  ASSUME worker \in WorkerRows, NEW rv, WorkerSound(worker, rv),
         NEW call \in Calls, call.step # "none", Addressed(worker, rv, call),
         NEW served \in Serve(call)
  PROVE  ServesWell(worker, served.worker, rv, call, served.answer)
<1>1. call.step \in {"list", "get", "create", "contents", "grade", "undo", "reread"}
  BY DEF Calls, Steps
<1>2. CASE call.step \in {"list", "contents"}
  BY <1>2, ListsAndContents
<1>3. CASE call.step \in {"get", "reread"}
  BY <1>3, Reread DEF Serve
<1>4. CASE call.step = "create"
  BY <1>4, Creates DEF Serve
<1>5. CASE call.step = "grade"
  BY <1>5, GradeServed DEF Serve
<1>6. CASE call.step = "undo"
  BY <1>6, UndoServed DEF Serve
<1> QED BY <1>1, <1>2, <1>3, <1>4, <1>5, <1>6

------------------------------------------------------------------------------
(* What serving leaves as it was.                                          *)

Extends(w, v) ==
  \A s \in DOMAIN w.sessions :
    s \in DOMAIN v.sessions /\ v.sessions[s].queue = w.sessions[s].queue

LEMMA Moved ==
  ASSUME NEW q \in Seq(SessionRows), NEW s \in DOMAIN q, NEW n \in Nat, NEW r,
         r = [q EXCEPT ![s].position = n]
  PROVE  /\ DOMAIN r = DOMAIN q /\ r[s].position = n
         /\ \A t \in DOMAIN q : r[t].queue = q[t].queue
         /\ \A t \in DOMAIN q : t # s => r[t] = q[t]
<1>. DEFINE old == q[s]
            new == [old EXCEPT !.position = n]
<1>1. old \in SessionRows
  BY ElementOfSeq, LenProperties
<1>2. r = [q EXCEPT ![s] = new]
  OBVIOUS
<1>. HIDE DEF old
<1>3. new.position = n /\ new.queue = old.queue
  BY <1>1 DEF SessionRows
<1>. HIDE DEF new
<1>4. DOMAIN r = DOMAIN q /\ \A t \in DOMAIN q : r[t] = IF t = s THEN new ELSE q[t]
  BY <1>2
<1> QED BY <1>3, <1>4 DEF old

LEMMA AfterCreate ==
  ASSUME NEW w \in WorkerRows, NEW v \in WorkerRows, NEW rv, WorkerSound(w, rv), CreatesIn(w, v)
  PROVE  WorkerSound(v, rv) /\ Extends(w, v)
<1>1. PICK row \in SessionRows :
        Distinct(row.queue) /\ v = [w EXCEPT !.sessions = Append(w.sessions, row)]
  BY DEF CreatesIn
<1>2. v.sessions = Append(w.sessions, row) /\ v.log = w.log
  BY <1>1 DEF WorkerRows
<1>3. \A s \in DOMAIN v.sessions : v.sessions[s] = IF s \in DOMAIN w.sessions THEN w.sessions[s] ELSE row
  BY <1>1, <1>2, WorkerParts
<1>4. DOMAIN w.sessions \subseteq DOMAIN v.sessions
  BY <1>1, <1>2, WorkerParts
<1>5. Extends(w, v)
  BY <1>3, <1>4 DEF Extends
<1>6. \A s \in DOMAIN v.sessions : Distinct(v.sessions[s].queue)
  BY <1>1, <1>3 DEF WorkerSound
<1>7. \A i \in DOMAIN v.log : v.log[i].session \in DOMAIN v.sessions
  BY <1>2, <1>4 DEF WorkerSound
<1>8. WorkerSound(v, rv)
  BY <1>2, <1>6, <1>7 DEF WorkerSound
<1> QED BY <1>5, <1>8

LEMMA AfterGrade ==
  ASSUME NEW w \in WorkerRows, NEW v \in WorkerRows, NEW rv, WorkerSound(w, rv),
         NEW s, NEW e \in DOMAIN rv, NEW c,
         rv[e] = [session |-> s, card |-> c], GradesIn(w, v, s, e, c)
  PROVE  /\ WorkerSound(v, rv) /\ Extends(w, v)
         /\ v.sessions[s].position = w.sessions[s].position + 1
         /\ \A x : LoggedIn(v, x) <=> LoggedIn(w, x) \/ x = e
         /\ \A x : UndoneIn(v, x) <=> UndoneIn(w, x)
         /\ LatestEvent(v, e)
<1>. DEFINE row == [event |-> e, session |-> s, card |-> c, undone |-> FALSE]
<1>1. s \in DOMAIN w.sessions /\ ~LoggedIn(w, e) /\ v.log = Append(w.log, row)
        /\ v.sessions = [w.sessions EXCEPT ![s].position = @ + 1]
  BY DEF GradesIn
<1>2. v.sessions[s].position = w.sessions[s].position + 1 /\ Extends(w, v)
        /\ DOMAIN v.sessions = DOMAIN w.sessions
        /\ \A t \in DOMAIN v.sessions : v.sessions[t].queue = w.sessions[t].queue
  <2>. DEFINE n == w.sessions[s].position + 1
  <2>1. w.sessions \in Seq(SessionRows) /\ n \in Nat /\ s \in DOMAIN w.sessions
    BY <1>1, WorkerParts
  <2>2. v.sessions = [w.sessions EXCEPT ![s].position = n]
    BY <1>1
  <2>. HIDE DEF n
  <2>3. /\ DOMAIN v.sessions = DOMAIN w.sessions /\ v.sessions[s].position = n
        /\ \A t \in DOMAIN w.sessions : v.sessions[t].queue = w.sessions[t].queue
    BY <2>1, <2>2, Moved
  <2> QED BY <2>3 DEF Extends, n
<1>. DEFINE n == Len(w.log)
<1>3. /\ n \in Nat /\ DOMAIN w.log = 1 .. n /\ DOMAIN v.log = 1 .. (n + 1)
      /\ v.log[n + 1] = row /\ \A i \in 1 .. n : v.log[i] = w.log[i]
  <2>1. w.log \in Seq(LogRows) /\ v.log \in Seq(LogRows)
    BY WorkerParts
  <2>2. n \in Nat /\ DOMAIN w.log = 1 .. n
    BY <2>1
  <2>3. v.log = [i \in 1 .. (n + 1) |-> IF i = n + 1 THEN row ELSE w.log[i]]
    BY <1>1, <2>1
  <2> QED BY <2>2, <2>3
<1>. HIDE DEF n
<1>4. row.event = e /\ row.session = s /\ row.card = c /\ row.undone = FALSE
  OBVIOUS
<1>. HIDE DEF row
<1>5. \A x : LoggedIn(v, x) <=> LoggedIn(w, x) \/ x = e
  BY <1>3, <1>4 DEF LoggedIn
<1>6. \A x : UndoneIn(v, x) <=> UndoneIn(w, x)
  BY <1>3, <1>4 DEF UndoneIn
<1>7. LatestEvent(v, e)
  <2>1. LatestIn(v, n + 1) /\ v.log[n + 1].event = e
    BY <1>3, <1>4 DEF LatestIn
  <2> QED BY <2>1 DEF LatestEvent, LatestIn
<1>8. WorkerSound(v, rv)
  <2>1. \A i, j \in DOMAIN v.log : v.log[i].event = v.log[j].event => i = j
    BY <1>1, <1>3, <1>4 DEF WorkerSound, LoggedIn
  <2>2. \A i \in DOMAIN v.log :
          /\ v.log[i].session \in DOMAIN v.sessions
          /\ v.log[i].event \in DOMAIN rv
          /\ rv[v.log[i].event] = [session |-> v.log[i].session, card |-> v.log[i].card]
    BY <1>1, <1>2, <1>3, <1>4 DEF WorkerSound
  <2>3. \A t \in DOMAIN v.sessions : Distinct(v.sessions[t].queue)
    BY <1>2 DEF WorkerSound
  <2> QED BY <2>1, <2>2, <2>3 DEF WorkerSound
<1> QED BY <1>2, <1>5, <1>6, <1>7, <1>8

LEMMA AfterUndo ==
  ASSUME NEW w \in WorkerRows, NEW v \in WorkerRows, NEW rv, WorkerSound(w, rv),
         NEW e, UndoesIn(w, v, e)
  PROVE  /\ WorkerSound(v, rv) /\ Extends(w, v) /\ LatestEvent(w, e)
         /\ rv[e].session \in DOMAIN w.sessions
         /\ v.sessions[rv[e].session].position = Lower(w.sessions[rv[e].session].position)
         /\ \A x : LoggedIn(v, x) <=> LoggedIn(w, x)
         /\ \A x : UndoneIn(v, x) <=> UndoneIn(w, x) \/ x = e
<1>1. PICK i \in DOMAIN w.log :
        /\ LatestIn(w, i) /\ w.log[i].event = e
        /\ v.sessions = [w.sessions EXCEPT ![w.log[i].session].position = Lower(@)]
        /\ v.log = [w.log EXCEPT ![i].undone = TRUE]
  BY DEF UndoesIn
<1>. DEFINE s == w.log[i].session
<1>2. s \in DOMAIN w.sessions /\ rv[e].session = s
  <2>1. s \in DOMAIN w.sessions /\ rv[e] = [session |-> s, card |-> w.log[i].card]
    BY <1>1 DEF WorkerSound
  <2> QED BY <2>1
<1>3. v.sessions = [w.sessions EXCEPT ![s].position = Lower(@)]
  BY <1>1
<1>. HIDE DEF s
<1>4. v.sessions[s].position = Lower(w.sessions[s].position) /\ Extends(w, v)
        /\ DOMAIN v.sessions = DOMAIN w.sessions
        /\ \A t \in DOMAIN v.sessions : v.sessions[t].queue = w.sessions[t].queue
  <2>. DEFINE n == Lower(w.sessions[s].position)
  <2>1. w.sessions \in Seq(SessionRows) /\ n \in Nat
    BY <1>2, WorkerParts DEF Lower
  <2>2. v.sessions = [w.sessions EXCEPT ![s].position = n]
    BY <1>3
  <2>. HIDE DEF n
  <2>3. /\ DOMAIN v.sessions = DOMAIN w.sessions /\ v.sessions[s].position = n
        /\ \A t \in DOMAIN w.sessions : v.sessions[t].queue = w.sessions[t].queue
    BY <1>2, <2>1, <2>2, Moved
  <2> QED BY <2>3 DEF Extends, n
<1>5. /\ DOMAIN v.log = DOMAIN w.log
      /\ \A j \in DOMAIN w.log : /\ v.log[j].event = w.log[j].event
                                 /\ v.log[j].session = w.log[j].session
                                 /\ v.log[j].card = w.log[j].card
                                 /\ v.log[j].undone = (w.log[j].undone \/ j = i)
  <2>1. \A j \in DOMAIN w.log :
          v.log[j] = IF j = i THEN [w.log[j] EXCEPT !.undone = TRUE] ELSE w.log[j]
    BY <1>1
  <2>2. \A j \in DOMAIN w.log : w.log[j] \in LogRows
    BY WorkerParts
  <2> QED BY <1>1, <2>1, <2>2 DEF LogRows
<1>6. \A x : LoggedIn(v, x) <=> LoggedIn(w, x)
  BY <1>5 DEF LoggedIn
<1>7. \A x : UndoneIn(v, x) <=> UndoneIn(w, x) \/ x = e
  BY <1>1, <1>5 DEF UndoneIn
<1>8. LatestEvent(w, e)
  BY <1>1 DEF LatestEvent
<1>9. WorkerSound(v, rv)
  BY <1>4, <1>5 DEF WorkerSound
<1> QED BY <1>2, <1>4, <1>6, <1>7, <1>8, <1>9

(* Served or not, the worker stays sound and what requests name exists.    *)
LEMMA StaysSound ==
  ASSUME NEW w \in WorkerRows, NEW v \in WorkerRows, NEW rv, WorkerSound(w, rv),
         NEW call, Addressed(w, rv, call), Effect(w, v, call)
  PROVE  WorkerSound(v, rv) /\ Extends(w, v)
<1>1. CASE v = w
  BY <1>1 DEF Extends
<1>2. CASE CreatesIn(w, v)
  BY <1>2, AfterCreate
<1>3. CASE call.step = "grade" /\ GradesIn(w, v, call.session, call.event, call.card)
  BY <1>3, AfterGrade DEF Addressed
<1>4. CASE UndoesIn(w, v, call.event)
  BY <1>4, AfterUndo
<1> QED BY <1>1, <1>2, <1>3, <1>4 DEF Effect

LEMMA StaysAddressed ==
  ASSUME NEW w, NEW v, NEW rv, Extends(w, v), NEW call, Addressed(w, rv, call)
  PROVE  Addressed(v, rv, call)
BY DEF Addressed, Extends

------------------------------------------------------------------------------
(* The page: what holds whatever is lost, late, undone or mounted anew.    *)

OnPage(m) == m.phase \in {"QUESTION", "REVEALED", "COMPLETE"}

(* m is the page, and o, g, u the requests that open, grade and undo.      *)
Lanewise(m, o, g, u) ==
  /\ o.step \in {"none", "list", "get", "create", "contents"}
  /\ g.step \in {"none", "grade", "reread"} /\ u.step \in {"none", "undo", "reread"}
  /\ m.gradePending <=> g.step # "none"
  /\ m.undoPending <=> u.step # "none"
  /\ OnPage(m) \/ m.phase = "IDLE" \/ m.settled => o.step = "none"
  /\ m.settled => m.phase # "IDLE"
  /\ ~OnPage(m) =>
       g.step = "none" /\ u.step = "none" /\ m.event = 0 /\ m.lastEvent = 0
  /\ OnPage(m) \/ m.settled \/ o.step = "contents" => m.session # 0

(* An event id stands for the session and card it was made for.            *)
Names(w, rv, m, g, u) ==
  /\ m.session # 0 => m.session \in DOMAIN w.sessions
  /\ m.event # 0 =>
       /\ m.phase = "REVEALED" /\ m.session # 0 /\ m.event \in DOMAIN rv
       /\ rv[m.event] = [session |-> m.session, card |-> CardIn(w, m.session, m.index)]
       /\ m.lastEvent # m.event /\ (u.step # "none" => u.event # m.event)
  /\ m.lastEvent # 0 => m.lastEvent \in DOMAIN rv /\ rv[m.lastEvent].session = m.session
  /\ \A call \in {g, u} : call.step # "none" =>
       /\ call.session = m.session /\ call.event \in DOMAIN rv
       /\ rv[call.event].session = m.session

PageInv ==
  /\ ReviewTypes /\ WorkerSound(worker, reveals)
  /\ \A l \in Lanes : Addressed(worker, reveals, lane[l])
  /\ \A call \in late : call.step \in Writes /\ Addressed(worker, reveals, call)
  /\ Lanewise(review, lane["opening"], lane["grading"], lane["undoing"])
  /\ Names(worker, reveals, review, lane["grading"], lane["undoing"])

LEMMA NamesCarry ==
  ASSUME NEW w, NEW v, NEW rv, NEW m, NEW g, NEW u, Extends(w, v), Names(w, rv, m, g, u)
  PROVE  Names(v, rv, m, g, u)
BY DEF Names, Extends, CardIn

(* A lane's request, new or answered.                                      *)
LEMMA LaneSet ==
  ASSUME NEW L \in [Lanes -> Calls], NEW l \in Lanes, NEW call \in Calls,
         NEW M, M = [L EXCEPT ![l] = call]
  PROVE  M \in [Lanes -> Calls] /\ M[l] = call /\ \A k \in Lanes \ {l} : M[k] = L[k]
OBVIOUS

LEMMA NoCallIsCall == NoCall \in Calls /\ NoCall.step = "none" /\ NoCall.answer = NoAnswer
                        /\ NoAnswer \in Views /\ NoAnswer.code = "none"
BY DEF NoCall, NoAnswer, Calls, Steps, Views

LEMMA CallMade ==
  ASSUME NEW step \in Steps, NEW s \in Nat, NEW e \in Nat, NEW c \in ReviewCards \cup {0},
         NEW call, call = Calling(step, s, e, c)
  PROVE  /\ call \in Calls /\ call.step = step /\ call.session = s /\ call.event = e
         /\ call.card = c /\ call.answer = NoAnswer
BY DEF Calls, Calling, NoCall, NoAnswer, Views

LEMMA CallAnswered ==
  ASSUME NEW old \in Calls, NEW answer \in Views, NEW call, call = [old EXCEPT !.answer = answer]
  PROVE  /\ call \in Calls /\ call.step = old.step /\ call.session = old.session
         /\ call.event = old.event /\ call.card = old.card /\ call.answer = answer
BY DEF Calls

LEMMA LaneAnswered ==
  ASSUME NEW L \in [Lanes -> Calls], NEW l \in Lanes, NEW answer \in Views, NEW M,
         M = [L EXCEPT ![l].answer = answer]
  PROVE  /\ M \in [Lanes -> Calls] /\ \A k \in Lanes \ {l} : M[k] = L[k]
         /\ M[l] = [L[l] EXCEPT !.answer = answer] /\ M[l].step = L[l].step
         /\ M[l].session = L[l].session /\ M[l].event = L[l].event
         /\ M[l].card = L[l].card /\ M[l].answer = answer
<1>. DEFINE call == [L[l] EXCEPT !.answer = answer]
<1>1. /\ call \in Calls /\ call.step = L[l].step /\ call.session = L[l].session
      /\ call.event = L[l].event /\ call.card = L[l].card /\ call.answer = answer
  BY CallAnswered
<1>2. M = [L EXCEPT ![l] = call]
  OBVIOUS
<1>. HIDE DEF call
<1>3. M \in [Lanes -> Calls] /\ M[l] = call /\ \A k \in Lanes \ {l} : M[k] = L[k]
  BY <1>1, <1>2, LaneSet
<1> QED BY <1>1, <1>3 DEF call

(* An answer changes no request, and a page is none the wiser yet.         *)
LEMMA LanewiseCarry ==
  ASSUME NEW m, NEW o, NEW g, NEW u, Lanewise(m, o, g, u), NEW p, NEW h, NEW v,
         p.step = o.step, h.step = g.step, v.step = u.step
  PROVE  Lanewise(m, p, h, v)
BY DEF Lanewise

LEMMA SameRequests ==
  ASSUME NEW w, NEW rv, NEW m, NEW g, NEW u, Names(w, rv, m, g, u), NEW h, NEW v,
         h.step = g.step, h.session = g.session, h.event = g.event,
         v.step = u.step, v.session = u.session, v.event = u.event
  PROVE  Names(w, rv, m, h, v)
BY DEF Names

LEMMA ServedPage ==
  ASSUME PageInv, NEW l \in Lanes, WorkerServes(l)
  PROVE  /\ PageInv' /\ UNCHANGED <<review, late, reveals, parted>>
         /\ ServesWell(worker, worker', reveals, lane[l], lane'[l].answer)
         /\ lane' = [lane EXCEPT ![l].answer = lane'[l].answer]
<1>1. PICK served \in Serve(lane[l]) :
        /\ worker' = served.worker
        /\ lane' = [lane EXCEPT ![l].answer = served.answer]
  BY DEF WorkerServes
<1>2. lane[l] \in Calls /\ lane[l].step # "none" /\ Addressed(worker, reveals, lane[l])
        /\ worker \in WorkerRows /\ WorkerSound(worker, reveals)
  BY DEF PageInv, ReviewTypes, WorkerServes, Awaited
<1>3. ServesWell(worker, served.worker, reveals, lane[l], served.answer)
  BY <1>1, <1>2, Served
<1>4. served.answer \in Views /\ worker' \in WorkerRows
        /\ Effect(worker, worker', lane[l])
        /\ Addressed(worker', reveals, [lane[l] EXCEPT !.answer = served.answer])
  BY <1>1, <1>3 DEF ServesWell
<1>5. UNCHANGED <<review, boot, late, reveals, parted>>
  BY DEF WorkerServes
<1>6. /\ lane' \in [Lanes -> Calls] /\ \A k \in Lanes \ {l} : lane'[k] = lane[k]
      /\ lane'[l] = [lane[l] EXCEPT !.answer = served.answer] /\ lane'[l].step = lane[l].step
      /\ lane'[l].session = lane[l].session /\ lane'[l].event = lane[l].event
      /\ lane'[l].answer = served.answer
  BY <1>1, <1>4, LaneAnswered DEF PageInv, ReviewTypes
<1>7. WorkerSound(worker', reveals) /\ Extends(worker, worker')
  BY <1>2, <1>4, StaysSound
<1>8. \A k \in Lanes : /\ lane'[k].step = lane[k].step /\ lane'[k].session = lane[k].session
                       /\ lane'[k].event = lane[k].event
  BY <1>6
<1>9. \A k \in Lanes : Addressed(worker', reveals, lane'[k])
  BY <1>4, <1>6, <1>7, StaysAddressed DEF PageInv
<1>10. \A call \in late : call.step \in Writes /\ Addressed(worker', reveals, call)
  BY <1>7, StaysAddressed DEF PageInv
<1>11. Lanewise(review, lane'["opening"], lane'["grading"], lane'["undoing"])
  BY <1>8, LanewiseCarry DEF PageInv, Lanes
<1>12. Names(worker', reveals, review, lane'["grading"], lane'["undoing"])
  BY <1>7, <1>8, NamesCarry, SameRequests DEF PageInv, Lanes
<1>13. PageInv'
  BY <1>4, <1>5, <1>6, <1>7, <1>9, <1>10, <1>11, <1>12 DEF PageInv, ReviewTypes
<1> QED BY <1>1, <1>3, <1>5, <1>6, <1>13

LEMMA LostPage ==
  ASSUME PageInv, NEW l \in Lanes, Lose(l)
  PROVE  PageInv'
<1>. DEFINE answer == [NoAnswer EXCEPT !.code = "lost"]
<1>1. answer \in Views /\ answer.code = "lost"
  BY DEF NoAnswer, Views
<1>2. lane' = [lane EXCEPT ![l].answer = answer]
  BY DEF Lose
<1>. HIDE DEF answer
<1>3. /\ lane' \in [Lanes -> Calls] /\ \A k \in Lanes \ {l} : lane'[k] = lane[k]
      /\ lane'[l] = [lane[l] EXCEPT !.answer = answer] /\ lane'[l].step = lane[l].step
      /\ lane'[l].session = lane[l].session /\ lane'[l].event = lane[l].event
      /\ lane'[l].card = lane[l].card /\ lane'[l].answer = answer
  BY <1>1, <1>2, LaneAnswered DEF PageInv, ReviewTypes
<1>4. \A k \in Lanes : /\ lane'[k].step = lane[k].step /\ lane'[k].session = lane[k].session
                       /\ lane'[k].event = lane[k].event
  BY <1>3
<1>5. \A k \in Lanes : Addressed(worker, reveals, lane'[k])
  <2>1. lane'[l].answer.code # "ok"
    BY <1>1, <1>3
  <2>2. Addressed(worker, reveals, lane'[l])
    BY <1>3, <2>1 DEF PageInv, Addressed
  <2> QED BY <1>3, <2>2 DEF PageInv
<1>6. /\ late' \subseteq Calls
      /\ \A call \in late' : call.step \in Writes /\ Addressed(worker, reveals, call)
  BY DEF Lose, PageInv, ReviewTypes
<1>7. Lanewise(review, lane'["opening"], lane'["grading"], lane'["undoing"])
  BY <1>4, LanewiseCarry DEF PageInv, Lanes
<1>8. Names(worker, reveals, review, lane'["grading"], lane'["undoing"])
  BY <1>4, SameRequests DEF PageInv, Lanes
<1>9. UNCHANGED <<worker, review, reveals, parted>>
  BY DEF Lose
<1> QED BY <1>3, <1>5, <1>6, <1>7, <1>8, <1>9 DEF PageInv, ReviewTypes

(* The session's rows and the log are as before but for who may grade.     *)
LEMMA ExpiredPage ==
  ASSUME PageInv, NEW s \in DOMAIN worker.sessions, SessionExpires(s)
  PROVE  /\ PageInv' /\ UNCHANGED <<review, lane, late, reveals, parted>>
         /\ worker'.log = worker.log /\ DOMAIN worker'.sessions = DOMAIN worker.sessions
         /\ \A t \in DOMAIN worker.sessions :
              /\ worker'.sessions[t].position = worker.sessions[t].position
              /\ worker'.sessions[t].queue = worker.sessions[t].queue
<1>. DEFINE old == worker.sessions[s]
            new == [old EXCEPT !.open = FALSE]
            all == [worker.sessions EXCEPT ![s] = new]
<1>1. worker \in WorkerRows /\ worker.sessions \in Seq(SessionRows) /\ old \in SessionRows
  BY WorkerParts DEF PageInv, ReviewTypes
<1>2. worker' = [worker EXCEPT !.sessions = all]
  BY <1>1 DEF SessionExpires, WorkerRows
<1>. HIDE DEF old
<1>3. new \in SessionRows /\ new.position = old.position /\ new.queue = old.queue
  BY <1>1 DEF SessionRows
<1>. HIDE DEF new
<1>4. /\ all \in Seq(SessionRows) /\ DOMAIN all = DOMAIN worker.sessions
      /\ \A t \in DOMAIN worker.sessions : all[t] = IF t = s THEN new ELSE worker.sessions[t]
  BY <1>1, <1>3
<1>. HIDE DEF all
<1>5. worker' \in WorkerRows /\ worker'.sessions = all /\ worker'.log = worker.log
  BY <1>1, <1>2, <1>4 DEF WorkerRows
<1>6. /\ DOMAIN worker'.sessions = DOMAIN worker.sessions
      /\ \A t \in DOMAIN worker.sessions :
           /\ worker'.sessions[t].position = worker.sessions[t].position
           /\ worker'.sessions[t].queue = worker.sessions[t].queue
  BY <1>3, <1>4, <1>5 DEF old
<1>7. Extends(worker, worker') /\ WorkerSound(worker', reveals)
  BY <1>5, <1>6 DEF Extends, WorkerSound, PageInv
<1>8. UNCHANGED <<review, lane, late, reveals, parted>>
  BY DEF SessionExpires
<1>9. \A call : Addressed(worker, reveals, call) => Addressed(worker', reveals, call)
  BY <1>7, StaysAddressed
<1>10. Names(worker', reveals, review, lane["grading"], lane["undoing"])
  BY <1>7, NamesCarry DEF PageInv
<1>11. PageInv'
  BY <1>5, <1>7, <1>8, <1>9, <1>10 DEF PageInv, ReviewTypes
<1> QED BY <1>5, <1>6, <1>8, <1>11

LEMMA LatePage ==
  ASSUME PageInv, NEW call \in late, LateServed(call)
  PROVE  /\ PageInv' /\ UNCHANGED <<review, lane, reveals>>
         /\ parted' = (parted \/ worker' # worker)
<1>1. PICK served \in Serve(call) : worker' = served.worker
  BY DEF LateServed
<1>2. /\ call \in Calls /\ call.step # "none" /\ Addressed(worker, reveals, call)
      /\ worker \in WorkerRows /\ WorkerSound(worker, reveals)
  BY DEF PageInv, ReviewTypes, Writes
<1>3. ServesWell(worker, served.worker, reveals, call, served.answer)
  BY <1>1, <1>2, Served
<1>4. worker' \in WorkerRows /\ Effect(worker, worker', call)
  BY <1>1, <1>3 DEF ServesWell
<1>5. WorkerSound(worker', reveals) /\ Extends(worker, worker')
  BY <1>2, <1>4, StaysSound
<1>6. UNCHANGED <<review, lane, reveals>> /\ late' \subseteq late
        /\ parted' = (parted \/ worker' # worker)
  BY DEF LateServed
<1>7. \A k : Addressed(worker, reveals, k) => Addressed(worker', reveals, k)
  BY <1>5, StaysAddressed
<1>8. Names(worker', reveals, review, lane["grading"], lane["undoing"])
  BY <1>5, NamesCarry DEF PageInv
<1>9. parted' \in BOOLEAN
  BY <1>6 DEF PageInv, ReviewTypes
<1>10. PageInv'
  BY <1>4, <1>5, <1>6, <1>7, <1>8, <1>9 DEF PageInv, ReviewTypes
<1> QED BY <1>6, <1>10

(* A step of the page that sets one lane and moves the reducer.            *)
LEMMA PageStep ==
  ASSUME PageInv, NEW l \in Lanes, NEW call \in Calls, lane' = [lane EXCEPT ![l] = call],
         Addressed(worker, reveals, call), review' \in MachineStates, parted' \in BOOLEAN,
         UNCHANGED <<worker, late, reveals>>,
         Lanewise(review', lane'["opening"], lane'["grading"], lane'["undoing"]),
         Names(worker, reveals, review', lane'["grading"], lane'["undoing"])
  PROVE  PageInv'
<1>1. lane' \in [Lanes -> Calls] /\ lane'[l] = call /\ \A k \in Lanes \ {l} : lane'[k] = lane[k]
  BY LaneSet DEF PageInv, ReviewTypes
<1>2. \A k \in Lanes : Addressed(worker, reveals, lane'[k])
  BY <1>1 DEF PageInv
<1> QED BY <1>1, <1>2 DEF PageInv, ReviewTypes

LEMMA NothingAsked ==
  ASSUME NEW w, NEW rv
  PROVE  Addressed(w, rv, NoCall)
BY DEF Addressed, NoCall, NoAnswer

(* The fields the reducer's steps write.                                   *)
LEMMA Selecting ==
  ASSUME NEW m \in MachineStates, NEW view, view.id \in Nat, view.position \in Nat,
         NEW n, n = SessionSelected(m, view)
  PROVE  /\ n \in MachineStates /\ n.phase = m.phase /\ n.session = view.id /\ ~n.settled
         /\ n.index = view.position /\ n.event = 0 /\ n.lastEvent = 0
         /\ n.gradePending = m.gradePending /\ n.undoPending = m.undoPending
<1>. DEFINE half == [m EXCEPT !.session = view.id, !.settled = FALSE, !.prompts = 0]
<1>1. /\ half \in MachineStates /\ half.phase = m.phase /\ half.session = view.id
      /\ ~half.settled /\ half.gradePending = m.gradePending
      /\ half.undoPending = m.undoPending
  BY DEF MachineStates
<1>2. n = [half EXCEPT !.index = view.position, !.event = 0, !.lastEvent = 0]
  BY DEF SessionSelected, MachineStates
<1>. HIDE DEF half
<1>. DEFINE pos == view.position
<1>. DEFINE zero == 0
<1>3. half \in MachineStates /\ pos \in Nat /\ zero \in Nat /\ zero = 0
  BY <1>1
<1>4. n = [half EXCEPT !.index = pos, !.event = zero, !.lastEvent = zero]
  BY <1>2
<1>. HIDE DEF pos, zero
<1>5. /\ n \in MachineStates /\ n.phase = half.phase /\ n.session = half.session
      /\ n.settled = half.settled /\ n.index = pos /\ n.event = zero /\ n.lastEvent = zero
      /\ n.gradePending = half.gradePending /\ n.undoPending = half.undoPending
  BY <1>3, <1>4 DEF MachineStates
<1> QED BY <1>1, <1>3, <1>5 DEF pos

LEMMA Phases ==
  ASSUME NEW m \in MachineStates, NEW p \in ReviewPhases, NEW n, n = [m EXCEPT !.phase = p]
  PROVE  /\ n \in MachineStates /\ n.phase = p /\ n.session = m.session
         /\ n.settled = m.settled /\ n.index = m.index /\ n.event = m.event
         /\ n.lastEvent = m.lastEvent /\ n.gradePending = m.gradePending
         /\ n.undoPending = m.undoPending
BY DEF MachineStates

LEMMA Readying ==
  ASSUME NEW m \in MachineStates, NEW n, n = SessionReady(m)
  PROVE  /\ n \in MachineStates /\ OnPage(n) /\ n.session = m.session
         /\ n.settled = m.settled /\ n.index = m.index /\ n.event = m.event
         /\ n.lastEvent = m.lastEvent /\ n.gradePending = m.gradePending
         /\ n.undoPending = m.undoPending
<1>1. PICK p \in {"COMPLETE", "QUESTION"} : n = [m EXCEPT !.prompts = m.session, !.phase = p]
  BY DEF SessionReady
<1> QED BY <1>1 DEF MachineStates, OnPage, ReviewPhases

LEMMA Advancing ==
  ASSUME NEW m \in MachineStates, NEW view, view.position \in Nat, NEW e \in Nat,
         NEW n, n = GradeAdvanced(m, view, e)
  PROVE  /\ n \in MachineStates /\ n.phase \in {"COMPLETE", "QUESTION"} /\ OnPage(n)
         /\ n.session = m.session /\ n.settled = m.settled /\ n.index = view.position
         /\ n.event = 0 /\ n.lastEvent = e /\ ~n.gradePending
         /\ n.undoPending = m.undoPending
<1>1. PICK p \in {"COMPLETE", "QUESTION"} :
        n = [m EXCEPT !.gradePending = FALSE, !.event = 0, !.lastEvent = e,
                      !.index = view.position, !.phase = p]
  BY DEF GradeAdvanced
<1>. DEFINE half == [m EXCEPT !.gradePending = FALSE, !.event = 0, !.lastEvent = e]
<1>2. /\ half \in MachineStates /\ half.session = m.session /\ half.settled = m.settled
      /\ half.event = 0 /\ half.lastEvent = e /\ ~half.gradePending
      /\ half.undoPending = m.undoPending
  BY DEF MachineStates
<1>3. n = [half EXCEPT !.index = view.position, !.phase = p]
  BY <1>1 DEF MachineStates
<1>. HIDE DEF half
<1> QED BY <1>1, <1>2, <1>3 DEF MachineStates, OnPage, ReviewPhases

LEMMA Undoing ==
  ASSUME NEW m \in MachineStates, NEW view, view.position \in Nat, NEW n, n = UndoDone(m, view)
  PROVE  /\ n \in MachineStates /\ n.phase = "QUESTION" /\ n.session = m.session
         /\ n.settled = m.settled /\ n.index = view.position /\ n.event = 0
         /\ n.lastEvent = 0 /\ ~n.undoPending /\ n.gradePending = m.gradePending
<1>. DEFINE half == [m EXCEPT !.undoPending = FALSE, !.index = view.position, !.lastEvent = 0]
<1>1. /\ half \in MachineStates /\ half.session = m.session /\ half.settled = m.settled
      /\ half.lastEvent = 0 /\ half.index = view.position /\ ~half.undoPending
      /\ half.gradePending = m.gradePending
  BY DEF MachineStates
<1>2. n = [half EXCEPT !.event = 0, !.phase = "QUESTION"]
  BY DEF UndoDone, MachineStates
<1>. HIDE DEF half
<1> QED BY <1>1, <1>2 DEF MachineStates, ReviewPhases





LEMMA StartPage ==
  ASSUME PageInv, Start
  PROVE  PageInv' /\ ~OnPage(review') /\ ~review'.settled /\ lane'["opening"].step = "create"
<1>. DEFINE call == Calling("create", 0, 0, 0)
<1>1. call \in Calls /\ call.step = "create" /\ call.answer = NoAnswer
  BY CallMade DEF Steps
<1>2. lane' = [lane EXCEPT !["opening"] = call]
  BY DEF Start, Await
<1>. HIDE DEF call
<1>3. review \in MachineStates /\ lane \in [Lanes -> Calls] /\ "opening" \in Lanes
        /\ review.phase = "IDLE"
  BY DEF PageInv, ReviewTypes, Lanes, Start
<1>4. /\ review' \in MachineStates /\ review'.phase = "PREPARING"
      /\ review'.session = review.session /\ review'.settled = review.settled
      /\ review'.event = review.event /\ review'.lastEvent = review.lastEvent
      /\ review'.gradePending = review.gradePending /\ review'.undoPending = review.undoPending
  BY <1>3, Phases DEF Start, Prepared, ReviewPhases
<1>5. /\ lane'["opening"] = call /\ lane'["grading"] = lane["grading"]
      /\ lane'["undoing"] = lane["undoing"]
  BY <1>1, <1>2, <1>3, LaneSet DEF Lanes
<1>6. Addressed(worker, reveals, call)
  BY <1>1 DEF Addressed, NoAnswer
<1>7. Lanewise(review', lane'["opening"], lane'["grading"], lane'["undoing"])
  BY <1>1, <1>3, <1>4, <1>5 DEF PageInv, Lanewise, OnPage
<1>8. Names(worker, reveals, review', lane'["grading"], lane'["undoing"])
  BY <1>3, <1>4, <1>5 DEF PageInv, Names, Lanewise, OnPage
<1>9. parted' \in BOOLEAN /\ UNCHANGED <<worker, late, reveals>>
  BY DEF Start, PageInv, ReviewTypes
<1>10. PageInv'
  BY <1>1, <1>2, <1>3, <1>4, <1>6, <1>7, <1>8, <1>9, PageStep
<1>11. ~review'.settled
  BY <1>3, <1>4 DEF PageInv, Lanewise
<1> QED BY <1>1, <1>4, <1>5, <1>10, <1>11 DEF OnPage

(* The ways an opening goes on.                                            *)
LEMMA SelectPage ==
  ASSUME PageInv, OpeningContinues, lane["opening"].step \in {"get", "create"},
         lane["opening"].answer.code = "ok", Select(lane["opening"].answer)
  PROVE  /\ PageInv' /\ ~OnPage(review') /\ ~review'.settled
         /\ review'.session = lane["opening"].answer.id
         /\ review'.index = lane["opening"].answer.position
         /\ review'.event = 0 /\ review'.lastEvent = 0
<1>. DEFINE o == lane["opening"]
            view == o.answer
            chosen == SessionSelected(review, view)
<1>1. /\ review \in MachineStates /\ lane \in [Lanes -> Calls] /\ "opening" \in Lanes
      /\ o \in Calls /\ Addressed(worker, reveals, o)
  BY DEF PageInv, ReviewTypes, Lanes
<1>2. /\ view.id \in DOMAIN worker.sessions /\ view.id \in Nat \ {0} /\ view.position \in Nat
  BY <1>1, WorkerParts DEF Addressed, Calls, Views, PageInv, ReviewTypes
<1>3. ~OnPage(review) /\ review.phase # "IDLE" /\ review.phase = "PREPARING"
  BY <1>1 DEF PageInv, Lanewise, OnPage, MachineStates, ReviewPhases
<1>4. /\ chosen \in MachineStates /\ chosen.phase = review.phase /\ chosen.session = view.id
      /\ ~chosen.settled /\ chosen.index = view.position /\ chosen.event = 0
      /\ chosen.lastEvent = 0 /\ chosen.gradePending = review.gradePending
      /\ chosen.undoPending = review.undoPending
  BY <1>1, <1>2, Selecting
<1>. HIDE DEF chosen
<1>5. parted' \in BOOLEAN /\ UNCHANGED <<worker, late, reveals>>
  BY DEF OpeningContinues, PageInv, ReviewTypes
<1>6. CASE review' = chosen /\ Await("opening", Calling("contents", view.id, 0, 0))
  <2>. DEFINE call == Calling("contents", view.id, 0, 0)
  <2>1. call \in Calls /\ call.step = "contents" /\ call.session = view.id
          /\ call.answer = NoAnswer
    BY <1>2, CallMade DEF Steps
  <2>2. lane' = [lane EXCEPT !["opening"] = call]
    BY <1>6 DEF Await
  <2>. HIDE DEF call
  <2>3. /\ lane'["opening"] = call /\ lane'["grading"] = lane["grading"]
        /\ lane'["undoing"] = lane["undoing"]
    BY <1>1, <2>1, <2>2, LaneSet DEF Lanes
  <2>4. Addressed(worker, reveals, call)
    BY <1>2, <2>1 DEF Addressed, NoAnswer
  <2>5. Lanewise(review', lane'["opening"], lane'["grading"], lane'["undoing"])
    BY <1>2, <1>3, <1>4, <1>6, <2>1, <2>3 DEF PageInv, Lanewise, OnPage
  <2>6. Names(worker, reveals, review', lane'["grading"], lane'["undoing"])
    BY <1>2, <1>3, <1>4, <1>6, <2>3 DEF PageInv, Names, Lanewise
  <2>7. PageInv'
    BY <1>1, <1>4, <1>5, <1>6, <2>1, <2>2, <2>4, <2>5, <2>6, PageStep
  <2> QED BY <1>3, <1>4, <1>6, <2>7 DEF OnPage
<1>7. CASE review' = BackToIdle(chosen) /\ Return("opening")
  <2>1. /\ review' \in MachineStates /\ review'.phase = "IDLE"
        /\ review'.session = chosen.session /\ review'.settled = chosen.settled
        /\ review'.index = chosen.index
        /\ review'.event = chosen.event /\ review'.lastEvent = chosen.lastEvent
        /\ review'.gradePending = chosen.gradePending
        /\ review'.undoPending = chosen.undoPending
    BY <1>4, <1>7, Phases DEF BackToIdle, ReviewPhases
  <2>2. lane' = [lane EXCEPT !["opening"] = NoCall]
    BY <1>7 DEF Return, Await
  <2>3. /\ lane'["opening"] = NoCall /\ lane'["grading"] = lane["grading"]
        /\ lane'["undoing"] = lane["undoing"]
    BY <1>1, <2>2, NoCallIsCall, LaneSet DEF Lanes
  <2>5. Lanewise(review', lane'["opening"], lane'["grading"], lane'["undoing"])
    BY <1>3, <1>4, <2>1, <2>3, NoCallIsCall DEF PageInv, Lanewise, OnPage
  <2>6. Names(worker, reveals, review', lane'["grading"], lane'["undoing"])
    BY <1>2, <1>3, <1>4, <2>1, <2>3 DEF PageInv, Names, Lanewise
  <2>7. PageInv'
    BY <1>1, <1>5, <2>1, <2>2, <2>5, <2>6, NoCallIsCall, NothingAsked, PageStep
  <2> QED BY <1>4, <2>1, <2>7 DEF OnPage
<1> QED BY <1>6, <1>7 DEF Select, chosen

LEMMA GetPage ==
  ASSUME PageInv, OpeningContinues, lane["opening"].step = "list", UNCHANGED <<review, parted>>,
         lane["opening"].answer.code = "ok", lane["opening"].answer.id # 0,
         Await("opening", Calling("get", lane["opening"].answer.id, 0, 0))
  PROVE  /\ PageInv' /\ ~OnPage(review') /\ ~review'.settled
         /\ lane'["opening"].step = "get"
<1>. DEFINE o == lane["opening"]
            call == Calling("get", o.answer.id, 0, 0)
<1>1. /\ review \in MachineStates /\ lane \in [Lanes -> Calls] /\ "opening" \in Lanes
      /\ o \in Calls /\ Addressed(worker, reveals, o)
  BY DEF PageInv, ReviewTypes, Lanes
<1>2. o.answer.id \in DOMAIN worker.sessions /\ o.answer.id \in Nat
  BY <1>1 DEF Addressed, Calls, Views
<1>3. call \in Calls /\ call.step = "get" /\ call.session = o.answer.id
        /\ call.answer = NoAnswer
  BY <1>2, CallMade DEF Steps
<1>4. lane' = [lane EXCEPT !["opening"] = call]
  BY DEF Await
<1>. HIDE DEF call
<1>5. /\ lane'["opening"] = call /\ lane'["grading"] = lane["grading"]
      /\ lane'["undoing"] = lane["undoing"]
  BY <1>1, <1>3, <1>4, LaneSet DEF Lanes
<1>6. Addressed(worker, reveals, call)
  BY <1>2, <1>3 DEF Addressed, NoAnswer
<1>7. ~OnPage(review) /\ ~review.settled
  BY DEF PageInv, Lanewise
<1>8. Lanewise(review, lane'["opening"], lane'["grading"], lane'["undoing"])
  BY <1>3, <1>5, <1>7 DEF PageInv, Lanewise
<1>9. Names(worker, reveals, review, lane'["grading"], lane'["undoing"])
  BY <1>5 DEF PageInv
<1>10. parted' \in BOOLEAN /\ UNCHANGED <<worker, late, reveals>>
  BY DEF OpeningContinues, PageInv, ReviewTypes
<1>11. PageInv'
  BY <1>1, <1>3, <1>4, <1>6, <1>8, <1>9, <1>10, PageStep
<1> QED BY <1>3, <1>5, <1>7, <1>11

LEMMA SettlePage ==
  ASSUME PageInv, OpeningContinues, lane["opening"].step = "contents",
         review' = [review EXCEPT !.settled = TRUE], Return("opening"), UNCHANGED parted
  PROVE  /\ PageInv' /\ ~OnPage(review') /\ review'.phase = "PREPARING"
         /\ lane'["opening"].step = "none"
         /\ review'.session = review.session /\ review'.index = review.index
         /\ review'.event = review.event /\ review'.lastEvent = review.lastEvent
<1>1. /\ review \in MachineStates /\ lane \in [Lanes -> Calls] /\ "opening" \in Lanes
  BY DEF PageInv, ReviewTypes, Lanes
<1>2. ~OnPage(review) /\ review.phase = "PREPARING" /\ review.session # 0
  BY <1>1 DEF PageInv, Lanewise, OnPage, MachineStates, ReviewPhases
<1>3. /\ review' \in MachineStates /\ review'.phase = review.phase
      /\ review'.session = review.session /\ review'.settled /\ review'.index = review.index
      /\ review'.event = review.event /\ review'.lastEvent = review.lastEvent
      /\ review'.gradePending = review.gradePending
      /\ review'.undoPending = review.undoPending
  BY <1>1 DEF MachineStates
<1>4. lane' = [lane EXCEPT !["opening"] = NoCall]
  BY DEF Return, Await
<1>5. /\ lane'["opening"] = NoCall /\ lane'["grading"] = lane["grading"]
      /\ lane'["undoing"] = lane["undoing"]
  BY <1>1, <1>4, NoCallIsCall, LaneSet DEF Lanes
<1>6. Lanewise(review', lane'["opening"], lane'["grading"], lane'["undoing"])
  BY <1>2, <1>3, <1>5, NoCallIsCall DEF PageInv, Lanewise, OnPage
<1>7. Names(worker, reveals, review', lane'["grading"], lane'["undoing"])
  BY <1>3, <1>5 DEF PageInv, Names
<1>8. parted' \in BOOLEAN /\ UNCHANGED <<worker, late, reveals>>
  BY DEF OpeningContinues, PageInv, ReviewTypes
<1>9. PageInv'
  BY <1>1, <1>3, <1>4, <1>6, <1>7, <1>8, NoCallIsCall, NothingAsked, PageStep
<1> QED BY <1>2, <1>3, <1>5, <1>9, NoCallIsCall DEF OnPage

LEMMA IdlePage ==
  ASSUME PageInv, OpeningContinues, review' = BackToIdle(review), Return("opening"),
         UNCHANGED parted, lane["opening"].step # "none"
  PROVE  PageInv' /\ review'.phase = "IDLE"
<1>1. /\ review \in MachineStates /\ lane \in [Lanes -> Calls] /\ "opening" \in Lanes
  BY DEF PageInv, ReviewTypes, Lanes
<1>2. ~OnPage(review) /\ ~review.settled
  BY DEF PageInv, Lanewise
<1>3. /\ review' \in MachineStates /\ review'.phase = "IDLE"
      /\ review'.session = review.session /\ review'.settled = review.settled
      /\ review'.index = review.index
      /\ review'.event = review.event /\ review'.lastEvent = review.lastEvent
      /\ review'.gradePending = review.gradePending
      /\ review'.undoPending = review.undoPending
  BY <1>1, Phases DEF BackToIdle, ReviewPhases
<1>4. lane' = [lane EXCEPT !["opening"] = NoCall]
  BY DEF Return, Await
<1>5. /\ lane'["opening"] = NoCall /\ lane'["grading"] = lane["grading"]
      /\ lane'["undoing"] = lane["undoing"]
  BY <1>1, <1>4, NoCallIsCall, LaneSet DEF Lanes
<1>6. Lanewise(review', lane'["opening"], lane'["grading"], lane'["undoing"])
  BY <1>2, <1>3, <1>5, NoCallIsCall DEF PageInv, Lanewise, OnPage
<1>7. Names(worker, reveals, review', lane'["grading"], lane'["undoing"])
  BY <1>2, <1>3, <1>5 DEF PageInv, Names, Lanewise
<1>8. parted' \in BOOLEAN /\ UNCHANGED <<worker, late, reveals>>
  BY DEF OpeningContinues, PageInv, ReviewTypes
<1>9. PageInv'
  BY <1>1, <1>3, <1>4, <1>6, <1>7, <1>8, NoCallIsCall, NothingAsked, PageStep
<1> QED BY <1>3, <1>9

LEMMA OpeningPage ==
  ASSUME PageInv, OpeningContinues
  PROVE  PageInv'
<1>. DEFINE o == lane["opening"]
<1>1. o.step # "none" /\ o.answer.code \in {"none", "ok", "empty", "refused", "lost"}
  BY DEF OpeningContinues, Answered, PageInv, ReviewTypes, Calls, Views, Lanes
<1>2. CASE /\ o.step = "list" /\ Settled("opening") /\ o.answer.id # 0
           /\ Await("opening", Calling("get", o.answer.id, 0, 0))
           /\ UNCHANGED <<review, parted>>
  BY <1>2, GetPage DEF Settled
<1>3. CASE o.step \in {"get", "create"} /\ Settled("opening") /\ Select(o.answer)
  BY <1>3, SelectPage DEF Settled
<1>4. CASE /\ o.step = "contents" /\ review' = [review EXCEPT !.settled = TRUE]
           /\ Return("opening") /\ UNCHANGED parted
  BY <1>4, SettlePage
<1>5. CASE review' = BackToIdle(review) /\ Return("opening") /\ UNCHANGED parted
  BY <1>1, <1>5, IdlePage
<1> QED BY <1>2, <1>3, <1>4, <1>5 DEF OpeningContinues

LEMMA DerivePage ==
  ASSUME PageInv, Derive
  PROVE  /\ PageInv' /\ OnPage(review') /\ UNCHANGED <<worker, lane, late, reveals, parted>>
         /\ review'.session = review.session /\ review'.index = review.index
         /\ review'.event = review.event /\ review'.lastEvent = review.lastEvent
<1>1. review \in MachineStates /\ review.phase = "PREPARING" /\ review.settled
        /\ review.session # 0 /\ ~OnPage(review)
  BY DEF PageInv, ReviewTypes, Derive, OnPage
<1>2. /\ review' \in MachineStates /\ OnPage(review') /\ review'.session = review.session
      /\ review'.settled = review.settled /\ review'.index = review.index
      /\ review'.event = review.event /\ review'.lastEvent = review.lastEvent
      /\ review'.gradePending = review.gradePending
      /\ review'.undoPending = review.undoPending
  BY <1>1, Readying DEF Derive
<1>3. UNCHANGED <<worker, lane, late, reveals, parted>>
  BY DEF Derive
<1>4. Lanewise(review', lane["opening"], lane["grading"], lane["undoing"])
  BY <1>1, <1>2 DEF PageInv, Lanewise, OnPage
<1>5. Names(worker, reveals, review', lane["grading"], lane["undoing"])
  BY <1>1, <1>2 DEF PageInv, Names, Lanewise
<1>6. PageInv'
  BY <1>2, <1>3, <1>4, <1>5 DEF PageInv, ReviewTypes
<1> QED BY <1>2, <1>3, <1>6

(* Event ids are made one after the other; the earlier keep their meaning. *)
LEMMA Screen ==
  ASSUME PageInv, review.session # 0
  PROVE  /\ OnScreen(review) = CardIn(worker, review.session, review.index)
         /\ OnScreen(review) \in ReviewCards \cup {0}
         /\ review.session \in DOMAIN worker.sessions
<1>. DEFINE s == review.session
            n == review.index
            q == worker.sessions[s].queue
<1>1. s \in DOMAIN worker.sessions /\ n \in Nat
  BY DEF PageInv, Names, ReviewTypes, MachineStates
<1>2. q \in Seq(ReviewCards)
  BY <1>1, WorkerParts DEF PageInv, ReviewTypes
<1>3. OnScreen(review) = IF n < Len(q) THEN q[n + 1] ELSE 0
  BY DEF OnScreen, Length, Queue
<1>. HIDE DEF q, n
<1>4. n < Len(q) => q[n + 1] \in ReviewCards
  BY <1>1, <1>2
<1> QED BY <1>1, <1>3, <1>4 DEF CardIn, q, n

LEMMA RevealPage ==
  ASSUME PageInv, Reveal
  PROVE  /\ PageInv' /\ UNCHANGED <<worker, lane, late, parted>>
         /\ OnPage(review) /\ OnPage(review') /\ review.event = 0
         /\ review'.session = review.session /\ review'.index = review.index
         /\ review'.lastEvent = review.lastEvent
         /\ review'.event = Len(reveals) + 1 /\ review'.event # 0
         /\ review'.event \notin DOMAIN reveals
         /\ \A e \in DOMAIN reveals : e \in DOMAIN reveals' /\ reveals'[e] = reveals[e]
<1>. DEFINE e == Len(reveals) + 1
            sight == [session |-> review.session, card |-> OnScreen(review)]
            last == review.lastEvent
<1>1. /\ review \in MachineStates /\ review.phase = "QUESTION" /\ OnPage(review)
      /\ reveals \in Seq(Sights) /\ review.session # 0
  BY DEF PageInv, ReviewTypes, Lanewise, Reveal, OnPage
<1>2. sight \in Sights
  BY <1>1, Screen DEF Sights, MachineStates
<1>3. /\ reveals' \in Seq(Sights) /\ e \in Nat /\ e # 0 /\ e \notin DOMAIN reveals
      /\ e \in DOMAIN reveals' /\ reveals'[e] = sight
      /\ \A x \in DOMAIN reveals : x \in DOMAIN reveals' /\ reveals'[x] = reveals[x]
  BY <1>1, <1>2 DEF Reveal
<1>4. review' = Revealed(review, e) /\ UNCHANGED <<worker, lane, late, parted>>
  BY DEF Reveal
<1>. HIDE DEF e, sight
<1>5. /\ review' \in MachineStates /\ review'.phase = "REVEALED"
      /\ review'.session = review.session /\ review'.settled = review.settled
      /\ review'.index = review.index /\ review'.event = e
      /\ review'.lastEvent = review.lastEvent
      /\ review'.gradePending = review.gradePending
      /\ review'.undoPending = review.undoPending
  BY <1>1, <1>3, <1>4 DEF MachineStates, Revealed, ReviewPhases
<1>6. \A call : Addressed(worker, reveals, call) => Addressed(worker, reveals', call)
  BY <1>3 DEF Addressed
<1>7. WorkerSound(worker, reveals')
  BY <1>3 DEF PageInv, WorkerSound
<1>8. Lanewise(review', lane["opening"], lane["grading"], lane["undoing"])
  BY <1>1, <1>5 DEF PageInv, Lanewise, OnPage
<1>9. reveals'[e] = [session |-> review.session,
                     card |-> CardIn(worker, review.session, review.index)]
  BY <1>1, <1>3, Screen DEF sight
<1>10. Names(worker, reveals', review', lane["grading"], lane["undoing"])
  <2>1. review'.session \in DOMAIN worker.sessions
    BY <1>1, <1>5, Screen
  <2>2. review'.lastEvent # 0 =>
          /\ review'.lastEvent \in DOMAIN reveals' /\ review'.lastEvent # e
          /\ reveals'[review'.lastEvent].session = review'.session
    BY <1>3, <1>5 DEF PageInv, Names
  <2>3. \A call \in {lane["grading"], lane["undoing"]} : call.step # "none" =>
          /\ call.session = review'.session /\ call.event \in DOMAIN reveals'
          /\ call.event # e /\ reveals'[call.event].session = review'.session
    BY <1>3, <1>5 DEF PageInv, Names
  <2>4. review'.lastEvent # e
    BY <1>3, <2>2
  <2> QED BY <1>1, <1>3, <1>5, <1>9, <2>1, <2>2, <2>3, <2>4 DEF Names
<1>11. PageInv'
  BY <1>3, <1>4, <1>5, <1>6, <1>7, <1>8, <1>10 DEF PageInv, ReviewTypes
<1>12. review.event = 0
  BY <1>1 DEF PageInv, Names
<1> QED BY <1>1, <1>3, <1>4, <1>5, <1>11, <1>12 DEF OnPage, e

LEMMA RatePage ==
  ASSUME PageInv, Rate
  PROVE  /\ PageInv' /\ UNCHANGED <<worker, late, reveals, parted>>
         /\ OnPage(review) /\ OnPage(review') /\ review.event # 0
         /\ review'.session = review.session /\ review'.index = review.index
         /\ review'.event = review.event /\ review'.lastEvent = review.lastEvent
         /\ lane'["opening"] = lane["opening"] /\ lane'["undoing"] = lane["undoing"]
         /\ lane'["grading"].step = "grade" /\ lane'["grading"].event = review.event
         /\ lane'["grading"].session = review.session
         /\ lane'["grading"].card = CardIn(worker, review.session, review.index)
         /\ lane'["grading"].answer = NoAnswer
<1>. DEFINE c == OnScreen(review)
            call == Calling("grade", review.session, review.event, c)
<1>1. /\ review \in MachineStates /\ lane \in [Lanes -> Calls] /\ "grading" \in Lanes
      /\ review.event # 0 /\ review.phase = "REVEALED" /\ OnPage(review)
      /\ review.session # 0
  BY DEF PageInv, ReviewTypes, Lanes, Names, Rate, OnPage
<1>2. /\ c = CardIn(worker, review.session, review.index) /\ c \in ReviewCards \cup {0}
      /\ c # 0 /\ review.session \in DOMAIN worker.sessions
  BY <1>1, Screen DEF Rate
<1>. HIDE DEF c
<1>3. /\ call \in Calls /\ call.step = "grade" /\ call.session = review.session
      /\ call.event = review.event /\ call.card = c /\ call.answer = NoAnswer
  BY <1>1, <1>2, CallMade DEF Steps, MachineStates
<1>4. lane' = [lane EXCEPT !["grading"] = call]
  BY DEF Rate, Await, c
<1>. HIDE DEF call
<1>5. /\ lane'["grading"] = call /\ lane'["opening"] = lane["opening"]
      /\ lane'["undoing"] = lane["undoing"]
  BY <1>1, <1>3, <1>4, LaneSet DEF Lanes
<1>6. /\ review' \in MachineStates /\ review'.phase = review.phase
      /\ review'.session = review.session /\ review'.settled = review.settled
      /\ review'.index = review.index /\ review'.event = review.event
      /\ review'.lastEvent = review.lastEvent /\ review'.gradePending
      /\ review'.undoPending = review.undoPending
  BY <1>1 DEF Rate, MachineStates
<1>7. /\ review.event \in DOMAIN reveals
      /\ reveals[review.event] = [session |-> review.session, card |-> c]
  BY <1>1, <1>2 DEF PageInv, Names
<1>8. Addressed(worker, reveals, call)
  <2>1. call.answer.code # "ok"
    BY <1>3 DEF NoAnswer
  <2> QED BY <1>2, <1>3, <1>7, <2>1 DEF Addressed
<1>9. Lanewise(review', lane'["opening"], lane'["grading"], lane'["undoing"])
  BY <1>1, <1>3, <1>5, <1>6 DEF PageInv, Lanewise, OnPage
<1>10. Names(worker, reveals, review', lane'["grading"], lane'["undoing"])
  <2>1. reveals[review.event].session = review.session
    BY <1>7
  <2> QED BY <1>3, <1>5, <1>6, <1>7, <2>1 DEF PageInv, Names
<1>11. parted' \in BOOLEAN /\ UNCHANGED <<worker, late, reveals, parted>>
  BY DEF Rate, PageInv, ReviewTypes
<1>12. PageInv'
  BY <1>1, <1>3, <1>4, <1>6, <1>8, <1>9, <1>10, <1>11, PageStep
<1> QED BY <1>1, <1>2, <1>3, <1>5, <1>6, <1>11, <1>12 DEF OnPage

(* The answer to a rating, and the session read after it.                  *)
LEMMA GradeAckedPage ==
  ASSUME PageInv, GradingContinues, lane["grading"].step = "grade", UNCHANGED review,
         Await("grading", Calling("reread", lane["grading"].session, lane["grading"].event, 0))
  PROVE  /\ PageInv' /\ lane'["opening"] = lane["opening"] /\ lane'["undoing"] = lane["undoing"]
         /\ lane'["grading"].step = "reread" /\ lane'["grading"].event = lane["grading"].event
         /\ lane'["grading"].session = lane["grading"].session
         /\ lane'["grading"].answer = NoAnswer
<1>. DEFINE g == lane["grading"]
            call == Calling("reread", g.session, g.event, 0)
<1>1. /\ lane \in [Lanes -> Calls] /\ "grading" \in Lanes /\ review \in MachineStates
      /\ g \in Calls /\ Addressed(worker, reveals, g) /\ g.session \in Nat /\ g.event \in Nat
  BY DEF PageInv, ReviewTypes, Lanes, Calls
<1>2. /\ call \in Calls /\ call.step = "reread" /\ call.session = g.session
      /\ call.event = g.event /\ call.answer = NoAnswer
  BY <1>1, CallMade DEF Steps
<1>3. lane' = [lane EXCEPT !["grading"] = call]
  BY DEF Await
<1>. HIDE DEF call
<1>4. /\ lane'["grading"] = call /\ lane'["opening"] = lane["opening"]
      /\ lane'["undoing"] = lane["undoing"]
  BY <1>1, <1>2, <1>3, LaneSet DEF Lanes
<1>5. call.answer.code # "ok"
  BY <1>2 DEF NoAnswer
<1>6. Addressed(worker, reveals, call)
  BY <1>1, <1>2, <1>5 DEF Addressed
<1>7. Lanewise(review, lane'["opening"], lane'["grading"], lane'["undoing"])
  BY <1>2, <1>4 DEF PageInv, Lanewise
<1>8. Names(worker, reveals, review, lane'["grading"], lane'["undoing"])
  BY <1>2, <1>4 DEF PageInv, Names
<1>9. parted' \in BOOLEAN /\ UNCHANGED <<worker, late, reveals>>
  BY DEF GradingContinues, PageInv, ReviewTypes
<1>10. PageInv'
  BY <1>1, <1>2, <1>3, <1>6, <1>7, <1>8, <1>9, PageStep
<1> QED BY <1>2, <1>4, <1>10

LEMMA GradeKnownPage ==
  ASSUME PageInv, GradingContinues, lane["grading"].step = "reread", Return("grading"),
         review' = GradeAdvanced(review, lane["grading"].answer, lane["grading"].event)
  PROVE  /\ PageInv' /\ OnPage(review) /\ OnPage(review')
         /\ lane'["opening"] = lane["opening"] /\ lane'["undoing"] = lane["undoing"]
         /\ lane'["grading"] = NoCall
         /\ review'.session = review.session /\ review'.event = 0
         /\ review'.lastEvent = lane["grading"].event
         /\ review'.index = lane["grading"].answer.position
<1>. DEFINE g == lane["grading"]
<1>1. /\ lane \in [Lanes -> Calls] /\ "grading" \in Lanes /\ review \in MachineStates
      /\ g.event \in Nat /\ g.answer.position \in Nat
  BY DEF PageInv, ReviewTypes, Lanes, Calls, Views
<1>2. OnPage(review) /\ review.session # 0
  BY DEF PageInv, Lanewise
<1>3. /\ review' \in MachineStates /\ review'.phase \in {"COMPLETE", "QUESTION"}
      /\ OnPage(review') /\ review'.session = review.session
      /\ review'.settled = review.settled /\ review'.index = g.answer.position
      /\ review'.event = 0 /\ review'.lastEvent = g.event /\ ~review'.gradePending
      /\ review'.undoPending = review.undoPending
  BY <1>1, Advancing
<1>4. lane' = [lane EXCEPT !["grading"] = NoCall]
  BY DEF Return, Await
<1>5. /\ lane'["grading"] = NoCall /\ lane'["opening"] = lane["opening"]
      /\ lane'["undoing"] = lane["undoing"]
  BY <1>1, <1>4, NoCallIsCall, LaneSet DEF Lanes
<1>6. Lanewise(review', lane'["opening"], lane'["grading"], lane'["undoing"])
  BY <1>2, <1>3, <1>5, NoCallIsCall DEF PageInv, Lanewise, OnPage
<1>7. Names(worker, reveals, review', lane'["grading"], lane'["undoing"])
  BY <1>3, <1>5, NoCallIsCall DEF PageInv, Names
<1>8. parted' \in BOOLEAN /\ UNCHANGED <<worker, late, reveals>>
  BY DEF GradingContinues, PageInv, ReviewTypes
<1>9. PageInv'
  BY <1>1, <1>3, <1>4, <1>6, <1>7, <1>8, NoCallIsCall, NothingAsked, PageStep
<1> QED BY <1>2, <1>3, <1>5, <1>9

LEMMA GradeFailedPage ==
  ASSUME PageInv, GradingContinues, Return("grading"),
         review' = [review EXCEPT !.gradePending = FALSE]
  PROVE  /\ PageInv' /\ OnPage(review) /\ OnPage(review')
         /\ lane'["opening"] = lane["opening"] /\ lane'["undoing"] = lane["undoing"]
         /\ lane'["grading"] = NoCall
         /\ review'.session = review.session /\ review'.event = review.event
         /\ review'.lastEvent = review.lastEvent /\ review'.index = review.index
<1>1. /\ lane \in [Lanes -> Calls] /\ "grading" \in Lanes /\ review \in MachineStates
      /\ lane["grading"].step # "none"
  BY DEF PageInv, ReviewTypes, Lanes, GradingContinues, Answered
<1>2. OnPage(review) /\ review.session # 0
  BY <1>1 DEF PageInv, Lanewise
<1>3. /\ review' \in MachineStates /\ review'.phase = review.phase
      /\ review'.session = review.session /\ review'.settled = review.settled
      /\ review'.index = review.index /\ review'.event = review.event
      /\ review'.lastEvent = review.lastEvent /\ ~review'.gradePending
      /\ review'.undoPending = review.undoPending
  BY <1>1 DEF MachineStates
<1>4. lane' = [lane EXCEPT !["grading"] = NoCall]
  BY DEF Return, Await
<1>5. /\ lane'["grading"] = NoCall /\ lane'["opening"] = lane["opening"]
      /\ lane'["undoing"] = lane["undoing"]
  BY <1>1, <1>4, NoCallIsCall, LaneSet DEF Lanes
<1>6. Lanewise(review', lane'["opening"], lane'["grading"], lane'["undoing"])
  BY <1>2, <1>3, <1>5, NoCallIsCall DEF PageInv, Lanewise, OnPage
<1>7. Names(worker, reveals, review', lane'["grading"], lane'["undoing"])
  BY <1>3, <1>5, NoCallIsCall DEF PageInv, Names
<1>8. parted' \in BOOLEAN /\ UNCHANGED <<worker, late, reveals>>
  BY DEF GradingContinues, PageInv, ReviewTypes
<1>9. PageInv'
  BY <1>1, <1>3, <1>4, <1>6, <1>7, <1>8, NoCallIsCall, NothingAsked, PageStep
<1> QED BY <1>2, <1>3, <1>5, <1>9 DEF OnPage

LEMMA GradingPage ==
  ASSUME PageInv, GradingContinues
  PROVE  PageInv'
<1>. DEFINE g == lane["grading"]
<1>1. CASE /\ g.step = "grade" /\ UNCHANGED review
           /\ Await("grading", Calling("reread", g.session, g.event, 0))
  BY <1>1, GradeAckedPage
<1>2. CASE /\ g.step = "reread" /\ Return("grading")
           /\ review' = GradeAdvanced(review, g.answer, g.event)
  BY <1>2, GradeKnownPage
<1>3. CASE review' = [review EXCEPT !.gradePending = FALSE] /\ Return("grading")
  BY <1>3, GradeFailedPage
<1> QED BY <1>1, <1>2, <1>3 DEF GradingContinues

(* The undo, its answer and the session read after it.                     *)
LEMMA UndoPage ==
  ASSUME PageInv, Undo
  PROVE  /\ PageInv' /\ UNCHANGED <<worker, late, reveals, parted>>
         /\ OnPage(review) /\ OnPage(review') /\ review.lastEvent # 0
         /\ lane["undoing"].step = "none"
         /\ review'.session = review.session /\ review'.index = review.index
         /\ review'.event = review.event /\ review'.lastEvent = review.lastEvent
         /\ lane'["opening"] = lane["opening"] /\ lane'["grading"] = lane["grading"]
         /\ lane'["undoing"].step = "undo" /\ lane'["undoing"].event = review.lastEvent
         /\ lane'["undoing"].answer = NoAnswer
<1>. DEFINE call == Calling("undo", review.session, review.lastEvent, 0)
<1>1. /\ review \in MachineStates /\ lane \in [Lanes -> Calls] /\ "undoing" \in Lanes
      /\ review.lastEvent # 0 /\ OnPage(review) /\ review.session # 0
      /\ review.session \in DOMAIN worker.sessions /\ lane["undoing"].step = "none"
  BY DEF PageInv, ReviewTypes, Lanes, Lanewise, Names, Undo
<1>2. /\ call \in Calls /\ call.step = "undo" /\ call.session = review.session
      /\ call.event = review.lastEvent /\ call.answer = NoAnswer
  BY <1>1, CallMade DEF Steps, MachineStates
<1>3. lane' = [lane EXCEPT !["undoing"] = call]
  BY DEF Undo, Await
<1>. HIDE DEF call
<1>4. /\ lane'["undoing"] = call /\ lane'["opening"] = lane["opening"]
      /\ lane'["grading"] = lane["grading"]
  BY <1>1, <1>2, <1>3, LaneSet DEF Lanes
<1>5. /\ review' \in MachineStates /\ review'.phase = review.phase
      /\ review'.session = review.session /\ review'.settled = review.settled
      /\ review'.index = review.index /\ review'.event = review.event
      /\ review'.lastEvent = review.lastEvent /\ review'.undoPending
      /\ review'.gradePending = review.gradePending
  BY <1>1 DEF Undo, MachineStates
<1>6. Addressed(worker, reveals, call)
  <2>1. call.answer.code # "ok"
    BY <1>2 DEF NoAnswer
  <2> QED BY <1>1, <1>2, <2>1 DEF Addressed, PageInv, Names
<1>7. Lanewise(review', lane'["opening"], lane'["grading"], lane'["undoing"])
  BY <1>1, <1>2, <1>4, <1>5 DEF PageInv, Lanewise, OnPage
<1>8. Names(worker, reveals, review', lane'["grading"], lane'["undoing"])
  BY <1>1, <1>2, <1>4, <1>5 DEF PageInv, Names
<1>9. parted' \in BOOLEAN /\ UNCHANGED <<worker, late, reveals, parted>>
  BY DEF Undo, PageInv, ReviewTypes
<1>10. PageInv'
  BY <1>1, <1>2, <1>3, <1>5, <1>6, <1>7, <1>8, <1>9, PageStep
<1> QED BY <1>1, <1>2, <1>4, <1>5, <1>9, <1>10 DEF OnPage

LEMMA UndoAckedPage ==
  ASSUME PageInv, UndoingContinues, lane["undoing"].step = "undo", UNCHANGED <<review, parted>>,
         Await("undoing", Calling("reread", lane["undoing"].session, lane["undoing"].event, 0))
  PROVE  /\ PageInv' /\ lane'["opening"] = lane["opening"] /\ lane'["grading"] = lane["grading"]
         /\ lane'["undoing"].step = "reread" /\ lane'["undoing"].event = lane["undoing"].event
         /\ lane'["undoing"].session = lane["undoing"].session
         /\ lane'["undoing"].answer = NoAnswer
<1>. DEFINE u == lane["undoing"]
            call == Calling("reread", u.session, u.event, 0)
<1>1. /\ lane \in [Lanes -> Calls] /\ "undoing" \in Lanes /\ review \in MachineStates
      /\ u \in Calls /\ Addressed(worker, reveals, u) /\ u.session \in Nat /\ u.event \in Nat
  BY DEF PageInv, ReviewTypes, Lanes, Calls
<1>2. /\ call \in Calls /\ call.step = "reread" /\ call.session = u.session
      /\ call.event = u.event /\ call.answer = NoAnswer
  BY <1>1, CallMade DEF Steps
<1>3. lane' = [lane EXCEPT !["undoing"] = call]
  BY DEF Await
<1>. HIDE DEF call
<1>4. /\ lane'["undoing"] = call /\ lane'["opening"] = lane["opening"]
      /\ lane'["grading"] = lane["grading"]
  BY <1>1, <1>2, <1>3, LaneSet DEF Lanes
<1>5. call.answer.code # "ok"
  BY <1>2 DEF NoAnswer
<1>6. Addressed(worker, reveals, call)
  BY <1>1, <1>2, <1>5 DEF Addressed
<1>7. Lanewise(review, lane'["opening"], lane'["grading"], lane'["undoing"])
  BY <1>2, <1>4 DEF PageInv, Lanewise
<1>8. Names(worker, reveals, review, lane'["grading"], lane'["undoing"])
  BY <1>2, <1>4 DEF PageInv, Names
<1>9. parted' \in BOOLEAN /\ UNCHANGED <<worker, late, reveals>>
  BY DEF UndoingContinues, PageInv, ReviewTypes
<1>10. PageInv'
  BY <1>1, <1>2, <1>3, <1>6, <1>7, <1>8, <1>9, PageStep
<1> QED BY <1>2, <1>4, <1>10

LEMMA UndoKnownPage ==
  ASSUME PageInv, UndoingContinues, lane["undoing"].step = "reread", Return("undoing"),
         review' = UndoDone(review, lane["undoing"].answer), UNCHANGED parted
  PROVE  /\ PageInv' /\ OnPage(review) /\ OnPage(review')
         /\ lane'["opening"] = lane["opening"] /\ lane'["grading"] = lane["grading"]
         /\ lane'["undoing"] = NoCall
         /\ review'.session = review.session /\ review'.event = 0 /\ review'.lastEvent = 0
         /\ review'.index = lane["undoing"].answer.position
<1>. DEFINE u == lane["undoing"]
<1>1. /\ lane \in [Lanes -> Calls] /\ "undoing" \in Lanes /\ review \in MachineStates
      /\ u.answer.position \in Nat
  BY DEF PageInv, ReviewTypes, Lanes, Calls, Views
<1>2. OnPage(review) /\ review.session # 0
  BY DEF PageInv, Lanewise
<1>3. /\ review' \in MachineStates /\ review'.phase = "QUESTION"
      /\ review'.session = review.session
      /\ review'.settled = review.settled /\ review'.index = u.answer.position
      /\ review'.event = 0 /\ review'.lastEvent = 0 /\ ~review'.undoPending
      /\ review'.gradePending = review.gradePending
  BY <1>1, Undoing
<1>4. lane' = [lane EXCEPT !["undoing"] = NoCall]
  BY DEF Return, Await
<1>5. /\ lane'["undoing"] = NoCall /\ lane'["opening"] = lane["opening"]
      /\ lane'["grading"] = lane["grading"]
  BY <1>1, <1>4, NoCallIsCall, LaneSet DEF Lanes
<1>6. Lanewise(review', lane'["opening"], lane'["grading"], lane'["undoing"])
  BY <1>2, <1>3, <1>5, NoCallIsCall DEF PageInv, Lanewise, OnPage
<1>7. Names(worker, reveals, review', lane'["grading"], lane'["undoing"])
  BY <1>3, <1>5, NoCallIsCall DEF PageInv, Names
<1>8. parted' \in BOOLEAN /\ UNCHANGED <<worker, late, reveals>>
  BY DEF UndoingContinues, PageInv, ReviewTypes
<1>9. PageInv'
  BY <1>1, <1>3, <1>4, <1>6, <1>7, <1>8, NoCallIsCall, NothingAsked, PageStep
<1> QED BY <1>2, <1>3, <1>5, <1>9 DEF OnPage

LEMMA UndoFailedPage ==
  ASSUME PageInv, UndoingContinues, Return("undoing"), review' = UndoFailed(review),
         parted' \in BOOLEAN
  PROVE  /\ PageInv' /\ OnPage(review) /\ OnPage(review')
         /\ lane'["opening"] = lane["opening"] /\ lane'["grading"] = lane["grading"]
         /\ lane'["undoing"] = NoCall
         /\ review'.session = review.session /\ review'.event = review.event
         /\ review'.lastEvent = 0 /\ review'.index = review.index
<1>1. /\ lane \in [Lanes -> Calls] /\ "undoing" \in Lanes /\ review \in MachineStates
      /\ lane["undoing"].step # "none"
  BY DEF PageInv, ReviewTypes, Lanes, UndoingContinues, Answered
<1>2. OnPage(review) /\ review.session # 0
  BY <1>1 DEF PageInv, Lanewise
<1>3. /\ review' \in MachineStates /\ review'.phase = review.phase
      /\ review'.session = review.session /\ review'.settled = review.settled
      /\ review'.index = review.index /\ review'.event = review.event
      /\ review'.lastEvent = 0 /\ ~review'.undoPending
      /\ review'.gradePending = review.gradePending
  BY <1>1 DEF MachineStates, UndoFailed
<1>4. lane' = [lane EXCEPT !["undoing"] = NoCall]
  BY DEF Return, Await
<1>5. /\ lane'["undoing"] = NoCall /\ lane'["opening"] = lane["opening"]
      /\ lane'["grading"] = lane["grading"]
  BY <1>1, <1>4, NoCallIsCall, LaneSet DEF Lanes
<1>6. Lanewise(review', lane'["opening"], lane'["grading"], lane'["undoing"])
  BY <1>2, <1>3, <1>5, NoCallIsCall DEF PageInv, Lanewise, OnPage
<1>7. Names(worker, reveals, review', lane'["grading"], lane'["undoing"])
  BY <1>3, <1>5, NoCallIsCall DEF PageInv, Names
<1>8. UNCHANGED <<worker, late, reveals>>
  BY DEF UndoingContinues
<1>9. PageInv'
  BY <1>1, <1>3, <1>4, <1>6, <1>7, <1>8, NoCallIsCall, NothingAsked, PageStep
<1> QED BY <1>2, <1>3, <1>5, <1>9 DEF OnPage

LEMMA UndoingPage ==
  ASSUME PageInv, UndoingContinues
  PROVE  PageInv'
<1>. DEFINE u == lane["undoing"]
<1>1. CASE /\ u.step = "undo" /\ UNCHANGED <<review, parted>>
           /\ Await("undoing", Calling("reread", u.session, u.event, 0))
  BY <1>1, UndoAckedPage
<1>2. CASE /\ u.step = "reread" /\ Return("undoing") /\ UNCHANGED parted
           /\ review' = UndoDone(review, u.answer)
  BY <1>2, UndoKnownPage
<1>3. CASE /\ review' = UndoFailed(review) /\ Return("undoing")
           /\ parted' = (parted \/ \E i \in DOMAIN worker.log :
                                      worker.log[i].event = u.event /\ worker.log[i].undone)
  <2>1. parted' \in BOOLEAN
    BY <1>3 DEF PageInv, ReviewTypes
  <2> QED BY <1>3, <2>1, UndoFailedPage
<1> QED BY <1>1, <1>2, <1>3 DEF UndoingContinues

LEMMA MountedPage ==
  /\ Mounted \in MachineStates /\ Mounted.phase = "PREPARING" /\ Mounted.session = 0
  /\ ~Mounted.settled /\ Mounted.event = 0 /\ Mounted.lastEvent = 0
  /\ ~Mounted.gradePending /\ ~Mounted.undoPending
BY DEF Mounted, Prepared, InitialState, MachineStates, ReviewPhases

(* The lanes of a page that is mounted: the resume is asked for.           *)
LEMMA MountedLanes ==
  ASSUME NEW L, L = [l \in Lanes |-> IF l = "opening" THEN Calling("list", 0, 0, 0) ELSE NoCall]
  PROVE  /\ L \in [Lanes -> Calls] /\ L["opening"].step = "list"
         /\ L["grading"] = NoCall /\ L["undoing"] = NoCall
         /\ \A w, rv : \A l \in Lanes : Addressed(w, rv, L[l])
         /\ Lanewise(Mounted, L["opening"], L["grading"], L["undoing"])
         /\ \A w, rv : Names(w, rv, Mounted, L["grading"], L["undoing"])
<1>. DEFINE call == Calling("list", 0, 0, 0)
<1>1. call \in Calls /\ call.step = "list" /\ call.answer = NoAnswer
  BY CallMade DEF Steps
<1>2. L["opening"] = call /\ L["grading"] = NoCall /\ L["undoing"] = NoCall
        /\ L \in [Lanes -> Calls]
  BY <1>1, NoCallIsCall DEF Lanes
<1>. HIDE DEF call
<1>3. \A w, rv : Addressed(w, rv, call) /\ Addressed(w, rv, NoCall)
  BY <1>1, NothingAsked DEF Addressed, NoAnswer
<1>4. Lanewise(Mounted, L["opening"], L["grading"], L["undoing"])
  BY <1>1, <1>2, MountedPage, NoCallIsCall DEF Lanewise, OnPage
<1>5. \A w, rv : Names(w, rv, Mounted, L["grading"], L["undoing"])
  BY <1>2, MountedPage, NoCallIsCall DEF Names
<1> QED BY <1>1, <1>2, <1>3, <1>4, <1>5 DEF Lanes

LEMMA RemountPage ==
  ASSUME PageInv, Remount
  PROVE  PageInv' /\ ~OnPage(review') /\ ~review'.settled /\ lane'["opening"].step = "list"
<1>1. /\ review' = Mounted /\ UNCHANGED <<worker, reveals, parted>>
      /\ lane' = [l \in Lanes |-> IF l = "opening" THEN Calling("list", 0, 0, 0) ELSE NoCall]
  BY DEF Remount
<1>2. /\ late' \subseteq Calls
      /\ \A call \in late' : call.step \in Writes /\ Addressed(worker, reveals, call)
  BY DEF Remount, Abandoned, PageInv, ReviewTypes
<1>3. PageInv'
  BY <1>1, <1>2, MountedLanes, MountedPage DEF PageInv, ReviewTypes
<1> QED BY <1>1, <1>3, MountedLanes, MountedPage DEF OnPage

LEMMA PageInit == ReviewInit => PageInv
<1>. SUFFICES ASSUME ReviewInit PROVE PageInv
  OBVIOUS
<1>1. worker.sessions = <<>> /\ worker.log = <<>> /\ worker \in WorkerRows
  BY DEF ReviewInit, WorkerRows
<1>2. WorkerSound(worker, reveals)
  BY <1>1 DEF WorkerSound
<1>3. reveals \in Seq(Sights) /\ parted \in BOOLEAN /\ late = {}
  <2>1. reveals = <<>> /\ parted = FALSE /\ late = {}
    BY DEF ReviewInit
  <2>2. reveals \in Seq(Sights)
    BY <2>1
  <2> QED BY <2>1, <2>2
<1>4. /\ review = Mounted
      /\ lane = [l \in Lanes |-> IF l = "opening" THEN Calling("list", 0, 0, 0) ELSE NoCall]
  BY DEF ReviewInit
<1> QED BY <1>1, <1>2, <1>3, <1>4, MountedLanes, MountedPage DEF PageInv, ReviewTypes

LEMMA PageNext == PageInv /\ [ReviewNext]_reviewVars => PageInv'
<1>. SUFFICES ASSUME PageInv, [ReviewNext]_reviewVars PROVE PageInv'
  OBVIOUS
<1>1. CASE \E l \in Lanes : WorkerServes(l)
  BY <1>1, ServedPage
<1>2. CASE \E l \in Lanes : Lose(l)
  BY <1>2, LostPage
<1>3. CASE \E s \in DOMAIN worker.sessions : SessionExpires(s)
  BY <1>3, ExpiredPage
<1>4. CASE \E call \in late : LateServed(call)
  BY <1>4, LatePage
<1>5. CASE BootSettles \/ UNCHANGED reviewVars
  BY <1>5 DEF BootSettles, reviewVars, PageInv, ReviewTypes
<1>6. CASE Start
  BY <1>6, StartPage
<1>7. CASE OpeningContinues
  BY <1>7, OpeningPage
<1>8. CASE Derive
  BY <1>8, DerivePage
<1>9. CASE Reveal
  BY <1>9, RevealPage
<1>10. CASE Rate
  BY <1>10, RatePage
<1>11. CASE GradingContinues
  BY <1>11, GradingPage
<1>12. CASE Undo
  BY <1>12, UndoPage
<1>13. CASE UndoingContinues
  BY <1>13, UndoingPage
<1>14. CASE Remount
  BY <1>14, RemountPage
<1> QED BY <1>1, <1>2, <1>3, <1>4, <1>5, <1>6, <1>7, <1>8, <1>9, <1>10, <1>11, <1>12,
           <1>13, <1>14 DEF ReviewNext

(* A request of the page, in flight, answered, lost or late, names the     *)
(* session and card its event id was made for, and every row of the log is *)
(* one of those.                                                           *)
THEOREM PageInvariance == ReviewSpec => []PageInv
BY PageInit, PageNext, PTL DEF ReviewSpec

(* A rating is recorded for the card whose answer was on the screen when   *)
(* its event id was generated (useReviewSession.ts:327-368), whatever was  *)
(* undone, retried, lost, late or mounted anew in between.                 *)
THEOREM RecordedAsShown == ReviewSpec => []GradedAsShown
<1>1. PageInv => GradedAsShown
  BY DEF PageInv, WorkerSound, GradedAsShown
<1> QED BY <1>1, PageInvariance, PTL


------------------------------------------------------------------------------
(* Where the page is, as long as nothing was done behind its back.         *)

(* An undo is served, and the page does not know it yet.                   *)
Accepted(w, u) == u.step # "none" /\ UndoneIn(w, u.event)

At(w, m) == w.sessions[m.session].position

InLine(w, m, g, u) ==
  /\ IF Accepted(w, u)
     THEN At(w, m) + 1 = m.index /\ ~LoggedIn(w, m.event)
     ELSE \/ At(w, m) = m.index /\ ~LoggedIn(w, m.event)
          \/ At(w, m) = m.index + 1 /\ LatestEvent(w, m.event)
  /\ m.lastEvent # 0 \/ u.step # "none" => m.index # 0
  /\ m.lastEvent # 0 /\ UndoneIn(w, m.lastEvent) => Accepted(w, u)
  /\ u.step = "reread" => Accepted(w, u)
  /\ u.step # "none" /\ u.answer.code = "ok" => Accepted(w, u)
  /\ u.step = "reread" /\ u.answer.code = "ok" => u.answer.position = At(w, m)
  /\ g.step = "reread" => LoggedIn(w, g.event)
  /\ g.step # "none" /\ g.answer.code = "ok" => LoggedIn(w, g.event)
  /\ g.step = "reread" /\ g.answer.code = "ok" => g.answer.position = At(w, m)

(* The rating under way is of the card on the screen, or of one that an    *)
(* undo took off the screen and that the worker will refuse.               *)
RatesThis(w, m, g) ==
  g.step # "none" =>
    /\ g.event = m.event
    /\ g.step = "grade" => g.card = CardIn(w, m.session, m.index)

RatesPast(w, m, g, u) ==
  /\ u.step = "none" /\ m.lastEvent = 0 /\ g.event # m.event /\ g.step = "grade"
  /\ ~LoggedIn(w, g.event) /\ ~LoggedIn(w, m.event)
  /\ g.card # CardIn(w, m.session, m.index)

OnLine(w, m, g, u) == InLine(w, m, g, u) /\ (RatesThis(w, m, g) \/ RatesPast(w, m, g, u))

(* The page shows a card, or is about to.                                  *)
Tracked(m, o) == OnPage(m) \/ m.settled \/ o.step = "contents"

StepInv ==
  ~parted /\ Tracked(review, lane["opening"])
    => OnLine(worker, review, lane["grading"], lane["undoing"])

LEMMA EventFacts ==
  ASSUME NEW w \in WorkerRows, NEW rv \in Seq(Sights), WorkerSound(w, rv)
  PROVE  /\ ~LoggedIn(w, 0) /\ \A x : LoggedIn(w, x) => x \in DOMAIN rv
         /\ \A x : LatestEvent(w, x) => LoggedIn(w, x) /\ ~UndoneIn(w, x)
         /\ \A x, y : LatestEvent(w, x) /\ LatestEvent(w, y) => x = y
<1>1. \A x : LoggedIn(w, x) => x \in DOMAIN rv
  BY DEF LoggedIn, WorkerSound
<1>2. 0 \notin DOMAIN rv
  BY LenProperties
<1>3. \A x : LatestEvent(w, x) => LoggedIn(w, x)
  BY DEF LatestEvent, LoggedIn
<1>4. ASSUME NEW x, LatestEvent(w, x), UndoneIn(w, x) PROVE FALSE
  <2>1. PICK i \in DOMAIN w.log : LatestIn(w, i) /\ w.log[i].event = x
    BY <1>4 DEF LatestEvent
  <2>2. PICK j \in DOMAIN w.log : w.log[j].event = x /\ w.log[j].undone
    BY <1>4 DEF UndoneIn
  <2>3. i = j
    BY <2>1, <2>2 DEF WorkerSound
  <2> QED BY <2>1, <2>2, <2>3 DEF LatestIn
<1>5. ASSUME NEW x, NEW y, LatestEvent(w, x), LatestEvent(w, y) PROVE x = y
  <2>1. PICK i \in DOMAIN w.log : LatestIn(w, i) /\ w.log[i].event = x
    BY <1>5 DEF LatestEvent
  <2>2. PICK j \in DOMAIN w.log : LatestIn(w, j) /\ w.log[j].event = y
    BY <1>5 DEF LatestEvent
  <2>3. i \in Nat /\ j \in Nat /\ i <= j /\ j <= i
    BY <2>1, <2>2, WorkerParts DEF LatestIn
  <2> QED BY <2>1, <2>2, <2>3
<1> QED BY <1>1, <1>2, <1>3, <1>4, <1>5

(* What moves neither the session nor the page, and answers nothing well.  *)
LEMMA SameLine ==
  ASSUME NEW w, NEW m, NEW g, NEW u, OnLine(w, m, g, u), NEW v, NEW n, NEW h, NEW x,
         v.log = w.log,
         v.sessions[m.session].position = w.sessions[m.session].position,
         v.sessions[m.session].queue = w.sessions[m.session].queue,
         n.session = m.session, n.index = m.index, n.event = m.event,
         n.lastEvent = m.lastEvent,
         h.step = g.step, h.event = g.event, h.card = g.card,
         h.answer = g.answer \/ h.answer.code # "ok",
         x.step = u.step, x.event = u.event, x.answer = u.answer \/ x.answer.code # "ok"
  PROVE  OnLine(v, n, h, x)
<1>1. /\ \A e : LoggedIn(v, e) <=> LoggedIn(w, e)
      /\ \A e : UndoneIn(v, e) <=> UndoneIn(w, e)
      /\ \A e : LatestEvent(v, e) <=> LatestEvent(w, e)
  BY DEF LoggedIn, UndoneIn, LatestEvent, LatestIn
<1>2. At(v, n) = At(w, m) /\ CardIn(v, n.session, n.index) = CardIn(w, m.session, m.index)
  BY DEF At, CardIn
<1>3. Accepted(v, x) <=> Accepted(w, u)
  BY <1>1 DEF Accepted
<1>4. InLine(w, m, g, u) /\ (RatesThis(w, m, g) \/ RatesPast(w, m, g, u))
  BY DEF OnLine
<1>5. InLine(v, n, h, x)
  BY <1>1, <1>2, <1>3, <1>4 DEF InLine
<1>6. RatesThis(w, m, g) => RatesThis(v, n, h)
  BY <1>2 DEF RatesThis
<1>7. RatesPast(w, m, g, u) => RatesPast(v, n, h, x)
  BY <1>1, <1>2 DEF RatesPast
<1> QED BY <1>4, <1>5, <1>6, <1>7 DEF OnLine

(* The worker takes the grade under way: it is for the card on the screen, *)
(* and no undo is served, or the worker would expect another card.         *)
LEMMA GradeOnLine ==
  ASSUME NEW w \in WorkerRows, NEW v \in WorkerRows, NEW rv \in Seq(Sights), WorkerSound(w, rv),
         NEW m \in MachineStates, NEW g, NEW u, OnLine(w, m, g, u), Addressed(w, rv, g),
         g.step = "grade", g.session = m.session,
         GradesIn(w, v, g.session, g.event, g.card),
         NEW h, h.step = g.step, h.event = g.event, h.card = g.card
  PROVE  OnLine(v, m, h, u)
<1>. DEFINE s == m.session
            q == w.sessions[s].queue
            p == w.sessions[s].position
            n == m.index
            c == g.card
<1>1. /\ s \in DOMAIN w.sessions /\ p \in Nat /\ q \in Seq(ReviewCards) /\ n \in Nat
      /\ c \in ReviewCards /\ g.event \in DOMAIN rv /\ Distinct(q)
      /\ rv[g.event] = [session |-> s, card |-> c]
  BY WorkerParts DEF Addressed, WorkerSound, MachineStates
<1>2. ~LoggedIn(w, g.event) /\ p < Len(q) /\ q[p + 1] = c
  BY DEF GradesIn
<1>3. /\ v.sessions[s].position = p + 1 /\ v.sessions[s].queue = q
      /\ \A x : LoggedIn(v, x) <=> LoggedIn(w, x) \/ x = g.event
      /\ \A x : UndoneIn(v, x) <=> UndoneIn(w, x)
      /\ LatestEvent(v, g.event)
  BY <1>1, AfterGrade DEF Extends
<1>4. InLine(w, m, g, u) /\ (RatesThis(w, m, g) \/ RatesPast(w, m, g, u))
  BY DEF OnLine
<1>. DEFINE now == CardIn(w, m.session, m.index)
<1>5. At(w, m) = p /\ At(v, m) = p + 1
  BY <1>3 DEF At
<1>6. CardIn(v, m.session, m.index) = now /\ now = IF n < Len(q) THEN q[n + 1] ELSE 0
  BY <1>3 DEF CardIn
<1>7. c # 0
  BY <1>1, ReviewBounds
<1>. HIDE DEF q, p, n, c, now
<1>8. now = c <=> n = p
  <2>1. n = p => now = c
    BY <1>1, <1>2, <1>6
  <2>2. ASSUME now = c PROVE n = p
    <3>1. n < Len(q) /\ q[n + 1] = q[p + 1]
      BY <1>2, <1>6, <1>7, <2>2
    <3>2. n + 1 \in DOMAIN q /\ p + 1 \in DOMAIN q
      BY <1>1, <1>2, <3>1
    <3>3. n + 1 = p + 1
      BY <1>1, <3>1, <3>2 DEF Distinct
    <3> QED BY <1>1, <3>3
  <2> QED BY <2>1, <2>2
<1>9. LatestEvent(w, m.event) => LoggedIn(w, m.event)
  BY EventFacts
<1>10. ASSUME RatesPast(w, m, g, u) PROVE FALSE
  <2>1. ~Accepted(w, u) /\ ~LoggedIn(w, m.event) /\ c # now
    BY <1>10 DEF RatesPast, Accepted, c, now
  <2>2. p = n
    BY <1>4, <1>5, <1>9, <2>1 DEF InLine, n
  <2> QED BY <1>8, <2>1, <2>2
<1>11. g.event = m.event /\ c = now
  BY <1>4, <1>10 DEF RatesThis, c, now
<1>12. n = p /\ ~LoggedIn(w, m.event)
  BY <1>2, <1>8, <1>11
<1>13. ~Accepted(w, u) /\ ~Accepted(v, u)
  <2>1. Accepted(w, u) => p + 1 = n
    BY <1>4, <1>5 DEF InLine, n
  <2>2. ~Accepted(w, u)
    BY <1>1, <1>12, <2>1
  <2> QED BY <1>3, <2>2 DEF Accepted
<1>14. InLine(v, m, h, u)
  <2>1. At(v, m) = m.index + 1 /\ LatestEvent(v, m.event)
    BY <1>3, <1>5, <1>11, <1>12 DEF n
  <2>2. LoggedIn(v, h.event) /\ h.step = "grade"
    BY <1>3
  <2> QED BY <1>3, <1>4, <1>13, <2>1, <2>2 DEF InLine
<1>15. RatesThis(v, m, h)
  BY <1>6, <1>11 DEF RatesThis, c
<1> QED BY <1>14, <1>15 DEF OnLine

(* The worker takes the undo under way: then the page's own card is not    *)
(* recorded, and the session is one card behind the page.                  *)
LEMMA UndoOnLine ==
  ASSUME NEW w \in WorkerRows, NEW v \in WorkerRows, NEW rv \in Seq(Sights), WorkerSound(w, rv),
         NEW m \in MachineStates, NEW g, NEW u, OnLine(w, m, g, u),
         u.step = "undo", rv[u.event].session = m.session, u.event # m.event,
         UndoesIn(w, v, u.event),
         NEW x, x.step = u.step, x.event = u.event
  PROVE  OnLine(v, m, g, x)
<1>. DEFINE s == m.session
            p == w.sessions[s].position
            n == m.index
<1>1. /\ s \in DOMAIN w.sessions /\ LatestEvent(w, u.event)
      /\ v.sessions[s].position = Lower(p)
      /\ v.sessions[s].queue = w.sessions[s].queue
      /\ \A e : LoggedIn(v, e) <=> LoggedIn(w, e)
      /\ \A e : UndoneIn(v, e) <=> UndoneIn(w, e) \/ e = u.event
  BY AfterUndo DEF Extends
<1>2. p \in Nat /\ n \in Nat
  BY <1>1, WorkerParts DEF MachineStates
<1>3. At(w, m) = p /\ At(v, m) = Lower(p) /\ CardIn(v, s, n) = CardIn(w, s, n)
  BY <1>1 DEF At, CardIn
<1>. HIDE DEF p, n
<1>4. ~UndoneIn(w, u.event) /\ ~LatestEvent(w, m.event)
  BY <1>1, EventFacts
<1>5. InLine(w, m, g, u) /\ RatesThis(w, m, g)
  BY DEF OnLine, RatesPast
<1>6. p = n /\ ~LoggedIn(w, m.event) /\ n # 0
  BY <1>3, <1>4, <1>5 DEF InLine, Accepted, n
<1>7. Lower(p) + 1 = n /\ Accepted(v, x)
  BY <1>1, <1>2, <1>6 DEF Lower, Accepted
<1>8. g.step # "reread"
  BY <1>5, <1>6 DEF InLine, RatesThis
<1>9. InLine(v, m, g, x)
  BY <1>1, <1>3, <1>5, <1>6, <1>7, <1>8 DEF InLine, n
<1>10. RatesThis(v, m, g)
  BY <1>3, <1>5 DEF RatesThis, n
<1> QED BY <1>9, <1>10 DEF OnLine

(* An answer that is served without moving the session tells the truth.    *)
LEMMA ToldOnLine ==
  ASSUME NEW w, NEW m, NEW g, NEW u, OnLine(w, m, g, u), NEW h, NEW x,
         g.step # "none" => g.session = m.session,
         u.step # "none" => u.session = m.session,
         h.step = g.step, h.event = g.event, h.card = g.card,
         x.step = u.step, x.event = u.event,
         h.answer = g.answer \/ (g.step \in {"grade", "reread"} /\ Truthful(w, g, h.answer)),
         x.answer = u.answer \/ (u.step \in {"undo", "reread"} /\ Truthful(w, u, x.answer))
  PROVE  OnLine(w, m, h, x)
<1>1. InLine(w, m, g, u) /\ (RatesThis(w, m, g) \/ RatesPast(w, m, g, u))
  BY DEF OnLine
<1>2. Accepted(w, x) <=> Accepted(w, u)
  BY DEF Accepted
<1>3. /\ h.step # "none" /\ h.answer.code = "ok" => LoggedIn(w, h.event)
      /\ h.step = "reread" /\ h.answer.code = "ok" => h.answer.position = At(w, m)
  BY <1>1 DEF InLine, Truthful, At
<1>4. /\ x.step # "none" /\ x.answer.code = "ok" => Accepted(w, x)
      /\ x.step = "reread" /\ x.answer.code = "ok" => x.answer.position = At(w, m)
  BY <1>1, <1>2 DEF InLine, Truthful, At, Accepted
<1>5. InLine(w, m, h, x)
  BY <1>1, <1>2, <1>3, <1>4 DEF InLine
<1>6. RatesThis(w, m, g) => RatesThis(w, m, h)
  BY DEF RatesThis
<1>7. RatesPast(w, m, g, u) => RatesPast(w, m, h, x)
  BY DEF RatesPast
<1> QED BY <1>1, <1>5, <1>6, <1>7 DEF OnLine


(* The page's lanes and the tracked page, in the terms of these lemmas.    *)
LEMMA PageParts ==
  ASSUME PageInv
  PROVE  /\ worker \in WorkerRows /\ reveals \in Seq(Sights) /\ review \in MachineStates
         /\ lane \in [Lanes -> Calls] /\ WorkerSound(worker, reveals)
         /\ Lanes = {"opening", "grading", "undoing"}
         /\ \A l \in Lanes : Addressed(worker, reveals, lane[l])
         /\ Lanewise(review, lane["opening"], lane["grading"], lane["undoing"])
         /\ Names(worker, reveals, review, lane["grading"], lane["undoing"])
         /\ Tracked(review, lane["opening"]) =>
              review.session \in DOMAIN worker.sessions /\ review.session # 0
BY DEF PageInv, ReviewTypes, Lanes, Tracked, Lanewise, Names

LEMMA StepServed ==
  ASSUME PageInv, StepInv, NEW l \in Lanes, WorkerServes(l)
  PROVE  StepInv'
<1>. DEFINE answer == lane'[l].answer
            o == lane["opening"]
            g == lane["grading"]
            u == lane["undoing"]
<1>1. /\ PageInv' /\ UNCHANGED <<review, late, reveals, parted>>
      /\ ServesWell(worker, worker', reveals, lane[l], answer)
      /\ lane' = [lane EXCEPT ![l].answer = answer]
  BY ServedPage
<1>2. answer \in Views /\ worker' \in WorkerRows /\ Effect(worker, worker', lane[l])
        /\ Truthful(worker', lane[l], answer)
  BY <1>1 DEF ServesWell
<1>. HIDE DEF answer
<1>3. /\ \A k \in Lanes \ {l} : lane'[k] = lane[k]
      /\ lane'[l].step = lane[l].step /\ lane'[l].session = lane[l].session
      /\ lane'[l].event = lane[l].event /\ lane'[l].card = lane[l].card
      /\ lane'[l].answer = answer
  BY <1>1, <1>2, PageParts, LaneAnswered
<1>4. SUFFICES ASSUME ~parted, Tracked(review, o)
               PROVE  OnLine(worker', review, lane'["grading"], lane'["undoing"])
  <2>1. lane'["opening"].step = o.step
    BY <1>3 DEF Lanes
  <2>2. Tracked(review, lane'["opening"]) <=> Tracked(review, o)
    BY <2>1 DEF Tracked
  <2> QED BY <1>1, <2>2 DEF StepInv
<1>5. OnLine(worker, review, g, u)
  BY <1>4 DEF StepInv
<1>6. /\ review.session \in DOMAIN worker.sessions /\ worker \in WorkerRows
      /\ o.step \in {"none", "list", "get", "create", "contents"}
      /\ g.step \in {"none", "grade", "reread"} /\ u.step \in {"none", "undo", "reread"}
      /\ \A call \in {g, u} : call.step # "none" =>
           call.session = review.session
  BY <1>4, PageParts DEF Lanewise, Names
<1>7. lane[l].step # "none"
  BY DEF WorkerServes, Awaited
<1>8. CASE l = "opening"
  <2>1. lane'["grading"] = g /\ lane'["undoing"] = u
    BY <1>3, <1>8 DEF Lanes
  <2>2. worker' = worker \/ CreatesIn(worker, worker')
    BY <1>2, <1>6, <1>8 DEF Effect
  <2>3. /\ worker'.log = worker.log
        /\ worker'.sessions[review.session] = worker.sessions[review.session]
    <3>1. CASE CreatesIn(worker, worker')
      <4>1. PICK row \in SessionRows :
              worker' = [worker EXCEPT !.sessions = Append(worker.sessions, row)]
        BY <3>1 DEF CreatesIn
      <4>2. worker'.sessions = Append(worker.sessions, row) /\ worker'.log = worker.log
        BY <1>6, <4>1 DEF WorkerRows
      <4>3. worker.sessions \in Seq(SessionRows)
        BY <1>6, WorkerParts
      <4> QED BY <1>6, <4>2, <4>3
    <3> QED BY <2>2, <3>1
  <2> QED BY <1>5, <2>1, <2>3, SameLine
<1>9. CASE l = "grading"
  <2>1. lane'["undoing"] = u /\ lane'["grading"].step = g.step
          /\ lane'["grading"].event = g.event /\ lane'["grading"].card = g.card
          /\ lane'["grading"].answer = answer
    BY <1>3, <1>9 DEF Lanes
  <2>2. CASE worker' = worker
    BY <1>2, <1>5, <1>6, <1>7, <1>9, <2>1, <2>2, ToldOnLine
  <2>3. CASE worker' # worker
    <3>1. g.step = "grade" /\ GradesIn(worker, worker', g.session, g.event, g.card)
      BY <1>2, <1>6, <1>9, <2>3 DEF Effect
    <3>2. g.session = review.session /\ Addressed(worker, reveals, g)
      BY <1>6, <3>1, PageParts
    <3> QED BY <1>2, <1>5, <2>1, <3>1, <3>2, PageParts, GradeOnLine
  <2> QED BY <2>2, <2>3
<1>10. CASE l = "undoing"
  <2>1. lane'["grading"] = g /\ lane'["undoing"].step = u.step
          /\ lane'["undoing"].event = u.event /\ lane'["undoing"].answer = answer
    BY <1>3, <1>10 DEF Lanes
  <2>2. CASE worker' = worker
    BY <1>2, <1>5, <1>6, <1>7, <1>10, <2>1, <2>2, ToldOnLine
  <2>3. CASE worker' # worker
    <3>1. u.step = "undo" /\ UndoesIn(worker, worker', u.event)
      BY <1>2, <1>6, <1>10, <2>3 DEF Effect
    <3>2. /\ reveals[u.event].session = review.session /\ u.event \in DOMAIN reveals
          /\ review.event # 0 => u.event # review.event
      BY <3>1, PageParts DEF Names
    <3>3. u.event # review.event
      BY <3>2, PageParts, LenProperties
    <3> QED BY <1>2, <1>5, <2>1, <3>1, <3>2, <3>3, PageParts, UndoOnLine
  <2> QED BY <2>2, <2>3
<1> QED BY <1>8, <1>9, <1>10 DEF Lanes

LEMMA StepLost ==
  ASSUME PageInv, StepInv, NEW l \in Lanes, Lose(l)
  PROVE  StepInv'
<1>. DEFINE answer == [NoAnswer EXCEPT !.code = "lost"]
<1>1. answer \in Views /\ answer.code = "lost"
  BY DEF NoAnswer, Views
<1>2. lane' = [lane EXCEPT ![l].answer = answer] /\ UNCHANGED <<worker, review, parted>>
  BY DEF Lose
<1>. HIDE DEF answer
<1>3. /\ \A k \in Lanes \ {l} : lane'[k] = lane[k]
      /\ lane'[l].step = lane[l].step /\ lane'[l].event = lane[l].event
      /\ lane'[l].card = lane[l].card /\ lane'[l].answer.code # "ok"
  BY <1>1, <1>2, PageParts, LaneAnswered
<1>4. \A k \in Lanes : /\ lane'[k].step = lane[k].step /\ lane'[k].event = lane[k].event
                       /\ lane'[k].card = lane[k].card
                       /\ lane'[k].answer = lane[k].answer \/ lane'[k].answer.code # "ok"
  BY <1>3
<1>5. Tracked(review', lane'["opening"]) <=> Tracked(review, lane["opening"])
  BY <1>2, <1>4, PageParts DEF Tracked
<1>6. ASSUME OnLine(worker, review, lane["grading"], lane["undoing"])
      PROVE  OnLine(worker', review', lane'["grading"], lane'["undoing"])
  <2>. DEFINE g == lane["grading"]
              h == lane'["grading"]
              u == lane["undoing"]
              x == lane'["undoing"]
  <2>1. /\ h.step = g.step /\ h.event = g.event /\ h.card = g.card
        /\ h.answer = g.answer \/ h.answer.code # "ok"
    BY <1>4, PageParts
  <2>2. /\ x.step = u.step /\ x.event = u.event
        /\ x.answer = u.answer \/ x.answer.code # "ok"
    BY <1>4, PageParts
  <2>3. OnLine(worker, review, g, u)
    BY <1>6
  <2>. HIDE DEF g, h, u, x
  <2>4. OnLine(worker, review, h, x)
    BY <2>1, <2>2, <2>3, SameLine
  <2> QED BY <1>2, <2>4 DEF h, x
<1> QED BY <1>2, <1>5, <1>6 DEF StepInv

LEMMA StepExpired ==
  ASSUME PageInv, StepInv, NEW s \in DOMAIN worker.sessions, SessionExpires(s)
  PROVE  StepInv'
<1>1. /\ UNCHANGED <<review, lane, late, reveals, parted>> /\ worker'.log = worker.log
      /\ \A t \in DOMAIN worker.sessions :
           /\ worker'.sessions[t].position = worker.sessions[t].position
           /\ worker'.sessions[t].queue = worker.sessions[t].queue
  BY ExpiredPage
<1>2. SUFFICES ASSUME ~parted, Tracked(review, lane["opening"])
               PROVE  OnLine(worker', review', lane'["grading"], lane'["undoing"])
  BY <1>1 DEF StepInv
<1>3. OnLine(worker, review, lane["grading"], lane["undoing"])
  BY <1>2 DEF StepInv
<1> QED BY <1>1, <1>2, <1>3, PageParts, SameLine

LEMMA StepLate ==
  ASSUME PageInv, StepInv, NEW call \in late, LateServed(call)
  PROVE  StepInv'
BY LatePage DEF StepInv

(* Nothing is tracked until a session is chosen.                           *)
LEMMA Untracked ==
  ASSUME PageInv', ~OnPage(review'), ~review'.settled, lane'["opening"].step # "contents"
  PROVE  StepInv'
BY DEF StepInv, Tracked

LEMMA StepSelect ==
  ASSUME PageInv, OpeningContinues, lane["opening"].step \in {"get", "create"},
         lane["opening"].answer.code = "ok", Select(lane["opening"].answer),
         parted' = (lane["opening"].answer.position # Position(lane["opening"].answer.id))
  PROVE  StepInv'
<1>1. /\ PageInv' /\ review'.session = lane["opening"].answer.id
      /\ review'.index = lane["opening"].answer.position
      /\ review'.event = 0 /\ review'.lastEvent = 0 /\ ~OnPage(review')
  BY SelectPage
<1>2. worker' = worker
  BY DEF OpeningContinues
<1>3. SUFFICES ASSUME ~parted'
               PROVE  OnLine(worker', review', lane'["grading"], lane'["undoing"])
  BY DEF StepInv
<1>4. At(worker', review') = review'.index
  BY <1>1, <1>2, <1>3 DEF At, Position
<1>5. ~LoggedIn(worker', review'.event)
  BY <1>1, <1>2, PageParts, EventFacts
<1>6. lane'["grading"].step = "none" /\ lane'["undoing"].step = "none"
  BY <1>1 DEF PageInv, Lanewise
<1>7. InLine(worker', review', lane'["grading"], lane'["undoing"])
  BY <1>1, <1>4, <1>5, <1>6 DEF InLine, Accepted
<1>8. RatesThis(worker', review', lane'["grading"])
  BY <1>6 DEF RatesThis
<1> QED BY <1>7, <1>8 DEF OnLine

LEMMA StepSettle ==
  ASSUME PageInv, StepInv, OpeningContinues, lane["opening"].step = "contents",
         review' = [review EXCEPT !.settled = TRUE], Return("opening"), UNCHANGED parted
  PROVE  StepInv'
<1>1. /\ review'.session = review.session /\ review'.index = review.index
      /\ review'.event = review.event /\ review'.lastEvent = review.lastEvent
  BY SettlePage
<1>2. lane' = [lane EXCEPT !["opening"] = NoCall] /\ worker' = worker
  BY DEF Return, Await, OpeningContinues
<1>3. lane'["grading"] = lane["grading"] /\ lane'["undoing"] = lane["undoing"]
  BY <1>2, PageParts
<1>4. Tracked(review, lane["opening"])
  BY DEF Tracked
<1>5. ASSUME OnLine(worker, review, lane["grading"], lane["undoing"])
      PROVE  OnLine(worker', review', lane'["grading"], lane'["undoing"])
  BY <1>1, <1>2, <1>3, <1>5, SameLine
<1> QED BY <1>4, <1>5 DEF StepInv

LEMMA StepOpening ==
  ASSUME PageInv, StepInv, OpeningContinues
  PROVE  StepInv'
<1>. DEFINE o == lane["opening"]
<1>1. o.step # "none"
  BY DEF OpeningContinues, Answered
<1>2. CASE /\ o.step = "list" /\ Settled("opening") /\ o.answer.id # 0
           /\ Await("opening", Calling("get", o.answer.id, 0, 0))
           /\ UNCHANGED <<review, parted>>
  BY <1>2, GetPage, Untracked DEF Settled
<1>3. CASE /\ o.step \in {"get", "create"} /\ Settled("opening") /\ Select(o.answer)
           /\ parted' = (o.answer.position # Position(o.answer.id))
  BY <1>3, StepSelect DEF Settled
<1>4. CASE /\ o.step = "contents" /\ review' = [review EXCEPT !.settled = TRUE]
           /\ Return("opening") /\ UNCHANGED parted
  BY <1>4, StepSettle
<1>5. CASE review' = BackToIdle(review) /\ Return("opening") /\ UNCHANGED parted
  <2>1. PageInv' /\ review'.phase = "IDLE"
    BY <1>1, <1>5, IdlePage
  <2>2. ~OnPage(review') /\ ~review'.settled
    BY <2>1 DEF PageInv, Lanewise, OnPage
  <2>3. lane'["opening"].step = "none"
    BY <2>1 DEF PageInv, Lanewise
  <2> QED BY <2>1, <2>2, <2>3, Untracked
<1> QED BY <1>2, <1>3, <1>4, <1>5 DEF OpeningContinues

LEMMA StepDerive ==
  ASSUME PageInv, StepInv, Derive
  PROVE  StepInv'
<1>1. /\ UNCHANGED <<worker, lane, late, reveals, parted>>
      /\ review'.session = review.session /\ review'.index = review.index
      /\ review'.event = review.event /\ review'.lastEvent = review.lastEvent
  BY DerivePage
<1>2. Tracked(review, lane["opening"])
  BY DEF Derive, Tracked
<1>3. ASSUME OnLine(worker, review, lane["grading"], lane["undoing"])
      PROVE  OnLine(worker', review', lane'["grading"], lane'["undoing"])
  BY <1>1, <1>3, SameLine
<1> QED BY <1>1, <1>2, <1>3 DEF StepInv

LEMMA StepReveal ==
  ASSUME PageInv, StepInv, Reveal
  PROVE  StepInv'
<1>. DEFINE g == lane["grading"]
            u == lane["undoing"]
            e == review'.event
<1>1. /\ UNCHANGED <<worker, lane, late, parted>> /\ OnPage(review) /\ review.event = 0
      /\ review'.session = review.session /\ review'.index = review.index
      /\ review'.lastEvent = review.lastEvent /\ e \notin DOMAIN reveals
  BY RevealPage
<1>. HIDE DEF e
<1>2. SUFFICES ASSUME ~parted PROVE OnLine(worker, review', g, u)
  BY <1>1 DEF StepInv
<1>3. OnLine(worker, review, g, u)
  BY <1>1, <1>2 DEF StepInv, Tracked
<1>4. ~LoggedIn(worker, 0) /\ ~LoggedIn(worker, e) /\ ~LatestEvent(worker, 0)
  BY <1>1, PageParts, EventFacts
<1>5. At(worker, review') = At(worker, review)
        /\ CardIn(worker, review'.session, review'.index)
             = CardIn(worker, review.session, review.index)
  BY <1>1 DEF At
<1>6. InLine(worker, review', g, u)
  BY <1>1, <1>3, <1>4, <1>5 DEF OnLine, InLine, e
<1>7. g.step # "none" => g.event \in DOMAIN reveals /\ g.event # 0
  <2>1. 0 \notin DOMAIN reveals
    BY PageParts, LenProperties
  <2> QED BY <2>1, PageParts DEF Names
<1>8. CASE g.step = "none"
  BY <1>6, <1>8 DEF OnLine, RatesThis
<1>9. CASE g.step # "none"
  <2>1. RatesPast(worker, review, g, u)
    BY <1>1, <1>3, <1>7, <1>9 DEF OnLine, RatesThis
  <2>2. RatesPast(worker, review', g, u)
    BY <1>1, <1>4, <1>5, <1>7, <1>9, <2>1 DEF RatesPast, e
  <2> QED BY <1>6, <2>2 DEF OnLine
<1> QED BY <1>8, <1>9

LEMMA StepRate ==
  ASSUME PageInv, StepInv, Rate
  PROVE  StepInv'
<1>. DEFINE g == lane["grading"]
            h == lane'["grading"]
            u == lane["undoing"]
<1>1. /\ UNCHANGED <<worker, late, reveals, parted>> /\ OnPage(review)
      /\ review'.session = review.session /\ review'.index = review.index
      /\ review'.event = review.event /\ review'.lastEvent = review.lastEvent
      /\ lane'["undoing"] = u /\ h.step = "grade" /\ h.event = review.event
      /\ h.card = CardIn(worker, review.session, review.index) /\ h.answer = NoAnswer
  BY RatePage
<1>2. SUFFICES ASSUME ~parted PROVE OnLine(worker, review', h, u)
  BY <1>1 DEF StepInv
<1>3. OnLine(worker, review, g, u)
  BY <1>1, <1>2 DEF StepInv, Tracked
<1>. HIDE DEF h
<1>4. h.answer.code # "ok"
  BY <1>1 DEF NoAnswer
<1>5. InLine(worker, review', h, u)
  BY <1>1, <1>3, <1>4 DEF OnLine, InLine, At
<1>6. RatesThis(worker, review', h)
  BY <1>1 DEF RatesThis
<1> QED BY <1>5, <1>6 DEF OnLine

(* The grade is known: it is the newest of all, so no undo of it is served *)
(* yet and the page is where the session is.                               *)
LEMMA StepGradeKnown ==
  ASSUME PageInv, StepInv, GradingContinues, lane["grading"].step = "reread",
         lane["grading"].answer.code = "ok", Return("grading"),
         review' = GradeAdvanced(review, lane["grading"].answer, lane["grading"].event)
  PROVE  StepInv'
<1>. DEFINE g == lane["grading"]
            u == lane["undoing"]
<1>1. /\ OnPage(review) /\ lane'["undoing"] = u /\ lane'["grading"] = NoCall
      /\ review'.session = review.session /\ review'.event = 0
      /\ review'.lastEvent = g.event /\ review'.index = g.answer.position
  BY GradeKnownPage
<1>2. UNCHANGED <<worker, parted>>
  BY DEF GradingContinues
<1>3. SUFFICES ASSUME ~parted PROVE OnLine(worker, review', NoCall, u)
  BY <1>1, <1>2 DEF StepInv
<1>4. OnLine(worker, review, g, u)
  BY <1>1, <1>3 DEF StepInv, Tracked
<1>5. InLine(worker, review, g, u) /\ g.event = review.event
  BY <1>4 DEF OnLine, RatesThis, RatesPast
<1>6. /\ ~Accepted(worker, u) /\ LatestEvent(worker, review.event)
      /\ At(worker, review) = review.index + 1 /\ g.answer.position = At(worker, review)
  BY <1>5 DEF InLine
<1>7. ~UndoneIn(worker, g.event) /\ ~LoggedIn(worker, 0)
  BY <1>5, <1>6, PageParts, EventFacts
<1>8. At(worker, review') = review'.index /\ review'.index # 0
  <2>1. review.index \in Nat
    BY PageParts DEF MachineStates
  <2> QED BY <1>1, <1>6, <2>1 DEF At
<1>9. InLine(worker, review', NoCall, u)
  BY <1>1, <1>5, <1>6, <1>7, <1>8, NoCallIsCall DEF InLine
<1> QED BY <1>9, NoCallIsCall DEF OnLine, RatesThis

LEMMA StepGrading ==
  ASSUME PageInv, StepInv, GradingContinues
  PROVE  StepInv'
<1>. DEFINE g == lane["grading"]
            u == lane["undoing"]
<1>1. UNCHANGED <<worker, parted>>
  BY DEF GradingContinues
<1>2. g.step # "none"
  BY DEF GradingContinues, Answered
<1>3. CASE /\ g.step = "grade" /\ g.answer.code = "ok" /\ UNCHANGED review
           /\ Await("grading", Calling("reread", g.session, g.event, 0))
  <2>. DEFINE h == lane'["grading"]
  <2>1. /\ lane'["opening"] = lane["opening"] /\ lane'["undoing"] = u
        /\ h.step = "reread" /\ h.event = g.event /\ h.answer = NoAnswer
    BY <1>3, GradeAckedPage
  <2>. HIDE DEF h
  <2>2. h.answer.code # "ok"
    BY <2>1 DEF NoAnswer
  <2>3. ASSUME OnLine(worker, review, g, u) PROVE OnLine(worker, review, h, u)
    <3>1. InLine(worker, review, g, u) /\ LoggedIn(worker, g.event)
      BY <1>3, <2>3 DEF OnLine, InLine
    <3>2. g.event = review.event
      BY <1>3, <2>3, <3>1 DEF OnLine, RatesThis, RatesPast
    <3>3. InLine(worker, review, h, u)
      BY <2>1, <2>2, <3>1 DEF InLine
    <3> QED BY <2>1, <3>2, <3>3 DEF OnLine, RatesThis
  <2> QED BY <1>1, <1>3, <2>1, <2>3 DEF StepInv, h
<1>4. CASE /\ g.step = "reread" /\ g.answer.code = "ok" /\ Return("grading")
           /\ review' = GradeAdvanced(review, g.answer, g.event)
  BY <1>4, StepGradeKnown
<1>5. CASE review' = [review EXCEPT !.gradePending = FALSE] /\ Return("grading")
  <2>1. /\ OnPage(review) /\ lane'["undoing"] = u /\ lane'["grading"] = NoCall
        /\ review'.session = review.session /\ review'.event = review.event
        /\ review'.lastEvent = review.lastEvent /\ review'.index = review.index
    BY <1>5, GradeFailedPage
  <2>2. ASSUME OnLine(worker, review, g, u) PROVE OnLine(worker, review', NoCall, u)
    <3>1. InLine(worker, review', NoCall, u)
      BY <2>1, <2>2, NoCallIsCall DEF OnLine, InLine, At
    <3> QED BY <3>1, NoCallIsCall DEF OnLine, RatesThis
  <2> QED BY <1>1, <2>1, <2>2 DEF StepInv, Tracked
<1> QED BY <1>3, <1>4, <1>5 DEF GradingContinues, Settled

LEMMA StepUndo ==
  ASSUME PageInv, StepInv, Undo
  PROVE  StepInv'
<1>. DEFINE g == lane["grading"]
            u == lane["undoing"]
            x == lane'["undoing"]
<1>1. /\ UNCHANGED <<worker, late, reveals, parted>> /\ OnPage(review)
      /\ review.lastEvent # 0 /\ u.step = "none"
      /\ review'.session = review.session /\ review'.index = review.index
      /\ review'.event = review.event /\ review'.lastEvent = review.lastEvent
      /\ lane'["grading"] = g
      /\ x.step = "undo" /\ x.event = review.lastEvent /\ x.answer = NoAnswer
  BY UndoPage
<1>. HIDE DEF x
<1>2. SUFFICES ASSUME ~parted PROVE OnLine(worker, review', g, x)
  BY <1>1 DEF StepInv, x
<1>3. OnLine(worker, review, g, u)
  BY <1>1, <1>2 DEF StepInv, Tracked
<1>4. InLine(worker, review, g, u) /\ RatesThis(worker, review, g)
  BY <1>1, <1>3 DEF OnLine, RatesPast
<1>5. ~Accepted(worker, u) /\ ~Accepted(worker, x)
  BY <1>1, <1>4 DEF InLine, Accepted
<1>6. x.answer.code # "ok"
  BY <1>1 DEF NoAnswer
<1>7. InLine(worker, review', g, x)
  BY <1>1, <1>4, <1>5, <1>6 DEF InLine, At
<1>8. RatesThis(worker, review', g)
  BY <1>1, <1>4 DEF RatesThis
<1> QED BY <1>7, <1>8 DEF OnLine

(* The undo is known: a rating still under way was of the card it took off *)
(* the screen, and is not recorded.                                        *)
LEMMA StepUndoKnown ==
  ASSUME PageInv, StepInv, UndoingContinues, lane["undoing"].step = "reread",
         lane["undoing"].answer.code = "ok", Return("undoing"), UNCHANGED parted,
         review' = UndoDone(review, lane["undoing"].answer)
  PROVE  StepInv'
<1>. DEFINE g == lane["grading"]
            u == lane["undoing"]
            n == review.index
            s == review.session
            q == worker.sessions[s].queue
<1>1. /\ OnPage(review) /\ lane'["grading"] = g /\ lane'["undoing"] = NoCall
      /\ review'.session = s /\ review'.event = 0 /\ review'.lastEvent = 0
      /\ review'.index = u.answer.position
  BY UndoKnownPage
<1>2. worker' = worker
  BY DEF UndoingContinues
<1>3. SUFFICES ASSUME ~parted PROVE OnLine(worker, review', g, NoCall)
  BY <1>1, <1>2 DEF StepInv
<1>4. OnLine(worker, review, g, u)
  BY <1>1, <1>3 DEF StepInv, Tracked
<1>5. InLine(worker, review, g, u) /\ RatesThis(worker, review, g)
  BY <1>4 DEF OnLine, RatesPast
<1>6. /\ At(worker, review) + 1 = n /\ ~LoggedIn(worker, review.event)
      /\ review'.index = At(worker, review)
  BY <1>1, <1>5 DEF InLine
<1>7. /\ s \in DOMAIN worker.sessions /\ n \in Nat /\ At(worker, review) \in Nat
      /\ q \in Seq(ReviewCards) /\ Distinct(q)
  BY <1>1, PageParts, WorkerParts DEF Tracked, MachineStates, At, WorkerSound
<1>8. ~LoggedIn(worker, 0) /\ ~Accepted(worker, NoCall)
  BY PageParts, EventFacts, NoCallIsCall DEF Accepted
<1>9. g.step # "none" => g.step = "grade" /\ ~LoggedIn(worker, g.event) /\ g.event # 0
  <2>1. g.step # "none" => g.event \in DOMAIN reveals /\ g.step \in {"grade", "reread"}
    BY PageParts DEF Names, Lanewise
  <2>2. 0 \notin DOMAIN reveals
    BY PageParts, LenProperties
  <2> QED BY <1>5, <1>6, <2>1, <2>2 DEF InLine, RatesThis
<1>10. At(worker, review') = review'.index
  BY <1>1, <1>6 DEF At
<1>11. InLine(worker, review', g, NoCall)
  BY <1>1, <1>5, <1>8, <1>9, <1>10, NoCallIsCall DEF InLine
<1>12. CASE g.step = "none"
  BY <1>11, <1>12 DEF OnLine, RatesThis
<1>13. CASE g.step # "none"
  <2>1. g.card = CardIn(worker, s, n) /\ g.card # 0
    <3>1. g.step = "grade" /\ g.card \in ReviewCards
      BY <1>9, <1>13, PageParts DEF Addressed
    <3> QED BY <1>5, <3>1, ReviewBounds DEF RatesThis
  <2>2. n < Len(q) /\ g.card = q[n + 1]
    BY <2>1 DEF CardIn
  <2>. DEFINE p == At(worker, review)
  <2>3. p + 1 = n /\ p \in Nat /\ review'.index = p
    BY <1>6, <1>7
  <2>. HIDE DEF p
  <2>. HIDE DEF n, q
  <2>4. p + 1 \in DOMAIN q /\ n + 1 \in DOMAIN q /\ p + 1 # n + 1
    BY <1>7, <2>2, <2>3
  <2>5. q[p + 1] # g.card
    BY <1>7, <2>2, <2>4 DEF Distinct
  <2>6. p < Len(q)
    BY <1>7, <2>2, <2>3
  <2>7. CardIn(worker, s, p) = q[p + 1]
    BY <2>6 DEF CardIn, q
  <2>8. RatesPast(worker, review', g, NoCall)
    BY <1>1, <1>8, <1>9, <1>13, <2>3, <2>5, <2>7, NoCallIsCall DEF RatesPast
  <2> QED BY <1>11, <2>8 DEF OnLine
<1> QED BY <1>12, <1>13

LEMMA StepUndoing ==
  ASSUME PageInv, StepInv, UndoingContinues
  PROVE  StepInv'
<1>. DEFINE g == lane["grading"]
            u == lane["undoing"]
<1>1. worker' = worker
  BY DEF UndoingContinues
<1>2. u.step # "none"
  BY DEF UndoingContinues, Answered
<1>3. CASE /\ u.step = "undo" /\ u.answer.code = "ok" /\ UNCHANGED <<review, parted>>
           /\ Await("undoing", Calling("reread", u.session, u.event, 0))
  <2>. DEFINE x == lane'["undoing"]
  <2>1. /\ lane'["opening"] = lane["opening"] /\ lane'["grading"] = g
        /\ x.step = "reread" /\ x.event = u.event /\ x.answer = NoAnswer
    BY <1>3, UndoAckedPage
  <2>. HIDE DEF x
  <2>2. x.answer.code # "ok"
    BY <2>1 DEF NoAnswer
  <2>3. ASSUME OnLine(worker, review, g, u) PROVE OnLine(worker, review, g, x)
    <3>1. InLine(worker, review, g, u) /\ Accepted(worker, u)
            /\ RatesThis(worker, review, g)
      BY <1>3, <2>3 DEF OnLine, InLine, RatesPast
    <3>2. Accepted(worker, x)
      BY <2>1, <3>1 DEF Accepted
    <3>3. InLine(worker, review, g, x)
      BY <1>2, <2>1, <2>2, <3>1, <3>2 DEF InLine
    <3> QED BY <3>1, <3>3 DEF OnLine
  <2> QED BY <1>1, <1>3, <2>1, <2>3 DEF StepInv, x
<1>4. CASE /\ u.step = "reread" /\ u.answer.code = "ok" /\ Return("undoing")
           /\ review' = UndoDone(review, u.answer) /\ UNCHANGED parted
  BY <1>4, StepUndoKnown
<1>5. CASE /\ review' = UndoFailed(review) /\ Return("undoing")
           /\ parted' = (parted \/ \E i \in DOMAIN worker.log :
                                      worker.log[i].event = u.event /\ worker.log[i].undone)
  <2>1. parted' \in BOOLEAN
    BY <1>5 DEF PageInv, ReviewTypes
  <2>2. /\ OnPage(review) /\ lane'["grading"] = g /\ lane'["undoing"] = NoCall
        /\ review'.session = review.session /\ review'.event = review.event
        /\ review'.lastEvent = 0 /\ review'.index = review.index
    BY <1>5, <2>1, UndoFailedPage
  <2>3. ~parted' => ~parted /\ ~Accepted(worker, u)
    BY <1>5 DEF Accepted, UndoneIn
  <2>4. ASSUME OnLine(worker, review, g, u), ~Accepted(worker, u)
        PROVE  OnLine(worker, review', g, NoCall)
    <3>1. InLine(worker, review, g, u) /\ RatesThis(worker, review, g)
      BY <1>2, <2>4 DEF OnLine, RatesPast
    <3>2. ~Accepted(worker, NoCall)
      BY NoCallIsCall DEF Accepted
    <3>3. InLine(worker, review', g, NoCall)
      BY <2>2, <2>4, <3>1, <3>2, NoCallIsCall DEF InLine, At
    <3>4. RatesThis(worker, review', g)
      BY <2>2, <3>1 DEF RatesThis
    <3> QED BY <3>3, <3>4 DEF OnLine
  <2> QED BY <1>1, <2>2, <2>3, <2>4 DEF StepInv, Tracked
<1> QED BY <1>3, <1>4, <1>5 DEF UndoingContinues, Settled

LEMMA StepInit == ReviewInit => StepInv
<1>. SUFFICES ASSUME ReviewInit PROVE StepInv
  OBVIOUS
<1>1. /\ review = Mounted
      /\ lane = [l \in Lanes |-> IF l = "opening" THEN Calling("list", 0, 0, 0) ELSE NoCall]
  BY DEF ReviewInit
<1>2. lane["opening"].step = "list" /\ ~review.settled /\ ~OnPage(review)
  BY <1>1, MountedLanes, MountedPage DEF OnPage
<1> QED BY <1>2 DEF StepInv, Tracked

LEMMA StepNext == PageInv /\ PageInv' /\ StepInv /\ [ReviewNext]_reviewVars => StepInv'
<1>. SUFFICES ASSUME PageInv, PageInv', StepInv, [ReviewNext]_reviewVars PROVE StepInv'
  OBVIOUS
<1>1. CASE \E l \in Lanes : WorkerServes(l)
  BY <1>1, StepServed
<1>2. CASE \E l \in Lanes : Lose(l)
  BY <1>2, StepLost
<1>3. CASE \E s \in DOMAIN worker.sessions : SessionExpires(s)
  BY <1>3, StepExpired
<1>4. CASE \E call \in late : LateServed(call)
  BY <1>4, StepLate
<1>5. CASE BootSettles \/ UNCHANGED reviewVars
  BY <1>5 DEF BootSettles, reviewVars, StepInv
<1>6. CASE Start
  BY <1>6, StartPage, Untracked
<1>7. CASE OpeningContinues
  BY <1>7, StepOpening
<1>8. CASE Derive
  BY <1>8, StepDerive
<1>9. CASE Reveal
  BY <1>9, StepReveal
<1>10. CASE Rate
  BY <1>10, StepRate
<1>11. CASE GradingContinues
  BY <1>11, StepGrading
<1>12. CASE Undo
  BY <1>12, StepUndo
<1>13. CASE UndoingContinues
  BY <1>13, StepUndoing
<1>14. CASE Remount
  BY <1>14, RemountPage, Untracked
<1> QED BY <1>1, <1>2, <1>3, <1>4, <1>5, <1>6, <1>7, <1>8, <1>9, <1>10, <1>11, <1>12,
           <1>13, <1>14 DEF ReviewNext

(* With no rating or undo under way the page shows the card the worker     *)
(* expects next, or one whose rating is recorded and will be replayed with *)
(* the same id, unless an undo or an abandoned request was served of which *)
(* the page knows nothing (useReviewSession.ts:327-398).                   *)
THEOREM PageInStep == ReviewSpec => []InStep
<1>1. PageInv /\ StepInv => InStep
  <2>. SUFFICES ASSUME PageInv, StepInv, OnPage(review), ~review.gradePending,
                       ~review.undoPending, ~parted
                PROVE  \/ Position(review.session) = review.index
                       \/ /\ Position(review.session) = review.index + 1
                          /\ Logged(review.event)
    BY DEF InStep, OnPage
  <2>1. InLine(worker, review, lane["grading"], lane["undoing"])
    BY DEF StepInv, Tracked, OnLine
  <2>2. ~Accepted(worker, lane["undoing"])
    BY PageParts DEF Lanewise, Accepted
  <2>3. LatestEvent(worker, review.event) => LoggedIn(worker, review.event)
    BY PageParts, EventFacts
  <2> QED BY <2>1, <2>2, <2>3 DEF InLine, At, Position, Logged, LoggedIn
<1>2. ReviewInit => PageInv /\ StepInv
  BY PageInit, StepInit
<1>3. (PageInv /\ StepInv) /\ [ReviewNext]_reviewVars => (PageInv /\ StepInv)'
  BY PageNext, StepNext
<1> QED BY <1>1, <1>2, <1>3, PTL DEF ReviewSpec

------------------------------------------------------------------------------
(***************************************************************************)
(* The learning page.  A word is held for recorded only after the answer   *)
(* that recorded it, or after a resume that read it, and a record is never *)
(* taken back.  The queue an event id was made from stays until the id is  *)
(* used up, since a session is only created before the first word.         *)
(***************************************************************************)

(* The reducer m against the records r and the history s.                  *)
LearnerSound(r, m, s) ==
  /\ DOMAIN m = DOMAIN Setup /\ DOMAIN m.presentation = LearnWords
  /\ \A w \in LearnWords : m.presentation[w] = "acked" => w \in r.presented
  /\ m.event # 0 =>
       m.phase # "SETUP" /\ m.event \in DOMAIN s /\ s[m.event] = r.queue[m.index + 1]

Asks == {"none", "create", "resume", "present", "familiar", "grade", "reread", "summary"}

(* What function f may be waiting for.                                     *)
Rightful(r, s, f, call) ==
  /\ DOMAIN call = DOMAIN None /\ call.step \in Asks
  /\ call.step = "none" => call.code = "none"
  /\ call.step = "present" /\ call.code = "ok" /\ call.word \in LearnWords
       => call.word \in r.presented
  /\ call.step = "grade" => call.event \in DOMAIN s /\ s[call.event] = call.word
  /\ call.step = "create" => f = "starting"
  /\ f = "presenting" => call.step \in {"none", "present"}

(* The requests w, while the page is in a phase.                           *)
RequestsSound(r, phase, w, s) ==
  /\ DOMAIN w = Functions /\ \A f \in Functions : Rightful(r, s, f, w[f])
  /\ w["starting"].step # "none" => phase = "SETUP"
  /\ w["rating"].step # "none" => phase # "SETUP"

IsSequence(s) == s \in Seq(Members(s))

RecordsSound(r, s) ==
  /\ DOMAIN r = DOMAIN FreshStart /\ IsSequence(r.log) /\ IsSequence(s)
  /\ \A i \in DOMAIN r.log : r.log[i].event \in DOMAIN s /\ s[r.log[i].event] = r.log[i].card

LearnInv ==
  /\ LearnerSound(records, learn, sights)
  /\ RequestsSound(records, learn.phase, work, sights)
  /\ RecordsSound(records, sights)

LEMMA OneMore ==
  ASSUME NEW s, IsSequence(s), NEW e, NEW t, t = Append(s, e)
  PROVE  /\ IsSequence(t) /\ Len(s) \in Nat /\ Len(s) + 1 \notin DOMAIN s
         /\ DOMAIN t = DOMAIN s \cup {Len(s) + 1} /\ t[Len(s) + 1] = e
         /\ \A i \in DOMAIN s : t[i] = s[i]
<1>. DEFINE T == Members(s) \cup {e}
<1>1. s \in Seq(T) /\ e \in T
  BY DEF IsSequence, Members
<1>. HIDE DEF T
<1>2. /\ t \in Seq(T) /\ Len(t) = Len(s) + 1 /\ t[Len(s) + 1] = e /\ Len(s) \in Nat
      /\ \A i \in 1 .. Len(s) : t[i] = s[i]
  BY <1>1, AppendProperties
<1>3. DOMAIN s = 1 .. Len(s) /\ DOMAIN t = 1 .. Len(s) + 1
  BY <1>1, <1>2, LenProperties
<1>4. t \in Seq(Members(t))
  BY <1>2 DEF Members
<1> QED BY <1>2, <1>3, <1>4 DEF IsSequence

LEMMA RequestMade ==
  ASSUME NEW step \in Asks, step # "none", NEW w, NEW e, NEW r, r = Request(step, w, e),
         NEW rec, NEW s, NEW f \in Functions,
         step = "grade" => e \in DOMAIN s /\ s[e] = w, step = "create" => f = "starting",
         f = "presenting" => step = "present"
  PROVE  /\ Rightful(rec, s, f, r) /\ r.step = step /\ r.word = w /\ r.event = e
         /\ r.code = "none"
<1>1. /\ DOMAIN r = DOMAIN None /\ r.step = step /\ r.word = w /\ r.event = e
      /\ r.code = "none"
  BY DEF Request, None
<1> QED BY <1>1 DEF Rightful

LEMMA NoneAsked ==
  /\ None.step = "none"
  /\ \A r, s : \A f \in Functions : Rightful(r, s, f, None)
BY DEF None, Asks, Rightful

(* The reducer moves on: what it holds for recorded was already, and an    *)
(* event id is kept with its place or dropped.                             *)
LEMMA LearnerMoves ==
  ASSUME NEW r, NEW m, NEW s, LearnerSound(r, m, s), NEW n,
         DOMAIN n = DOMAIN m, DOMAIN n.presentation = LearnWords,
         \A w \in LearnWords : n.presentation[w] = "acked" => w \in r.presented,
         n.event = 0 \/ (n.event = m.event /\ n.index = m.index
                          /\ (n.phase = "SETUP" => m.phase = "SETUP"))
  PROVE  LearnerSound(r, n, s)
BY DEF LearnerSound

(* A function sends a request or returns.                                  *)
LEMMA RequestsMove ==
  ASSUME NEW r, NEW phase, NEW w, NEW s, RequestsSound(r, phase, w, s),
         NEW f \in Functions, NEW call, Rightful(r, s, f, call),
         NEW next, f = "starting" /\ call.step # "none" => next = "SETUP",
         f = "rating" /\ call.step # "none" => next # "SETUP",
         f # "starting" /\ w["starting"].step # "none" => next = "SETUP",
         f # "rating" /\ w["rating"].step # "none" => next # "SETUP",
         NEW v, v = [w EXCEPT ![f] = call]
  PROVE  RequestsSound(r, next, v, s)
<1>1. DOMAIN w = Functions
  BY DEF RequestsSound
<1>2. DOMAIN v = Functions /\ \A g \in Functions : v[g] = IF g = f THEN call ELSE w[g]
  BY <1>1
<1>3. "starting" \in Functions /\ "rating" \in Functions
  BY DEF Functions
<1> QED BY <1>2, <1>3 DEF RequestsSound

LEMMA RequestsStay ==
  ASSUME NEW r, NEW phase, NEW w, NEW s, RequestsSound(r, phase, w, s), NEW next,
         next = "SETUP" <=> phase = "SETUP"
  PROVE  RequestsSound(r, next, w, s)
BY DEF RequestsSound

LEMMA PresentedField ==
  ASSUME NEW m, DOMAIN m = DOMAIN Setup, DOMAIN m.presentation = LearnWords, NEW w, NEW state,
         NEW n, n = Presented(m, w, state)
  PROVE  /\ DOMAIN n = DOMAIN m /\ DOMAIN n.presentation = LearnWords
         /\ \A x \in LearnWords :
              n.presentation[x] = IF x = w THEN state ELSE m.presentation[x]
         /\ n.phase = m.phase /\ n.event = m.event /\ n.index = m.index
BY DEF Presented, Setup

LEMMA RendersSound ==
  ASSUME NEW r, NEW s, NEW m, NEW w, NEW ls,
         LearnerSound(r, m, s), RequestsSound(r, m.phase, w, s), Renders(m, w, ls)
  PROVE  LearnerSound(r, learn', s) /\ RequestsSound(r, learn'.phase, work', s)
<1>1. CASE learn' = m /\ work' = w
  BY <1>1
<1>2. CASE /\ learn' = Presented(m, Visible(m), "pending")
           /\ work' = [w EXCEPT !["presenting"] = Request("present", Visible(m), 0)]
  <2>. DEFINE call == Request("present", Visible(m), 0)
  <2>1. Rightful(r, s, "presenting", call) /\ work' = [w EXCEPT !["presenting"] = call]
    BY <1>2, RequestMade DEF Asks, Functions
  <2>. HIDE DEF call
  <2>2. DOMAIN m = DOMAIN Setup /\ DOMAIN m.presentation = LearnWords
    BY DEF LearnerSound
  <2>3. /\ DOMAIN learn' = DOMAIN m /\ DOMAIN learn'.presentation = LearnWords
        /\ \A x \in LearnWords :
             learn'.presentation[x] = "acked" => m.presentation[x] = "acked"
        /\ learn'.phase = m.phase /\ learn'.event = m.event /\ learn'.index = m.index
    BY <1>2, <2>2, PresentedField
  <2>4. LearnerSound(r, learn', s)
    BY <2>3, LearnerMoves DEF LearnerSound
  <2>5. /\ w["starting"].step # "none" => m.phase = "SETUP"
        /\ w["rating"].step # "none" => m.phase # "SETUP"
    BY DEF RequestsSound
  <2>6. "presenting" \in Functions /\ "presenting" # "starting" /\ "presenting" # "rating"
    BY DEF Functions
  <2>7. RequestsSound(r, m.phase, work', s)
    BY <2>1, <2>5, <2>6, RequestsMove
  <2> QED BY <2>3, <2>4, <2>7
<1> QED BY <1>1, <1>2 DEF Renders

(* The answer that holds a word for recorded is the one that recorded it.  *)
LEMMA SettlesSound ==
  ASSUME NEW r, NEW m, NEW s, LearnerSound(r, m, s), NEW w, NEW code,
         code = "ok" /\ w \in LearnWords => w \in r.presented,
         NEW n, n = PresentationSettles(m, w, code)
  PROVE  LearnerSound(r, n, s) /\ n.phase = m.phase
<1>1. DOMAIN m = DOMAIN Setup /\ DOMAIN m.presentation = LearnWords
  BY DEF LearnerSound
<1>. DEFINE out == Outcome(code)
            key == IF m.key = w THEN Generic ELSE m.key
<1>2. n = [m EXCEPT !.presentation[w] = out, !.key = key]
  BY DEF PresentationSettles
<1>3. out = "acked" => code = "ok"
  BY DEF Outcome
<1>. HIDE DEF out, key
<1>4. /\ DOMAIN n = DOMAIN m /\ DOMAIN n.presentation = LearnWords
      /\ \A x \in LearnWords : n.presentation[x] = IF x = w THEN out ELSE m.presentation[x]
      /\ n.phase = m.phase /\ n.event = m.event /\ n.index = m.index
  BY <1>1, <1>2 DEF Setup
<1>5. \A x \in LearnWords : n.presentation[x] = "acked" => x \in r.presented
  BY <1>3, <1>4 DEF LearnerSound
<1> QED BY <1>4, <1>5, LearnerMoves

(* The records only grow, and a queue with a card on the screen stays.     *)
LEMMA RecordsGrow ==
  ASSUME NEW r, NEW m, NEW w, NEW s, LearnerSound(r, m, s), RequestsSound(r, m.phase, w, s),
         NEW q, r.presented \subseteq q.presented, m.event # 0 => q.queue = r.queue
  PROVE  LearnerSound(q, m, s) /\ RequestsSound(q, m.phase, w, s)
BY DEF LearnerSound, RequestsSound, Rightful

(* A request is answered; it asks what it asked.                           *)
LEMMA AnswerSound ==
  ASSUME NEW r, NEW phase, NEW w, NEW s, RequestsSound(r, phase, w, s), NEW f \in Functions,
         w[f].step # "none",
         NEW call, DOMAIN call = DOMAIN None, call.step = w[f].step, call.word = w[f].word,
         call.event = w[f].event,
         call.step = "present" /\ call.code = "ok" /\ call.word \in LearnWords
           => call.word \in r.presented,
         NEW v, v = [w EXCEPT ![f] = call]
  PROVE  RequestsSound(r, phase, v, s)
<1>1. DOMAIN w = Functions /\ Rightful(r, s, f, call)
  BY DEF RequestsSound, Rightful
<1>2. DOMAIN v = Functions /\ \A g \in Functions : v[g] = IF g = f THEN call ELSE w[g]
  BY <1>1
<1>3. "starting" \in Functions /\ "rating" \in Functions
  BY DEF Functions
<1> QED BY <1>1, <1>2, <1>3 DEF RequestsSound

(* The code, and the place, that an answer sets.                           *)
LEMMA Coded ==
  ASSUME NEW w, NEW f \in Functions, DOMAIN w = Functions, DOMAIN w[f] = DOMAIN None,
         NEW code, NEW n, NEW v,
         v = [w EXCEPT ![f].code = code] \/ v = [w EXCEPT ![f].code = code, ![f].position = n]
  PROVE  /\ v = [w EXCEPT ![f] = v[f]] /\ DOMAIN v[f] = DOMAIN None /\ v[f].code = code
         /\ v[f].step = w[f].step /\ v[f].word = w[f].word /\ v[f].event = w[f].event
<1>. DEFINE old == w[f]
            one == [old EXCEPT !.code = code]
            two == [one EXCEPT !.position = n]
<1>1. v = [w EXCEPT ![f] = one] \/ v = [w EXCEPT ![f] = two]
  OBVIOUS
<1>2. v[f] = one \/ v[f] = two
  BY <1>1
<1>3. v = [w EXCEPT ![f] = v[f]]
  BY <1>1
<1>4. DOMAIN old = {"step", "word", "event", "code", "position"}
  BY DEF None
<1>. HIDE DEF old
<1>5. /\ DOMAIN one = DOMAIN old /\ one.step = old.step /\ one.code = code
      /\ one.word = old.word /\ one.event = old.event
  BY <1>4
<1>. HIDE DEF one
<1>6. /\ DOMAIN two = DOMAIN one /\ two.step = one.step /\ two.code = one.code
      /\ two.word = one.word /\ two.event = one.event
  BY <1>4, <1>5
<1>. HIDE DEF two
<1>7. DOMAIN old = DOMAIN None
  BY DEF old
<1> QED BY <1>2, <1>3, <1>5, <1>6, <1>7 DEF old

LEMMA LearnParts ==
  ASSUME LearnInv
  PROVE  /\ LearnerSound(records, learn, sights)
         /\ RequestsSound(records, learn.phase, work, sights)
         /\ RecordsSound(records, sights)
         /\ DOMAIN learn = DOMAIN Setup /\ DOMAIN learn.presentation = LearnWords
         /\ DOMAIN work = Functions /\ \A f \in Functions : DOMAIN work[f] = DOMAIN None
         /\ DOMAIN records = DOMAIN FreshStart /\ IsSequence(records.log) /\ IsSequence(sights)
BY DEF LearnInv, LearnerSound, RequestsSound, Rightful, RecordsSound

(* A grade is logged for what its event id was made from.                  *)
LEMMA LogsOne ==
  ASSUME NEW r, NEW s, RecordsSound(r, s), NEW e \in DOMAIN s, NEW q,
         DOMAIN q = DOMAIN r, q.log = Append(r.log, [event |-> e, card |-> s[e]])
  PROVE  RecordsSound(q, s)
<1>. DEFINE old == r.log
            new == q.log
            row == [event |-> e, card |-> s[e]]
<1>1. IsSequence(old) /\ new = Append(old, row) /\ row.event = e /\ row.card = s[e]
  BY DEF RecordsSound
<1>. HIDE DEF old, new, row
<1>2. IsSequence(new)
  BY <1>1, OneMore
<1>3. DOMAIN new = DOMAIN old \cup {Len(old) + 1} /\ new[Len(old) + 1] = row
  BY <1>1, OneMore
<1>4. \A i \in DOMAIN old : new[i] = old[i]
  BY <1>1, OneMore
<1>5. ASSUME NEW i \in DOMAIN new
      PROVE  new[i].event \in DOMAIN s /\ s[new[i].event] = new[i].card
  <2>1. CASE i \in DOMAIN old
    BY <1>4, <2>1 DEF RecordsSound, old
  <2>2. CASE new[i] = row
    BY <1>1, <2>2
  <2> QED BY <1>3, <2>1, <2>2
<1> QED BY <1>2, <1>5 DEF RecordsSound, new

LEMMA ServesLearn ==
  ASSUME LearnInv, NEW f \in Functions, LearnServes(f)
  PROVE  LearnInv'
<1>. DEFINE w == work[f]
            call == work'[f]
<1>1. learn' = learn /\ sights' = sights /\ w.step \notin AtOnce
  BY DEF LearnServes, Unanswered
<1>2. SUFFICES /\ records.presented \subseteq records'.presented
               /\ learn.event # 0 => records'.queue = records.queue
               /\ RecordsSound(records', sights)
               /\ \E code, n : \/ work' = [work EXCEPT ![f].code = code]
                               \/ work' = [work EXCEPT ![f].code = code, ![f].position = n]
               /\ w.step = "present" /\ call.code = "ok" => w.word \in records'.presented
  <2>1. /\ LearnerSound(records', learn, sights)
        /\ RequestsSound(records', learn.phase, work, sights)
    BY <1>2, LearnParts, RecordsGrow
  <2>2. /\ work' = [work EXCEPT ![f] = call] /\ DOMAIN call = DOMAIN None
        /\ call.step = w.step /\ call.word = w.word /\ call.event = w.event
    <3>1. PICK code, n : \/ work' = [work EXCEPT ![f].code = code]
                         \/ work' = [work EXCEPT ![f].code = code, ![f].position = n]
      BY <1>2
    <3>2. DOMAIN work = Functions /\ DOMAIN work[f] = DOMAIN None
      BY LearnParts
    <3>. HIDE DEF call, w
    <3>3. /\ work' = [work EXCEPT ![f] = work'[f]] /\ DOMAIN work'[f] = DOMAIN None
          /\ work'[f].step = work[f].step /\ work'[f].word = work[f].word
          /\ work'[f].event = work[f].event
      BY <3>1, <3>2, Coded
    <3> QED BY <3>3 DEF call, w
  <2>3. w.step # "none" /\ (call.step = "present" /\ call.code = "ok" /\ call.word \in LearnWords
                             => call.word \in records'.presented)
    BY <1>1, <1>2, <2>2 DEF AtOnce
  <2>. HIDE DEF call
  <2>4. RequestsSound(records', learn.phase, work', sights)
    BY <2>1, <2>2, <2>3, AnswerSound
  <2> QED BY <1>1, <1>2, <2>1, <2>4 DEF LearnInv
<1>3. CASE w.step = "create"
  <2>1. learn.event = 0
    BY <1>3, LearnParts DEF RequestsSound, Rightful, LearnerSound
  <2>2. /\ records'.presented = records.presented /\ records'.log = records.log
        /\ DOMAIN records' = DOMAIN records
    BY <1>3, LearnParts DEF LearnServes, ServesCreate, FreshStart
  <2>3. \E code, n : \/ work' = [work EXCEPT ![f].code = code]
                     \/ work' = [work EXCEPT ![f].code = code, ![f].position = n]
    BY <1>3 DEF LearnServes, ServesCreate
  <2>4. RecordsSound(records', sights)
    BY <2>2, LearnParts DEF RecordsSound
  <2> QED BY <1>3, <2>1, <2>2, <2>3, <2>4
<1>4. CASE w.step = "present"
  <2>1. PICK code : /\ work' = [work EXCEPT ![f].code = code]
                    /\ \/ records' = records /\ code # "ok"
                       \/ records' = [records EXCEPT !.presented = @ \cup {w.word}]
    BY <1>4 DEF LearnServes, ServesPatch
  <2>2. /\ records.presented \subseteq records'.presented /\ records'.log = records.log
        /\ DOMAIN records' = DOMAIN records /\ records'.queue = records.queue
        /\ code = "ok" => w.word \in records'.presented
    BY <2>1, LearnParts DEF FreshStart
  <2>3. RecordsSound(records', sights)
    BY <2>2, LearnParts DEF RecordsSound
  <2>4. call.code = code
    BY <2>1, LearnParts, Coded
  <2> QED BY <2>1, <2>2, <2>3, <2>4
<1>5. CASE w.step = "grade"
  <2>. DEFINE row == [event |-> w.event, card |-> w.word]
  <2>1. w.event \in DOMAIN sights /\ sights[w.event] = w.word
    BY <1>5, LearnParts DEF RequestsSound, Rightful
  <2>2. PICK code : /\ work' = [work EXCEPT ![f].code = code]
                    /\ \/ records' = records
                       \/ \E done : records' = [records EXCEPT !.position = @ + 1,
                                                  !.log = Append(@, row), !.introduced = done]
    BY <1>5 DEF LearnServes, ServesGrade
  <2>3. /\ records'.presented = records.presented /\ records'.queue = records.queue
        /\ DOMAIN records' = DOMAIN records
        /\ records'.log = records.log \/ records'.log = Append(records.log, row)
    <3>. HIDE DEF row
    <3> QED BY <2>2, LearnParts DEF FreshStart
  <2>4. ASSUME records'.log = records.log
        PROVE  RecordsSound(records', sights)
    BY <2>3, <2>4, LearnParts DEF RecordsSound
  <2>5. ASSUME records'.log = Append(records.log, row)
        PROVE  RecordsSound(records', sights)
    BY <2>1, <2>3, <2>5, LearnParts, LogsOne
  <2> QED BY <1>5, <2>2, <2>3, <2>4, <2>5
<1>6. CASE w.step \in {"resume", "reread"}
  <2>1. records' = records
    BY <1>6 DEF LearnServes, ServesRead
  <2>2. \E code, n : work' = [work EXCEPT ![f].code = code, ![f].position = n]
    <3>1. work' = [work EXCEPT ![f] = Reply(@, IF records.open THEN "ok" ELSE "refused")]
      BY <1>6 DEF LearnServes, ServesRead
    <3> QED BY <3>1 DEF Reply
  <2> QED BY <1>6, <2>1, <2>2, LearnParts
<1>7. w.step \in {"create", "present", "grade", "resume", "reread"}
  BY LearnParts DEF LearnServes, Unanswered, AtOnce, RequestsSound, Rightful, Asks
<1> QED BY <1>3, <1>4, <1>5, <1>6, <1>7


LEMMA ExpiresLearn ==
  ASSUME LearnInv, LearnSessionExpires
  PROVE  LearnInv'
<1>1. /\ learn' = learn /\ work' = work /\ sights' = sights
      /\ DOMAIN records' = DOMAIN records /\ records'.presented = records.presented
      /\ records'.log = records.log /\ records'.queue = records.queue
  BY LearnParts DEF LearnSessionExpires, FreshStart
<1>2. /\ LearnerSound(records', learn, sights)
      /\ RequestsSound(records', learn.phase, work, sights)
  BY <1>1, LearnParts, RecordsGrow
<1>3. RecordsSound(records', sights)
  BY <1>1, LearnParts DEF RecordsSound
<1> QED BY <1>1, <1>2, <1>3 DEF LearnInv

LEMMA LosesLearn ==
  ASSUME LearnInv, NEW f \in Functions, LearnLoses(f)
  PROVE  LearnInv'
<1>. DEFINE call == work'[f]
<1>1. /\ learn' = learn /\ records' = records /\ sights' = sights
      /\ work' = [work EXCEPT ![f].code = "lost"] /\ work[f].step # "none"
  BY DEF LearnLoses, AtOnce
<1>2. /\ work' = [work EXCEPT ![f] = call] /\ DOMAIN call = DOMAIN None /\ call.code = "lost"
      /\ call.step = work[f].step /\ call.word = work[f].word /\ call.event = work[f].event
  <2>1. DOMAIN work = Functions /\ DOMAIN work[f] = DOMAIN None
    BY LearnParts
  <2>2. /\ work' = [work EXCEPT ![f] = work'[f]] /\ DOMAIN work'[f] = DOMAIN None
        /\ work'[f].code = "lost" /\ work'[f].step = work[f].step
        /\ work'[f].word = work[f].word /\ work'[f].event = work[f].event
    BY <1>1, <2>1, Coded
  <2> QED BY <2>2
<1>. HIDE DEF call
<1>3. RequestsSound(records, learn.phase, work', sights)
  <2>1. RequestsSound(records, learn.phase, work, sights)
    BY LearnParts
  <2>2. call.step = "present" /\ call.code = "ok" /\ call.word \in LearnWords
          => call.word \in records.presented
    BY <1>2
  <2>3. work' = [work EXCEPT ![f] = call] /\ work[f].step # "none"
    BY <1>1, <1>2
  <2>4. /\ DOMAIN call = DOMAIN None
        /\ call.step = work[f].step /\ call.word = work[f].word /\ call.event = work[f].event
    BY <1>2
  <2> QED BY <2>1, <2>2, <2>3, <2>4, AnswerSound
<1> QED BY <1>1, <1>3, LearnParts DEF LearnInv

(* A step of the page: the records and the history stay.                   *)
LEMMA PageMoves ==
  ASSUME LearnInv, UNCHANGED <<records, sights>>,
         NEW m, NEW w, LearnerSound(records, m, sights), RequestsSound(records, m.phase, w, sights),
         (learn' = m /\ work' = w) \/ \E ls : Renders(m, w, ls)
  PROVE  LearnInv'
<1>1. CASE learn' = m /\ work' = w
  BY <1>1, LearnParts DEF LearnInv
<1>2. CASE \E ls : Renders(m, w, ls)
  <2>1. PICK ls : Renders(m, w, ls)
    BY <1>2
  <2>2. LearnerSound(records, learn', sights) /\ RequestsSound(records, learn'.phase, work', sights)
    BY <2>1, RendersSound
  <2> QED BY <2>2, LearnParts DEF LearnInv
<1> QED BY <1>1, <1>2

(* The fields the invariant speaks of stay, or an event id is dropped.     *)
LEMMA FieldsStay ==
  ASSUME LearnInv, NEW m, DOMAIN m = DOMAIN learn, m.presentation = learn.presentation,
         (m.index = learn.index /\ m.event = learn.event) \/ m.event = 0,
         m.phase = "SETUP" <=> learn.phase = "SETUP"
  PROVE  LearnerSound(records, m, sights) /\ RequestsSound(records, m.phase, work, sights)
<1>1. LearnerSound(records, m, sights)
  BY LearnParts, LearnerMoves DEF LearnerSound
<1>2. RequestsSound(records, m.phase, work, sights)
  BY LearnParts, RequestsStay
<1> QED BY <1>1, <1>2

(* A function sends its next request, or returns, in the same phase.       *)
LEMMA Sends ==
  ASSUME LearnInv, NEW phase, phase = "SETUP" <=> learn.phase = "SETUP",
         NEW f \in Functions, NEW call, Rightful(records, sights, f, call),
         f = "starting" /\ call.step # "none" => phase = "SETUP",
         f = "rating" /\ call.step # "none" => phase # "SETUP",
         NEW v, v = [work EXCEPT ![f] = call]
  PROVE  RequestsSound(records, phase, v, sights)
<1>1. RequestsSound(records, learn.phase, work, sights)
  BY LearnParts
<1>2. /\ work["starting"].step # "none" => learn.phase = "SETUP"
      /\ work["rating"].step # "none" => learn.phase # "SETUP"
  BY <1>1 DEF RequestsSound
<1> QED BY <1>1, <1>2, RequestsMove

(* An answered request was made, for what it may ask.                      *)
LEMMA HasAsked ==
  ASSUME LearnInv, NEW f \in Functions, HasAnswer(f)
  PROVE  /\ work[f].step # "none" /\ work[f].step \in Asks
         /\ Rightful(records, sights, f, work[f])
         /\ f = "starting" => learn.phase = "SETUP" /\ learn.event = 0
         /\ f = "rating" => learn.phase # "SETUP"
<1>0. RequestsSound(records, learn.phase, work, sights)
  BY LearnParts
<1>1. Rightful(records, sights, f, work[f])
  BY <1>0 DEF RequestsSound
<1>2. work[f].step # "none" /\ work[f].step \in Asks
  BY <1>1 DEF HasAnswer, Rightful
<1>3. /\ f = "starting" => learn.phase = "SETUP"
      /\ f = "rating" => learn.phase # "SETUP"
  BY <1>2, LearnParts DEF RequestsSound
<1>4. learn.phase = "SETUP" => learn.event = 0
  BY LearnParts DEF LearnerSound
<1> QED BY <1>1, <1>2, <1>3, <1>4




LEMMA StartsLearn ==
  ASSUME LearnInv, NEW s, StartGroup(s) \/ ResumeSession(s)
  PROVE  LearnInv'
<1>. DEFINE group == SelectedGroup(s)
<1>1. PICK step \in {"create", "resume"} :
        /\ learn' = [learn EXCEPT !.starting = TRUE, !.group = group]
        /\ work' = [work EXCEPT !["starting"] = Request(step, Generic, 0)]
        /\ learn.phase = "SETUP" /\ UNCHANGED <<records, sights>>
  BY DEF StartGroup, ResumeSession, Requesting
<1>. HIDE DEF group
<1>2. /\ DOMAIN learn' = DOMAIN learn /\ learn'.presentation = learn.presentation
      /\ learn'.index = learn.index /\ learn'.event = learn.event /\ learn'.phase = learn.phase
  BY <1>1, LearnParts DEF Setup
<1>3. LearnerSound(records, learn', sights)
  BY <1>2, FieldsStay
<1>4. "starting" \in Functions /\ step \in Asks /\ step # "none" /\ step # "grade"
  BY DEF Functions, Asks
<1>5. Rightful(records, sights, "starting", Request(step, Generic, 0))
  BY <1>4, RequestMade
<1>6. RequestsSound(records, learn.phase, work', sights)
  BY <1>1, <1>4, <1>5, Sends
<1>7. RequestsSound(records, learn'.phase, work', sights)
  BY <1>2, <1>6
<1> QED BY <1>1, <1>3, <1>7, PageMoves

(* The session that was created or resumed: no event id is in use.         *)
LEMMA StartedSound ==
  ASSUME LearnInv, learn.event = 0, NEW presentation, DOMAIN presentation = LearnWords,
         \A w \in LearnWords : presentation[w] = "acked" => w \in records.presented,
         NEW content, NEW n, NEW phase, NEW position,
         NEW m, m = Started(presentation, content, n, phase, position)
  PROVE  LearnerSound(records, m, sights) /\ m.phase = phase
<1>. DEFINE prompts == IF phase = "QUESTION" THEN QuickRecallCards(learn.group, content) ELSE <<>>
<1>1. m = [learn EXCEPT !.starting = FALSE, !.session = TRUE, !.presentation = presentation,
             !.content = content, !.studyIndex = n, !.phase = phase, !.index = position,
             !.summary = FALSE, !.prompts = prompts]
  BY DEF Started
<1>. HIDE DEF prompts
<1>2. /\ DOMAIN m = DOMAIN learn /\ m.presentation = presentation
      /\ m.event = learn.event /\ m.phase = phase
  BY <1>1, LearnParts DEF Setup
<1>3. LearnerSound(records, m, sights)
  BY <1>2, LearnParts, LearnerMoves
<1> QED BY <1>2, <1>3

LEMMA StartingLearn ==
  ASSUME LearnInv, StartingContinues
  PROVE  LearnInv'
<1>. DEFINE r == work["starting"]
            back == Returning("starting")
<1>1. "starting" \in Functions /\ HasAnswer("starting") /\ UNCHANGED <<records, sights>>
  BY DEF StartingContinues, Functions
<1>2. learn.phase = "SETUP" /\ learn.event = 0 /\ work["rating"].step = "none"
  <2>1. learn.phase = "SETUP" /\ learn.event = 0
    BY <1>1, HasAsked
  <2>2. RequestsSound(records, learn.phase, work, sights)
    BY LearnParts
  <2> QED BY <2>1, <2>2 DEF RequestsSound
<1>3. \A phase : RequestsSound(records, phase, back, sights)
  <2>1. RequestsSound(records, learn.phase, work, sights)
    BY LearnParts
  <2>2. back = [work EXCEPT !["starting"] = None]
    BY DEF Returning
  <2>3. Rightful(records, sights, "starting", None) /\ None.step = "none"
    BY <1>1, NoneAsked
  <2> QED BY <1>1, <1>2, <2>1, <2>2, <2>3, RequestsMove
<1>. HIDE DEF back
<1>4. CASE /\ r.step = "create" /\ r.code = "ok"
           /\ Renders(Started([w \in LearnWords |-> "untried"], learn.content, 0,
                              "STUDY_WORDS", r.position), back, loads)
  <2>. DEFINE untried == [w \in LearnWords |-> "untried"]
              m == Started(untried, learn.content, 0, "STUDY_WORDS", r.position)
  <2>1. DOMAIN untried = LearnWords /\ \A w \in LearnWords : untried[w] # "acked"
    OBVIOUS
  <2>. HIDE DEF untried
  <2>2. LearnerSound(records, m, sights) /\ m.phase = "STUDY_WORDS"
    BY <1>2, <2>1, StartedSound
  <2>3. Renders(m, back, loads)
    BY <1>4 DEF untried
  <2>. HIDE DEF m
  <2> QED BY <1>1, <1>3, <2>2, <2>3, PageMoves
<1>5. CASE /\ r.step = "resume" /\ r.code = "ok"
           /\ \E known \in SUBSET (records.presented \intersect Members(learn.group)) :
                \E m \in ResumedWith(known, r.position) : Renders(m, back, loads)
  <2>1. PICK known \in SUBSET (records.presented \intersect Members(learn.group)) :
          \E m \in ResumedWith(known, r.position) : Renders(m, back, loads)
    BY <1>5
  <2>2. PICK m \in ResumedWith(known, r.position) : Renders(m, back, loads)
    BY <2>1
  <2>. DEFINE states == [w \in LearnWords |-> IF w \in known THEN "acked" ELSE "untried"]
  <2>3. PICK content, n, phase : m = Started(states, content, n, phase, r.position)
    BY <2>2 DEF ResumedWith
  <2>4. /\ DOMAIN states = LearnWords
        /\ \A w \in LearnWords : states[w] = "acked" => w \in records.presented
    BY <2>1
  <2>. HIDE DEF states
  <2>5. LearnerSound(records, m, sights)
    BY <1>2, <2>3, <2>4, StartedSound
  <2> QED BY <1>1, <1>3, <2>2, <2>5, PageMoves
<1>6. CASE learn' = [learn EXCEPT !.starting = FALSE] /\ work' = back
  <2>1. /\ DOMAIN learn' = DOMAIN learn /\ learn'.presentation = learn.presentation
        /\ learn'.index = learn.index /\ learn'.event = learn.event
        /\ learn'.phase = learn.phase
    BY <1>6, LearnParts DEF Setup
  <2>2. LearnerSound(records, learn', sights)
    BY <2>1, FieldsStay
  <2> QED BY <1>1, <1>3, <1>6, <2>2, PageMoves
<1> QED BY <1>4, <1>5, <1>6 DEF StartingContinues, back

(* Contents are read: nothing the invariant speaks of.                     *)
LEMMA LoadsLearn ==
  ASSUME LearnInv, \/ IdleTask \/ \E l \in loads : ContentLoaded(l) \/ ContentFails(l)
                   \/ RetryContent
  PROVE  LearnInv'
<1>0. UNCHANGED <<records, sights>>
  BY DEF IdleTask, ContentLoaded, ContentFails, RetryContent
<1>1. ASSUME NEW word, NEW state, NEW m, m = [learn EXCEPT !.content[word] = state]
      PROVE  /\ LearnerSound(records, m, sights)
             /\ RequestsSound(records, m.phase, work, sights)
  <2>1. /\ DOMAIN m = DOMAIN learn /\ m.presentation = learn.presentation
        /\ m.index = learn.index /\ m.event = learn.event /\ m.phase = learn.phase
    BY <1>1, LearnParts DEF Setup
  <2> QED BY <2>1, FieldsStay
<1>2. CASE learn' = learn /\ work' = work
  BY <1>0, <1>2, LearnParts DEF LearnInv
<1>3. CASE \E word, state, ls : Renders([learn EXCEPT !.content[word] = state], work, ls)
  <2>1. PICK word, state, ls : Renders([learn EXCEPT !.content[word] = state], work, ls)
    BY <1>3
  <2>. DEFINE m == [learn EXCEPT !.content[word] = state]
  <2>2. /\ LearnerSound(records, m, sights) /\ RequestsSound(records, m.phase, work, sights)
        /\ Renders(m, work, ls)
    BY <1>1, <2>1
  <2>. HIDE DEF m
  <2> QED BY <1>0, <2>2, PageMoves
<1> QED BY <1>2, <1>3 DEF IdleTask, ContentLoaded, ContentFails, RetryContent

(* A word is sent again or for the first time: it is pending.              *)
LEMMA PendingSound ==
  ASSUME LearnInv, NEW word, NEW m, m = Presented(learn, word, "pending")
  PROVE  LearnerSound(records, m, sights) /\ m.phase = learn.phase
<1>1. /\ DOMAIN m = DOMAIN learn /\ DOMAIN m.presentation = LearnWords
      /\ \A x \in LearnWords :
           m.presentation[x] = IF x = word THEN "pending" ELSE learn.presentation[x]
      /\ m.phase = learn.phase /\ m.event = learn.event /\ m.index = learn.index
  BY LearnParts, PresentedField
<1>2. \A x \in LearnWords : m.presentation[x] = "acked" => x \in records.presented
  BY <1>1, LearnParts DEF LearnerSound
<1>3. LearnerSound(records, m, sights)
  BY <1>1, <1>2, LearnParts, LearnerMoves
<1> QED BY <1>1, <1>3

(* The same, with the request for it.                                      *)
LEMMA PresentsAgain ==
  ASSUME LearnInv, UNCHANGED <<records, sights>>, NEW f \in Functions,
         f # "starting", f = "rating" => learn.phase # "SETUP",
         NEW word, NEW call, Rightful(records, sights, f, call),
         NEW ls, Renders(Presented(learn, word, "pending"), Requesting(f, call), ls)
  PROVE  LearnInv'
<1>. DEFINE m == Presented(learn, word, "pending")
            w == Requesting(f, call)
<1>1. LearnerSound(records, m, sights) /\ m.phase = learn.phase
  BY PendingSound
<1>2. w = [work EXCEPT ![f] = call]
  BY DEF Requesting
<1>3. Renders(m, w, ls)
  OBVIOUS
<1>. HIDE DEF m, w
<1>4. RequestsSound(records, m.phase, w, sights)
  BY <1>1, <1>2, Sends
<1> QED BY <1>1, <1>3, <1>4, PageMoves

LEMMA RetriesLearn ==
  ASSUME LearnInv, RetryPresentation \/ RetryPendingPresentations
  PROVE  LearnInv'
<1>1. PICK f, word :
        /\ f \in {"presenting", "retrying"}
        /\ Renders(Presented(learn, word, "pending"),
                   Requesting(f, Request("present", word, 0)), loads)
  BY DEF RetryPresentation, RetryPendingPresentations
<1>2. UNCHANGED <<records, sights>>
  BY DEF RetryPresentation, RetryPendingPresentations
<1>3. f \in Functions /\ f # "starting" /\ f # "rating" /\ "present" \in Asks
  BY <1>1 DEF Functions, Asks
<1>4. Rightful(records, sights, f, Request("present", word, 0))
  BY <1>3, RequestMade
<1> QED BY <1>1, <1>2, <1>3, <1>4, PresentsAgain

(* A presentation is answered, and its function goes on.                   *)
LEMMA SettlesLearn ==
  ASSUME LearnInv, NEW f \in Functions, HasAnswer(f), work[f].step = "present" \/ f = "presenting",
         NEW m, m = PresentationSettles(learn, work[f].word, work[f].code)
  PROVE  LearnerSound(records, m, sights) /\ m.phase = learn.phase
<1>1. Rightful(records, sights, f, work[f]) /\ work[f].step # "none"
  BY HasAsked
<1>2. work[f].step = "present"
  BY <1>1 DEF Rightful
<1>3. work[f].code = "ok" /\ work[f].word \in LearnWords => work[f].word \in records.presented
  BY <1>1, <1>2 DEF Rightful
<1>4. LearnerSound(records, learn, sights)
  BY LearnParts
<1> QED BY <1>3, <1>4, SettlesSound

LEMMA PresentingLearn ==
  ASSUME LearnInv, PresentingContinues
  PROVE  LearnInv'
<1>. DEFINE m == PresentationSettles(learn, work["presenting"].word, work["presenting"].code)
            w == Returning("presenting")
<1>1. /\ "presenting" \in Functions /\ HasAnswer("presenting") /\ UNCHANGED <<records, sights>>
      /\ Renders(m, w, loads)
  BY DEF PresentingContinues, Functions
<1>2. LearnerSound(records, m, sights) /\ m.phase = learn.phase
  BY <1>1, SettlesLearn
<1>3. w = [work EXCEPT !["presenting"] = None]
  BY DEF Returning
<1>. HIDE DEF m, w
<1>4. RequestsSound(records, m.phase, w, sights)
  BY <1>1, <1>2, <1>3, NoneAsked, Sends
<1> QED BY <1>1, <1>2, <1>4, PageMoves

LEMMA ChoosesLearn ==
  ASSUME LearnInv, ChooseFamiliarity \/ ChoosingContinues
  PROVE  LearnInv'
<1>1. PICK call, flag : LET m == [learn EXCEPT !.familiarityPending = flag]
                            w == [work EXCEPT !["choosing"] = call]
                        IN  /\ call = None \/ \E word : call = Request("familiar", word, 0)
                            /\ (learn' = m /\ work' = w) \/ \E ls : Renders(m, w, ls)
  BY DEF ChooseFamiliarity, ChoosingContinues, Requesting, Returning
<1>. DEFINE m == [learn EXCEPT !.familiarityPending = flag]
            w == [work EXCEPT !["choosing"] = call]
<1>2. UNCHANGED <<records, sights>> /\ "choosing" \in Functions /\ "familiar" \in Asks
  BY DEF ChooseFamiliarity, ChoosingContinues, Functions, Asks
<1>3. Rightful(records, sights, "choosing", call)
  BY <1>1, <1>2, RequestMade, NoneAsked
<1>4. (learn' = m /\ work' = w) \/ \E ls : Renders(m, w, ls)
  BY <1>1
<1>5. /\ DOMAIN m = DOMAIN learn /\ m.presentation = learn.presentation
      /\ m.index = learn.index /\ m.event = learn.event /\ m.phase = learn.phase
  BY LearnParts DEF Setup
<1>. HIDE DEF m
<1>6. LearnerSound(records, m, sights)
  BY <1>5, FieldsStay
<1>7. RequestsSound(records, m.phase, w, sights)
  BY <1>2, <1>3, <1>5, Sends
<1>. HIDE DEF w
<1> QED BY <1>2, <1>4, <1>6, <1>7, PageMoves

LEMMA AdvancesLearn ==
  ASSUME LearnInv, AdvanceStudy
  PROVE  LearnInv'
<1>1. learn.phase = "STUDY_WORDS" /\ UNCHANGED <<records, sights>>
  BY DEF AdvanceStudy
<1>2. CASE Renders([learn EXCEPT !.studyIndex = @ + 1], work, loads)
  <2>. DEFINE m == [learn EXCEPT !.studyIndex = @ + 1]
  <2>1. /\ DOMAIN m = DOMAIN learn /\ m.presentation = learn.presentation
        /\ m.index = learn.index /\ m.event = learn.event /\ m.phase = learn.phase
    BY LearnParts DEF Setup
  <2>2. Renders(m, work, loads)
    BY <1>2
  <2>. HIDE DEF m
  <2> QED BY <1>1, <2>1, <2>2, FieldsStay, PageMoves
<1>3. CASE \E prompts : Renders([learn EXCEPT !.phase = "QUESTION", !.event = 0,
                                              !.prompts = prompts], work, loads)
  <2>1. PICK prompts : Renders([learn EXCEPT !.phase = "QUESTION", !.event = 0,
                                             !.prompts = prompts], work, loads)
    BY <1>3
  <2>. DEFINE zero == 0
              m == [learn EXCEPT !.phase = "QUESTION", !.event = zero, !.prompts = prompts]
  <2>2. Renders(m, work, loads) /\ zero = 0
    BY <2>1
  <2>. HIDE DEF zero
  <2>3. /\ DOMAIN m = DOMAIN learn /\ m.presentation = learn.presentation
        /\ m.event = 0 /\ m.phase = "QUESTION"
    BY <2>2, LearnParts DEF Setup
  <2>. HIDE DEF m
  <2> QED BY <1>1, <2>2, <2>3, FieldsStay, PageMoves
<1> QED BY <1>2, <1>3 DEF AdvanceStudy

(* A new event id: the others keep the card they stand for.                *)
LEMMA RevealsLearn ==
  ASSUME LearnInv, RevealCard
  PROVE  LearnInv'
<1>. DEFINE card == records.queue[learn.index + 1]
            e == Len(sights) + 1
            new == sights'
<1>1. /\ learn.phase = "QUESTION" /\ records' = records /\ work' = work
      /\ learn' = [learn EXCEPT !.phase = "REVEALED", !.event = e]
      /\ new = Append(sights, card)
  BY DEF RevealCard
<1>2. IsSequence(sights)
  BY LearnParts
<1>3. /\ IsSequence(new) /\ DOMAIN new = DOMAIN sights \cup {e} /\ new[e] = card
      /\ \A i \in DOMAIN sights : new[i] = sights[i]
  <2>. HIDE DEF card, new
  <2>1. new = Append(sights, card)
    BY <1>1
  <2>2. IsSequence(new)
    BY <1>2, <2>1, OneMore
  <2>3. DOMAIN new = DOMAIN sights \cup {Len(sights) + 1}
    BY <1>2, <2>1, OneMore
  <2>4. new[Len(sights) + 1] = card
    BY <1>2, <2>1, OneMore
  <2>5. \A i \in DOMAIN sights : new[i] = sights[i]
    BY <1>2, <2>1, OneMore
  <2> QED BY <2>2, <2>3, <2>4, <2>5
<1>. HIDE DEF e, new
<1>4. /\ DOMAIN learn' = DOMAIN learn /\ learn'.presentation = learn.presentation
      /\ learn'.index = learn.index /\ learn'.event = e /\ learn'.phase = "REVEALED"
  BY <1>1, LearnParts DEF Setup
<1>5. LearnerSound(records, learn', new)
  BY <1>3, <1>4, LearnParts DEF LearnerSound
<1>6. RequestsSound(records, "REVEALED", work, new)
  <2>1. RequestsSound(records, "REVEALED", work, sights)
    BY <1>1, LearnParts, RequestsStay
  <2>2. ASSUME NEW f \in Functions
        PROVE  Rightful(records, new, f, work[f])
    <3>1. Rightful(records, sights, f, work[f])
      BY <2>1 DEF RequestsSound
    <3> QED BY <1>3, <3>1 DEF Rightful
  <2> QED BY <2>1, <2>2 DEF RequestsSound
<1>7. RecordsSound(records, new)
  BY <1>3, LearnParts DEF RecordsSound
<1> QED BY <1>1, <1>4, <1>5, <1>6, <1>7 DEF LearnInv, new

LEMMA RatesLearn ==
  ASSUME LearnInv, RateCard
  PROVE  LearnInv'
<1>. DEFINE card == records.queue[learn.index + 1]
            call == Request("grade", card, learn.event)
<1>1. /\ learn.event # 0 /\ UNCHANGED <<records, sights>>
      /\ learn' = [learn EXCEPT !.gradePending = TRUE]
      /\ work' = [work EXCEPT !["rating"] = call]
  BY DEF RateCard, Requesting
<1>2. learn.phase # "SETUP" /\ learn.event \in DOMAIN sights /\ sights[learn.event] = card
  BY <1>1, LearnParts DEF LearnerSound
<1>3. "rating" \in Functions /\ "grade" \in Asks
  BY DEF Functions, Asks
<1>4. Rightful(records, sights, "rating", call)
  BY <1>2, <1>3, RequestMade
<1>. HIDE DEF call
<1>5. /\ DOMAIN learn' = DOMAIN learn /\ learn'.presentation = learn.presentation
      /\ learn'.index = learn.index /\ learn'.event = learn.event
      /\ learn'.phase = learn.phase
  BY <1>1, LearnParts DEF Setup
<1>6. LearnerSound(records, learn', sights)
  BY <1>5, FieldsStay
<1>7. RequestsSound(records, learn'.phase, work', sights)
  BY <1>1, <1>2, <1>3, <1>4, <1>5, Sends
<1> QED BY <1>1, <1>6, <1>7, PageMoves

(* The recall goes on: the event id is dropped.                            *)
LEMMA AfterSyncLearn ==
  ASSUME LearnInv, UNCHANGED <<records, sights>>, learn.phase # "SETUP",
         NEW m, LearnerSound(records, m, sights), NEW position, AfterSync(m, position)
  PROVE  LearnInv'
<1>. DEFINE zero == 0
            phase == IF position >= Len(records.queue) THEN "COMPLETE" ELSE "QUESTION"
            n == GradeAdvances(m, position)
            call == IF position >= Len(records.queue)
                    THEN Request("summary", Generic, 0) ELSE None
            w == IF position >= Len(records.queue)
                 THEN Requesting("rating", Request("summary", Generic, 0))
                 ELSE Returning("rating")
<1>1. Renders(n, w, loads)
  BY DEF AfterSync
<1>2. n = [m EXCEPT !.gradePending = FALSE, !.index = position, !.event = zero, !.phase = phase]
  BY DEF GradeAdvances
<1>3. w = [work EXCEPT !["rating"] = call]
  BY DEF Requesting, Returning
<1>4. "rating" \in Functions /\ "summary" \in Asks /\ phase # "SETUP" /\ zero = 0
  BY DEF Functions, Asks
<1>5. Rightful(records, sights, "rating", call)
  BY <1>4, RequestMade, NoneAsked
<1>6. DOMAIN m = DOMAIN Setup /\ DOMAIN m.presentation = LearnWords
  BY DEF LearnerSound
<1>. HIDE DEF n, w, call, phase, zero
<1>7. /\ DOMAIN n = DOMAIN m /\ n.presentation = m.presentation
      /\ n.event = zero /\ n.phase = phase
  BY <1>2, <1>6 DEF Setup
<1>8. LearnerSound(records, n, sights)
  BY <1>4, <1>6, <1>7, LearnerMoves DEF LearnerSound
<1>9. RequestsSound(records, n.phase, w, sights)
  BY <1>3, <1>4, <1>5, <1>7, Sends
<1> QED BY <1>1, <1>8, <1>9, PageMoves

LEMMA RatingLearn ==
  ASSUME LearnInv, RatingContinues
  PROVE  LearnInv'
<1>. DEFINE r == work["rating"]
<1>1. "rating" \in Functions /\ HasAnswer("rating") /\ UNCHANGED <<records, sights>>
  BY DEF RatingContinues, Functions
<1>2. /\ learn.phase # "SETUP" /\ LearnerSound(records, learn, sights)
      /\ RequestsSound(records, learn.phase, work, sights)
  BY <1>1, HasAsked, LearnParts
<1>3. {"reread", "present", "summary"} \subseteq Asks
  BY DEF Asks
<1>4. CASE learn' = learn /\ work' = Requesting("rating", Request("reread", Generic, r.event))
  <2>1. Rightful(records, sights, "rating", Request("reread", Generic, r.event))
    BY <1>1, <1>3, RequestMade
  <2>2. work' = [work EXCEPT !["rating"] = Request("reread", Generic, r.event)]
    BY <1>4 DEF Requesting
  <2>3. RequestsSound(records, learn.phase, work', sights)
    BY <1>1, <1>2, <2>1, <2>2, Sends
  <2> QED BY <1>1, <1>2, <1>4, <2>3, PageMoves
<1>5. CASE Renders(Presented(learn, Head(ToRetry), "pending"),
                   Requesting("rating", [Request("present", Head(ToRetry), r.event)
                                           EXCEPT !.position = r.position]), loads)
  <2>. DEFINE first == Request("present", Head(ToRetry), r.event)
              call == [first EXCEPT !.position = r.position]
  <2>1. /\ Rightful(records, sights, "rating", first) /\ first.step = "present"
        /\ first.code = "none"
    BY <1>1, <1>3, RequestMade
  <2>. HIDE DEF first
  <2>2. DOMAIN call = DOMAIN first /\ call.step = "present" /\ call.code = "none"
    BY <2>1 DEF Rightful, None
  <2>3. Rightful(records, sights, "rating", call)
    BY <2>1, <2>2 DEF Rightful
  <2>4. Renders(Presented(learn, Head(ToRetry), "pending"), Requesting("rating", call), loads)
    BY <1>5 DEF first
  <2>. HIDE DEF call
  <2> QED BY <1>1, <1>2, <2>3, <2>4, PresentsAgain
<1>6. CASE AfterSync(learn, r.position)
  BY <1>1, <1>2, <1>6, AfterSyncLearn
<1>7. CASE r.step = "present" /\ AfterSync(PresentationSettles(learn, r.word, r.code), r.position)
  <2>. DEFINE m == PresentationSettles(learn, r.word, r.code)
  <2>1. LearnerSound(records, m, sights) /\ AfterSync(m, r.position)
    BY <1>1, <1>7, SettlesLearn
  <2>. HIDE DEF m
  <2> QED BY <1>1, <1>2, <2>1, AfterSyncLearn
<1>8. CASE /\ learn' = RatingFailed(learn) \/ learn' = [learn EXCEPT !.summary = TRUE]
           /\ work' = Returning("rating")
  <2>1. /\ DOMAIN learn' = DOMAIN learn /\ learn'.presentation = learn.presentation
        /\ learn'.index = learn.index /\ learn'.event = learn.event
        /\ learn'.phase = learn.phase
    BY <1>8, LearnParts DEF RatingFailed, Setup
  <2>2. LearnerSound(records, learn', sights)
    BY <2>1, FieldsStay
  <2>3. work' = [work EXCEPT !["rating"] = None]
    BY <1>8 DEF Returning
  <2>4. RequestsSound(records, learn'.phase, work', sights)
    BY <1>1, <2>1, <2>3, NoneAsked, Sends
  <2> QED BY <1>1, <2>2, <2>4, PageMoves
<1> QED BY <1>4, <1>5, <1>6, <1>7, <1>8 DEF RatingContinues

LEMMA RetryingLearn ==
  ASSUME LearnInv, RetryingContinues
  PROVE  LearnInv'
<1>. DEFINE r == work["retrying"]
            w == IF learn.phase = "COMPLETE"
                 THEN Requesting("retrying", Request("summary", Generic, 0))
                 ELSE Returning("retrying")
<1>1. "retrying" \in Functions /\ HasAnswer("retrying") /\ UNCHANGED <<records, sights>>
  BY DEF RetryingContinues, Functions
<1>2. ASSUME NEW phase, phase = learn.phase, NEW v, v = w \/ v = Returning("retrying")
      PROVE  RequestsSound(records, phase, v, sights)
  <2>. DEFINE summary == Request("summary", Generic, 0)
  <2>1. "summary" \in Asks
    BY DEF Asks
  <2>2. /\ Rightful(records, sights, "retrying", summary)
        /\ Rightful(records, sights, "retrying", None)
    BY <1>1, <2>1, RequestMade, NoneAsked
  <2>3. v = [work EXCEPT !["retrying"] = summary] \/ v = [work EXCEPT !["retrying"] = None]
    BY <1>2 DEF Requesting, Returning
  <2>. HIDE DEF summary
  <2> QED BY <1>1, <1>2, <2>2, <2>3, Sends
<1>3. CASE /\ r.step = "present"
           /\ Renders(PresentationSettles(learn, r.word, r.code), w, loads)
  <2>. DEFINE m == PresentationSettles(learn, r.word, r.code)
  <2>1. LearnerSound(records, m, sights) /\ m.phase = learn.phase /\ Renders(m, w, loads)
    BY <1>1, <1>3, SettlesLearn
  <2>. HIDE DEF m, w
  <2>2. RequestsSound(records, m.phase, w, sights)
    BY <1>2, <2>1
  <2> QED BY <1>1, <2>1, <2>2, PageMoves
<1>4. CASE learn' = [learn EXCEPT !.summary = TRUE] /\ work' = Returning("retrying")
  <2>1. /\ DOMAIN learn' = DOMAIN learn /\ learn'.presentation = learn.presentation
        /\ learn'.index = learn.index /\ learn'.event = learn.event
        /\ learn'.phase = learn.phase
    BY <1>4, LearnParts DEF Setup
  <2>2. LearnerSound(records, learn', sights) /\ RequestsSound(records, learn'.phase, work', sights)
    BY <1>2, <1>4, <2>1, FieldsStay
  <2> QED BY <1>1, <2>2, PageMoves
<1> QED BY <1>3, <1>4 DEF RetryingContinues

LEMMA LearnInits ==
  ASSUME LearnInit
  PROVE  LearnInv
<1>1. learn = Setup /\ work = [f \in Functions |-> None] /\ sights = <<>>
  BY DEF LearnInit
<1>2. DOMAIN records = DOMAIN FreshStart /\ records.log = <<>>
  BY DEF LearnInit, Interrupted, FreshStart
<1>3. LearnerSound(records, learn, sights)
  BY <1>1 DEF LearnerSound, Setup
<1>4. RequestsSound(records, learn.phase, work, sights)
  BY <1>1, NoneAsked DEF RequestsSound, Functions
<1>5. IsSequence(records.log) /\ IsSequence(sights)
  BY <1>1, <1>2, EmptySeq DEF IsSequence
<1>6. RecordsSound(records, sights)
  BY <1>2, <1>5 DEF RecordsSound
<1> QED BY <1>3, <1>4, <1>6 DEF LearnInv

LEMMA LearnSteps ==
  ASSUME LearnInv, [LearnNext]_learnVars
  PROVE  LearnInv'
<1>1. CASE UNCHANGED learnVars
  BY <1>1 DEF LearnInv, learnVars
<1>2. CASE \E f \in Functions : LearnServes(f) \/ LearnLoses(f)
  BY <1>2, ServesLearn, LosesLearn
<1>3. CASE LearnSessionExpires
  BY <1>3, ExpiresLearn
<1>4. CASE \E s \in Selections : StartGroup(s) \/ ResumeSession(s)
  BY <1>4, StartsLearn
<1>5. CASE \/ IdleTask \/ \E l \in loads : ContentLoaded(l) \/ ContentFails(l)
           \/ RetryContent
  BY <1>5, LoadsLearn
<1>6. CASE RetryPresentation \/ RetryPendingPresentations
  BY <1>6, RetriesLearn
<1>7. CASE ChooseFamiliarity \/ ChoosingContinues
  BY <1>7, ChoosesLearn
<1>8. CASE AdvanceStudy
  BY <1>8, AdvancesLearn
<1>9. CASE RevealCard
  BY <1>9, RevealsLearn
<1>10. CASE RateCard
  BY <1>10, RatesLearn
<1>11. CASE StartingContinues
  BY <1>11, StartingLearn
<1>12. CASE PresentingContinues
  BY <1>12, PresentingLearn
<1>13. CASE RatingContinues
  BY <1>13, RatingLearn
<1>14. CASE RetryingContinues
  BY <1>14, RetryingLearn
<1> QED BY <1>1, <1>2, <1>3, <1>4, <1>5, <1>6, <1>7, <1>8, <1>9, <1>10, <1>11, <1>12, <1>13,
           <1>14 DEF LearnNext

(* Every request and every row names the card its event id was made for,   *)
(* and every word held for recorded is on record.                          *)
THEOREM LearnInvariance == LearnSpec => []LearnInv
<1>1. LearnInit => LearnInv
  BY LearnInits
<1>2. LearnInv /\ [LearnNext]_learnVars => LearnInv'
  BY LearnSteps
<1> QED BY <1>1, <1>2, PTL DEF LearnSpec

(* What the page holds for recorded the worker has recorded, whichever     *)
(* answers are lost and whenever the session expires, and a grade is       *)
(* recorded for the card that was current when its event id was generated  *)
(* (useStudySession.ts:12-13, 549).                                        *)
THEOREM AckedIsOnRecord == LearnSpec => []AckedIsRecorded
<1>1. LearnInv => AckedIsRecorded
  BY DEF LearnInv, LearnerSound, RecordsSound, AckedIsRecorded
<1> QED BY <1>1, LearnInvariance, PTL



==============================================================================
