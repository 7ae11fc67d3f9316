--------------------------- MODULE StudyRefinement ---------------------------
(***************************************************************************)
(* One user's requests, sent one at a time (SerialSpec), implement         *)
(* ReviewHistory: the user's stack of grades is the part of review_log     *)
(* that is not undone, in rowid order.                                     *)
(***************************************************************************)
EXTENDS StudyServer

(* The place of e in the stack of u, and the row at place i.               *)
Rank(u, e) == Cardinality({d \in UnUndone(u) : reviewLog[d].rowid <= reviewLog[e].rowid})
Standing(u, i) == CHOOSE e \in UnUndone(u) : Rank(u, e) = i

GradeOf(e) == [event |-> e, session |-> reviewLog[e].session, card |-> reviewLog[e].card]
Stack(u) == [i \in 1..Cardinality(UnUndone(u)) |-> GradeOf(Standing(u, i))]

Queues == [s \in Sessions |-> IF session[s] = NONE THEN <<>> ELSE session[s].queue]
Positions == [s \in Sessions |-> IF session[s] = NONE THEN 0 ELSE session[s].position]
Stacks == [u \in Users |-> Stack(u)]
EventsUsed == {e \in Events : reviewLog[e] # NONE}

History == INSTANCE ReviewHistory WITH
  queue <- Queues,
  position <- Positions,
  history <- Stacks,
  schedule <- cardState,
  used <- EventsUsed

(* Grades and undos, as spec 8.3 describes them, are all that the database *)
(* shows of any number of retried, replayed and refused requests.          *)
ImplementsHistory == History!Spec
=============================================================================
