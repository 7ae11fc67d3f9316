---------------------------- MODULE ReviewHistory ----------------------------
(***************************************************************************)
(* What the study API promises to a user, with no database, requests or    *)
(* races in it: the grades a user has made form a stack.  A grade answers  *)
(* the next card of a session's queue and is pushed; an undo pops the last *)
(* grade, whatever its session, and gives its card back.  The schedule of  *)
(* a card is the one its last remaining grade computed (spec 8.3).         *)
(***************************************************************************)
EXTENDS Integers, Sequences

CONSTANTS Users, Sessions, Events, Cards, NONE

VARIABLES
  queue,     \* session -> its cards in order, <<>> before it exists
  position,  \* session -> how many of them are answered
  history,   \* user -> stack of grades [event, session, card], last on top
  schedule,  \* user -> card -> the grade that computed its schedule, or NONE
  used       \* events ever graded

vars == <<queue, position, history, schedule, used>>

Init ==
  /\ queue = [s \in Sessions |-> <<>>]
  /\ position = [s \in Sessions |-> 0]
  /\ history = [u \in Users |-> <<>>]
  /\ schedule = [u \in Users |-> [c \in Cards |-> NONE]]
  /\ used = {}

(* The event of the last grade of card c in stack h.                       *)
LastGrade(h, c) ==
  IF \E i \in DOMAIN h : h[i].card = c
  THEN h[CHOOSE i \in DOMAIN h :
           h[i].card = c /\ \A j \in DOMAIN h : h[j].card = c => j <= i].event
  ELSE NONE

Open(s, q) ==
  /\ queue[s] = <<>>
  /\ queue' = [queue EXCEPT ![s] = q]
  /\ UNCHANGED <<position, history, schedule, used>>

Grade(u, s, e) ==
  /\ position[s] < Len(queue[s])
  /\ e \notin used
  /\ LET c == queue[s][position[s] + 1]
     IN  /\ history' = [history EXCEPT ![u] =
                          Append(@, [event |-> e, session |-> s, card |-> c])]
         /\ schedule' = [schedule EXCEPT ![u][c] = e]
  /\ position' = [position EXCEPT ![s] = @ + 1]
  /\ used' = used \union {e}
  /\ UNCHANGED queue

Undo(u) ==
  /\ history[u] # <<>>
  /\ LET top == history[u][Len(history[u])]
         rest == SubSeq(history[u], 1, Len(history[u]) - 1)
     IN  /\ history' = [history EXCEPT ![u] = rest]
         /\ schedule' = [schedule EXCEPT ![u][top.card] = LastGrade(rest, top.card)]
         /\ position' = [position EXCEPT ![top.session] = @ - 1]
  /\ UNCHANGED <<queue, used>>

Next ==
  \/ \E s \in Sessions : Open(s, queue'[s])
  \/ \E u \in Users, s \in Sessions, e \in Events : Grade(u, s, e)
  \/ \E u \in Users : Undo(u)

Spec == Init /\ [][Next]_vars
=============================================================================
