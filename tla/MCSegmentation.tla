--------------------------- MODULE MCSegmentation ----------------------------
(***************************************************************************)
(* Books of five pages for TLC: three layouts - numbers that restart with  *)
(* the chapter, numbers that go on, a chapter with digits that can be      *)
(* turned -, every combination of lost, true and misread signals over      *)
(* plain pages, and every pair of contents about the first change of unit. *)
(***************************************************************************)
EXTENDS Segmentation

CONSTANTS wa, wb          \* headwords

Layouts == {<< <<1, 1>>, <<1, 1>>, <<1, 2>>, <<1, 2>>, <<2, 1>> >>,
            << <<1, 1>>, <<1, 2>>, <<1, 2>>, <<2, 3>>, <<2, 3>> >>,
            << <<1, 1>>, <<2, 5>>, <<2, 6>>, <<2, 6>>, <<2, 7>> >>}

Printed(kind, number, names) == [kind |-> kind, number |-> number, names |-> names]
Prose(kind) == Printed(kind, 0, "none")
HeadOf(w) == Printed("head", 0, w)
Exam(w) == Printed("exam", 0, w)

Contents == {<<HeadOf(wa)>>, <<Exam(wa)>>, <<Exam(wa), HeadOf(wa)>>,
             <<Prose("gloss"), HeadOf(wb), Exam(wa)>>,
             <<Prose("note"), Prose("gloss"), Prose("sense"), HeadOf(wa)>>,
             <<Prose("note_all"), Exam(wb), HeadOf(wb)>>,
             <<Printed("ref", 7, "none"), Printed("rest", 0, "none"), Printed("rest", 0, wa)>>,
             <<Printed("rest", 0, wb), HeadOf(wb), Exam("none")>>,
             <<Printed("phrase", 0, wa), HeadOf(wb), Printed("exam_list", 0, wb), Printed("numbered", 8, "none")>>}

(* The signal that is printed on a page of the layout, and its misreads.   *)
SignalsOf(l, p) ==
  <<Prose("none"), Printed("banner", l[p][2], "none")>> \o
  SetToSeq({Printed("tab", n, "none") : n \in MayReadAs(l[p][2])})
AnySignal(l, p, i) == SignalsOf(l, p)[IF i > Len(SignalsOf(l, p)) THEN 1 ELSE i]
TrueSignal(l, p, i) == Printed(<<"tab", "banner", "low", "none">>[i], l[p][2], "none")

(* A tab is read after its page, a low banner after one line that is not a *)
(* headword.                                                               *)
Opener(l, p) == IF p = 1 \/ l[p - 1][1] # l[p][1] THEN <<Printed("opener", l[p][1], "none")>> ELSE <<>>
PageWith(l, p, signal, c) ==
  LET banner == Printed("banner", signal.number, "none") IN
  Opener(l, p) \o
  CASE signal.kind = "none" -> c
    [] signal.kind = "low" /\ c[1].kind # "head" -> <<c[1], banner>> \o Tail(c)
    [] signal.kind = "banner" \/ (signal.kind = "low" /\ c[1].kind = "head") -> <<banner>> \o c
    [] signal.kind = "tab" -> Append(c, signal)

BookOf(l, signals, contents) ==
  [printed |-> l, lines |-> [p \in DOMAIN l |-> PageWith(l, p, signals[p], contents[p])]]

Plain == [p \in 1 .. 5 |-> <<HeadOf(wa)>>]
MCBooks == {BookOf(l, [p \in 1 .. 5 |-> TrueSignal(l, p, 1)], Plain) : l \in Layouts}

MCSegInit ==
  \E l \in Layouts :
    \/ \E s \in [1 .. 5 -> 1 .. 5] : Start(BookOf(l, [p \in 1 .. 5 |-> AnySignal(l, p, s[p])], Plain))
    \/ \E s \in [1 .. 3 -> 1 .. 4], c, d \in Contents :
         Start(BookOf(l, [p \in 1 .. 5 |-> TrueSignal(l, p, IF p > 3 THEN 1 ELSE s[p])],
                      [Plain EXCEPT ![2] = c, ![3] = d]))

MCSegSpec == MCSegInit /\ [][SegNext]_segVars
==============================================================================
