---------------------------- MODULE MCStudyServer ----------------------------
(***************************************************************************)
(* Instances of StudyServer for TLC.  Word w1 has the cards c1 and c2, and *)
(* w2 the card c3.  Releases A and B teach w1 and w2, under the same names;*)
(* release B has no card c2.                                               *)
(***************************************************************************)
EXTENDS StudyServer, TLC

CONSTANTS c1, c2, c3, w1, w2, A, B

TwoCards == {c1, c2}
ThreeCards == {c1, c2, c3}
MCWordOf == [c \in Cards |-> IF c = c3 THEN w2 ELSE w1]
MCReleaseWords == [rel \in Releases |-> Words]
MCActiveCards == [rel \in Releases |-> IF rel = A THEN Cards ELSE Cards \ {c2}]
SameNames == [rel \in Releases |-> [k \in Keys |-> k]]
MCCardOrder == [rel \in Releases |-> [c \in Cards |->
                  CASE c = c1 -> 1 [] c = c3 -> 2 [] OTHER -> 3]]
MCWordOrder == [rel \in Releases |-> [w \in Words |-> IF w = w1 THEN 1 ELSE 2]]

Interchangeable == Permutations(Requests) \union Permutations(Events)
                   \union Permutations(Sessions) \union Permutations(PatchIds)
UsersToo == Interchangeable \union Permutations(Users)
=============================================================================
