---------------------------- MODULE MCStatistics ----------------------------
(***************************************************************************)
(* Calendars for Statistics: a fixed offset, and changes of the offset in  *)
(* the night in which day 5 begins.                                        *)
(***************************************************************************)
EXTENDS Statistics

MCZones == {
  [before |-> 8, after |-> 8, at |-> 0],
  [before |-> 2, after |-> 3, at |-> 118],       \* midnight to one o'clock
  [before |-> -3, after |-> -4, at |-> 123]}     \* midnight to eleven

(* The hours at which day 5 begins, one before it, and the next day.       *)
MCClock == {112, 118, 123, 124, 148}

(* The active release presents the first card under a new name.            *)
MCServedCards == {[key |-> "a2", unit |-> 1], [key |-> "b", unit |-> 2]}
MCAliasEdges == {<<"a2", "a">>}
MCWordOfCard == [c \in {"a", "b"} |-> IF c = "a" THEN 1 ELSE 2]
MCInterval == <<24, 2>>
=============================================================================
