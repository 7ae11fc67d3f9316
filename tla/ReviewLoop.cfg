\* One unit, one repair at most, one edit of its source.
CONSTANTS
  MaxRepairRounds = 1
  MaxEdits = 1
  Misnaming = {"generation"}
SPECIFICATION LoopSpec
INVARIANTS AcceptedIsReviewed
PROPERTIES LoopEnds
CHECK_DEADLOCK FALSE
