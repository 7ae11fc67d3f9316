CONSTANTS
  w1 = w1
  w2 = w2
  w3 = w3
  Generic = Generic
  Book <- MCBook
  Selections <- MCSelections
  LearnGroupSize = 2
  MaxLearnReveals = 2
  MaxLearnLosses = 1
  ReviewCards <- MCReviewCards
  MaxSessions = 2
  MaxReveals = 3
  MaxLosses = 1
  MaxMounts = 2
SPECIFICATION MCSpec
CHECK_DEADLOCK FALSE
INVARIANTS GradedAsShown InStep AckedIsRecorded
PROPERTIES ReviewPageWaitsEnd LearnPageWaitsEnd
