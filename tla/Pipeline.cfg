CONSTANTS
  a = a
  b = b
  NONE = NONE
  Procs = {a, b}
  MaxEdits = 1
  Answers = 1
  Throughs <- NormalizeGateOrAll
  Blockable <- OnlyCards
SPECIFICATION Spec
SYMMETRY Interchangeable
INVARIANTS OneCompile NoPhantomRunning SkippedIsFresh
PROPERTIES BundlesAreOfOneCompile
