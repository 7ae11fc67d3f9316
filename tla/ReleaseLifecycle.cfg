CONSTANTS
  A = A
  B = B
  C = C
  x = x
  NONE = NONE
  s1 = s1
  Releases = {A, B, C}
  Objects = {x}
  Sessions = {s1}
  Audio <- SharedAudio
  Drivers <- BothDrivers
  MinRetained = 1
  AudioGrace = 1
  TTL = 1
  MaxTime = 1
SPECIFICATION Spec
SYMMETRY Interchangeable
INVARIANTS AdmittedIsWhole PointerServes
PROPERTIES LeftIsPrevious LiveSessionsStay FreshPlanIsSafe
CHECK_DEADLOCK FALSE
