CONSTANTS
  r1 = r1
  r2 = r2
  r3 = r3
  k1 = k1
  k2 = k2
  k3 = k3
  ReleaseIds = {r1, r2}
  StableKeys = {k1, k2}
  KeysIn <- MCKeysAgain
  MaxActivations = 2
  MaxBatch = 1
INIT AliasInit
NEXT AliasNext
INVARIANT NoWalkIsAmbiguous
CHECK_DEADLOCK FALSE
