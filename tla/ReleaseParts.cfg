CONSTANTS
  r1 = r1
  r2 = r2
  r3 = r3
  k1 = k1
  k2 = k2
  k3 = k3
  ReleaseIds = {r1, r2, r3}
  StableKeys = {k1, k2, k3}
  KeysIn <- MCKeysIn
  MaxActivations = 2
  MaxBatch = 2
  Nothing = Nothing
  a1 = a1
  a2 = a2
  Learners = {u1, u2}
  Exporters <- MCExporters
  Offered <- MCOffered
  PageSize = 1
  MaxRowWrites = 1
  MaxPrepared = 1
  Releases = {r1, r2}
  Slots = {s1}
  Unknown = Unknown
  LastBuild = 2
  MaxSessions = 1
  MaxSwitches = 1
SPECIFICATION MCSpec
SYMMETRY AnyExporter
INVARIANTS ProgressIsAtTheRoot RestoredHasItsAnswers FinishedExportRestores ClearedAtLogout
CHECK_DEADLOCK FALSE
