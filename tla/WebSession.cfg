CONSTANTS
  Nobody = Nobody
  Users = {u1, u2}
  Returning = {u1}
  ReadAttempts = 2
  MaxAuthSessions = 2
  MaxAdminChanges = 1
  MaxCallsLost = 1
  MaxOutstanding = 2
SPECIFICATION WebSpec
CHECK_DEADLOCK FALSE
INVARIANTS OldPasswordIsOut WritesAsBelieved
PROPERTIES SignOutEnds
