\* Two workers; one message from before the connection, two after, one malformed.
CONSTANTS
  w1 = w1
  w2 = w2
  None = None
  Workers = {w1, w2}
  Old = 1
  MaxMail = 3
  Malformed = {3}
  MaxGrants = 1
  MaxFaults = 2
SYMMETRY WorkerSymmetry
SPECIFICATION SyncSpec
INVARIANTS SyncTypeOK
PROPERTIES CursorCoversMail
CHECK_DEADLOCK FALSE
