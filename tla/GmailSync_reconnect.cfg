\* Two workers, two consents, one fault: the connection fails, is revoked, is made again.
CONSTANTS
  w1 = w1
  w2 = w2
  None = None
  Workers = {w1, w2}
  Old = 1
  MaxMail = 2
  Malformed = {}
  MaxGrants = 2
  MaxFaults = 1
SPECIFICATION FairSyncSpec
INVARIANTS NothingBeforeConnection
PROPERTIES EveryMailArrives
CHECK_DEADLOCK FALSE
