\* Three rows, two relays that claim up to two of them, two faults.
CONSTANTS
  r1 = r1
  r2 = r2
  m1 = m1
  m2 = m2
  m3 = m3
  None = None
  Rows = {m1, m2, m3}
  Relays = {r1, r2}
  BatchLimit = 2
  MaxFaults = 2
SPECIFICATION FairOutboxSpec
INVARIANTS OutboxTypeOK PublishedWasAccepted
PROPERTIES StaleRelayOverwritesNothing EveryRowPublished
CHECK_DEADLOCK FALSE
