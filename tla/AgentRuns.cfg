\* Two runs of one or two Events, two workers, two attempts, one edit, one fault.
CONSTANTS
  e1 = e1
  e2 = e2
  w1 = w1
  w2 = w2
  None = None
  Runs = {1, 2}
  Events = {e1, e2}
  Workers = {w1, w2}
  MaxAttempts = 2
  MaxRetries = 1
  MaxEdits = 1
  MaxFaults = 1
SPECIFICATION FairSpec
INVARIANTS AgentTypeOK OneResult 
PROPERTIES RunSettles
CHECK_DEADLOCK FALSE
