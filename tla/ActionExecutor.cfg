\* Two handlers race for a send and an update; faults bounded by 3.
CONSTANTS
  send = send
  update = update
  h1 = h1
  h2 = h2
  None = None
  Actions = {send, update}
  Sends = {send}
  Once = {send}
  Handlers = {h1, h2}
  MaxFaults = 3
SPECIFICATION FairSpec
INVARIANTS TypeOK AtMostOnce OutcomeIsTruthful NoStrandedAction
PROPERTIES NeverRepeated EveryActionEnds
CHECK_DEADLOCK FALSE
