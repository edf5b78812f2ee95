\* Two processors, an operator with a reevaluation and a backfill, two attempts, one fault.
CONSTANTS
  p1 = p1
  p2 = p2
  o1 = o1
  r1 = r1
  None = None
  Processors = {p1, p2}
  Operators = {o1}
  Explicit = {"x"}
  Relays = {r1}
  Rows = {"event", "initial", "backfill", "x"}
  BatchLimit = 1
  MaxAttempts = 2
  MaxFaults = 1
SPECIFICATION FairPipelineSpec
INVARIANTS PipelineTypeOK SignalChain 
PROPERTIES ImplementsOutbox 
CHECK_DEADLOCK FALSE
