\* A processor and a backfill that overlap.
CONSTANTS
  p1 = p1
  p2 = p2
  o1 = o1
  r1 = r1
  None = None
  Processors = {p1}
  Operators = {o1}
  Explicit = {}
  Relays = {r1}
  Rows = {"event", "initial", "backfill"}
  BatchLimit = 1
  MaxAttempts = 1
  MaxFaults = 0
SPECIFICATION PipelineSpec
INVARIANTS OnlyReevaluationSupersedes
CHECK_DEADLOCK FALSE
