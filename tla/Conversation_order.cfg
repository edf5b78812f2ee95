\* Two messages, one worker, one fault: a turn waits for its retry while the next is answered.
CONSTANTS
  m1 = m1
  m2 = m2
  w1 = w1
  w2 = w2
  Mail = Mail
  None = None
  Messages = {m1, m2}
  Workers = {w1}
  MaxAttempts = 2
  Cards = 0
  Pairings = 0
  MaxFaults = 1
SPECIFICATION Spec
INVARIANTS RepliesInOrder
CHECK_DEADLOCK FALSE
