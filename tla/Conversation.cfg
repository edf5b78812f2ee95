\* Two messages, two workers, two attempts, one Change, one fault, a revocation and a new pairing.
CONSTANTS
  m1 = m1
  m2 = m2
  w1 = w1
  w2 = w2
  Mail = Mail
  None = None
  Messages = {m1, m2}
  Workers = {w1, w2}
  MaxAttempts = 2
  Cards = 1
  Pairings = 1
  MaxFaults = 1
SPECIFICATION FairSpec
INVARIANTS ConvTypeOK AnsweredOnce
PROPERTIES MessageSettles
CHECK_DEADLOCK FALSE
