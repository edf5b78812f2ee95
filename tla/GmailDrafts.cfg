\* One draft with two versions, two contents and two racing handlers.
CONSTANTS
  d1 = d1
  c1 = c1
  c2 = c2
  h1 = h1
  h2 = h2
  None = None
  Drafts = {d1}
  Contents = {c1, c2}
  Handlers = {h1, h2}
  MaxVersion = 2
  MaxFaults = 2
SYMMETRY DraftSymmetry
SPECIFICATION DraftSpec
INVARIANTS DraftTypeOK SentWasApproved PendingIsCurrent ManagedStatusAgrees
PROPERTIES  ImplementsPromise
CHECK_DEADLOCK FALSE
