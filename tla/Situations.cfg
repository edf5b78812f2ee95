\* Three Events in up to two threads, one Goal, two editors, two reevaluations, edits or failures.
CONSTANTS
  t1 = t1
  t2 = t2
  d1 = d1
  d2 = d2
  g1 = g1
  None = None
  Events = {1, 2, 3}
  Threads = {t1, t2}
  Goals = {g1}
  Editors = {d1, d2}
  MaxExtras = 2
SYMMETRY Symmetry
SPECIFICATION Spec
INVARIANTS SituationTypeOK OneSituationPerThread 
PROPERTIES DecisionsStand
