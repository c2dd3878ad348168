SPECIFICATION Spec
CONSTANTS
  Callers = {c1, c2}
  Keys = {k1, k2}
  Originals = {v1, v2}
  MaxAttempts = 2
  MaxRevisions = 5
  Nil = Nil
PROPERTY
  DeletesOnlyItsKey
SYMMETRY Interchangeable
CHECK_DEADLOCK FALSE
