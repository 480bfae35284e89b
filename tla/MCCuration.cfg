SPECIFICATION Spec
CONSTANTS
  None = None
  a1 = a1  a2 = a2  t1 = t1  t2 = t2  m = m  n = n  k1 = k1  k2 = k2
  Areas = {a1, a2}
  Tables = {t1, t2}
  Names = {m, n}
  Conditions = {k1, k2}
  Definitions = {0, 1, 9}
  Invalid = 9
  Verbs = {"approve", "include"}
  AddedStates = {"approved"}
  Models <- MCModels
  Writes <- MCWrites
  MaxBatch = 2
  MaxOps = 4
INVARIANTS ApprovedIsAsSigned
PROPERTIES UndoneIsUntouched StaleIsTold MoveKeepsDecisions
CHECK_DEADLOCK FALSE
