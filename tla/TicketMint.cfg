SPECIFICATION Spec
CONSTANTS
  n1 = n1
  n2 = n2
  n3 = n3
  q1 = q1
  q2 = q2
  q3 = q3
  t1 = t1
  t2 = t2
  Nodes = {n1, n3}
  NodeSetOf <- TwoSets
  Tickets = {t1, t2}
  Nonces = {q1, q2, q3}
  Tfk <- OneKey
  MaxEpoch = 1
  MaxAttempts = 2
  Ttl = 1
  MaxNow = 1
  MaxRestarts = 1
  None = None
SYMMETRY RequestSymmetry
INVARIANTS
  TypeOK
  NeverAcceptedTwice
  BudgetHeld
  OwnerKeepsBudget
