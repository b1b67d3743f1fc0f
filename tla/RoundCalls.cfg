SPECIFICATION Spec
CONSTANTS
  t1 = t1
  a1 = a1
  a2 = a2
  None = None
  Rounds = {1, 2}
  Created = {1}
  Teams = {t1}
  Agents = {a1, a2}
  TeamOf <- SameTeam
  Calls = {c1, c2}
  Requests = {q1}
  Allowed <- Kinds
SYMMETRY Interchangeable
CHECK_DEADLOCK FALSE
INVARIANT TypeOK
PROPERTIES CallsWereAdmitted CancelsWereOwn
