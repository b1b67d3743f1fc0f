SPECIFICATION Spec
CONSTANTS
  t1 = t1
  a1 = a1
  a2 = a2
  None = None
  Rounds = {1, 2}
  Created = {1, 2}
  Teams = {t1}
  Agents = {a1}
  TeamOf <- OneAgent
  Calls = {}
  Requests = {q1, q2}
  Allowed <- Kinds
SYMMETRY Interchangeable
CHECK_DEADLOCK FALSE
PROPERTIES UndisturbedStartsAreReady
