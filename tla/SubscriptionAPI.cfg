SPECIFICATION Spec
CONSTANTS
  Request = {r1, r2}
  User = {u1, u2}
  Name = {n1, n2, n3}
  Cap = 2
  MaxId = 4
  MaxFaults = 1
SYMMETRY Interchangeable
INVARIANTS CapRespected AnswersMatchTable
