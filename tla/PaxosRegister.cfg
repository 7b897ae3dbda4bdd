SPECIFICATION Spec
CONSTANTS
  p1 = p1
  p2 = p2
  v1 = v1
  v2 = v2
  NoValue = NoValue
  N = 2
  Callers = {p1, p2}
  Values = {v1, v2}
  Remote <- NoneRemote
  MaxBallot = 2
  MaxStray = 1
SYMMETRY Symmetry
INVARIANTS
  TypeOK
  IndInv
  Agreement
PROPERTIES
  CommittedStable
  ImplementsRegister
