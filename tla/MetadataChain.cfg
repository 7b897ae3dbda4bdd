SPECIFICATION Spec
CHECK_DEADLOCK FALSE
CONSTANTS
  n1 = n1
  n2 = n2
  c1 = c1
  c2 = c2
  c3 = c3
  Nodes = {n1, n2}
  Calls = {c1, c2, c3}
  NodeOf <- HomeOf
  Unwritten = Unwritten
  EndOfLog = 100
  MaxLogId = 1
  MaxRegisters = 3
  MaxRestarts = 1
SYMMETRY Symmetry
INVARIANTS ChainConsistent LookupFindsOwner SuccessMeansVersion
