SPECIFICATION FairSpec
CHECK_DEADLOCK FALSE
CONSTANTS
  Nodes = {n1, n2, n3}
  First = n1
  Window = 2
  MaxVersion = 2
  MaxFaults = 1
INVARIANTS StateWithinChain AckedOnCurrent
PROPERTIES SealedBeforeInstalled DeadIsReconfigured StateCatchesUp
