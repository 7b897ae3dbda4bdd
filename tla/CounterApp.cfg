SPECIFICATION FairSpec
CHECK_DEADLOCK FALSE
CONSTANTS
  ctr = ctr
  hkey = hkey
  Nodes = {n1, n2}
  Checker = n1
  Keys = {ctr, hkey}
  HealthKey = hkey
  Batches <- TwoBatches
  FirstLogId = 0
  MaxLog = 4
  MaxFaults = 1
  MaxSnapshots = 1
INVARIANTS ValuesAreReplay AnswerMatchesEntry HealthKeyBounded
PROPERTY CallsAnswered
