SPECIFICATION Spec
CHECK_DEADLOCK FALSE
CONSTANTS
  Appends = {a1, a2}
  Syncs = {s1}
  Foreign = {f1, f2}
  FirstLogId = 0
  SerialCalls = TRUE
  MaxReadErrors = 1
INVARIANT PromisesFollowApply
PROPERTIES AppliesNext AppendAnswered
