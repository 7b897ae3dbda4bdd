SPECIFICATION Spec
CHECK_DEADLOCK FALSE
CONSTANTS
  Futures = {f1, f2, f3, f4, f5}
  Need = 3
  Concurrent = TRUE
INVARIANTS ValueMeansQuorum NoAnswerLost
