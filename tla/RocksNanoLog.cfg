SPECIFICATION Spec
CHECK_DEADLOCK FALSE
CONSTANTS
  StartIndex = 9
  MaxIndex = 11
  Commits = {9, 11}
  Fills = {9}
  Bare = {10}
  EndOfLog = 100
  MaxInFlight = 2
  MaxFaults = 1
INVARIANTS NoAckPastHole EndIndexIsCut AckedSurvivesCrash QueueConsistent
