CONSTANTS
  Replicas = {r1, r2, r3}
  Clients = {c1, c2}
  Sequencers = {s1}
  FirstSequencer = s1
  Appends = {a1}
  Overlap = TRUE
  EndOfLog = 2000
  BootstrapEnd = 1000
  MaxLogId = 2
  MaxVersion = 2
  MaxAborts = 0
  MaxLate = 0
SYMMETRY Symmetry
SPECIFICATION Spec
INVARIANTS AckedBeforeSealKept SegmentsContiguous
CHECK_DEADLOCK FALSE
