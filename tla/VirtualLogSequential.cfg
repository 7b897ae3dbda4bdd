CONSTANTS
  Replicas = {r1, r2, r3}
  Clients = {c1}
  Sequencers = {s1}
  FirstSequencer = s1
  Appends = {a1, a2}
  Overlap = FALSE
  EndOfLog = 2000
  BootstrapEnd = 1000
  MaxLogId = 2
  MaxVersion = 2
  MaxAborts = 1
  MaxLate = 1
SYMMETRY Symmetry
SPECIFICATION Spec
INVARIANTS TypeOK AckedEntryReadable SegmentAgreement CommitIndexOnQuorum RecoveryFindsEntry
PROPERTY StoredEntriesFixed
CHECK_DEADLOCK FALSE
