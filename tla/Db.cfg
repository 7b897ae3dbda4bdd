SPECIFICATION Spec
CONSTANTS
  c1 = c1
  c2 = c2
  Clients = {c1, c2}
  Databases <- MCDatabases
  TableNames <- MCTableNames
  PrimaryKeys <- AnyOrder
  Requests <- RowRequests
  MaxAdminCalls = 6
  MaxQuietCalls = 11
  MaxRowCalls = 2
  MaxCrashes = 2
  MaxWriteFails = 1
  MaxEvents = 3
  MaxIds = 11
  PageSizes = {1, 2}
SYMMETRY Symmetry
INVARIANTS
  ScanIsRows
  
  IndexCovers
  TableIdsFresh
CHECK_DEADLOCK FALSE
