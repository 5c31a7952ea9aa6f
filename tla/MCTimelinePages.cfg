SPECIFICATION Spec
CONSTANTS
  HistoryLimit = 2
  Ids = {1, 2, 3}
  Nonces = {}
  Backlog = 2
  PageLimit = 2
  Requests = {r1, r2}
  MaxBody = 1
  MaxLifetimes = 1
  MaxRestDeletes = 0
  MaxWire = 2
  MaxFaults = 0
  Faults = {}
  PagesCarryNonce = FALSE
  BulkDelete = TRUE
  NoNonce = NoNonce
SYMMETRY Symmetry
PROPERTIES NoRollback PagingKeepsBothEnds
CHECK_DEADLOCK FALSE
