SPECIFICATION Spec
CONSTANTS
  HistoryLimit = 2
  Ids = {1, 2}
  Nonces = {}
  Backlog = 2
  PageLimit = 2
  Requests = {r1, r2}
  MaxBody = 0
  MaxLifetimes = 3
  MaxRestDeletes = 1
  MaxWire = 2
  MaxFaults = 1
  Faults = {"refuse", "redeliver"}
  PagesCarryNonce = FALSE
  BulkDelete = TRUE
  NoNonce = NoNonce
INVARIANTS SettledMembership
PROPERTIES ImplementsLoadGate ImplementsTombstones
CHECK_DEADLOCK FALSE
