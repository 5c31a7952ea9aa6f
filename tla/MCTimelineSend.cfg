SPECIFICATION Spec
CONSTANTS
  HistoryLimit = 2
  Ids = {1, 2}
  Nonces = {n1}
  Backlog = 1
  PageLimit = 2
  Requests = {r1}
  MaxBody = 0
  MaxLifetimes = 2
  MaxRestDeletes = 0
  MaxWire = 1
  MaxFaults = 1
  Faults = {"drop", "redeliver", "lostReply", "emptyReply", "refuse"}
  PagesCarryNonce = TRUE
  BulkDelete = FALSE
  NoNonce = NoNonce
PROPERTIES SendKept MsgRevTracksContents EchoResolves LoadCompletes
CHECK_DEADLOCK FALSE
