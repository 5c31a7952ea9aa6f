SPECIFICATION Spec
CONSTANTS
  HistoryLimit = 3
  Ids = {1, 2, 3, 4}
  Nonces = {n1}
  NoNonce = NoNonce
  MaxBody = 1
PROPERTIES RemovesOne
