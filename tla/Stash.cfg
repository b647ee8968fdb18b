SPECIFICATION StashSpec
CONSTANTS
  Tabs = {t1, t2}
  Storages = {"cookie"}
  MaxAborts = 0
  MaxUpsets = 1
  Visited = {"callback", "newToken", "newBoard"}
  MaxFlash = 1
PROPERTIES
  OnlyOutstandingReturns
  GateFailsClosed
  RequestsEnd
CHECK_DEADLOCK FALSE
