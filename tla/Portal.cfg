SPECIFICATION PortalSpec
CONSTANTS
  Tabs = {t1}
  Storages = {"cookie"}
  MaxAborts = 1
  MaxUpsets = 1
  Visited = {"callback", "newToken"}
  MaxFlash = 1
  SessionIds = {s1, s2}
  Providers = {"entra"}
  RefreshSettings = {TRUE}
  MaxFaults = 1
INVARIANT ToldTheirOwn
PROPERTY PortalRequestsEnd
CHECK_DEADLOCK FALSE
