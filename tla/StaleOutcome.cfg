SPECIFICATION JourneySpec
CONSTANTS
  Tabs = {t1}
  Storages = {"cookie", "server"}
  MaxAborts = 1
  MaxUpsets = 0
  Visited = {"linking", "dashboard", "callback", "newToken", "newBoard"}
  MaxFlash = 2
INVARIANTS
  LatestOutcomeShown
CHECK_DEADLOCK FALSE
