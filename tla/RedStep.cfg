SPECIFICATION JourneySpec
CONSTANTS
  Tabs = {t1}
  Storages = {"cookie", "server"}
  MaxAborts = 0
  MaxUpsets = 2
  Visited = {"linking", "dashboard", "callback", "newToken", "newBoard"}
  MaxFlash = 1
INVARIANT RedStepIsMet
CHECK_DEADLOCK FALSE
