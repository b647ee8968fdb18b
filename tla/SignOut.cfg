SPECIFICATION SessionJourneySpec
CONSTANTS
  Tabs = {t1, t2}
  Storages = {"cookie"}
  MaxAborts = 0
  SessionIds = {s1}
  Providers = {"entra"}
  RefreshSettings = {TRUE}
  MaxFaults = 1
INVARIANT SignOutIsFinal
CHECK_DEADLOCK FALSE
