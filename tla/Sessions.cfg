SPECIFICATION SessionJourneySpec
CONSTANTS
  Tabs = {t1, t2}
  Storages = {"cookie"}
  MaxAborts = 1
  SessionIds = {s1, s2}
  Providers = {"entra", "local"}
  RefreshSettings = {TRUE, FALSE}
  MaxFaults = 2
SYMMETRY Symm
INVARIANTS
  AuthTypeOK
  CookieNamesStored
  LetInOnGrounds
  SignedOutStaysOut
PROPERTIES
  OnlySignOutEnds
  ImplementsSessionLife
CHECK_DEADLOCK FALSE
