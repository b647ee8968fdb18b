SPECIFICATION JourneySpec
CONSTANTS
  Tabs = {t1}
  Storages = {"cookie", "server"}
  MaxAborts = 0
  MaxUpsets = 3
  Visited = {"linking", "dashboard", "callback", "newToken", "newBoard"}
  MaxFlash = 2
INVARIANTS
  LinkingTypeOK
  LatestOutcomeShown
  RefusalExplained
  PagesAreTruthful
  OffersFit
PROPERTIES
  SentBackOnce
CHECK_DEADLOCK FALSE
