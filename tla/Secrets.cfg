SPECIFICATION SecretsSpec
CONSTANTS
  Tabs = {t1}
  Storages = {"cookie", "server"}
  MaxAborts = 0
  MaxUpsets = 2
  TokenIds = {k1, k2}
  MaxSubmits = 2
INVARIANTS
  SecretShownOnce
  SecretNotLost
PROPERTY TokenRequestsEnd
CHECK_DEADLOCK FALSE
