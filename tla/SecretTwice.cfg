SPECIFICATION SecretsSpec
CONSTANTS
  Tabs = {t1, t2}
  Storages = {"cookie", "server"}
  MaxAborts = 0
  MaxUpsets = 0
  TokenIds = {k1, k2}
  MaxSubmits = 1
INVARIANTS
  SecretShownOnce
CHECK_DEADLOCK FALSE
