SPECIFICATION TokensSpec
CONSTANTS
  Tabs = {t1}
  Storages = {"cookie", "server"}
  MaxAborts = 0
  MaxUpsets = 1
  TokenIds = {k1, k2}
  MaxSubmits = 1
INVARIANTS
  LapsedUserCanRevoke
CHECK_DEADLOCK FALSE
