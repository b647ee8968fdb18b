SPECIFICATION TokensSpec
CONSTANTS
  Tabs = {t1, t2}
  Storages = {"cookie"}
  MaxAborts = 1
  MaxUpsets = 1
  TokenIds = {k1, k2}
  MaxSubmits = 1
SYMMETRY TabSymmetry
INVARIANTS
  TokensTypeOK
  RevokedBannerTruthful
  RevocationIsFinal
  NoUnaskedToken
  SecretsAreIssued
CHECK_DEADLOCK FALSE
