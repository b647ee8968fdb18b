SPECIFICATION BoardJourneySpec
CONSTANTS
  Tabs = {t1, t2}
  Storages = {"cookie", "server"}
  MaxAborts = 1
  MaxUpsets = 1
  Boards = {b1, b2}
SYMMETRY BoardSymmetry
INVARIANTS
  BoardsTypeOK
  ConflictIsReal
  ConfirmationTruthful
  ConfirmationFollows
  ConfirmedOnce
CHECK_DEADLOCK FALSE
