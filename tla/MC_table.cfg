\* Tables of two pages of at most four slots; one statement, one failure.
SPECIFICATION FairSpec
CONSTANTS
  INDEX_ORDER = 3
  Values = {"1", "2", "4", "al", "bob"}
  NewValues = {"al"}
  atoi <- MCAtoi
  ColTypes <- Texts
  Garbage = {0, 4}
  FewValues = {"2", "bob"}
  PageSlots = 4
  MaxPages = 3
  MaxFaults = 1
  MaxStatements = 1
  Tables <- MCTables
INVARIANTS TableTypeOK LookupRight SplitSurvived IndexMaintained EachRowOnce WholeTable
PROPERTIES TableReturns
