\* Seven rows in an index of the code's order, one lookup, no failure.
SPECIFICATION FairSpec
CONSTANTS
  INDEX_ORDER = 4
  Values = {"1", "2", "3", "4"}
  NewValues = {"3"}
  atoi <- MCAtoi
  ColTypes <- Texts
  Garbage = {0}
  FewValues = {"3"}
  PageSlots = 4
  MaxPages = 2
  MaxFaults = 0
  MaxStatements = 1
  Tables <- EqualKeys
INVARIANT LookupFinds
