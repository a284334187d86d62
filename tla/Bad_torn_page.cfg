\* One row is written, the write with a second one is torn.
SPECIFICATION Spec
CONSTANTS
  r1 = r1
  r2 = r2
  Rows = {r1, r2}
  PageSize = 64
  MaxSlots = 2
  Lengths = {4}
  CheckedBytes = 2
  Sectors = {56}
PROPERTY ReadsIntact
