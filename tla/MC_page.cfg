\* A page with 20 bytes for rows and entries, two row lengths, two rows.
SPECIFICATION Spec
CONSTANTS
  r1 = r1
  r2 = r2
  Rows = {r1, r2}
  PageSize = 60
  MaxSlots = 3
  Lengths = {1, 4}
  CheckedBytes = 2
  Sectors = {56}
SYMMETRY RowSymmetry
INVARIANTS PageTypeOK ReadsBack
PROPERTY CompactKeeps
