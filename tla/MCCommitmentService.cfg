SPECIFICATION Spec
CONSTANTS
  Requests = {q1, q2, q3}
  Keys = {k1, k2}
  NoKey = nokey
  Ids = {i1, i2}
  NoId = noid
  Revisions = {2}
SYMMETRY Symmetry
INVARIANTS TypeOK OneRowPerKey SameKeySameAnswer
PROPERTY ImplementsLedger
