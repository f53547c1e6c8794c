SPECIFICATION FileSpec
CONSTANTS
  k1 = k1
  k2 = k2
  o1 = o1
  o2 = o2
  o3 = o3
  Ops = {o1, o2, o3}
  Keys = {k1, k2}
  NoOp = NoOp
SYMMETRY Identical
CONSTRAINT BeforeUsurped
INVARIANTS FileTypeOK OneHolder SavesMerge
