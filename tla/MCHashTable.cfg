CONSTANTS
  k1 = k1
  k2 = k2
  k3 = k3
  k4 = k4
  k5 = k5
  NULL = NULL
  TOMBSTONE = TOMBSTONE
  Keys = {k1, k2, k3}
  Values = {v1, v2}
  HashA <- MixedHashA
  HashB <- MixedHashB
  MinBase = 5
  Width = 256
SPECIFICATION Spec
INVARIANTS EveryItemFindable CountIsLive
PROPERTY ImplementsMap
SYMMETRY ValueSymmetry
