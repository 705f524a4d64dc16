CONSTANTS
  k1 = k1
  k2 = k2
  k3 = k3
  k4 = k4
  k5 = k5
  NULL = NULL
  TOMBSTONE = TOMBSTONE
  Keys = {k1, k2, k3, k4, k5}
  Values = {v1}
  HashA <- DenseHashA
  HashB <- DenseHashB
  MinBase = 5
  Width = 1024
SPECIFICATION CompilerSpec
INVARIANTS TypeOK AlwaysAnEmptySlot
PROPERTY EveryCallReturns
