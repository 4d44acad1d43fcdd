SPECIFICATION Spec
CONSTANTS
  Nhole = 2
  Memory = 64
  MaxSize = 48
  MinArena = 12
  Quantum = 4
  SlackLimit = 12
  SkipLimit = 8
  Ids = {1, 2, 3}
  DataSizes = {2, 9}
  Alignments <- MCAlignments
  MaxOps = 5
INVARIANTS
  FreeTreeExact
  ArenasTiled
  DataIntact
  XallocExact
CHECK_DEADLOCK FALSE
