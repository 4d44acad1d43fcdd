SPECIFICATION Spec
CONSTANTS
  Root = {r1, r2}
  FirstChunk <- MCFirst
  Spares <- MCOnlyBelow
  YoungSize = 4
  GraySizes = {2}
  MaxOps = 3
  Sizes = {1}
INVARIANTS
  FreeListSorted
CHECK_DEADLOCK FALSE
