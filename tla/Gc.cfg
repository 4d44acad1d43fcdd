SPECIFICATION Spec
CONSTANTS
  Root = {r1, r2}
  FirstChunk <- MCFirst
  Spares <- MCEither
  YoungSize = 4
  GraySizes = {2}
  MaxOps = 3
  Sizes = {1}
INVARIANTS
  NoLiveFreed
  RememberedSet
  NoGrayLost
  FreeListExact
CHECK_DEADLOCK FALSE
