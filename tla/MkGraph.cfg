SPECIFICATION Spec
CONSTANTS
  Pool <- MCPool
  Disk <- MCDisk
  Root <- MCRoot
  NoNode = NoNode
  NoStem = NoStem
INVARIANTS
  VacuousExact
  OneRecipePerNode
