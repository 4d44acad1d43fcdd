SPECIFICATION Spec
CONSTANTS
  Node <- LibNode
  NoNode = NoNode
  Rule <- LibRule
  NoJob = NoJob
  Pid = {1, 2}
  NProcs = {2}
  Arcs <- LibArcs
  AllTargets <- LibTargets
  HasRecipe <- LibHasRecipe
  DeleteOnError <- LibDelete
  IsVirtual = {"dirs"}
  GoalLists <- LibGoals
  DryModes = {FALSE}
  Start = 3
  InitTimes <- LibTimes
  Tick = {1}
  MayFail <- LibDelete
  MayBeKilled = {}
  MayNotWrite = {}
INVARIANT NoIncompleteFiles
