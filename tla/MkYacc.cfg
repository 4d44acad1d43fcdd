SPECIFICATION FairSpec
CONSTANTS
  Node <- YaccNode
  NoNode = NoNode
  Rule <- YaccRule
  NoJob = NoJob
  Pid = {1, 2}
  NProcs = {1, 2}
  Arcs <- YaccArcs
  AllTargets <- YaccTargets
  HasRecipe <- YaccHasRecipe
  DeleteOnError = {}
  IsVirtual = {"all"}
  GoalLists <- YaccGoals
  DryModes = {TRUE, FALSE}
  Start = 3
  InitTimes <- YaccTimes
  Tick = {0, 1}
  MayFail = {}
  MayBeKilled = {}
  MayNotWrite = {}
INVARIANTS
  ExitUpToDate
  RewritesSeen
PROPERTIES
  OnlyStaleRebuilt
  ImplementsTopoBuild
  Terminates
