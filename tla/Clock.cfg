SPECIFICATION FairSpec
CONSTANTS
  Cpus = {0, 1}
  Relative = {t1}
  None = None
  Period = 2
  Delay = 1
  MaxTime = 3
  MaxOps = 3
  Programs <- MCPrograms
  Times = {2}
  Slews <- MCSlews
  HZ = 2
  Half = 128
INVARIANTS
  QueuesExact
  HeadArmed
  NoSelfDeadlock
PROPERTIES
  TimeForward
  TimersFire
CHECK_DEADLOCK FALSE
