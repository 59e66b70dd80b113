SPECIFICATION FairSpec
CONSTANTS
  p1 = p1
  p2 = p2
  p3 = p3
  Procs = {p1, p2}
  InitTask = Init0
  IdleTask = Idle
  Profiles <- PairProfiles
  EndTime = 6
  TicksPerJiffy = 2
  NsPerJiffy = 729
  IOTimes <- OneTwoFour
  WaitTimes <- OneOrThree
  MaxTick = 6
  MaxWait = 2
  MaxJiffies = 10
INVARIANTS
  TypeOK
  QueuesHoldLiveTasksOnce
  HeadIsInitAndCountExact
  CpuRunsQueuedTask
  RescheduleServedInItsPass
  SleeperHasArmedTimer
PROPERTIES
  FollowsTaskLife
  Termination
  SleeperWakes
