SPECIFICATION RingSpec
CONSTANTS
  p1 = p1
  p2 = p2
  p3 = p3
  Procs = {p1, p2, p3}
  InitTask = Init0
  IdleTask = Idle
  Null = Null
  Profiles <- TreeAndBusyProfiles
  EndTime = 12
  TicksPerJiffy = 2
  NsPerJiffy = 729
  IOTimes <- FiveOrSix
  WaitTimes <- OneOrThree
  MaxTick = 12
  MaxWait = 2
  MaxJiffies = 40
INVARIANTS
  ParentOutlivesChild
  ChildCountExact
  ShutsDownInTime
  NoStarvation
  PointersAreTheRing
PROPERTIES
  TickRotates
