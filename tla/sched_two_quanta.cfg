SPECIFICATION QSpec
CONSTANTS
  p1 = p1
  p2 = p2
  p3 = p3
  Procs = {p1, p2, p3}
  InitTask = Init0
  IdleTask = Idle
  Profiles <- BusyProfiles
  EndTime = 32
  TicksPerJiffy = 3
  NsPerJiffy = 729
  IOTimes <- ThreeOrFour
  WaitTimes <- OneOrThree
  MaxTick = 32
  MaxWait = 3
  MaxJiffies = 40
PROPERTIES
  NoTwoQuantaInARow
