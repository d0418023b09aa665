SPECIFICATION PoliteSpec
CONSTANTS
  NENV = 4
  NCPU = 2
  MaxGen = 2
  BootTypes <- MCBoot1
  SrcVas = {"utop", "mapped"}
  Perms = {"rw"}
  DstVas = {"va"}
  NoEnv = NoEnv
  NoId = NoId
INVARIANTS TypeOK FreeListUnique IdleReady OneCpu BlockedInRecv FreeListExact OnlyResourcePanics
PROPERTIES OnlyKinKill MessageKept
CHECK_DEADLOCK FALSE
