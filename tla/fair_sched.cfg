SPECIFICATION LastingSpec
CONSTANTS
  NENV = 6
  NCPU = 2
  MaxGen = 2
  BootTypes <- MCBoot3
  SrcVas = {"utop"}
  Perms = {"0"}
  DstVas = {"utop"}
  NoEnv = NoEnv
  NoId = NoId
PROPERTIES EveryoneRuns
CHECK_DEADLOCK FALSE
