SPECIFICATION PoliteSpec
CONSTANTS
  NENV = 4
  NCPU = 2
  MaxGen = 2
  BootTypes <- MCBoot1
  SrcVas = {}
  Perms = {"0"}
  DstVas = {"utop"}
  NoEnv = NoEnv
  NoId = NoId
INVARIANTS NoSlotLost
CHECK_DEADLOCK FALSE
