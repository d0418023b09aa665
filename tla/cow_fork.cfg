SPECIFICATION Spec
CONSTANTS
  Env = {e1, e2}
  Boot = e1
  Cpu = {c1, c2}
  NPAGE = 10
  NVA = 2
  MaxOps = 5
  Val = {0, 1}
  Zero = 0
  NoEnv = NoEnv
  NoPage = NoPage
  NoVal = NoVal
INVARIANTS RefsExact TlbCoherent
PROPERTIES ImplementsOwnMemory
SYMMETRY MCCpuSymmetry
CHECK_DEADLOCK FALSE
