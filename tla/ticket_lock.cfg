SPECIFICATION Spec
CONSTANTS
  NCPU = 3
  Width = 4
  NoCpu = NoCpu
INVARIANTS TicketsInOrder NoPanic
PROPERTIES FirstComeFirstServed ImplementsKernelLock
CHECK_DEADLOCK FALSE
