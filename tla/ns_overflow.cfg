SPECIFICATION Spec
CONSTANTS
  Client = {c1, c2}
  QUEUE_SIZE = 3
  MBOXSLOTS = 2
  MaxYields = 4
  MaxPkts = 5
  MaxHeld = 5
INVARIANTS NoBufferOverflow
