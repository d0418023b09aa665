SPECIFICATION Spec
CONSTANTS
  Client = {c1, c2}
  QUEUE_SIZE = 5
  MBOXSLOTS = 2
  MaxYields = 4
  MaxPkts = 5
  MaxHeld = 4
INVARIANTS NoPanic NoWorkLeft BuffersOwned
PROPERTIES PacketsInOrder Answered
