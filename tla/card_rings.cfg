SPECIFICATION Spec
CONSTANTS
  NTXDESC = 4
  NRXDESC = 4
  MaxPkts = 9
  MaxFrames = 8
INVARIANTS TypeOK
PROPERTIES SentInOrder ReceivedInOrder AllSent AllReceived
CHECK_DEADLOCK FALSE
