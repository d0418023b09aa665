SPECIFICATION Spec
CONSTANTS
  Client = {c1, c2}
  First = c1
  MAXFD = 2
  MAXOPEN = 1
  MaxOpens = 2
  NFILES = 2
  Name = {a, b}
  NoFile = NoFile
  NoReq = NoReq
INVARIANTS TypeOK RightFile OpenFileKept
PROPERTIES Answered
CHECK_DEADLOCK FALSE
