CONSTANTS
  nKeepFrames = 2
  SyncFrames = 100
  N = 3
  Key <- MCKey
  MaxBuffTime = 1
  ReadyTime = 1
  BuffReads = 1
  WaitRead <- MCWait
  Pos <- LivePos
  MaxSeek = 1
  Failures <- LiveFailures
  MaxFails = 1
SPECIFICATION LiveSpec
PROPERTIES SeekReturns EndReported
CHECK_DEADLOCK FALSE
