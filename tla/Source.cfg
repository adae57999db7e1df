CONSTANTS
  nKeepFrames = 2
  SyncFrames = 100
  N = 4
  Key <- MCKey
  MaxBuffTime = 1
  ReadyTime = 1
  BuffReads = 1
  WaitRead <- MCWait
  Pos <- MCPos
  MaxSeek = 1
  Failures <- MCFailures
  MaxFails = 1
SPECIFICATION Spec
INVARIANTS TypeOK Conserved InUseKept FinishIsEnd
PROPERTIES VideoDecodable AudioContinuous
CHECK_DEADLOCK FALSE
