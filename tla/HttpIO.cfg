CONSTANTS
  MEM_BUFF_SIZE = 2
  KeepSpan = 4
  KeepBehind = 1
  FileSize = 8
  Far = 1
  MaxBuff = 4
  Cache <- MCCache
  Moov <- MCMoov
  ReadPos <- MCReadPos
  Size <- MCSize
  Flag <- MCFlag
  MaxCalls = 2
  MaxFails = 1
SPECIFICATION LiveSpec
INVARIANTS TypeOK DownloadInStep ReadsGiveTheFile
PROPERTIES CallsReturn
CHECK_DEADLOCK FALSE
