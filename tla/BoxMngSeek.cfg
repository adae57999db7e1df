\* SetPos against the task it posts: m_bSeeking is set after the SEEK task ended.
SPECIFICATION LiveSpec
CONSTANTS
  Nil = Nil
  URL = {u1}
  Calls <- SeekCalls
  Live = FALSE
  Http = {u1}
  Loops = {FALSE}
  RunOnOpenDone = TRUE  SeekOnComplete = FALSE
  Decodable <- AudioOnly
  MaxTask = 2  MaxSeek = 2  MaxMsg = 1
PROPERTY SeekFinishes
