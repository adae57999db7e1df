\* SetPos from the PLAY_COMPLETE callback of a player that was paused meanwhile.
SPECIFICATION LiveSpec
CONSTANTS
  Nil = Nil
  URL = {u1}
  Calls <- PauseCalls
  Live = FALSE
  Http = {u1}
  Loops = {FALSE}
  RunOnOpenDone = TRUE  SeekOnComplete = TRUE
  Decodable <- AudioOnly
  MaxTask = 2  MaxSeek = 2  MaxMsg = 1
CHECK_DEADLOCK FALSE
PROPERTY CallbackReturns
