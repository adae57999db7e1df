\* A delayed REOPEN task against Close.
SPECIFICATION Spec
CONSTANTS
  Nil = Nil
  URL = {u1}
  Calls <- CloseCalls
  Live = TRUE
  Http = {u1}
  Loops = {FALSE}
  RunOnOpenDone = TRUE  SeekOnComplete = FALSE
  Decodable <- AudioOnly
  MaxTask = 2  MaxSeek = 2  MaxMsg = 1
INVARIANT ClosedIsReleased
