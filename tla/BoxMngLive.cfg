\* Every call that waits, the fast open included, looping and local sources,
\* callbacks that call Run and SetPos: every open is answered and every call returns, but for
\* the waits of SetPos that nothing ends (there the system may stop).
SPECIFICATION LiveSpec
CONSTANTS
  Nil = Nil
  URL = {u1}
  Calls <- AllButCache
  Live = FALSE
  Http = {}
  Loops = {TRUE, FALSE}
  RunOnOpenDone = TRUE  SeekOnComplete = TRUE
  Decodable <- AudioVideo
  MaxTask = 1  MaxSeek = 1  MaxMsg = 1
PROPERTIES OpenEnds CallsReturn
CHECK_DEADLOCK FALSE
