\* Every call but the fast open, a live source that is reopened, callbacks
\* that call Run: safety.
SPECIFICATION Spec
CONSTANTS
  Nil = Nil
  URL = {u1, u2}
  Calls <- AllButFast
  Live = TRUE
  Http = {u1, u2}
  Loops = {FALSE}
  RunOnOpenDone = TRUE  SeekOnComplete = FALSE
  Decodable <- AudioVideo
  MaxTask = 2  MaxSeek = 2  MaxMsg = 1
SYMMETRY SymmetricURL
INVARIANTS TypeOK NoRendererLost StatusTellsRenderers ReportsAreCurrent AbortCleared QuietWhenDeleted
