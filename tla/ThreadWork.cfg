\* Two owners, every call, two event objects: the handshakes of Start, Pause,
\* Stop and Exit with two work threads alive.
SPECIFICATION Spec
CONSTANTS
  idA = idA  idB = idB  Nil = Nil
  Owner = {o1, o2}
  Worker = {w1, w2}
  Event = {e1, e2}
  ID = {idA, idB}
  OwnerCalls <- MCOwnerCalls
  WorkExits = TRUE
  ResetBy <- MCResetBy
  RemoveBy <- MCRemoveBy
SYMMETRY Symmetric
INVARIANTS TypeOK OneWorker StoppedIsQuiet AtMostOnePassAfterPause OnePlace NothingDangles
PROPERTY ImplementsTaskQueue
