\* One owner that starts, pauses, stops and finally deletes the thread, with
\* fairness of the threads and of the clock.
SPECIFICATION LiveSpec
CONSTANTS
  idA = idA  idB = idB  Nil = Nil
  Owner = {o1}
  Worker = {w1, w2}
  Event = {e1, e2}
  ID = {idA, idB}
  OwnerCalls <- MCOwnerCalls
  WorkExits = FALSE
  ResetBy <- MCResetBy
  RemoveBy <- MCRemoveBy
PROPERTIES PostedEventFires CallsReturn
