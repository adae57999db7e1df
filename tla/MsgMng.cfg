\* Two receivers, messages with and without an info, three items.  A refused open makes the
\* destructor wait forever (CMsgMng.cpp:27), so that the system may stop.
SPECIFICATION LiveSpec
CONSTANTS
  Nil = Nil
  Msg = {m1, m2}  Info = {m2}
  Receiver = {r1, r2}
  Item = {i1, i2, i3}
  Refused = TRUE
CHECK_DEADLOCK FALSE
INVARIANTS TypeOK OnePlace InfoOwned NothingLeaks
PROPERTIES ImplementsMsgBus MessagesEnd CallsReturn
