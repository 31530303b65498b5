\* A socket and a message with traffic both ways, every fault.
CONSTANTS
  NULL = NULL
  s1 = s1
  m1 = m1
  Socket = {s1}
  Message = {m1}
  Security = {TRUE, FALSE}
  Channels = 1
  MaxOut = 2
  MaxIn = 2
  MaxRx = 2
  Faults = {"PowerOn", "Start", "Error", "Timeout"}

SPECIFICATION Spec

INVARIANTS
  TypeOK
  SendingIsAwaited
  NoLostWakeup
  IdleIsEmpty
  NothingStranded

\* The application may have nothing more to ask for.
CHECK_DEADLOCK FALSE
