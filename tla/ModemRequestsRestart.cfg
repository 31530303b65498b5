\* A socket created while the idle modem is turned off.
CONSTANTS
  NULL = NULL
  s1 = s1
  Socket = {s1}
  Message = {}
  Security = {TRUE}
  Channels = 1
  MaxOut = 1
  MaxIn = 1
  MaxRx = 1
  Faults = {}

SPECIFICATION FairSpec

PROPERTIES
  RequestsRestart

\* The application may have nothing more to ask for.
CHECK_DEADLOCK FALSE
