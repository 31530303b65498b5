\* A session that ends on a refused command while data is coming in.
CONSTANTS
  NULL = NULL
  s1 = s1
  Socket = {s1}
  Message = {}
  Security = {TRUE}
  Channels = 1
  MaxOut = 0
  MaxIn = 1
  MaxRx = 1
  Faults = {"Error"}

SPECIFICATION Spec

INVARIANTS
  LeftoversClosed

\* The application may have nothing more to ask for.
CHECK_DEADLOCK FALSE
