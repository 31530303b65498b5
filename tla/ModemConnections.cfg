\* Two connections at a time, failing commands: lifetime of sockets.
CONSTANTS
  NULL = NULL
  s1 = s1
  s2 = s2
  Socket = {s1, s2}
  Message = {}
  Security = {TRUE}
  Channels = 2
  MaxOut = 0
  MaxIn = 1
  MaxRx = 1
  Faults = {"Error", "Timeout"}

SPECIFICATION Spec
SYMMETRY Symmetry

INVARIANTS
  CursorLive
  RxSockLive
  NoOrphanLink
  StartsClean

PROPERTIES
  SocketLives

\* The application may have nothing more to ask for.
CHECK_DEADLOCK FALSE
