\* Two sockets, with and without TLS, one channel, no faults: liveness.
CONSTANTS
  NULL = NULL
  s1 = s1
  s2 = s2
  Socket = {s1, s2}
  Message = {}
  Security = {TRUE, FALSE}
  Channels = 1
  MaxOut = 0
  MaxIn = 1
  MaxRx = 1
  Faults = {}

SPECIFICATION FairSpec

PROPERTIES
  ReleasedGoes
  ConnectAnswered

\* The application may have nothing more to ask for.
CHECK_DEADLOCK FALSE
