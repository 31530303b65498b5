\* A socket with traffic and a message, no faults: liveness.
CONSTANTS
  NULL = NULL
  s1 = s1
  m1 = m1
  Socket = {s1}
  Message = {m1}
  Security = {TRUE, FALSE}
  Channels = 1
  MaxOut = 1
  MaxIn = 1
  MaxRx = 1
  Faults = {}

SPECIFICATION FairSpec

PROPERTIES
  ReleasedGoes
  MessageProcessed

\* The application may have nothing more to ask for.
CHECK_DEADLOCK FALSE
