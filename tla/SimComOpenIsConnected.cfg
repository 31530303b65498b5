CONSTANTS
  Socket = {s1, s2}
  NULL = NULL
  SharedChannels = 2
  TlsChannels = 1
  TcpChannels = 1
  MaxPacket = 2
  MaxWritten = 2
  MaxLines = 1

SPECIFICATION Spec

SYMMETRY Symmetry

INVARIANTS
  OpenIsConnected
