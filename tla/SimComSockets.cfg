CONSTANTS
  Socket = {s1, s2}
  NULL = NULL
  SharedChannels = 1
  TlsChannels = 1
  TcpChannels = 2
  MaxPacket = 2
  MaxWritten = 2
  MaxLines = 2

SPECIFICATION Spec

SYMMETRY Symmetry

INVARIANTS
  ChannelsUnique
  EventsFindOwner
  ConnectionOwned
  StreamIntact
  AcceptedIsOutgoing

PROPERTIES
  ReaderAdvances
  SocketLives
