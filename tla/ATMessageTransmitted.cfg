\* A message sent after a refused packet.
CONSTANTS
  MaxCommands = 4
  MaxLines = 0

SPECIFICATION Spec

INVARIANTS
  MessageTransmitted

CHECK_DEADLOCK FALSE
