\* Every kind of command in every part of a session, over several sessions.
CONSTANTS
  MaxCommands = 5
  MaxLines = 1

SPECIFICATION Spec

INVARIANTS
  TypeOK
  HandlerLive
  OneConversation
  AnswerSuffices

PROPERTIES
  ChannelKept

\* MaxCommands ends the behaviour.
CHECK_DEADLOCK FALSE
