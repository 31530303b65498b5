SPECIFICATION FairSpec

CONSTANTS
  LineOptions <- MCLineOptions
  Attempts = 2
  MaxFaults = 3

INVARIANTS
  LineAgrees
  NetworkReady
  RadioReleased

PROPERTIES
  SessionEnds
  Recovers
