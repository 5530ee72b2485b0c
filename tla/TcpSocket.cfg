\* Two connections, two messages each; a socket holds one whole message.
SPECIFICATION FairSpec
CONSTANTS
  Conn = {c1, c2}
  MaxSent = 2
  MaxLength = 2
  Capacity = 4
  SplitsLength = FALSE
  Base = 4
INVARIANTS
  TypeOK
PROPERTIES
  ImplementsMessageChannel
  ArrivedIsReceived
