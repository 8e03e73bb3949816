\* Three starts (an interrupted regeneration, a start that skips, one
\* more) and up to six read callbacks per connection.
CONSTANTS
  MaxStarts = 3
  MaxReads = 6
SPECIFICATION Spec
INVARIANTS
  HandshakeBeforeReplies
  ProtocolDetected
\* A process may stop for good; the model ends when starts run out.
CHECK_DEADLOCK FALSE
