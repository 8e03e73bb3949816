\* The first buffer (16384 bytes in the code) is scaled to 24 characters,
\* so that the smallest topology fits and the others need the second pass.
SPECIFICATION Spec
CONSTANTS
  Docs <- MCDocs
  BufferLen = 24
  SizeT = 65536
  NULL = NULL
INVARIANTS
  
  BufferWithinAlloc
  EscapeMatchesReference
\* An export ends: it returns the buffer, writes the file or fails.
CHECK_DEADLOCK FALSE
