\* The reader and the writer of a stream, the server, the connect and TLS.
SPECIFICATION Spec
CONSTANTS
  w1 = w1
  w2 = w2
  c1 = c1
  c2 = c2
  Nobody = Nobody
  Unused = Unused
INVARIANTS
  ChunksKept
  
  ServerDrained
  
PROPERTIES
  StreamsEnd
CHECK_DEADLOCK FALSE
