\* The hand-offs between the scheduler and what does its IO.
SPECIFICATION Spec
CONSTANTS
  w1 = w1
  w2 = w2
  w3 = w3
  fd = fd
  recv = recv
  send = send
  request = request
  forgotten = forgotten
  group1 = group1
  group2 = group2
  Unused = Unused
INVARIANTS
  WakeupsReach
  ResourceOwned
  StreamsOrdered
PROPERTIES
  Latched
  HandoffsEnd
CHECK_DEADLOCK FALSE
