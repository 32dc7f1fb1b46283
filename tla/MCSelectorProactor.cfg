\* Sends and a shutdown, or reads, polls and a connect, or the readiness table.
SPECIFICATION MCSpec
CONSTANTS
  None = None
  fd = fd
  recv = recv
  many = many
  polls = polls
  poll2 = poll2
  conn = conn
  s1 = s1
  s2 = s2
  s3 = s3
  shut = shut
  pollObject = pollObject
  other = other
  Fds = {fd}
  Ops = {recv, many, polls, poll2, conn, s1, s2, s3, shut}
  Kind <- OpKind
  Fd <- OpFd
  Units <- OpUnits
  FromCallback = {many, poll2, s3}
  MaxCancels = 1
  Epoll = TRUE
  Programs = {{s1, s2, s3, shut}, {recv, many, poll2}, {many, polls, conn}, {recv, polls, poll2}}
INVARIANTS
  OneResultEach
  SendsInOrder
  SubscriptionCovers
  AnswersTrue
  WakesDue
CHECK_DEADLOCK FALSE
