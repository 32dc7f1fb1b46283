------------------------------ MODULE MCStream ------------------------------
(***************************************************************************)
(* Small instances, for TLC, of the life of a stream: the connect that     *)
(* makes one (Connect), the server that accepts and closes them            *)
(* (StreamServer), its reader over RecvIterBuffer (RecvBuffer), its writer *)
(* over SendBuffer and the TLS stream over both (SSLStream).  Each         *)
(* behaviour is about one of the five, which the initial state picks; the  *)
(* variables of the others stay Unused.                                    *)
(***************************************************************************)
EXTENDS Integers, Sequences, FiniteSets

CONSTANTS w1, w2, c1, c2, Nobody, Unused

VARIABLES
  part,
  shared, others, arrived, legs, transit, delivered, heap, ready, pressure,
  nextBase, op, recvEnded, readerClosed, overtaken, reader, got,
  pending, inFlight, active, sendError, closed, eofPending, eofDone,
  closeWhenIdle, limits, closing, teardown, hand, leg, nowaits, closer,
  doing, woken, stranded, written, wire, shutAt, closeAt,
  server, arm, conn, queue, waiter, errors,
  call, task, sock, group,
  ssl, bio, stream, inner, peer, tealet, cur, past

recvVars == <<shared, others, arrived, legs, transit, delivered, heap, ready,
              pressure, nextBase, op, recvEnded, readerClosed, overtaken,
              reader, got>>
sendVars == <<pending, inFlight, active, sendError, closed, eofPending,
              eofDone, closeWhenIdle, limits, closing, teardown, hand, leg,
              nowaits, closer, doing, woken, stranded, written, wire, shutAt,
              closeAt>>
serverVars == <<server, arm, conn, queue, waiter, errors>>
connectVars == <<call, task, sock, group>>
tlsVars == <<ssl, bio, stream, inner, peer, tealet, cur, past>>
vars == <<part, recvVars, sendVars, serverVars, connectVars, tlsVars>>

Tealets == {w1, w2}

R == INSTANCE RecvBuffer WITH Chunks <- 3, Slots <- 2, closed <- readerClosed
S == INSTANCE SendBuffer WITH
       MinWrite <- 2, Limits <- {<<0, 1>>, <<1, 2>>}, MaxWrites <- 4
V == INSTANCE StreamServer WITH Conns <- {c1, c2}, MaxErrors <- 2

\* One address, one of each family, and three of two families.
C == INSTANCE Connect WITH Hosts <- {<<4>>, <<6, 4>>, <<6, 6, 4>>}

\* A handshake and two calls, at most one cancelled or met by an error.
T == INSTANCE SSLStream WITH MaxData <- 1, MaxCalls <- 3, MaxFaults <- 1

NoReader ==
  /\ shared = Unused /\ others = Unused /\ arrived = Unused /\ legs = Unused
  /\ transit = Unused /\ delivered = Unused /\ heap = Unused
  /\ ready = Unused /\ pressure = Unused /\ nextBase = Unused /\ op = Unused
  /\ recvEnded = Unused /\ readerClosed = Unused /\ overtaken = Unused
  /\ reader = Unused /\ got = Unused
NoWriter ==
  /\ pending = Unused /\ inFlight = Unused /\ active = Unused
  /\ sendError = Unused /\ closed = Unused /\ eofPending = Unused
  /\ eofDone = Unused /\ closeWhenIdle = Unused /\ limits = Unused
  /\ closing = Unused /\ teardown = Unused /\ hand = Unused /\ leg = Unused
  /\ nowaits = Unused /\ closer = Unused /\ doing = Unused /\ woken = Unused
  /\ stranded = Unused /\ written = Unused /\ wire = Unused
  /\ shutAt = Unused /\ closeAt = Unused

NoServer ==
  /\ server = Unused /\ arm = Unused /\ conn = Unused /\ queue = Unused
  /\ waiter = Unused /\ errors = Unused
NoConnect ==
  /\ call = Unused /\ task = Unused /\ sock = Unused /\ group = Unused
NoTLS ==
  /\ ssl = Unused /\ bio = Unused /\ stream = Unused /\ inner = Unused
  /\ peer = Unused /\ tealet = Unused /\ cur = Unused /\ past = Unused

Init ==
  \/ part = "reader" /\ R!Init /\ NoWriter /\ NoServer /\ NoConnect /\ NoTLS
  \/ part = "writer" /\ S!Init /\ NoReader /\ NoServer /\ NoConnect /\ NoTLS
  \/ part = "server" /\ V!Init /\ NoReader /\ NoWriter /\ NoConnect /\ NoTLS
  \/ part = "connect" /\ C!Init /\ NoReader /\ NoWriter /\ NoServer /\ NoTLS
  \/ part = "tls" /\ T!Init /\ NoReader /\ NoWriter /\ NoServer /\ NoConnect

Reads(A) == part = "reader" /\ A /\ UNCHANGED <<part, sendVars, serverVars, connectVars, tlsVars>>
Writes(A) == part = "writer" /\ A /\ UNCHANGED <<part, recvVars, serverVars, connectVars, tlsVars>>
Serves(A) == part = "server" /\ A /\ UNCHANGED <<part, recvVars, sendVars, connectVars, tlsVars>>
Connects(A) == part = "connect" /\ A /\ UNCHANGED <<part, recvVars, sendVars, serverVars, tlsVars>>
Encrypts(A) == part = "tls" /\ A /\ UNCHANGED <<part, recvVars, sendVars, serverVars, connectVars>>

Next ==
  \/ Reads(R!Next)
  \/ Writes(S!Next)
  \/ Serves(V!Next)
  \/ Connects(C!Next)
  \/ Encrypts(T!Next)

\* The peer sends or ends, deliveries reach the scheduler and the reader
\* reads.  A call of the writer that is in progress goes on; a leg completes
\* and a notified tealet runs although other tealets use the stream.  The
\* tealets of the server run, as does what is delivered to it; so do those of
\* a connect, and its operations end.  Under TLS the tealets run, the inner
\* drain() returns and the peer sends or leaves.  A behaviour is about one
\* part, so that the conditions of the parts stand together.
Fairness ==
  /\ WF_vars(\/ Reads(R!KernelStep) \/ Writes(S!CallStep)
             \/ Serves(V!Progress) \/ Connects(C!Scheduled) \/ Encrypts(T!Progress))
  /\ WF_vars(\/ Reads(R!DeliveryStep) \/ Writes(S!FireForgetCloses)
             \/ Connects(C!Completes))
  /\ WF_vars(Reads(R!TakeNext))
  /\ SF_vars(Writes(S!CompletionStep))
  /\ \A t \in Tealets : SF_vars(Writes(S!Recheck(t)))

Spec == Init /\ [][Next]_vars /\ Fairness

(***************************************************************************)
(* The properties, each of the part it is about.                           *)
(***************************************************************************)

\* take_next() hands out the peer's chunks once and in order, whatever the
\* order in which the threads deliver them; none is lost between two legs,
\* and one recv_many leg reads the socket at a time.
ChunksKept ==
  part = "reader" => R!TypeOK /\ R!ChunksInOrder /\ R!OneLeg


\* When a wait_closed() that follows close() of a server has returned, the
\* accept loop has exited, the listening socket is shut and no handler runs or
\* will run, however late a connection is delivered.
ServerDrained == part = "server" => V!ServerDrained


\* What the parts wait for, up to two waits each, and how a wait ends.  The
\* tealets of the writer are interchangeable, so it is enough to look at one.
\* What a server that is closed has to do stays to be done until it is.
Wait(k) ==
  \/ part = "reader" /\ k = 1 /\ (~shared \/ readerClosed)
  \/ part = "writer" /\ \/ k = 1 /\ S!Waits(w1)
                        \/ k = 2 /\ teardown = "done"
  \/ part = "server" /\ k = 1 /\ server.closed
  \/ part = "connect" /\ k = 1
  \/ part = "tls" /\ \/ k = 1 /\ tealet["r"] # T!Idle
                     \/ k = 2 /\ tealet["w"] # T!Idle

WaitOver(k) ==
  \/ part = "reader" /\ (R!Ended \/ overtaken)
  \/ part = "writer" /\ \/ k = 1 /\ (~S!Waits(w1) \/ stranded)
                        \/ k = 2 /\ (closeAt # -1 \/ sendError \in {"shutdown", "submit"})
  \/ part = "server" /\ V!Over /\ waiter.at \in {"none", "returned", "raised"}
                     /\ \A c \in {c1, c2} : conn[c] \in {"none", "gone"}
  \/ part = "connect" /\ C!Settled
  \/ part = "tls" /\ \/ k = 1 /\ tealet["r"] = T!Idle
                     \/ k = 2 /\ tealet["w"] = T!Idle

\* Whoever waits for a stream gets to the end.  A reader of a pool of its own
\* reads on whenever recv_many ran out of buffers, and the reader of a stream
\* that is closed sees its end, unless a leg that ended with data was
\* overtaken by close().  drain() and flush() return, unless a write too small
\* for a leg of its own slipped in between the last leg and the waiter; the
\* socket is closed after a wait_closed() that returned, unless a later submit
\* or shutdown raised.  close() of a server ends the accept loop, wherever it
\* is and whichever thread calls; every connection accepted before or after is
\* closed, and wait_closed() ends.  A connect ends, and then or later the
\* operations of every attempt.  A call of a TLS stream ends, whichever of the
\* two tealets has the inner read or drain, and whichever is interrupted.
StreamsEnd == \A k \in 1 .. 2 : Wait(k) ~> WaitOver(k)

\* What the docstring of RecvIterBuffer.close() says: "consumer sees cancel
\* (or a prior terminal) via take_next".
CloseEnds ==
  (part = "reader" /\ readerClosed) ~> (part = "reader" /\ R!Ended)
=============================================================================
