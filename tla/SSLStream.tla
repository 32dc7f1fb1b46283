------------------------------ MODULE SSLStream ------------------------------
(***************************************************************************)
(* SSLStream (streams/ssl.py): one SSLObject over two memory BIOs, used by *)
(* one tealet that reads and one that writes.  OpenSSL asks for ciphertext *)
(* with WantRead, from a write too while it renegotiates; the inner read   *)
(* and the inner drain are each given to one tealet at a time, and the     *)
(* other waits on a Condition.                                             *)
(*                                                                         *)
(* The tealets switch only where one parks: cur is the tealet that runs.   *)
(* As documented, handshake and close are called while the other tealet    *)
(* does not use the stream.  OpenSSL, the inner streams and the peer are   *)
(* external: a record is <<kind, n>>, and the memory BIO never asks for a  *)
(* write.                                                                  *)
(***************************************************************************)
EXTENDS Naturals, Sequences, SequencesExt

CONSTANTS Nobody, MaxData, MaxCalls, MaxFaults

VARIABLES ssl,     \* _sslobj: hs: flights left of a handshake; notified, ended: close_notify sent, received
          bio,     \* out: _outgoing; in, eof: _incoming; made: records ever put in out
          stream,  \* the flags of the stream; buffer; taken: what reads returned
          inner,   \* writing, reading: who has the inner drain and read; sent, open: the inner pair
          peer,    \* net: records on their way; data: how many it sent; spare: it may still ask for new keys
          tealet,  \* op: the call; at: where it is; after: what follows its flush
          cur,     \* the tealet that runs
          past     \* calls, faults; failed: a call raised; lost: with data in hand; skipped: a flush left bytes

vars == <<ssl, bio, stream, inner, peer, tealet, cur, past>>

Users == {"r", "w"}

Idle == [op |-> "none", at |-> "idle", after |-> "end", need |-> 0, hold |-> 0]

\* _prepare_client_handshake(): the flight was read out of the BIO and went
\* with the connect.
Prepared == [script |-> <<"recv", "send">>, sent |-> <<<<"hs", 1>>>>]
Client == [script |-> <<"send", "recv", "send">>, sent |-> <<>>]
Server == [script |-> <<"recv", "send", "recv">>, sent |-> <<>>]

Init ==
  \E side \in {Prepared, Client, Server} :
    /\ ssl = [hs |-> side.script, notified |-> FALSE, ended |-> FALSE]
    /\ bio = [out |-> <<>>, in |-> <<>>, eof |-> FALSE, made |-> Len(side.sent)]
    /\ stream = [shaken |-> FALSE, eof |-> FALSE, closing |-> FALSE, closed |-> FALSE,
                 unwrapped |-> FALSE, buffer |-> <<>>, taken |-> <<>>]
    /\ inner = [writing |-> Nobody, reading |-> Nobody, sent |-> side.sent,
                open |-> {"reader", "writer"}]
    /\ peer = [net |-> <<>>, data |-> 0, spare |-> TRUE, over |-> FALSE]
    /\ tealet = [t \in Users |-> Idle]
    /\ cur = Nobody
    /\ past = [calls |-> 0, faults |-> 0, failed |-> FALSE, lost |-> FALSE, skipped |-> FALSE]

At(t, p) == [tealet EXCEPT ![t].at = p]
Flushing(t, then) == [tealet EXCEPT ![t].at = "flush", ![t].after = then]

Runs(t, p) == cur = t /\ tealet[t].at = p

\* The call raises.  A failed handshake of start_tls() shuts the stream.
Fails(t) ==
  IF tealet[t].op = "start"
  THEN [tealet EXCEPT ![t] = [Idle EXCEPT !.op = "shut", !.at = "close"]]
  ELSE [tealet EXCEPT ![t] = Idle]

Failed(t, ts, faults) ==
  /\ tealet' = ts
  /\ cur' = IF ts[t] = Idle THEN Nobody ELSE t
  /\ past' = [past EXCEPT !.failed = TRUE, !.lost = @ \/ tealet[t].hold # 0, !.faults = @ + faults]

(***************************************************************************)
(* The calls.                                                              *)
(***************************************************************************)
Quiet(t) == \A u \in Users \ {t} : tealet[u] = Idle

\* handshake(), alone or, from open_connection() and start_tls(), with the
\* teardown of a stream whose handshake failed.
CallHandshake(t) ==
  /\ Quiet(t) /\ ~stream.shaken /\ ~stream.closing
  /\ \E op \in {"handshake", "start"} :
       tealet' = [tealet EXCEPT ![t] = [Idle EXCEPT !.op = op, !.at = "op"]]

\* read(n), readinto(), readexactly(n) and, for a size that is never reached,
\* read(-1): a chunk is fetched while the buffer holds less.
CallRead(t, n) ==
  /\ t = "r" /\ stream.shaken /\ ~stream.closing
  /\ Len(stream.buffer) < n /\ ~stream.eof
  /\ tealet' = [tealet EXCEPT ![t] = [Idle EXCEPT !.op = "read", !.at = "op", !.need = n]]

CallWrite(t) ==
  /\ t = "w" /\ stream.shaken /\ ~stream.closing
  /\ tealet' = [tealet EXCEPT ![t] = [Idle EXCEPT !.op = "write", !.at = "op"]]

CallDrain(t) ==
  /\ t = "w" /\ stream.shaken /\ ~stream.closing
  /\ tealet' = [tealet EXCEPT ![t] = [Idle EXCEPT !.op = "drain", !.at = "flush"]]

CallUnwrap(t) ==
  /\ t = "w" /\ stream.shaken /\ ~stream.closing /\ ~stream.unwrapped
  /\ tealet' = [tealet EXCEPT ![t] = [Idle EXCEPT !.op = "unwrap", !.at = "op"]]

\* close(), wait_closed() and shutdown_stream_writer(), which does both.
CallClose(t) ==
  /\ t = "w" /\ Quiet(t) /\ ~stream.closed
  /\ \E op \in {"close", "shut"} :
       tealet' = [tealet EXCEPT ![t] = [Idle EXCEPT !.op = op, !.at = "close"]]

Call(t) ==
  /\ cur = Nobody /\ tealet[t] = Idle /\ past.calls < MaxCalls
  /\ \/ CallHandshake(t) \/ CallWrite(t) \/ CallDrain(t) \/ CallUnwrap(t) \/ CallClose(t)
     \/ \E n \in {1, MaxData + 1} : CallRead(t, n)
  /\ cur' = t
  /\ past' = [past EXCEPT !.calls = @ + 1]
  /\ UNCHANGED <<ssl, bio, stream, inner, peer>>

(***************************************************************************)
(* External: a call of the SSLObject, one record at a time.                *)
(***************************************************************************)
Top(kind) == bio.in # <<>> /\ Head(bio.in)[1] = kind
Consumed == [bio EXCEPT !.in = Tail(@)]
Emitted(b, kind) == [b EXCEPT !.out = Append(@, <<kind, b.made + 1>>), !.made = @ + 1]
Shaking == ssl.hs # <<>>

\* It goes on without returning: a flight out or in, the peer's KeyUpdate and
\* its request to renegotiate, and our close_notify.
Advance(t) ==
  /\ Runs(t, "op")
  /\ \/ /\ Shaking /\ Head(ssl.hs) = "send" /\ tealet[t].op # "unwrap"
        /\ bio' = Emitted(bio, "hs") /\ ssl' = [ssl EXCEPT !.hs = Tail(@)]
     \/ /\ Shaking /\ Head(ssl.hs) = "recv" /\ tealet[t].op # "unwrap" /\ Top("hs")
        /\ bio' = Consumed /\ ssl' = [ssl EXCEPT !.hs = Tail(@)]
     \/ /\ ~Shaking /\ tealet[t].op = "read" /\ Top("update")
        /\ bio' = IF ssl.notified THEN Consumed ELSE Emitted(Consumed, "reply")
        /\ UNCHANGED ssl
     \/ /\ ~Shaking /\ tealet[t].op = "read" /\ Top("hello") /\ ~ssl.notified
        /\ bio' = Consumed /\ ssl' = [ssl EXCEPT !.hs = <<"send", "recv", "send">>]
     \/ /\ ~Shaking /\ tealet[t].op = "unwrap" /\ ~ssl.notified
        /\ bio' = Emitted(bio, "notify") /\ ssl' = [ssl EXCEPT !.notified = TRUE]
  /\ UNCHANGED <<stream, inner, peer, tealet, cur, past>>

\* What the call needs is not there yet.
Starved(t) ==
  /\ bio.in = <<>>
  /\ \/ Shaking /\ Head(ssl.hs) = "recv" /\ tealet[t].op # "unwrap"
     \/ ~Shaking /\ ~ssl.ended
        /\ (tealet[t].op = "read" \/ (tealet[t].op = "unwrap" /\ ssl.notified))

\* The outcome of _retry(): the call returns or reports the peer's
\* close_notify, and a flush follows; it raises; or it wants to read, and
\* _retry() flushes first.
Returns(t) ==
  /\ Runs(t, "op") /\ ~Shaking
  /\ \/ tealet[t].op \in {"handshake", "start"} /\ UNCHANGED <<ssl, bio, stream>>
        /\ tealet' = Flushing(t, "end")
     \/ /\ tealet[t].op = "write" /\ ~ssl.notified
        /\ bio' = Emitted(bio, "app") /\ UNCHANGED <<ssl, stream>>
        /\ tealet' = Flushing(t, "end")
     \/ /\ tealet[t].op = "read" /\ Top("data")
        /\ bio' = Consumed /\ UNCHANGED <<ssl, stream>>
        /\ tealet' = [Flushing(t, "end") EXCEPT ![t].hold = Head(bio.in)[2]]
     \/ /\ tealet[t].op = "read" /\ (ssl.ended \/ Top("notify"))
        /\ bio' = IF ssl.ended THEN bio ELSE Consumed
        /\ ssl' = [ssl EXCEPT !.ended = TRUE] /\ stream' = [stream EXCEPT !.eof = TRUE]
        /\ tealet' = Flushing(t, "end")
     \/ /\ tealet[t].op = "unwrap" /\ ssl.notified /\ (ssl.ended \/ Top("notify"))
        /\ bio' = IF ssl.ended THEN bio ELSE Consumed
        /\ ssl' = [ssl EXCEPT !.ended = TRUE] /\ UNCHANGED stream
        /\ tealet' = Flushing(t, "end")
  /\ UNCHANGED <<inner, peer, cur, past>>

WantRead(t) ==
  /\ Runs(t, "op") /\ Starved(t) /\ ~bio.eof
  /\ tealet' = Flushing(t, "want")
  /\ UNCHANGED <<ssl, bio, stream, inner, peer, cur, past>>

Raises(t) ==
  /\ Runs(t, "op")
  /\ \/ Starved(t) /\ bio.eof
     \/ tealet[t].op = "unwrap" /\ (Shaking \/ (ssl.notified /\ ~ssl.ended /\ bio.in # <<>> /\ ~Top("notify")))
     \/ tealet[t].op = "write" /\ ~Shaking /\ ssl.notified
     \/ tealet[t].op = "read" /\ ~Shaking /\ Top("hello") /\ ssl.notified
  /\ Failed(t, Fails(t), 0)
  /\ UNCHANGED <<ssl, bio, stream, inner, peer>>

(***************************************************************************)
(* The inner streams.                                                      *)
(***************************************************************************)
Notified(ts, from, to) ==
  [t \in Users |-> IF ts[t].at = from THEN [ts[t] EXCEPT !.at = to] ELSE ts[t]]


\* _flush_outgoing() up to where it parks: for its turn, or in the inner
\* drain(), which parks when the send buffer is full.
FlushOutgoing(t) ==
  /\ Runs(t, "flush")
  /\ IF inner.writing # Nobody
     THEN tealet' = At(t, "flushwait") /\ cur' = Nobody /\ UNCHANGED <<bio, inner>>
     ELSE /\ inner' = [inner EXCEPT !.writing = t, !.sent = @ \o bio.out]
          /\ bio' = [bio EXCEPT !.out = <<>>]
          /\ tealet' = At(t, "drain")
          /\ cur' \in {t, Nobody}
  /\ UNCHANGED <<ssl, stream, peer, past>>

\* The inner drain() returns, or raises OSError, which only close() swallows;
\* the finally clause gives the turn back.
Drained(t) ==
  /\ cur \in {t, Nobody} /\ tealet[t].at = "drain"
  /\ inner' = [inner EXCEPT !.writing = Nobody]
  /\ \/ tealet' = Notified(At(t, "flushed"), "flushwait", "turn") /\ cur' = t /\ UNCHANGED past
     \/ /\ tealet[t].op \notin {"close", "shut"} /\ past.faults < MaxFaults
        /\ Failed(t, Notified(Fails(t), "flushwait", "turn"), 1)
  /\ UNCHANGED <<ssl, bio, stream, peer>>

\* A tealet that waited for its turn returns from the flush.
Turn(t) ==
  /\ cur = Nobody /\ tealet[t].at = "turn"
  /\ tealet' = At(t, "flushed") /\ cur' = t
  /\ past' = [past EXCEPT !.skipped = @ \/ bio.out # <<>>]
  /\ UNCHANGED <<ssl, bio, stream, inner, peer>>

\* _retry() behind the flush, and _feed_incoming() up to where it parks: for
\* the other tealet's read, or in its own.
FeedIncoming(t) ==
  /\ Runs(t, "flushed") /\ tealet[t].after = "want"
  /\ \/ bio.eof /\ Failed(t, Fails(t), 0) /\ UNCHANGED inner
     \/ /\ ~bio.eof /\ cur' = Nobody
        /\ IF inner.reading # Nobody
           THEN tealet' = At(t, "feedwait") /\ UNCHANGED inner
           ELSE tealet' = At(t, "reading") /\ inner' = [inner EXCEPT !.reading = t]
        /\ UNCHANGED past
  /\ UNCHANGED <<ssl, bio, stream, peer>>

\* The inner read() returns what came, or the end.
Fed(t) ==
  /\ cur = Nobody /\ tealet[t].at = "reading"
  /\ \/ /\ peer.net # <<>> /\ bio' = [bio EXCEPT !.in = @ \o peer.net]
        /\ peer' = [peer EXCEPT !.net = <<>>]
     \/ peer.net = <<>> /\ peer.over /\ bio' = [bio EXCEPT !.eof = TRUE] /\ UNCHANGED peer
  /\ inner' = [inner EXCEPT !.reading = Nobody]
  /\ tealet' = Notified(At(t, "op"), "feedwait", "fed")
  /\ cur' = t
  /\ UNCHANGED <<ssl, stream, past>>

\* The tealet that waited for it tries the SSL call again.
Retry(t) ==
  /\ cur = Nobody /\ tealet[t].at = "fed"
  /\ tealet' = At(t, "op") /\ cur' = t
  /\ UNCHANGED <<ssl, bio, stream, inner, peer, past>>

(***************************************************************************)
(* The ends of the calls.                                                  *)
(***************************************************************************)
\* _read_some(), _append_next_chunk() and the loops around them: the data goes
\* to the buffer, and the call returns with enough of it or at the end.
EndRead(t) ==
  LET full == IF tealet[t].hold = 0 THEN stream.buffer ELSE Append(stream.buffer, tealet[t].hold)
      need == tealet[t].need
      n == IF need < Len(full) THEN need ELSE Len(full)
  IN /\ tealet[t].op = "read"
     /\ IF Len(full) < need /\ ~stream.eof
        THEN /\ stream' = [stream EXCEPT !.buffer = full]
             /\ tealet' = [tealet EXCEPT ![t].at = "op", ![t].hold = 0]
        ELSE /\ stream' = [stream EXCEPT !.taken = @ \o SubSeq(full, 1, n),
                                         !.buffer = SubSeq(full, n + 1, Len(full))]
             /\ tealet' = [tealet EXCEPT ![t] = Idle]
     /\ UNCHANGED inner

EndCall(t) ==
  /\ tealet[t].op # "read"
  /\ tealet' = [tealet EXCEPT ![t] = Idle]
  /\ stream' = [stream EXCEPT !.shaken = @ \/ tealet[t].op \in {"handshake", "start"},
                              !.unwrapped = @ \/ tealet[t].op = "unwrap",
                              !.closed = @ \/ tealet[t].op = "shut"]
  /\ inner' = IF tealet[t].op \in {"close", "shut"} THEN [inner EXCEPT !.open = {}] ELSE inner

Ends(t) ==
  /\ Runs(t, "flushed") /\ tealet[t].after = "end"
  /\ EndRead(t) \/ EndCall(t)
  /\ cur' = IF tealet'[t] = Idle THEN Nobody ELSE t
  /\ UNCHANGED <<ssl, bio, peer, past>>

\* close(): one try at close_notify, then the flush; a stream that is closing
\* already has its inner writer closed by wait_closed().
Close(t) ==
  /\ Runs(t, "close")
  /\ stream' = [stream EXCEPT !.closing = TRUE,
                              !.closed = @ \/ (stream.closing /\ tealet[t].op = "shut")]
  /\ IF stream.closing
     THEN /\ inner' = IF tealet[t].op = "shut" THEN [inner EXCEPT !.open = @ \ {"writer"}] ELSE inner
          /\ tealet' = [tealet EXCEPT ![t] = Idle] /\ cur' = Nobody
          /\ UNCHANGED <<ssl, bio>>
     ELSE IF stream.unwrapped
     THEN tealet' = [At(t, "flushed") EXCEPT ![t].after = "end"] /\ UNCHANGED <<ssl, bio, inner, cur>>
     ELSE /\ IF Shaking \/ ssl.notified THEN UNCHANGED <<ssl, bio>>
             ELSE bio' = Emitted(bio, "notify") /\ ssl' = [ssl EXCEPT !.notified = TRUE]
          /\ tealet' = Flushing(t, "end")
          /\ UNCHANGED <<inner, cur>>
  /\ UNCHANGED <<peer, past>>

Parks == {"flushwait", "turn", "drain", "feedwait", "fed", "reading"}

\* A cancel() or a timeout, that of the handshake too, ends the call at its
\* park; the finally clauses give back the turn it had.
Interrupt(t) ==
  /\ cur = Nobody /\ tealet[t].at \in Parks /\ past.faults < MaxFaults
  /\ Failed(t, CASE tealet[t].at = "drain" -> Notified(Fails(t), "flushwait", "turn")
                 [] tealet[t].at = "reading" -> Notified(Fails(t), "feedwait", "fed")
                 [] OTHER -> Fails(t), 1)
  /\ inner' = [inner EXCEPT !.writing = IF @ = t THEN Nobody ELSE @,
                            !.reading = IF @ = t THEN Nobody ELSE @]
  /\ UNCHANGED <<ssl, bio, stream, peer>>

(***************************************************************************)
(* External: the peer, which answers a flight when it has ours, sends data *)
(* between handshakes, and ends with close_notify or without notice.  What *)
(* it sends is seen where a tealet parks.                                  *)
(***************************************************************************)
Due == Shaking /\ Head(ssl.hs) = "recv" /\ ~\E k \in DOMAIN bio.out : bio.out[k][1] = "hs"
Underway == \E k \in DOMAIN (bio.in \o peer.net) : (bio.in \o peer.net)[k][1] \in {"hs", "hello"}

PeerSends ==
  /\ cur = Nobody /\ ~peer.over /\ ~Underway
  /\ \E kind \in {"hs", "data", "update", "hello", "notify"} :
       /\ kind = "hs" => Due
       /\ kind \in {"data", "update", "hello", "notify"} => ~Shaking
       /\ kind = "data" => peer.data < MaxData
       /\ kind \in {"update", "hello"} => peer.spare /\ peer.data = 0
       /\ peer' = [net |-> Append(peer.net, <<kind, peer.data + 1>>),
                   data |-> IF kind = "data" THEN peer.data + 1 ELSE peer.data,
                   spare |-> peer.spare /\ kind \notin {"update", "hello"},
                   over |-> kind = "notify"]
  /\ UNCHANGED <<ssl, bio, stream, inner, tealet, cur, past>>

PeerLeaves ==
  /\ cur = Nobody /\ ~peer.over
  /\ peer' = [peer EXCEPT !.over = TRUE]
  /\ UNCHANGED <<ssl, bio, stream, inner, tealet, cur, past>>

Step(t) ==
  \/ Advance(t) \/ Returns(t) \/ WantRead(t) \/ Raises(t)
  \/ FlushOutgoing(t) \/ Drained(t) \/ Turn(t)
  \/ FeedIncoming(t) \/ Fed(t) \/ Retry(t)
  \/ Ends(t) \/ Close(t)

Progress == PeerSends \/ PeerLeaves \/ \E t \in Users : Step(t)

Next == Progress \/ \E t \in Users : Call(t) \/ Interrupt(t)

Spec == Init /\ [][Next]_vars /\ WF_vars(Progress)

(***************************************************************************)
(* Properties.                                                             *)
(***************************************************************************)
\* A tealet that waits for its turn, or for the other's read, has someone who
\* will wake it: the turn is held exactly by the tealet that is in the inner
\* call, whatever is raised there.
TurnsHeld ==
  /\ \A t \in Users : inner.writing = t <=> tealet[t].at = "drain"
  /\ \A t \in Users : inner.reading = t <=> tealet[t].at = "reading"
  /\ \A t \in Users : tealet[t].at = "flushwait" => inner.writing # Nobody
  /\ \A t \in Users : tealet[t].at = "feedwait" => inner.reading # Nobody

\* Ciphertext reaches the inner writer once and in the order OpenSSL made it,
\* although two tealets flush.
RecordsInOrder ==
  LET all == inner.sent \o bio.out
  IN /\ Len(all) = bio.made
     /\ \A k \in DOMAIN all : all[k][2] = k

\* Nothing stays in the outgoing BIO once the calls have returned, unless one
\* raised, or returned after it had waited for the other tealet's flush.
FlushedOut ==
  (\A t \in Users : tealet[t] = Idle) /\ ~past.failed /\ ~past.skipped => bio.out = <<>>

\* The reads return the peer's data once and in order, and what was received
\* is in the buffers or was returned, unless a read was cut short after OpenSSL
\* gave it data.
DataInOrder ==
  LET there == SelectSeq(bio.in \o peer.net, LAMBDA r : r[1] = "data")
      held == IF tealet["r"].hold = 0 THEN <<>> ELSE <<tealet["r"].hold>>
      all == stream.taken \o stream.buffer \o held \o [k \in DOMAIN there |-> there[k][2]]
  IN past.lost \/ all = [k \in 1 .. peer.data |-> k]

\* A stream whose close() or wait_closed() has returned has let go of the
\* inner writer, and of the reader unless that close() was cut short.
LetsGo ==
  stream.closed => "writer" \notin inner.open /\ (past.faults = 0 => inner.open = {})
=============================================================================
