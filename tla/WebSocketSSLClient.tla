------------------------- MODULE WebSocketSSLClient -------------------------
(***************************************************************************)
(* One WebSocketSSLClient (WebSocketSSLClient.h) with the WSClient api     *)
(* object attached to it (base_websocket.h), the single thread that runs   *)
(* its io_context, and the threads that call Send and Close.               *)
(*                                                                         *)
(* The code is a chain of completion handlers: each handler starts the     *)
(* next asynchronous operation, and any error leads to Reconnect, which    *)
(* replaces the stream, sleeps two seconds ON the io thread and resolves   *)
(* the host again.  Nothing supervises that chain, so it must neither      *)
(* break (nobody reads any more) nor fork (two connection attempts share   *)
(* one stream).                                                            *)
(*                                                                         *)
(* An asynchronous operation is first outstanding (pend), then its         *)
(* completion waits in the io_context (ready, first in first out), then    *)
(* the io thread runs its handler.  Lengths stand for message bytes.       *)
(***************************************************************************)
EXTENDS Naturals, Sequences, FiniteSets

CONSTANTS
  MaxFaults,    \* bound: failed lookups, refused or lost connections
  MaxSends,     \* bound: calls of Send
  MaxBuf,       \* bound: bytes kept in buffer_ when more arrive
  Sizes,        \* message lengths the peer and the senders use
  SendWhen,     \* "open": user threads send on an established stream only
                \* and let one write finish before the next; "any": any time
  HasOnReconn,  \* a callback was given to Webclient::connect
  Torn,         \* a message may arrive in two pieces
  CanClose      \* a user thread may call Close

ASSUME MaxFaultsAssumption == MaxFaults \in Nat
ASSUME MaxSendsAssumption  == MaxSends \in Nat
ASSUME MaxBufAssumption    == MaxBuf \in Nat
ASSUME SizesAssumption     == Sizes \subseteq Nat \ {0}
ASSUME SendWhenAssumption  == SendWhen \in {"open", "any"}
ASSUME FlagsAssumption     == {HasOnReconn, Torn, CanClose} \subseteq BOOLEAN

VARIABLES
  stop,     \* stop_
  ws,       \* *ws_: "fresh" (never connected), "tcp", "tls" (handshaken),
            \* "open" (websocket established), "lost" (was open, peer gone),
            \* "dead" (failed before it opened, or its socket was closed)
  buf,      \* buffer_.size()
  got,      \* how much of buf the outstanding read has put there
  pend,     \* number of outstanding asynchronous operations of each kind
  ready,    \* completions whose handler has not run
  io,       \* the io thread: "run", "sleep" (in Reconnect), "aborted" (the
            \* process died on Boost.Beast's assertion)
  conn,     \* WSClient::m_conn_num, which is only compared with 1
  threads,  \* detached m_OnReconn threads that have not yet sent
  sends,    \* calls of Send so far
  faults,   \* faults left
  closed,   \* history: a user called Close
  early,    \* history: Sends issued on a stream that was not established
  cut       \* history: a message was lost with its first piece in buffer_

vars == <<stop, ws, buf, got, pend, ready, io, conn, threads, sends, faults,
          closed, early, cut>>

Kinds == {"resolve", "connect", "sslHs", "wsHs", "read", "write"}
States == {"fresh", "tcp", "tls", "open", "lost", "dead"}

Completion == [kind : Kinds, ok : BOOLEAN, len : Nat]

Established == ws \in {"open", "lost"}

Failed(k) == [kind |-> k, ok |-> FALSE, len |-> 0]
Failures(k) == [i \in 1 .. pend[k] |-> Failed(k)]

\* The operations of a stream whose socket is closed or destroyed complete
\* with operation_aborted; a name lookup belongs to resolver_ and goes on.
Aborted == Failures("read") \o Failures("sslHs") \o Failures("wsHs")
             \o Failures("connect") \o Failures("write")

Init ==
  /\ stop = TRUE
  /\ ws = "fresh"
  /\ buf = 0 /\ got = 0
  /\ pend = [k \in Kinds |-> IF k = "resolve" THEN 1 ELSE 0]  \* Connect
  /\ ready = <<>>
  /\ io = "run"
  /\ conn = 0 /\ threads = 0 /\ sends = 0
  /\ faults = MaxFaults
  /\ closed = FALSE /\ early = 0 /\ cut = FALSE

-----------------------------------------------------------------------------
(* What the handlers have in common.                                       *)

\* The io thread runs the handler of the oldest completion.
Handle(k, ok) ==
  /\ io = "run"
  /\ ready # <<>>
  /\ Head(ready).kind = k
  /\ Head(ready).ok = ok

\* The handler returns without starting anything.
Drop ==
  /\ ready' = Tail(ready)
  /\ UNCHANGED <<stop, ws, buf, got, pend, io, conn, threads, sends, faults,
                 closed, early, cut>>

\* The socket is closed and the stream is left in the given state, with the
\* operations in started (at most one) going on it.  buffer_ keeps what a
\* half received message left in it.
CloseSocket(state, started) ==
  /\ ws' = state
  /\ pend' = [k \in Kinds |-> CASE k = "resolve" -> pend[k]
                                [] k \in started -> 1
                                [] OTHER -> 0]
  /\ ready' = Tail(ready) \o Aborted
  /\ got' = 0
  /\ cut' = (cut \/ got > 0)

\* A handshake is started; on a stream without a connection it fails at once.
StartHandshake(k) ==
  IF ws \in {"tcp", "tls", "open"}
  THEN /\ pend' = [pend EXCEPT ![k] = @ + 1]
       /\ ready' = Tail(ready)
  ELSE /\ ready' = Append(Tail(ready), Failed(k))
       /\ UNCHANGED pend

\* A slip: Boost.Beast's assertion compiled out, two reads at a time.
AsyncReadDataUnchecked ==
  /\ io' = io
  /\ pend' = IF Established THEN [pend EXCEPT !["read"] = @ + 1] ELSE pend
  /\ ready' = IF ~Established
              THEN Append(Tail(ready), Failed("read")) ELSE Tail(ready)

\* The last thing a handler does.  A second read on one stream trips
\* Boost.Beast's assertion; on a stream that is not open it fails at once.
AsyncReadData ==
  /\ io' = IF pend["read"] > 0 THEN "aborted" ELSE io
  /\ pend' = IF pend["read"] = 0 /\ Established
             THEN [pend EXCEPT !["read"] = 1] ELSE pend
  /\ ready' = IF pend["read"] = 0 /\ ~Established
              THEN Append(Tail(ready), Failed("read")) ELSE Tail(ready)

\* A slip: stop_ is left as it is, so that of a failed read and a failed
\* write of one stream each starts an attempt.
ReconnectKeepsStop ==
  /\ CloseSocket("fresh", {})
  /\ io' = "sleep"
  /\ UNCHANGED <<stop, buf, conn, threads, sends, faults, closed, early>>

\* Reconnect of both classes, up to the sleep.  Close, called on the stream
\* just made, only sets stop_: nothing is open and the error is swallowed.
Reconnect ==
  /\ CloseSocket("fresh", {})
  /\ stop' = TRUE
  /\ io' = "sleep"
  /\ UNCHANGED <<buf, conn, threads, sends, faults, closed, early>>

\* Reconnect after the sleep: Connect starts a lookup, the handler returns.
Connect ==
  /\ io = "sleep"
  /\ io' = "run"
  /\ pend' = [pend EXCEPT !["resolve"] = @ + 1]
  /\ UNCHANGED <<stop, ws, buf, got, ready, conn, threads, sends, faults,
                 closed, early, cut>>

-----------------------------------------------------------------------------
(* The handlers.                                                           *)

\* A failed lookup and a failed SSL_set_tlsext_host_name both reconnect.
\* Otherwise async_connect closes the socket of the current stream, which is
\* unused unless there is a second attempt, and connects it.
OnResolved ==
  \/ Handle("resolve", FALSE) /\ Reconnect
  \/ /\ Handle("resolve", TRUE)
     /\ CloseSocket(IF ws = "fresh" THEN "fresh" ELSE "dead", {"connect"})
     /\ UNCHANGED <<stop, buf, io, conn, threads, sends, faults, closed,
                    early>>

\* A slip: stop_ stays set, so that the next read error goes unanswered.
OnConnectedStopped ==
  \/ Handle("connect", FALSE) /\ Reconnect
  \/ /\ Handle("connect", TRUE)
     /\ StartHandshake("sslHs")
     /\ UNCHANGED <<stop, ws, buf, got, io, conn, threads, sends, faults,
                    closed, early, cut>>

OnConnected ==
  \/ Handle("connect", FALSE) /\ Reconnect
  \/ /\ Handle("connect", TRUE)
     /\ stop' = FALSE
     /\ StartHandshake("sslHs")
     /\ UNCHANGED <<ws, buf, got, io, conn, threads, sends, faults, closed,
                    early, cut>>

\* A slip: a failed TLS handshake is only returned from.
OnSSLHandshakeGivesUp ==
  \/ Handle("sslHs", FALSE) /\ Drop
  \/ /\ Handle("sslHs", TRUE)
     /\ StartHandshake("wsHs")
     /\ UNCHANGED <<stop, ws, buf, got, io, conn, threads, sends, faults,
                    closed, early, cut>>

\* The error code is not looked at.
OnSSLHandshake ==
  /\ \E ok \in BOOLEAN : Handle("sslHs", ok)
  /\ StartHandshake("wsHs")
  /\ UNCHANGED <<stop, ws, buf, got, io, conn, threads, sends, faults, closed,
                 early, cut>>

\* WSClient::OnConnected counts the connection and, from the second one on,
\* detaches a thread that runs m_OnReconn (threads is capped by MaxSends).
ApiOnConnected ==
  /\ conn' = IF conn < 2 THEN conn + 1 ELSE 2
  /\ threads' = IF conn > 0 /\ HasOnReconn /\ threads < MaxSends
                THEN threads + 1 ELSE threads

\* A slip: StartRead is left to the subscriber.
OnReadyNoRead ==
  \/ Handle("wsHs", FALSE) /\ Reconnect
  \/ /\ Handle("wsHs", TRUE)
     /\ ApiOnConnected
     /\ ready' = Tail(ready)
     /\ UNCHANGED <<stop, ws, buf, got, pend, io, sends, faults, closed,
                    early, cut>>

OnReady ==
  \/ Handle("wsHs", FALSE) /\ Reconnect
  \/ /\ Handle("wsHs", TRUE)
     /\ ApiOnConnected
     /\ AsyncReadData                             \* StartRead
     /\ UNCHANGED <<stop, ws, buf, got, sends, faults, closed, early, cut>>

\* A slip: the read is armed again whatever the length was.
OnReadAlwaysRearms(k) ==
  \/ Handle(k, FALSE) /\ ~stop /\ Reconnect
  \/ Handle(k, FALSE) /\ stop /\ Drop
  \/ /\ Handle(k, TRUE)
     /\ buf' = IF Head(ready).len = buf THEN 0 ELSE buf
     /\ IF stop THEN ready' = Tail(ready) /\ UNCHANGED <<pend, io>>
                ELSE AsyncReadData
     /\ UNCHANGED <<stop, ws, got, conn, threads, sends, faults, closed,
                    early, cut>>

\* A slip: an error is answered whether the client is stopped or not.
OnReadIgnoresStop(k) ==
  \/ Handle(k, FALSE) /\ Reconnect
  \/ Handle(k, TRUE) /\ Head(ready).len # buf /\ Drop
  \/ /\ Handle(k, TRUE)
     /\ Head(ready).len = buf
     /\ buf' = 0
     /\ IF stop THEN ready' = Tail(ready) /\ UNCHANGED <<pend, io>>
                ELSE AsyncReadData
     /\ UNCHANGED <<stop, ws, got, conn, threads, sends, faults, closed,
                    early, cut>>

\* OnRead completes reads and, because Send names it as its handler, writes.
\* A completion whose length is not that of buffer_ is dropped WITHOUT arming
\* the read again: right for a write, whose read is still outstanding, and
\* for a read the end of reading.
OnRead(k) ==
  \/ Handle(k, FALSE) /\ ~stop /\ Reconnect
  \/ Handle(k, FALSE) /\ stop /\ Drop
  \/ Handle(k, TRUE) /\ Head(ready).len # buf /\ Drop
  \/ /\ Handle(k, TRUE)
     /\ Head(ready).len = buf
     /\ buf' = 0                                  \* consume, OnDataReady
     /\ IF stop THEN ready' = Tail(ready) /\ UNCHANGED <<pend, io>>
                ELSE AsyncReadData
     /\ UNCHANGED <<stop, ws, got, conn, threads, sends, faults, closed,
                    early, cut>>

Handler ==
  \/ OnResolved \/ OnConnected \/ OnSSLHandshake \/ OnReady
  \/ OnRead("read") \/ OnRead("write")

-----------------------------------------------------------------------------
(* The network: operations complete while the io thread runs or sleeps.    *)

Completes(k, ok, len) ==
  /\ io # "aborted"
  /\ pend[k] > 0
  /\ pend' = [pend EXCEPT ![k] = @ - 1]
  /\ ready' = Append(ready, [kind |-> k, ok |-> ok, len |-> len])
  /\ UNCHANGED <<stop, io, conn, threads, sends, closed, early>>

\* A lookup ends, or fails for want of a network or a name server.
ResolveDone ==
  \E ok \in BOOLEAN :
    /\ Completes("resolve", ok, 0)
    /\ IF ok THEN UNCHANGED faults ELSE faults > 0 /\ faults' = faults - 1
    /\ UNCHANGED <<ws, buf, got, cut>>

\* The socket is connected, or the host refuses.
ConnectDone ==
  \E ok \in BOOLEAN :
    /\ Completes("connect", ok, 0)
    /\ IF ok THEN UNCHANGED faults ELSE faults > 0 /\ faults' = faults - 1
    /\ ws' = IF ok /\ ws = "fresh" THEN "tcp" ELSE ws
    /\ UNCHANGED <<buf, got, cut>>

\* The TLS handshake succeeds, at once if the stream has done one before.
SslHsDone ==
  /\ ws \in {"tcp", "tls", "open"}
  /\ Completes("sslHs", TRUE, 0)
  /\ ws' = IF ws = "tcp" THEN "tls" ELSE ws
  /\ UNCHANGED <<buf, got, faults, cut>>

\* The server accepts the upgrade.  OpenSSL completes a TLS handshake still
\* due when the upgrade request is written.
WsHsDone ==
  /\ ws \in {"tcp", "tls"}
  /\ Completes("wsHs", TRUE, 0)
  /\ ws' = "open"
  /\ UNCHANGED <<buf, got, faults, cut>>

\* An upgrade request mixed into a TLS handshake or an open websocket spoils
\* the connection.
WsHsMisplaced ==
  /\ ws \in {"tcp", "open"}
  /\ Completes("wsHs", FALSE, 0)
  /\ ws' = "dead"
  /\ UNCHANGED <<buf, got, faults, cut>>

\* The rest of a message arrives, and the read completes with its length.
Arrive ==
  \E n \in Sizes :
    /\ ws = "open" /\ buf <= MaxBuf
    /\ Completes("read", TRUE, got + n)
    /\ buf' = buf + n
    /\ got' = 0
    /\ UNCHANGED <<ws, faults, cut>>

\* The first piece of a message arrives (one piece at most: the bound).
ArrivePiece ==
  \E n \in Sizes :
    /\ Torn /\ ws = "open" /\ io # "aborted"
    /\ pend["read"] > 0 /\ got = 0 /\ buf <= MaxBuf
    /\ buf' = buf + n
    /\ got' = n
    /\ UNCHANGED <<stop, ws, pend, ready, io, conn, threads, sends, faults,
                   closed, early, cut>>

WriteDone ==
  \E n \in Sizes :
    /\ ws = "open"
    /\ Completes("write", TRUE, n)
    /\ UNCHANGED <<ws, buf, got, faults, cut>>

\* The connection is lost, or a handshake is refused.
LoseConnection ==
  /\ io # "aborted" /\ faults > 0
  /\ ws \in {"tcp", "tls", "open"}
  /\ ws' = IF ws = "open" THEN "lost" ELSE "dead"
  /\ faults' = faults - 1
  /\ UNCHANGED <<stop, buf, got, pend, ready, io, conn, threads, sends,
                 closed, early, cut>>

\* Then what was outstanding on it fails.
OperationFails(k) ==
  /\ ws \in {"lost", "dead"}
  /\ Completes(k, FALSE, 0)
  /\ got' = IF k = "read" THEN 0 ELSE got
  /\ cut' = (cut \/ (k = "read" /\ got > 0))
  /\ UNCHANGED <<ws, buf, faults>>

-----------------------------------------------------------------------------
(* The other threads.                                                      *)

\* async_write is initiated by the calling thread.  A second write on one
\* stream trips Boost.Beast's assertion, as a second read does.
AsyncWrite ==
  /\ io # "aborted" /\ sends < MaxSends
  /\ sends' = sends + 1
  /\ io' = IF pend["write"] > 0 THEN "aborted" ELSE io
  /\ pend' = IF pend["write"] = 0 /\ Established
             THEN [pend EXCEPT !["write"] = 1] ELSE pend
  /\ ready' = IF pend["write"] = 0 /\ ~Established
              THEN Append(ready, Failed("write")) ELSE ready
  /\ early' = IF Established THEN early ELSE early + 1
  /\ UNCHANGED <<stop, ws, buf, got, conn, faults, closed, cut>>

UserSend ==
  /\ SendWhen = "open" => Established /\ pend["write"] = 0
  /\ AsyncWrite
  /\ UNCHANGED threads

\* m_OnReconn sends on whatever stream it finds when it gets to run.
OnReconnSend ==
  /\ threads > 0
  /\ threads' = threads - 1
  /\ AsyncWrite

\* Close by a user thread: stop_ is set and an open stream is shut down.
Close ==
  /\ CanClose /\ io # "aborted" /\ ~closed
  /\ stop' = TRUE
  /\ closed' = TRUE
  /\ ws' = IF ws = "open" THEN "lost" ELSE ws
  /\ UNCHANGED <<buf, got, pend, ready, io, conn, threads, sends, faults,
                 early, cut>>

-----------------------------------------------------------------------------
Network ==
  \/ ResolveDone \/ ConnectDone \/ SslHsDone \/ WsHsDone \/ WsHsMisplaced
  \/ Arrive \/ ArrivePiece \/ WriteDone \/ LoseConnection
  \/ \E k \in Kinds \ {"resolve", "connect"} : OperationFails(k)

Next ==
  \/ Handler
  \/ Connect
  \/ Network
  \/ UserSend \/ OnReconnSend \/ Close

Spec == Init /\ [][Next]_vars

(***************************************************************************)
(* Fairness.  The io thread is in io_context::run, so a queued completion  *)
(* is handled and a sleep ends.  That lookups, connects and handshakes end *)
(* and that a lost connection is noticed is the network's and the kernel's *)
(* doing: the code sets no timeout on any of them.                         *)
(***************************************************************************)
Fairness ==
  /\ WF_vars(Handler) /\ WF_vars(Connect)
  /\ WF_vars(ResolveDone) /\ WF_vars(ConnectDone)
  /\ WF_vars(SslHsDone) /\ WF_vars(WsHsDone) /\ WF_vars(WriteDone)
  /\ \A k \in Kinds \ {"resolve", "connect"} : WF_vars(OperationFails(k))

FairSpec == Spec /\ Fairness

-----------------------------------------------------------------------------
(* Properties.                                                             *)

Queued(K) == {i \in DOMAIN ready : ready[i].kind \in K}

Attempt == {"resolve", "connect", "sslHs", "wsHs"}

\* The connection attempts under way: each is a sleeping Reconnect or an
\* operation whose handler starts the next one.
Attempts ==
  (IF io = "sleep" THEN 1 ELSE 0)
  + pend["resolve"] + pend["connect"] + pend["sslHs"] + pend["wsHs"]
  + Cardinality(Queued(Attempt))

\* The reads that are going on or whose failure will be answered, as stop_ is
\* not set.
Reads ==
  IF stop THEN 0
  ELSE pend["read"] + Cardinality({i \in Queued({"read"}) : ~ready[i].ok})

\* The variables keep their types, and at most one read and one write are
\* outstanding: Boost.Beast allows no more on a stream.
TypeOK ==
  /\ stop \in BOOLEAN /\ ws \in States
  /\ buf \in Nat /\ got \in Nat
  /\ pend \in [Kinds -> Nat]
  /\ pend["read"] <= 1 /\ pend["write"] <= 1
  /\ ready \in Seq(Completion)
  /\ io \in {"run", "sleep", "aborted"}
  /\ conn \in 0 .. 2
  /\ threads \in 0 .. MaxSends /\ sends \in 0 .. MaxSends
  /\ early \in Nat
  /\ faults \in 0 .. MaxFaults
  /\ closed \in BOOLEAN /\ cut \in BOOLEAN

\* OnRead leaves an error unanswered when stop_ is set.  That loses no
\* reconnection: unless a user closed the client, stop_ is set only while an
\* attempt is on its way to OnConnected, which clears it.
Connecting ==
  \/ io = "sleep"
  \/ pend["resolve"] > 0
  \/ pend["connect"] > 0
  \/ \E i \in DOMAIN ready : ready[i].kind \in {"resolve", "connect"}

NoLostReconnect == stop /\ ~closed /\ io # "aborted" => Connecting

\* No Send came before its stream was established, and no message was lost
\* halfway: a write's length is never taken for that of a torn message then.
Undisturbed == early = 0 /\ ~cut

\* However errors of reads, writes and handshakes are interleaved, there is
\* one chain of handlers in a client nobody closed: an attempt, or the
\* reading of a connection.  Only in a client that was disturbed can there be
\* more, and each Send adds at most one.
OneChain ==
  ~closed => Attempts + Reads <= IF Undisturbed THEN 1 ELSE 1 + sends

\* The chain never ends: unless closed (or aborted), an attempt is under way
\* or a read is outstanding whose completion will be handled.  So the
\* io_context is never without work and Webclient::work's run() not over.
Deaf == Attempts + Reads = 0 /\ Queued({"read"}) = {}

NeverDeaf == ~closed /\ io # "aborted" => ~Deaf

\* A chain that did end had left the first piece of a lost message in
\* buffer_, or another chain's read had filled it: from then on no
\* completion's length is that of buffer_.
DeafOnlyIfDisturbed == Deaf /\ ~closed /\ io # "aborted" => ~Undisturbed

\* While senders wait for an established stream and for their last write,
\* no handler reads or writes where a read or a write is outstanding.
NeverAborts == io # "aborted"

\* In a client that was not disturbed, a handler arms a read where one is
\* outstanding only if a write's completion was taken for a message, because
\* the first piece of the one being received was in buffer_ and had the
\* write's length.
ReadAbortOnlyMidMessage ==
  [][io = "run" /\ io' = "aborted" /\ sends' = sends
       => got > 0 \/ ~Undisturbed]_vars

\* Once stop_ is set and no attempt is under way, whatever is still queued
\* for the closed connection never starts one again.
StoppedStaysDown == [][stop /\ Attempts = 0 => Attempts' = 0]_vars

\* After the last fault the client comes up, reads and keeps reading.
Reading == ws = "open" /\ ~stop /\ (pend["read"] = 1 \/ Queued({"read"}) # {})

Recovers == <>[]Reading
=============================================================================
