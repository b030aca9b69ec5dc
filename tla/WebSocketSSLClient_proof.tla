---------------------- MODULE WebSocketSSLClient_proof ----------------------
(***************************************************************************)
(* Theorems about WebSocketSSLClient for every value of its constants: any *)
(* number of faults and Sends, at any time, with torn messages and Close.  *)
(*                                                                         *)
(* That the chain of handlers does not fork and does not end is proved     *)
(* from an inductive invariant that says where the one thread of handlers  *)
(* is: Attempting (from a Reconnect to OnConnected, which is as long as    *)
(* stop_ is set), Handshaking (to OnReady), Receiving, or, once a user has *)
(* called Close, Stopped.                                                  *)
(***************************************************************************)
EXTENDS WebSocketSSLClient, FiniteSetTheorems, TLAPS

-----------------------------------------------------------------------------
(* The queue of completions.                                               *)

LEMMA FailedType ==
  ASSUME NEW k \in Kinds
  PROVE  Failed(k) \in Completion
BY DEF Failed, Completion

LEMMA FailuresType ==
  ASSUME NEW k \in Kinds, pend \in [Kinds -> Nat]
  PROVE  Failures(k) \in Seq(Completion)
<1>1. pend[k] \in Nat
  OBVIOUS
<1>2. \A i \in 1 .. pend[k] : Failed(k) \in Completion
  BY FailedType
<1>3. QED
  BY <1>1, <1>2 DEF Failures

LEMMA AbortedType ==
  ASSUME pend \in [Kinds -> Nat]
  PROVE  Aborted \in Seq(Completion)
<1>1. \A k \in Kinds : Failures(k) \in Seq(Completion)
  BY FailuresType
<1>2. {"read", "sslHs", "wsHs", "connect", "write"} \subseteq Kinds
  BY DEF Kinds
<1>3. QED
  BY <1>1, <1>2 DEF Aborted

\* The queue holds the completion of a lookup or of a connect.
Awaited(r) == \E i \in DOMAIN r : r[i].kind \in {"resolve", "connect"}

LEMMA AwaitedAppend ==
  ASSUME NEW r \in Seq(Completion), NEW c \in Completion,
         Awaited(r) \/ c.kind \in {"resolve", "connect"}
  PROVE  Awaited(Append(r, c))
<1>1. /\ Len(Append(r, c)) = Len(r) + 1
      /\ DOMAIN Append(r, c) = 1 .. Len(r) + 1
      /\ \A i \in 1 .. Len(r) : Append(r, c)[i] = r[i]
      /\ Append(r, c)[Len(r) + 1] = c
      /\ DOMAIN r = 1 .. Len(r)
      /\ Len(r) \in Nat
  OBVIOUS
<1>2. CASE Awaited(r)
  <2>1. PICK i \in 1 .. Len(r) : r[i].kind \in {"resolve", "connect"}
    BY <1>1, <1>2 DEF Awaited
  <2>2. i \in 1 .. Len(r) + 1
    BY <1>1
  <2>3. QED
    BY <1>1, <2>1, <2>2 DEF Awaited
<1>3. CASE c.kind \in {"resolve", "connect"}
  <2>1. Len(r) + 1 \in 1 .. Len(r) + 1
    BY <1>1
  <2>2. QED
    BY <1>1, <1>3, <2>1 DEF Awaited
<1>4. QED
  BY <1>2, <1>3

\* A handler of another operation takes no such completion off the queue.
LEMMA AwaitedTail ==
  ASSUME NEW r \in Seq(Completion), r # <<>>, Awaited(r),
         Head(r).kind \notin {"resolve", "connect"}
  PROVE  Awaited(Tail(r))
<1>1. PICK i \in 1 .. Len(r) : r[i].kind \in {"resolve", "connect"}
  BY DEF Awaited
<1>2. /\ Head(r) = r[1]
      /\ Tail(r) \in Seq(Completion)
      /\ DOMAIN Tail(r) = 1 .. Len(r) - 1
      /\ \A j \in 1 .. Len(r) - 1 : Tail(r)[j] = r[j + 1]
      /\ Len(r) \in Nat
  OBVIOUS
<1>3. i # 1
  BY <1>1, <1>2
<1>4. i - 1 \in 1 .. Len(r) - 1 /\ (i - 1) + 1 = i
  BY <1>1, <1>2, <1>3
<1>5. Tail(r)[i - 1].kind \in {"resolve", "connect"}
  BY <1>1, <1>2, <1>4
<1>6. QED
  BY <1>2, <1>4, <1>5 DEF Awaited

-----------------------------------------------------------------------------
(* Type correctness: what the handlers share, then one step per action.    *)

LEMMA CloseSocketType ==
  ASSUME TypeOK, ready # <<>>,
         NEW state \in States, NEW started \in {{}, {"connect"}},
         CloseSocket(state, started)
  PROVE  /\ ws' \in States
         /\ pend' \in [Kinds -> Nat]
         /\ pend'["read"] <= 1 /\ pend'["write"] <= 1
         /\ ready' \in Seq(Completion)
         /\ got' \in Nat /\ cut' \in BOOLEAN
<1>1. /\ pend' \in [Kinds -> Nat]
      /\ pend'["read"] = 0 /\ pend'["write"] = 0
  BY DEF TypeOK, CloseSocket, Kinds
<1>2. ready' \in Seq(Completion)
  <2>1. Tail(ready) \in Seq(Completion) /\ Aborted \in Seq(Completion)
    BY AbortedType DEF TypeOK
  <2>2. QED
    BY <2>1 DEF CloseSocket
<1>3. ws' \in States /\ got' \in Nat /\ cut' \in BOOLEAN
  BY DEF CloseSocket
<1>4. QED
  BY <1>1, <1>2, <1>3

LEMMA ReconnectType ==
  ASSUME TypeOK, ready # <<>>, Reconnect
  PROVE  TypeOK'
<1>1. CloseSocket("fresh", {}) /\ "fresh" \in States
  BY DEF Reconnect, States
<1>2. /\ ws' \in States
      /\ pend' \in [Kinds -> Nat]
      /\ pend'["read"] <= 1 /\ pend'["write"] <= 1
      /\ ready' \in Seq(Completion)
      /\ got' \in Nat /\ cut' \in BOOLEAN
  BY <1>1, CloseSocketType
<1>3. stop' \in BOOLEAN /\ io' \in {"run", "sleep", "aborted"}
  BY DEF Reconnect
<1>4. QED
  BY <1>2, <1>3 DEF TypeOK, Reconnect

LEMMA DropType ==
  ASSUME TypeOK, ready # <<>>, Drop
  PROVE  TypeOK'
<1>1. ready' \in Seq(Completion)
  BY DEF TypeOK, Drop
<1>2. QED
  BY <1>1 DEF TypeOK, Drop

LEMMA StartHandshakeType ==
  ASSUME TypeOK, ready # <<>>, NEW k \in {"sslHs", "wsHs"}, StartHandshake(k)
  PROVE  /\ pend' \in [Kinds -> Nat]
         /\ pend'["read"] = pend["read"] /\ pend'["write"] = pend["write"]
         /\ ready' \in Seq(Completion)
<1>1. k \in Kinds /\ Failed(k) \in Completion
  BY FailedType DEF Kinds
<1>2. Tail(ready) \in Seq(Completion)
  BY DEF TypeOK
<1>3. pend \in [Kinds -> Nat]
  BY DEF TypeOK
<1>4. CASE ws \in {"tcp", "tls", "open"}
  <2>1. pend' = [pend EXCEPT ![k] = pend[k] + 1] /\ ready' = Tail(ready)
    BY <1>4 DEF StartHandshake
  <2>2. pend[k] + 1 \in Nat /\ k # "read" /\ k # "write"
    BY <1>1, <1>3
  <2>3. /\ pend' \in [Kinds -> Nat]
        /\ pend'["read"] = pend["read"] /\ pend'["write"] = pend["write"]
    BY <1>1, <1>3, <2>1, <2>2 DEF Kinds
  <2>4. QED
    BY <1>2, <2>1, <2>3
<1>5. CASE ws \notin {"tcp", "tls", "open"}
  <2>1. pend' = pend /\ ready' = Append(Tail(ready), Failed(k))
    BY <1>5 DEF StartHandshake
  <2>2. ready' \in Seq(Completion)
    BY <1>1, <1>2, <2>1
  <2>3. QED
    BY <1>3, <2>1, <2>2
<1>6. QED
  BY <1>4, <1>5

LEMMA AsyncReadDataType ==
  ASSUME TypeOK, ready # <<>>, AsyncReadData
  PROVE  /\ io' \in {"run", "sleep", "aborted"}
         /\ pend' \in [Kinds -> Nat]
         /\ pend'["read"] <= 1 /\ pend'["write"] <= 1
         /\ ready' \in Seq(Completion)
<1>1. Failed("read") \in Completion
  BY FailedType DEF Kinds
<1>2. Tail(ready) \in Seq(Completion)
  BY DEF TypeOK
<1>3. ready' \in Seq(Completion)
  BY <1>1, <1>2 DEF AsyncReadData
<1>4. QED
  BY <1>3 DEF TypeOK, AsyncReadData, Kinds

LEMMA OnReadType ==
  ASSUME TypeOK, NEW k \in {"read", "write"}, OnRead(k)
  PROVE  TypeOK'
<1>1. ready # <<>>
  BY DEF OnRead, Handle
<1>2. CASE Reconnect
  BY <1>1, <1>2, ReconnectType
<1>3. CASE Drop
  BY <1>1, <1>3, DropType
<1>4. CASE /\ buf' = 0
           /\ IF stop THEN ready' = Tail(ready) /\ UNCHANGED <<pend, io>>
                      ELSE AsyncReadData
           /\ UNCHANGED <<stop, ws, got, conn, threads, sends, faults, closed,
                          early, cut>>
  <2>1. /\ io' \in {"run", "sleep", "aborted"}
        /\ pend' \in [Kinds -> Nat]
        /\ pend'["read"] <= 1 /\ pend'["write"] <= 1
        /\ ready' \in Seq(Completion)
    <3>1. CASE stop
      BY <1>1, <1>4, <3>1, SMTT(60) DEF TypeOK
    <3>2. CASE ~stop
      BY <1>1, <1>4, <3>2, AsyncReadDataType
    <3>3. QED
      BY <3>1, <3>2
  <2>2. QED
    BY <1>4, <2>1 DEF TypeOK
<1>5. QED
  BY <1>2, <1>3, <1>4 DEF OnRead

LEMMA HandlerType ==
  ASSUME TypeOK, Handler
  PROVE  TypeOK'
<1>1. CASE OnResolved
  <2>1. ready # <<>>
    BY <1>1 DEF OnResolved, Handle
  <2>2. CASE Reconnect
    BY <2>1, <2>2, ReconnectType
  <2>3. CASE /\ CloseSocket(IF ws = "fresh" THEN "fresh" ELSE "dead",
                            {"connect"})
             /\ UNCHANGED <<stop, buf, io, conn, threads, sends, faults,
                            closed, early>>
    <3>1. (IF ws = "fresh" THEN "fresh" ELSE "dead") \in States
      BY DEF States
    <3>2. /\ ws' \in States
          /\ pend' \in [Kinds -> Nat]
          /\ pend'["read"] <= 1 /\ pend'["write"] <= 1
          /\ ready' \in Seq(Completion)
          /\ got' \in Nat /\ cut' \in BOOLEAN
      BY <2>1, <2>3, <3>1, CloseSocketType
    <3>3. QED
      BY <2>3, <3>2 DEF TypeOK
  <2>4. QED
    BY <1>1, <2>2, <2>3 DEF OnResolved
<1>2. CASE OnConnected
  <2>1. ready # <<>>
    BY <1>2 DEF OnConnected, Handle
  <2>2. CASE Reconnect
    BY <2>1, <2>2, ReconnectType
  <2>3. CASE /\ stop' = FALSE
             /\ StartHandshake("sslHs")
             /\ UNCHANGED <<ws, buf, got, io, conn, threads, sends, faults,
                            closed, early, cut>>
    <3>1. /\ pend' \in [Kinds -> Nat]
          /\ pend'["read"] = pend["read"] /\ pend'["write"] = pend["write"]
          /\ ready' \in Seq(Completion)
      BY <2>1, <2>3, StartHandshakeType
    <3>2. stop' \in BOOLEAN
      BY <2>3
    <3>3. QED
      BY <2>3, <3>1, <3>2 DEF TypeOK
  <2>4. QED
    BY <1>2, <2>2, <2>3 DEF OnConnected
<1>3. CASE OnSSLHandshake
  <2>1. ready # <<>>
    BY <1>3 DEF OnSSLHandshake, Handle
  <2>2. /\ pend' \in [Kinds -> Nat]
        /\ pend'["read"] = pend["read"] /\ pend'["write"] = pend["write"]
        /\ ready' \in Seq(Completion)
    BY <1>3, <2>1, StartHandshakeType DEF OnSSLHandshake
  <2>3. QED
    BY <1>3, <2>2 DEF OnSSLHandshake, TypeOK
<1>4. CASE OnReady
  <2>1. ready # <<>>
    BY <1>4 DEF OnReady, Handle
  <2>2. CASE Reconnect
    BY <2>1, <2>2, ReconnectType
  <2>3. CASE /\ ApiOnConnected
             /\ AsyncReadData
             /\ UNCHANGED <<stop, ws, buf, got, sends, faults, closed, early,
                            cut>>
    <3>1. /\ io' \in {"run", "sleep", "aborted"}
          /\ pend' \in [Kinds -> Nat]
          /\ pend'["read"] <= 1 /\ pend'["write"] <= 1
          /\ ready' \in Seq(Completion)
      BY <2>1, <2>3, AsyncReadDataType
    <3>2. conn' \in 0 .. 2 /\ threads' \in 0 .. MaxSends
      BY <2>3, MaxSendsAssumption DEF ApiOnConnected, TypeOK
    <3>3. QED
      BY <2>3, <3>1, <3>2 DEF TypeOK
  <2>4. QED
    BY <1>4, <2>2, <2>3 DEF OnReady
<1>5. CASE OnRead("read") \/ OnRead("write")
  BY <1>5, OnReadType
<1>6. QED
  BY <1>1, <1>2, <1>3, <1>4, <1>5 DEF Handler

\* The network, which adds a completion to the queue.
LEMMA CompletesType ==
  ASSUME TypeOK, NEW k \in Kinds, NEW ok \in BOOLEAN, NEW len \in Nat,
         Completes(k, ok, len)
  PROVE  /\ pend' \in [Kinds -> Nat]
         /\ pend'["read"] <= 1 /\ pend'["write"] <= 1
         /\ ready' \in Seq(Completion)
<1>1. [kind |-> k, ok |-> ok, len |-> len] \in Completion
  BY DEF Completion
<1>2. ready' \in Seq(Completion)
  BY <1>1 DEF Completes, TypeOK
<1>3. pend \in [Kinds -> Nat] /\ pend[k] > 0 /\ pend[k] \in Nat
  BY DEF Completes, TypeOK
<1>4. pend' = [pend EXCEPT ![k] = pend[k] - 1] /\ pend[k] - 1 \in Nat
  BY <1>3 DEF Completes
<1>5. pend' \in [Kinds -> Nat]
  BY <1>3, <1>4
<1>6. \A j \in Kinds : pend'[j] <= pend[j]
  BY <1>3, <1>4
<1>7. "read" \in Kinds /\ "write" \in Kinds
  BY DEF Kinds
<1>8. /\ pend["read"] \in Nat /\ pend["write"] \in Nat
      /\ pend'["read"] \in Nat /\ pend'["write"] \in Nat
      /\ pend["read"] <= 1 /\ pend["write"] <= 1
  BY <1>3, <1>5, <1>7 DEF TypeOK
<1>9. QED
  BY <1>2, <1>5, <1>6, <1>7, <1>8

LEMMA NetworkType ==
  ASSUME TypeOK, Network
  PROVE  TypeOK'
<1>0. {"resolve", "connect", "sslHs", "wsHs", "read", "write"} = Kinds
  BY DEF Kinds
<1>1. CASE ResolveDone
  <2>1. PICK ok \in BOOLEAN :
          /\ Completes("resolve", ok, 0)
          /\ IF ok THEN UNCHANGED faults
                   ELSE faults > 0 /\ faults' = faults - 1
          /\ UNCHANGED <<ws, buf, got, cut>>
    BY <1>1 DEF ResolveDone
  <2>2. /\ pend' \in [Kinds -> Nat]
        /\ pend'["read"] <= 1 /\ pend'["write"] <= 1
        /\ ready' \in Seq(Completion)
    BY <1>0, <2>1, CompletesType
  <2>3. faults' \in 0 .. MaxFaults
    BY <2>1, MaxFaultsAssumption DEF TypeOK
  <2>4. QED
    BY <2>1, <2>2, <2>3 DEF TypeOK, Completes
<1>2. CASE ConnectDone
  <2>1. PICK ok \in BOOLEAN :
          /\ Completes("connect", ok, 0)
          /\ IF ok THEN UNCHANGED faults
                   ELSE faults > 0 /\ faults' = faults - 1
          /\ ws' = IF ok /\ ws = "fresh" THEN "tcp" ELSE ws
          /\ UNCHANGED <<buf, got, cut>>
    BY <1>2 DEF ConnectDone
  <2>2. /\ pend' \in [Kinds -> Nat]
        /\ pend'["read"] <= 1 /\ pend'["write"] <= 1
        /\ ready' \in Seq(Completion)
    BY <1>0, <2>1, CompletesType
  <2>3. faults' \in 0 .. MaxFaults
    BY <2>1, MaxFaultsAssumption DEF TypeOK
  <2>4. ws' \in States
    BY <2>1 DEF TypeOK, States
  <2>5. QED
    BY <2>1, <2>2, <2>3, <2>4 DEF TypeOK, Completes
<1>3. CASE SslHsDone
  <2>1. /\ pend' \in [Kinds -> Nat]
        /\ pend'["read"] <= 1 /\ pend'["write"] <= 1
        /\ ready' \in Seq(Completion)
    BY <1>0, <1>3, CompletesType DEF SslHsDone
  <2>2. ws' \in States
    BY <1>3 DEF SslHsDone, TypeOK, States
  <2>3. QED
    BY <1>3, <2>1, <2>2 DEF SslHsDone, TypeOK, Completes
<1>4. CASE WsHsDone
  <2>1. /\ pend' \in [Kinds -> Nat]
        /\ pend'["read"] <= 1 /\ pend'["write"] <= 1
        /\ ready' \in Seq(Completion)
    BY <1>0, <1>4, CompletesType DEF WsHsDone
  <2>2. ws' \in States
    BY <1>4 DEF WsHsDone, States
  <2>3. QED
    BY <1>4, <2>1, <2>2 DEF WsHsDone, TypeOK, Completes
<1>5. CASE WsHsMisplaced
  <2>1. /\ pend' \in [Kinds -> Nat]
        /\ pend'["read"] <= 1 /\ pend'["write"] <= 1
        /\ ready' \in Seq(Completion)
    BY <1>0, <1>5, CompletesType DEF WsHsMisplaced
  <2>2. ws' \in States
    BY <1>5 DEF WsHsMisplaced, States
  <2>3. QED
    BY <1>5, <2>1, <2>2 DEF WsHsMisplaced, TypeOK, Completes
<1>6. CASE Arrive
  <2>1. PICK n \in Sizes : /\ Completes("read", TRUE, got + n)
                           /\ buf' = buf + n /\ got' = 0
                           /\ UNCHANGED <<ws, faults, cut>>
    BY <1>6 DEF Arrive
  <2>2. got + n \in Nat /\ buf + n \in Nat
    BY SizesAssumption DEF TypeOK
  <2>3. /\ pend' \in [Kinds -> Nat]
        /\ pend'["read"] <= 1 /\ pend'["write"] <= 1
        /\ ready' \in Seq(Completion)
    BY <1>0, <2>1, <2>2, CompletesType
  <2>4. QED
    BY <2>1, <2>2, <2>3 DEF TypeOK, Completes
<1>7. CASE ArrivePiece
  <2>1. PICK n \in Sizes : buf' = buf + n /\ got' = n
    BY <1>7 DEF ArrivePiece
  <2>2. buf' \in Nat /\ got' \in Nat
    BY <2>1, SizesAssumption DEF TypeOK
  <2>3. QED
    BY <1>7, <2>2 DEF ArrivePiece, TypeOK
<1>8. CASE WriteDone
  <2>1. PICK n \in Sizes : /\ Completes("write", TRUE, n)
                           /\ UNCHANGED <<ws, buf, got, faults, cut>>
    BY <1>8 DEF WriteDone
  <2>2. /\ pend' \in [Kinds -> Nat]
        /\ pend'["read"] <= 1 /\ pend'["write"] <= 1
        /\ ready' \in Seq(Completion)
    BY <1>0, <2>1, CompletesType, SizesAssumption
  <2>3. QED
    BY <2>1, <2>2 DEF TypeOK, Completes
<1>9. CASE LoseConnection
  <2>1. faults' \in 0 .. MaxFaults
    BY <1>9, MaxFaultsAssumption DEF LoseConnection, TypeOK
  <2>2. ws' \in States
    BY <1>9 DEF LoseConnection, States
  <2>3. QED
    BY <1>9, <2>1, <2>2 DEF LoseConnection, TypeOK
<1>10. CASE \E k \in Kinds \ {"resolve", "connect"} : OperationFails(k)
  <2>1. PICK k \in Kinds : OperationFails(k)
    BY <1>10
  <2>2. /\ pend' \in [Kinds -> Nat]
        /\ pend'["read"] <= 1 /\ pend'["write"] <= 1
        /\ ready' \in Seq(Completion)
    BY <2>1, CompletesType DEF OperationFails
  <2>3. got' \in Nat
    BY <2>1 DEF OperationFails, TypeOK
  <2>4. cut' \in BOOLEAN
    BY <2>1 DEF OperationFails
  <2>5. QED
    BY <2>1, <2>2, <2>3, <2>4 DEF OperationFails, TypeOK, Completes
<1>11. QED
  BY <1>1, <1>2, <1>3, <1>4, <1>5, <1>6, <1>7, <1>8, <1>9, <1>10 DEF Network

\* The other threads.
LEMMA AsyncWriteType ==
  ASSUME TypeOK, AsyncWrite
  PROVE  /\ io' \in {"run", "sleep", "aborted"}
         /\ pend' \in [Kinds -> Nat]
         /\ pend'["read"] <= 1 /\ pend'["write"] <= 1
         /\ ready' \in Seq(Completion)
         /\ sends' \in 0 .. MaxSends
         /\ early' \in Nat
<1>1. Failed("write") \in Completion
  BY FailedType DEF Kinds
<1>2. ready' \in Seq(Completion)
  BY <1>1 DEF AsyncWrite, TypeOK
<1>3. sends' \in 0 .. MaxSends
  BY MaxSendsAssumption DEF AsyncWrite, TypeOK
<1>4. QED
  BY <1>2, <1>3 DEF AsyncWrite, TypeOK, Kinds

LEMMA NextType ==
  ASSUME TypeOK, [Next]_vars
  PROVE  TypeOK'
<1>1. CASE Handler
  BY <1>1, HandlerType
<1>2. CASE Connect
  <2>1. pend' = [pend EXCEPT !["resolve"] = pend["resolve"] + 1]
    BY <1>2 DEF Connect
  <2>2. /\ pend' \in [Kinds -> Nat]
        /\ pend'["read"] <= 1 /\ pend'["write"] <= 1
    BY <2>1 DEF TypeOK, Kinds
  <2>3. QED
    BY <1>2, <2>2 DEF Connect, TypeOK
<1>3. CASE Network
  BY <1>3, NetworkType
<1>4. CASE UserSend
  <2>1. AsyncWrite /\ UNCHANGED threads
    BY <1>4 DEF UserSend
  <2>2. QED
    BY <2>1, AsyncWriteType DEF AsyncWrite, TypeOK
<1>5. CASE OnReconnSend
  <2>1. AsyncWrite /\ threads > 0 /\ threads' = threads - 1
    BY <1>5 DEF OnReconnSend
  <2>2. threads' \in 0 .. MaxSends
    BY <2>1, MaxSendsAssumption DEF TypeOK
  <2>3. QED
    BY <2>1, <2>2, AsyncWriteType DEF AsyncWrite, TypeOK
<1>6. CASE Close
  <2>1. ws' \in States
    BY <1>6 DEF Close, TypeOK, States
  <2>2. QED
    BY <1>6, <2>1 DEF Close, TypeOK
<1>7. CASE UNCHANGED vars
  BY <1>7 DEF vars, TypeOK
<1>8. QED
  BY <1>1, <1>2, <1>3, <1>4, <1>5, <1>6, <1>7 DEF Next

LEMMA InitType ==
  ASSUME Init
  PROVE  TypeOK
<1>1. pend \in [Kinds -> Nat] /\ pend["read"] <= 1 /\ pend["write"] <= 1
  BY DEF Init, Kinds
<1>2. faults \in 0 .. MaxFaults /\ threads \in 0 .. MaxSends
      /\ sends \in 0 .. MaxSends /\ conn \in 0 .. 2
  BY MaxFaultsAssumption, MaxSendsAssumption DEF Init
<1>3. ready \in Seq(Completion)
  BY DEF Init
<1>4. ws \in States /\ stop \in BOOLEAN /\ closed \in BOOLEAN
      /\ cut \in BOOLEAN /\ io \in {"run", "sleep", "aborted"}
  BY DEF Init, States
<1>5. buf \in Nat /\ got \in Nat /\ early \in Nat
  BY DEF Init
<1>6. QED
  BY <1>1, <1>2, <1>3, <1>4, <1>5 DEF TypeOK

\* Type correctness: however completions, Sends and Close interleave, the
\* handlers of one client never have two reads or two writes outstanding on
\* its stream (where OnRead or Send would start one, Boost.Beast aborts).
THEOREM TypeCorrect == Spec => []TypeOK
<1>1. Init => TypeOK
  BY InitType
<1>2. TypeOK /\ [Next]_vars => TypeOK'
  BY NextType
<1>3. QED
  BY <1>1, <1>2, PTL DEF Spec

-----------------------------------------------------------------------------
(* A set stop_ always has an attempt behind it.                            *)

\* A step that neither ends a sleep nor touches a lookup, a connect or one of
\* their completions leaves the attempt under way.
LEMMA StillConnecting ==
  ASSUME Connecting,
         io = "sleep" => io' = "sleep",
         pend'["resolve"] = pend["resolve"],
         pend'["connect"] = pend["connect"],
         Awaited(ready) => Awaited(ready')
  PROVE  Connecting'
BY DEF Connecting, Awaited

\* A handler of any other operation takes its completion off the queue and
\* may put the failure of the one it starts there.
LEMMA HandlerKeepsAwaited ==
  ASSUME TypeOK, NEW k \in Kinds \ {"resolve", "connect"},
         NEW ok \in BOOLEAN, Handle(k, ok), Awaited(ready),
         NEW j \in Kinds,
         ready' = Tail(ready) \/ ready' = Append(Tail(ready), Failed(j))
  PROVE  Awaited(ready')
<1>1. ready \in Seq(Completion) /\ ready # <<>>
      /\ Head(ready).kind \notin {"resolve", "connect"}
  BY DEF TypeOK, Handle
<1>2. Tail(ready) \in Seq(Completion) /\ Awaited(Tail(ready))
  BY <1>1, AwaitedTail
<1>3. Failed(j) \in Completion
  BY FailedType
<1>4. Awaited(Append(Tail(ready), Failed(j)))
  BY <1>2, <1>3, AwaitedAppend
<1>5. QED
  BY <1>2, <1>4

LEMMA HandlerKeepsConnecting ==
  ASSUME TypeOK, NoLostReconnect, Handler,
         stop', ~closed', io' # "aborted"
  PROVE  Connecting'
<1>0. /\ "read" \in Kinds \ {"resolve", "connect"}
      /\ "write" \in Kinds \ {"resolve", "connect"}
      /\ "sslHs" \in Kinds \ {"resolve", "connect"}
      /\ "wsHs" \in Kinds \ {"resolve", "connect"}
      /\ "resolve" \in Kinds /\ "connect" \in Kinds
  BY DEF Kinds
<1>1. ASSUME Reconnect PROVE Connecting'
  BY <1>1 DEF Reconnect, Connecting
<1>2. io = "run"
  BY DEF Handler, OnResolved, OnConnected, OnSSLHandshake, OnReady, OnRead,
         Handle
<1>3. ASSUME NEW k \in Kinds \ {"resolve", "connect"}, NEW ok \in BOOLEAN,
             Handle(k, ok), stop' = stop, closed' = closed,
             pend'["resolve"] = pend["resolve"],
             pend'["connect"] = pend["connect"],
             NEW j \in Kinds,
             ready' = Tail(ready) \/ ready' = Append(Tail(ready), Failed(j))
      PROVE  Connecting'
  <2>1. Connecting
    BY <1>2, <1>3 DEF NoLostReconnect
  <2>2. Awaited(ready) => Awaited(ready')
    BY <1>3, HandlerKeepsAwaited
  <2>3. QED
    BY <1>2, <1>3, <2>1, <2>2, StillConnecting
<1>4. ASSUME NEW k \in Kinds \ {"resolve", "connect"}, NEW ok \in BOOLEAN,
             Handle(k, ok), stop' = stop, closed' = closed, AsyncReadData
      PROVE  Connecting'
  <2>1. /\ pend'["resolve"] = pend["resolve"]
        /\ pend'["connect"] = pend["connect"]
    BY <1>4 DEF TypeOK, Kinds, AsyncReadData
  <2>2. ready' = Tail(ready) \/ ready' = Append(Tail(ready), Failed("read"))
    BY <1>4 DEF AsyncReadData
  <2>3. QED
    BY <1>0, <1>3, <1>4, <2>1, <2>2
<1>5. CASE OnResolved
  <2>1. CASE CloseSocket(IF ws = "fresh" THEN "fresh" ELSE "dead",
                         {"connect"})
    <3>1. pend'["connect"] = 1
      BY <1>0, <2>1 DEF CloseSocket
    <3>2. QED
      BY <3>1 DEF Connecting
  <2>2. QED
    BY <1>1, <1>5, <2>1 DEF OnResolved
<1>6. CASE OnConnected
  BY <1>1, <1>6 DEF OnConnected
<1>7. CASE OnSSLHandshake
  <2>1. PICK ok \in BOOLEAN : Handle("sslHs", ok)
    BY <1>7 DEF OnSSLHandshake
  <2>2. /\ pend'["resolve"] = pend["resolve"]
        /\ pend'["connect"] = pend["connect"]
    BY <1>7 DEF OnSSLHandshake, StartHandshake, TypeOK, Kinds
  <2>3. ready' = Tail(ready) \/ ready' = Append(Tail(ready), Failed("wsHs"))
    BY <1>7 DEF OnSSLHandshake, StartHandshake
  <2>4. QED
    BY <1>0, <1>3, <1>7, <2>1, <2>2, <2>3 DEF OnSSLHandshake
<1>8. CASE OnReady
  <2>1. CASE Handle("wsHs", TRUE) /\ AsyncReadData
             /\ stop' = stop /\ closed' = closed
    BY <1>0, <1>4, <2>1
  <2>2. QED
    BY <1>1, <1>8, <2>1 DEF OnReady
<1>9. ASSUME NEW k \in {"read", "write"}, OnRead(k)
      PROVE  Connecting'
  <2>1. k \in Kinds \ {"resolve", "connect"}
    BY <1>0
  <2>2. PICK ok \in BOOLEAN : Handle(k, ok)
    BY <1>9 DEF OnRead
  <2>3. CASE Drop
    BY <1>0, <1>3, <2>1, <2>2, <2>3 DEF Drop
  <2>4. CASE /\ stop' = stop /\ closed' = closed
             /\ IF stop THEN ready' = Tail(ready) /\ UNCHANGED <<pend, io>>
                        ELSE AsyncReadData
    <3>1. CASE stop
      BY <1>0, <1>3, <2>1, <2>2, <2>4, <3>1
    <3>2. CASE ~stop
      BY <1>4, <2>1, <2>2, <2>4, <3>2
    <3>3. QED
      BY <3>1, <3>2
  <2>5. QED
    BY <1>1, <1>9, <2>3, <2>4 DEF OnRead
<1>10. QED
  BY <1>5, <1>6, <1>7, <1>8, <1>9 DEF Handler

\* The completion of a lookup or a connect takes the place of the operation;
\* the others leave both alone.
LEMMA CompletesKeepsConnecting ==
  ASSUME TypeOK, Connecting, NEW k \in Kinds, NEW ok \in BOOLEAN,
         NEW len \in Nat, Completes(k, ok, len)
  PROVE  Connecting'
<1>1. /\ [kind |-> k, ok |-> ok, len |-> len] \in Completion
      /\ ready \in Seq(Completion)
  BY DEF Completion, TypeOK
<1>2. ready' = Append(ready, [kind |-> k, ok |-> ok, len |-> len])
  BY DEF Completes
<1>3. Awaited(ready) \/ k \in {"resolve", "connect"} => Awaited(ready')
  BY <1>1, <1>2, AwaitedAppend
<1>4. CASE k \in {"resolve", "connect"}
  BY <1>3, <1>4 DEF Awaited, Connecting
<1>5. CASE k \notin {"resolve", "connect"}
  <2>1. /\ pend'["resolve"] = pend["resolve"]
        /\ pend'["connect"] = pend["connect"]
    BY <1>5 DEF Completes, TypeOK, Kinds
  <2>2. io' = io
    BY DEF Completes
  <2>3. QED
    BY <1>3, <2>1, <2>2, StillConnecting
<1>6. QED
  BY <1>4, <1>5

LEMMA NetworkCompletes ==
  ASSUME TypeOK, Network, ~(LoseConnection \/ ArrivePiece)
  PROVE  \E k \in Kinds, ok \in BOOLEAN, len \in Nat : Completes(k, ok, len)
<1>1. Kinds = {"resolve", "connect", "sslHs", "wsHs", "read", "write"}
  BY DEF Kinds
<1>2. CASE ResolveDone \/ ConnectDone
  BY <1>1, <1>2 DEF ResolveDone, ConnectDone
<1>3. CASE SslHsDone \/ WsHsDone \/ WsHsMisplaced
  BY <1>1, <1>3 DEF SslHsDone, WsHsDone, WsHsMisplaced
<1>4. CASE Arrive \/ WriteDone
  <2>1. \A n \in Sizes : n \in Nat /\ got + n \in Nat
    BY SizesAssumption DEF TypeOK
  <2>2. QED
    BY <1>1, <1>4, <2>1 DEF Arrive, WriteDone
<1>5. CASE \E k \in Kinds \ {"resolve", "connect"} : OperationFails(k)
  BY <1>5 DEF OperationFails
<1>6. QED
  BY <1>2, <1>3, <1>4, <1>5 DEF Network

LEMMA NetworkKeepsConnecting ==
  ASSUME TypeOK, Connecting, Network
  PROVE  Connecting'
<1>1. CASE LoseConnection \/ ArrivePiece
  BY <1>1, StillConnecting DEF LoseConnection, ArrivePiece
<1>2. CASE ~(LoseConnection \/ ArrivePiece)
  BY <1>2, NetworkCompletes, CompletesKeepsConnecting
<1>3. QED
  BY <1>1, <1>2

LEMMA AsyncWriteKeepsConnecting ==
  ASSUME TypeOK, Connecting, AsyncWrite, io' # "aborted"
  PROVE  Connecting'
<1>1. io' = io
  BY DEF AsyncWrite
<1>2. /\ pend'["resolve"] = pend["resolve"]
      /\ pend'["connect"] = pend["connect"]
  BY DEF AsyncWrite, TypeOK, Kinds
<1>3. Failed("write") \in Completion
  BY FailedType DEF Kinds
<1>4. ready' = ready \/ ready' = Append(ready, Failed("write"))
  BY DEF AsyncWrite
<1>5. Awaited(ready) => Awaited(ready')
  BY <1>3, <1>4, AwaitedAppend DEF TypeOK
<1>6. QED
  BY <1>1, <1>2, <1>5, StillConnecting

LEMMA NextKeepsConnecting ==
  ASSUME TypeOK, NoLostReconnect, [Next]_vars
  PROVE  NoLostReconnect'
<1> SUFFICES ASSUME stop', ~closed', io' # "aborted"
             PROVE  Connecting'
  BY DEF NoLostReconnect
<1>1. CASE Handler
  BY <1>1, HandlerKeepsConnecting
<1>2. CASE Connect
  <2>1. pend'["resolve"] > 0
    BY <1>2 DEF Connect, TypeOK, Kinds
  <2>2. QED
    BY <2>1 DEF Connecting
<1>3. ASSUME stop' = stop, closed' = closed, io # "aborted"
      PROVE  Connecting
  BY <1>3 DEF NoLostReconnect
<1>4. CASE Network
  <2>1. stop' = stop /\ closed' = closed /\ io' = io
    BY <1>4 DEF Network, ResolveDone, ConnectDone, SslHsDone, WsHsDone,
           WsHsMisplaced, Arrive, ArrivePiece, WriteDone, LoseConnection,
           OperationFails, Completes
  <2>2. QED
    BY <1>3, <1>4, <2>1, NetworkKeepsConnecting
<1>5. CASE UserSend \/ OnReconnSend
  <2>1. AsyncWrite
    BY <1>5 DEF UserSend, OnReconnSend
  <2>2. stop' = stop /\ closed' = closed /\ io # "aborted"
    BY <2>1 DEF AsyncWrite
  <2>3. QED
    BY <1>3, <2>1, <2>2, AsyncWriteKeepsConnecting
<1>6. CASE Close
  BY <1>6 DEF Close
<1>7. CASE UNCHANGED vars
  BY <1>3, <1>7, StillConnecting DEF vars
<1>8. QED
  BY <1>1, <1>2, <1>4, <1>5, <1>6, <1>7 DEF Next

\* OnRead may leave an error unanswered when stop_ is set: unless a user
\* closed the client, an attempt is then on its way to OnConnected.
THEOREM ReconnectNeverLost == Spec => []NoLostReconnect
<1>1. Init => NoLostReconnect
  <2>1. Init => pend["resolve"] > 0
    BY DEF Init, Kinds
  <2>2. QED
    BY <2>1 DEF NoLostReconnect, Connecting
<1>2. TypeOK /\ NoLostReconnect /\ [Next]_vars => NoLostReconnect'
  BY NextKeepsConnecting
<1>3. QED
  BY <1>1, <1>2, TypeCorrect, PTL DEF Spec

-----------------------------------------------------------------------------
(* A stopped client stays down.                                            *)

\* No attempt is under way, said without counting.
Quiet ==
  /\ io # "sleep"
  /\ \A k \in Attempt : pend[k] = 0
  /\ \A j \in DOMAIN ready : ready[j].kind \notin Attempt

QuietIsZero == Attempts = 0 <=> Quiet

LEMMA QueuedFinite ==
  ASSUME NEW q \in Seq(Completion), NEW K
  PROVE  /\ IsFiniteSet({j \in DOMAIN q : q[j].kind \in K})
         /\ Cardinality({j \in DOMAIN q : q[j].kind \in K}) \in Nat
         /\ Cardinality({j \in DOMAIN q : q[j].kind \in K}) = 0
              <=> \A j \in DOMAIN q : q[j].kind \notin K
<1> DEFINE S == {j \in DOMAIN q : q[j].kind \in K}
<1>1. DOMAIN q = 1 .. Len(q) /\ Len(q) \in Nat
  OBVIOUS
<1>2. IsFiniteSet(1 .. Len(q))
  BY <1>1, FS_Interval
<1>3. IsFiniteSet(S)
  BY <1>1, <1>2, FS_Subset
<1>4. Cardinality(S) \in Nat /\ (Cardinality(S) = 0 <=> S = {})
  BY <1>3, FS_CardinalityType, FS_EmptySet
<1>5. QED
  BY <1>3, <1>4

LEMMA AttemptsQuiet ==
  ASSUME TypeOK
  PROVE  Attempts = 0 <=> Quiet
<1> DEFINE n == Cardinality(Queued(Attempt))
           p == pend["resolve"]
           c == pend["connect"]
           h == pend["sslHs"]
           w == pend["wsHs"]
           z == IF io = "sleep" THEN 1 ELSE 0
<1>1. n \in Nat /\ (n = 0 <=> \A j \in DOMAIN ready :
                                 ready[j].kind \notin Attempt)
  BY QueuedFinite DEF TypeOK, Queued
<1>2. p \in Nat /\ c \in Nat /\ h \in Nat /\ w \in Nat
  BY DEF TypeOK, Kinds
<1>3. Attempts = z + p + c + h + w + n
  BY DEF Attempts
<1>4. (\A k \in Attempt : pend[k] = 0) <=> p = 0 /\ c = 0 /\ h = 0 /\ w = 0
  BY DEF Attempt
<1>5. z \in Nat /\ (z = 0 <=> io # "sleep")
  OBVIOUS
<1>6. Attempts = 0 <=> z = 0 /\ p = 0 /\ c = 0 /\ h = 0 /\ w = 0 /\ n = 0
  <2> HIDE DEF n, p, c, h, w, z
  <2>1. n \in Nat
    BY <1>1
  <2>2. z \in Nat
    BY <1>5
  <2>3. z + p + c + h + w + n = 0
          <=> z = 0 /\ p = 0 /\ c = 0 /\ h = 0 /\ w = 0 /\ n = 0
    BY <1>2, <2>1, <2>2
  <2>4. QED
    BY <1>3, <2>3, Zenon
<1>7. QED
  BY <1>1, <1>4, <1>5, <1>6 DEF Quiet

LEMMA QuietQueue ==
  ASSUME NEW q \in Seq(Completion), NEW c \in Completion,
         \A j \in DOMAIN q : q[j].kind \notin Attempt
  PROVE  /\ q # <<>> => \A j \in DOMAIN Tail(q) :
                           Tail(q)[j].kind \notin Attempt
         /\ c.kind \notin Attempt => \A j \in DOMAIN Append(q, c) :
                                       Append(q, c)[j].kind \notin Attempt
<1>1. ASSUME q # <<>>, NEW j \in DOMAIN Tail(q)
      PROVE  Tail(q)[j].kind \notin Attempt
  <2>1. /\ DOMAIN Tail(q) = 1 .. Len(q) - 1
        /\ \A i \in 1 .. Len(q) - 1 : Tail(q)[i] = q[i + 1]
        /\ DOMAIN q = 1 .. Len(q) /\ Len(q) \in Nat
    BY <1>1
  <2>2. j \in 1 .. Len(q) - 1 /\ j + 1 \in 1 .. Len(q)
    BY <1>1, <2>1
  <2>3. QED
    BY <2>1, <2>2
<1>2. ASSUME c.kind \notin Attempt, NEW j \in DOMAIN Append(q, c)
      PROVE  Append(q, c)[j].kind \notin Attempt
  <2>1. /\ DOMAIN Append(q, c) = 1 .. Len(q) + 1
        /\ \A i \in 1 .. Len(q) : Append(q, c)[i] = q[i]
        /\ Append(q, c)[Len(q) + 1] = c
        /\ DOMAIN q = 1 .. Len(q) /\ Len(q) \in Nat
    OBVIOUS
  <2>2. j \in 1 .. Len(q) \/ j = Len(q) + 1
    BY <1>2, <2>1
  <2>3. QED
    BY <1>2, <2>1, <2>2
<1>3. QED
  BY <1>1, <1>2

LEMMA QuietHandler ==
  ASSUME TypeOK, stop, Quiet, Handler
  PROVE  Quiet'
<1>1. ready \in Seq(Completion)
  BY DEF TypeOK
<1>2. ASSUME NEW k \in Attempt, NEW ok \in BOOLEAN, Handle(k, ok)
      PROVE  FALSE
  <2>1. ready # <<>> /\ Head(ready).kind = k
    BY <1>2 DEF Handle
  <2>2. 1 \in DOMAIN ready /\ Head(ready) = ready[1]
    BY <1>1, <2>1
  <2>3. QED
    BY <2>1, <2>2 DEF Quiet
<1>3. {"resolve", "connect", "sslHs", "wsHs"} = Attempt
  BY DEF Attempt
<1>4. ~(OnResolved \/ OnConnected \/ OnSSLHandshake \/ OnReady)
  BY <1>2, <1>3 DEF OnResolved, OnConnected, OnSSLHandshake, OnReady
<1>5. PICK k \in {"read", "write"} : OnRead(k)
  BY <1>4 DEF Handler
<1>6. ready # <<>> /\ ready' = Tail(ready) /\ UNCHANGED <<pend, io>>
  BY <1>5 DEF OnRead, Handle, Drop
<1>7. Failed("read") \in Completion
  BY FailedType DEF Kinds
<1>8. QED
  BY <1>1, <1>6, <1>7, QuietQueue DEF Quiet

LEMMA QuietCompletes ==
  ASSUME TypeOK, Quiet, NEW k \in Kinds,
         NEW ok \in BOOLEAN, NEW len \in Nat, Completes(k, ok, len)
  PROVE  Quiet'
<1>1. pend[k] > 0 /\ pend' = [pend EXCEPT ![k] = pend[k] - 1]
      /\ ready' = Append(ready, [kind |-> k, ok |-> ok, len |-> len])
      /\ io' = io
  BY DEF Completes
<1>2. k \notin Attempt
  BY <1>1 DEF Quiet
<1>3. \A j \in Attempt : pend'[j] = 0
  BY <1>1, <1>2 DEF Quiet, TypeOK, Attempt, Kinds
<1>4. [kind |-> k, ok |-> ok, len |-> len] \in Completion
      /\ ready \in Seq(Completion)
  BY DEF Completion, TypeOK
<1>5. QED
  BY <1>1, <1>2, <1>3, <1>4, QuietQueue DEF Quiet

LEMMA QuietNext ==
  ASSUME TypeOK, stop, Quiet, [Next]_vars
  PROVE  Quiet'
<1>1. CASE Handler
  BY <1>1, QuietHandler
<1>2. CASE Connect
  BY <1>2 DEF Connect, Quiet
<1>3. ASSUME UNCHANGED <<io, pend, ready>>
      PROVE  Quiet'
  BY <1>3 DEF Quiet
<1>4. CASE Network
  <2>1. CASE LoseConnection \/ ArrivePiece
    BY <1>3, <2>1 DEF LoseConnection, ArrivePiece
  <2>2. CASE ~(LoseConnection \/ ArrivePiece)
    BY <1>4, <2>2, NetworkCompletes, QuietCompletes
  <2>3. QED
    BY <2>1, <2>2
<1>5. CASE AsyncWrite
  <2>1. \A k \in Attempt : pend'[k] = 0
    BY <1>5 DEF AsyncWrite, Quiet, Attempt, TypeOK, Kinds
  <2>2. io' # "sleep"
    BY <1>5 DEF AsyncWrite, Quiet
  <2>3. /\ Failed("write") \in Completion
        /\ Failed("write").kind \notin Attempt
        /\ ready \in Seq(Completion)
    BY FailedType DEF Kinds, Failed, Attempt, TypeOK
  <2>4. ready' = ready \/ ready' = Append(ready, Failed("write"))
    BY <1>5 DEF AsyncWrite
  <2>5. QED
    BY <2>1, <2>2, <2>3, <2>4, QuietQueue DEF Quiet
<1>6. CASE Close \/ UNCHANGED vars
  BY <1>3, <1>6 DEF Close, vars
<1>7. QED
  BY <1>1, <1>2, <1>4, <1>5, <1>6 DEF Next, UserSend, OnReconnSend

\* Whatever is queued for the connection of a client that has been stopped,
\* and whoever still sends on it, no attempt to connect starts again.
THEOREM StoppedForGood == Spec => StoppedStaysDown
<1>1. TypeOK => QuietIsZero
  BY AttemptsQuiet DEF QuietIsZero
<1>2. TypeOK /\ QuietIsZero /\ QuietIsZero' /\ [Next]_vars =>
        [stop /\ Attempts = 0 => Attempts' = 0]_vars
  BY QuietNext DEF QuietIsZero
<1>3. QED
  BY <1>1, <1>2, TypeCorrect, PTL DEF Spec, StoppedStaysDown

-----------------------------------------------------------------------------
(* The inductive invariant.                                                *)

\* Completions of reads and writes, which start no attempt by themselves.
Data == {c \in Completion : c.kind \in {"read", "write"}}

\* A message was read, or what OnRead takes for the end of the connection.
IsArrival(c) == c.kind = "read" /\ c.ok
IsLoss(c) == c.kind = "read" /\ ~c.ok

\* The youngest message in the queue has length n.
LastArrival(q, n) ==
  \E i \in DOMAIN q :
    /\ IsArrival(q[i]) /\ q[i].len = n
    /\ \A j \in DOMAIN q : j > i => ~IsArrival(q[j])

NoLoss(q) == \A i \in DOMAIN q : ~IsLoss(q[i])

OneLoss(q) ==
  \E i \in DOMAIN q :
    /\ IsLoss(q[i])
    /\ \A j \in DOMAIN q : j # i => ~IsLoss(q[j])

\* A lookup or a connect has ended, after all that is left of an older stream.
EndsInLookup(q) ==
  /\ q # <<>>
  /\ SubSeq(q, 1, Len(q) - 1) \in Seq(Data)
  /\ q[Len(q)].kind \in {"resolve", "connect"}

Attempting ==
  /\ stop /\ ~Established
  /\ pend["sslHs"] = 0 /\ pend["wsHs"] = 0
  /\ pend["read"] = 0 /\ pend["write"] = 0
  /\ got = 0 /\ (buf = 0 \/ LastArrival(ready, buf))
  /\ \/ /\ io = "sleep" /\ ready \in Seq(Data)
        /\ pend["resolve"] = 0 /\ pend["connect"] = 0
     \/ /\ io = "run" /\ ready \in Seq(Data)
        /\ pend["resolve"] + pend["connect"] = 1
     \/ /\ io = "run" /\ EndsInLookup(ready)
        /\ pend["resolve"] = 0 /\ pend["connect"] = 0

\* Either nobody can have written on the stream, or OnReady is next and only
\* writes have ended after the handshake.
Handshaking ==
  /\ stop => closed
  /\ pend["resolve"] = 0 /\ pend["connect"] = 0 /\ pend["read"] = 0
  /\ buf = 0 /\ got = 0
  /\ \/ /\ ~Established /\ io = "run" /\ pend["write"] = 0
        /\ \/ pend["sslHs"] + pend["wsHs"] = 1 /\ ready = <<>>
           \/ /\ pend["sslHs"] = 0 /\ pend["wsHs"] = 0
              /\ ready # <<>> /\ Tail(ready) = <<>>
              /\ \/ Head(ready).kind = "sslHs"
                 \/ Head(ready).kind = "wsHs" /\ ~Head(ready).ok
     \/ /\ Established /\ io # "sleep"
        /\ pend["sslHs"] = 0 /\ pend["wsHs"] = 0
        /\ ready # <<>> /\ Head(ready).kind = "wsHs" /\ Head(ready).ok
        /\ Tail(ready) \in Seq(Data) /\ NoLoss(Tail(ready))

\* A read is outstanding, and buffer_ holds what it has put there; or it has
\* failed; or it has ended with all that buffer_ holds.
Receiving ==
  /\ ~stop /\ io # "sleep" /\ Established
  /\ \A k \in Attempt : pend[k] = 0
  /\ ready \in Seq(Data)
  /\ \/ /\ pend["read"] = 1 /\ NoLoss(ready)
        /\ io = "aborted" \/ buf = got
     \/ /\ pend["read"] = 0 /\ OneLoss(ready)
        /\ buf = 0 /\ got = 0
     \/ /\ pend["read"] = 0 /\ NoLoss(ready)
        /\ got = 0 /\ LastArrival(ready, buf)

\* Close came while the client was not connecting: nothing starts any more.
Stopped == stop /\ closed /\ Quiet

OneHandlerAtATime ==
  Undisturbed => Attempting \/ Handshaking \/ Receiving \/ Stopped

\* Messages and writes are not empty.
Sound == {c \in Completion : c \in Data /\ c.ok => c.len > 0}

NoEmptyMessage == ready \in Seq(Sound)

-----------------------------------------------------------------------------
(* The queue.                                                              *)

LEMMA TailElements ==
  ASSUME NEW S, NEW q \in Seq(S), q # <<>>
  PROVE  /\ Head(q) = q[1] /\ Head(q) \in S
         /\ DOMAIN q = 1 .. Len(q) /\ Len(q) \in Nat /\ Len(q) >= 1
         /\ Tail(q) \in Seq(S) /\ Len(Tail(q)) = Len(q) - 1
         /\ DOMAIN Tail(q) = 1 .. Len(q) - 1
         /\ \A j \in 1 .. Len(q) - 1 : Tail(q)[j] = q[j + 1]
OBVIOUS

LEMMA EmptyQueue ==
  ASSUME NEW S, NEW q \in Seq(S)
  PROVE  q = <<>> <=> Len(q) = 0
OBVIOUS

LEMMA EmptyIsQueue ==
  ASSUME NEW S
  PROVE  <<>> \in Seq(S)
OBVIOUS

LEMMA AppendElements ==
  ASSUME NEW S, NEW q \in Seq(S), NEW c \in S
  PROVE  /\ DOMAIN q = 1 .. Len(q) /\ Len(q) \in Nat
         /\ Append(q, c) \in Seq(S) /\ Append(q, c) # <<>>
         /\ Len(Append(q, c)) = Len(q) + 1
         /\ DOMAIN Append(q, c) = 1 .. Len(q) + 1
         /\ \A j \in 1 .. Len(q) : Append(q, c)[j] = q[j]
         /\ Append(q, c)[Len(q) + 1] = c
OBVIOUS

LEMMA ConcatElements ==
  ASSUME NEW S, NEW q \in Seq(S), NEW r \in Seq(S)
  PROVE  /\ DOMAIN q = 1 .. Len(q) /\ Len(q) \in Nat
         /\ DOMAIN r = 1 .. Len(r) /\ Len(r) \in Nat
         /\ q \o r \in Seq(S) /\ Len(q \o r) = Len(q) + Len(r)
         /\ DOMAIN (q \o r) = 1 .. Len(q) + Len(r)
         /\ \A j \in 1 .. Len(q) : (q \o r)[j] = q[j]
         /\ \A j \in Len(q) + 1 .. Len(q) + Len(r) :
              j - Len(q) \in 1 .. Len(r) /\ (q \o r)[j] = r[j - Len(q)]
<1>1. q \o r \in Seq(S)
  OBVIOUS
<1>2. Len(q \o r) = Len(q) + Len(r) /\ DOMAIN (q \o r) = 1 .. Len(q) + Len(r)
  OBVIOUS
<1>3. \A j \in 1 .. Len(q) : (q \o r)[j] = q[j]
  OBVIOUS
<1>4. Len(q) \in Nat /\ Len(r) \in Nat
  OBVIOUS
<1>5. ASSUME NEW j \in Len(q) + 1 .. Len(q) + Len(r)
      PROVE  j - Len(q) \in 1 .. Len(r) /\ (q \o r)[j] = r[j - Len(q)]
  BY <1>4
<1>6. QED
  BY <1>1, <1>2, <1>3, <1>4, <1>5

\* An arrival that joins the queue is the youngest; another completion
\* leaves the youngest as it was.
LEMMA ArrivalAppend ==
  ASSUME NEW q \in Seq(Completion), NEW c \in Completion
  PROVE  /\ IsArrival(c) => LastArrival(Append(q, c), c.len)
         /\ ~IsArrival(c) => \A n : LastArrival(q, n)
                                     => LastArrival(Append(q, c), n)
<1>1. /\ DOMAIN q = 1 .. Len(q) /\ Len(q) \in Nat
      /\ DOMAIN Append(q, c) = 1 .. Len(q) + 1
      /\ \A j \in 1 .. Len(q) : Append(q, c)[j] = q[j]
      /\ Append(q, c)[Len(q) + 1] = c
  BY AppendElements
<1>2. ASSUME IsArrival(c) PROVE LastArrival(Append(q, c), c.len)
  <2>1. Len(q) + 1 \in DOMAIN Append(q, c)
    BY <1>1
  <2>2. \A j \in DOMAIN Append(q, c) : ~(j > Len(q) + 1)
    BY <1>1
  <2>3. QED
    BY <1>1, <1>2, <2>1, <2>2 DEF LastArrival
<1>3. ASSUME ~IsArrival(c), NEW n, LastArrival(q, n)
      PROVE  LastArrival(Append(q, c), n)
  <2>1. PICK i \in DOMAIN q : /\ IsArrival(q[i]) /\ q[i].len = n
                              /\ \A j \in DOMAIN q : j > i => ~IsArrival(q[j])
    BY <1>3 DEF LastArrival
  <2>2. i \in DOMAIN Append(q, c) /\ Append(q, c)[i] = q[i]
    BY <1>1
  <2>3. ASSUME NEW j \in DOMAIN Append(q, c), j > i
        PROVE  ~IsArrival(Append(q, c)[j])
    <3>1. j \in DOMAIN q \/ j = Len(q) + 1
      BY <1>1
    <3>2. QED
      BY <1>1, <1>3, <2>1, <2>3, <3>1
  <2>4. QED
    BY <2>1, <2>2, <2>3 DEF LastArrival
<1>4. QED
  BY <1>2, <1>3

\* As long as it is not handled it stays the youngest.
LEMMA ArrivalTail ==
  ASSUME NEW q \in Seq(Completion), q # <<>>, NEW n, LastArrival(q, n),
         ~(IsArrival(Head(q)) /\ Head(q).len = n)
  PROVE  LastArrival(Tail(q), n)
<1>1. /\ DOMAIN q = 1 .. Len(q) /\ Len(q) \in Nat /\ Head(q) = q[1]
      /\ DOMAIN Tail(q) = 1 .. Len(q) - 1
      /\ \A j \in 1 .. Len(q) - 1 : Tail(q)[j] = q[j + 1]
  BY TailElements
<1>2. PICK i \in DOMAIN q : /\ IsArrival(q[i]) /\ q[i].len = n
                            /\ \A j \in DOMAIN q : j > i => ~IsArrival(q[j])
  BY DEF LastArrival
<1>3. i # 1
  BY <1>1, <1>2
<1>4. i - 1 \in DOMAIN Tail(q) /\ Tail(q)[i - 1] = q[i]
  BY <1>1, <1>3
<1>5. ASSUME NEW j \in DOMAIN Tail(q), j > i - 1
      PROVE  ~IsArrival(Tail(q)[j])
  <2>1. j + 1 \in DOMAIN q /\ j + 1 > i /\ Tail(q)[j] = q[j + 1]
    BY <1>1, <1>5
  <2>2. QED
    BY <1>2, <2>1
<1>6. QED
  BY <1>2, <1>4, <1>5 DEF LastArrival

LEMMA ArrivalConcat ==
  ASSUME NEW q \in Seq(Completion), NEW r \in Seq(Completion),
         \A i \in DOMAIN r : ~IsArrival(r[i]), NEW n, LastArrival(q, n)
  PROVE  LastArrival(q \o r, n)
<1>1. /\ DOMAIN q = 1 .. Len(q) /\ Len(q) \in Nat
      /\ DOMAIN r = 1 .. Len(r) /\ Len(r) \in Nat
      /\ DOMAIN (q \o r) = 1 .. Len(q) + Len(r)
      /\ \A j \in 1 .. Len(q) : (q \o r)[j] = q[j]
      /\ \A j \in Len(q) + 1 .. Len(q) + Len(r) :
           j - Len(q) \in 1 .. Len(r) /\ (q \o r)[j] = r[j - Len(q)]
  BY ConcatElements
<1>2. PICK i \in DOMAIN q : /\ IsArrival(q[i]) /\ q[i].len = n
                            /\ \A j \in DOMAIN q : j > i => ~IsArrival(q[j])
  BY DEF LastArrival
<1>3. i \in DOMAIN (q \o r) /\ (q \o r)[i] = q[i]
  BY <1>1
<1>4. ASSUME NEW j \in DOMAIN (q \o r), j > i
      PROVE  ~IsArrival((q \o r)[j])
  <2>1. j \in 1 .. Len(q) \/ j \in Len(q) + 1 .. Len(q) + Len(r)
    BY <1>1
  <2>2. QED
    BY <1>1, <1>2, <1>4, <2>1
<1>5. QED
  BY <1>2, <1>3, <1>4 DEF LastArrival

LEMMA LossTail ==
  ASSUME NEW q \in Seq(Completion), q # <<>>
  PROVE  /\ NoLoss(q) => NoLoss(Tail(q))
         /\ OneLoss(q) /\ ~IsLoss(Head(q)) => OneLoss(Tail(q))
<1>1. /\ DOMAIN q = 1 .. Len(q) /\ Len(q) \in Nat /\ Head(q) = q[1]
      /\ DOMAIN Tail(q) = 1 .. Len(q) - 1
      /\ \A j \in 1 .. Len(q) - 1 : Tail(q)[j] = q[j + 1]
  BY TailElements
<1>2. \A j \in DOMAIN Tail(q) : j + 1 \in DOMAIN q /\ Tail(q)[j] = q[j + 1]
  BY <1>1
<1>3. ASSUME OneLoss(q), ~IsLoss(Head(q)) PROVE OneLoss(Tail(q))
  <2>1. PICK i \in DOMAIN q : /\ IsLoss(q[i])
                              /\ \A j \in DOMAIN q : j # i => ~IsLoss(q[j])
    BY <1>3 DEF OneLoss
  <2>2. i # 1
    BY <1>1, <1>3, <2>1
  <2>3. i - 1 \in DOMAIN Tail(q) /\ Tail(q)[i - 1] = q[i]
    BY <1>1, <2>2
  <2>4. \A j \in DOMAIN Tail(q) : j # i - 1 => j + 1 # i
    BY <1>1
  <2>5. QED
    BY <1>2, <2>1, <2>3, <2>4 DEF OneLoss
<1>4. QED
  BY <1>2, <1>3 DEF NoLoss

LEMMA LossAppend ==
  ASSUME NEW q \in Seq(Completion), NEW c \in Completion
  PROVE  /\ NoLoss(q) /\ ~IsLoss(c) => NoLoss(Append(q, c))
         /\ NoLoss(q) /\ IsLoss(c) => OneLoss(Append(q, c))
         /\ OneLoss(q) /\ ~IsLoss(c) => OneLoss(Append(q, c))
<1>1. /\ DOMAIN q = 1 .. Len(q) /\ Len(q) \in Nat
      /\ DOMAIN Append(q, c) = 1 .. Len(q) + 1
      /\ \A j \in 1 .. Len(q) : Append(q, c)[j] = q[j]
      /\ Append(q, c)[Len(q) + 1] = c
  BY AppendElements
<1>2. \A j \in DOMAIN Append(q, c) :
        \/ j \in DOMAIN q /\ Append(q, c)[j] = q[j]
        \/ j = Len(q) + 1 /\ Append(q, c)[j] = c
  BY <1>1
<1>3. ASSUME NoLoss(q), IsLoss(c) PROVE OneLoss(Append(q, c))
  BY <1>1, <1>2, <1>3 DEF NoLoss, OneLoss
<1>4. ASSUME OneLoss(q), ~IsLoss(c) PROVE OneLoss(Append(q, c))
  <2>1. PICK i \in DOMAIN q : /\ IsLoss(q[i])
                              /\ \A j \in DOMAIN q : j # i => ~IsLoss(q[j])
    BY <1>4 DEF OneLoss
  <2>2. i \in DOMAIN Append(q, c) /\ Append(q, c)[i] = q[i]
    BY <1>1
  <2>3. QED
    BY <1>2, <1>4, <2>1, <2>2 DEF OneLoss
<1>5. QED
  BY <1>2, <1>3, <1>4 DEF NoLoss

LEMMA DataIsCompletion ==
  ASSUME NEW q \in Seq(Data)
  PROVE  /\ q \in Seq(Completion)
         /\ \A i \in DOMAIN q : q[i].kind \in {"read", "write"}
<1>1. Data \subseteq Completion /\ \A c \in Data : c.kind \in {"read", "write"}
  BY DEF Data
<1>2. q \in Seq(Completion)
  BY <1>1
<1>3. \A i \in DOMAIN q : q[i] \in Data
  OBVIOUS
<1>4. QED
  BY <1>1, <1>2, <1>3

LEMMA EndsInLookupAppend ==
  ASSUME NEW q \in Seq(Data), NEW c \in Completion,
         c.kind \in {"resolve", "connect"}
  PROVE  EndsInLookup(Append(q, c))
<1>1. q \in Seq(Completion)
  BY DataIsCompletion
<1>2. SubSeq(Append(q, c), 1, Len(q)) = q
  BY <1>1
<1>3. QED
  BY <1>1, <1>2, AppendElements DEF EndsInLookup

\* The handler of a completion before the lookup leaves the lookup last; the
\* lookup is handled when nothing else is left.
LEMMA EndsInLookupTail ==
  ASSUME NEW q \in Seq(Completion), EndsInLookup(q)
  PROVE  /\ Head(q) \in Data =>
              Tail(q) \in Seq(Completion) /\ EndsInLookup(Tail(q))
         /\ Head(q) \notin Data =>
              /\ Tail(q) = <<>> /\ Head(q).kind \in {"resolve", "connect"}
              /\ \A n : ~LastArrival(q, n)
<1> DEFINE f == SubSeq(q, 1, Len(q) - 1)
<1>1. /\ q # <<>> /\ f \in Seq(Data)
      /\ q[Len(q)].kind \in {"resolve", "connect"}
  BY DEF EndsInLookup
<1>2. /\ DOMAIN q = 1 .. Len(q) /\ Len(q) \in Nat /\ Len(q) >= 1
      /\ Head(q) = q[1]
      /\ Tail(q) \in Seq(Completion) /\ Len(Tail(q)) = Len(q) - 1
      /\ \A j \in 1 .. Len(q) - 1 : Tail(q)[j] = q[j + 1]
  BY <1>1, TailElements
<1>3. Len(f) = Len(q) - 1 /\ \A j \in 1 .. Len(q) - 1 : f[j] = q[j]
  BY <1>2
<1>4. \A j \in 1 .. Len(q) - 1 : q[j] \in Data
  BY <1>1, <1>3
<1>5. CASE Len(q) = 1
  <2>1. Tail(q) = <<>>
    <3>1. Len(Tail(q)) = 0
      BY <1>2, <1>5
    <3>2. QED
      BY <1>2, <3>1, EmptyQueue
  <2>2. Head(q).kind \in {"resolve", "connect"}
    BY <1>1, <1>2, <1>5
  <2>3. Head(q) \notin Data
    BY <2>2 DEF Data
  <2>4. \A n : ~LastArrival(q, n)
    BY <1>2, <1>5, <2>2 DEF LastArrival, IsArrival
  <2>5. QED
    BY <2>1, <2>2, <2>3, <2>4
<1>6. CASE Len(q) # 1
  <2>1. 1 \in 1 .. Len(q) - 1
    BY <1>2, <1>6
  <2>2. Head(q) \in Data
    BY <1>2, <1>4, <2>1
  <2>3. Tail(q)[Len(Tail(q))] = q[Len(q)] /\ Tail(q) # <<>>
    <3>1. Len(q) - 1 \in 1 .. Len(q) - 1 /\ (Len(q) - 1) + 1 = Len(q)
      BY <1>2, <1>6
    <3>2. Len(Tail(q)) # 0
      BY <1>2, <1>6
    <3>3. QED
      BY <1>2, <3>1, <3>2, EmptyQueue
  <2>4. SubSeq(Tail(q), 1, Len(Tail(q)) - 1) \in Seq(Data)
    <3>1. \A j \in 1 .. Len(q) - 2 : Tail(q)[j] \in Data
      BY <1>2, <1>4
    <3>2. \A j \in 1 .. Len(Tail(q)) - 1 : Tail(q)[j] \in Data
      BY <1>2, <3>1
    <3>3. /\ Len(Tail(q)) - 1 \in Nat
          /\ SubSeq(Tail(q), 1, Len(Tail(q)) - 1)
               = [j \in 1 .. Len(Tail(q)) - 1 |-> Tail(q)[j]]
      BY <1>2, <1>6
    <3>4. QED
      BY <3>2, <3>3
  <2>5. QED
    BY <1>1, <1>2, <2>2, <2>3, <2>4 DEF EndsInLookup
<1>7. QED
  BY <1>5, <1>6

\* What CloseSocket adds to the queue: failures, of what was outstanding.
LEMMA AbortedFrom ==
  ASSUME pend \in [Kinds -> Nat]
  PROVE  Aborted \in Seq({c \in Completion : ~c.ok /\ pend[c.kind] > 0})
<1> DEFINE S == {c \in Completion : ~c.ok /\ pend[c.kind] > 0}
<1>1. ASSUME NEW k \in Kinds PROVE Failures(k) \in Seq(S)
  <2>1. pend[k] \in Nat
    OBVIOUS
  <2>2. ASSUME NEW i \in 1 .. pend[k] PROVE Failed(k) \in S
    <3>1. pend[k] > 0
      BY <2>1, <2>2
    <3>2. Failed(k) \in Completion /\ Failed(k).kind = k /\ ~Failed(k).ok
      BY FailedType DEF Failed
    <3>3. QED
      BY <3>1, <3>2
  <2>3. QED
    BY <2>1, <2>2 DEF Failures
<1>2. {"read", "sslHs", "wsHs", "connect", "write"} \subseteq Kinds
  BY DEF Kinds
<1>3. QED
  <2> HIDE DEF S
  <2>1. Aborted \in Seq(S)
    BY <1>1, <1>2 DEF Aborted
  <2>2. QED
    BY <2>1 DEF S

\* With no attempt outstanding these are failed reads and writes.
LEMMA AbortedData ==
  ASSUME pend \in [Kinds -> Nat], \A k \in Attempt : pend[k] = 0
  PROVE  /\ Aborted \in Seq(Data)
         /\ \A i \in DOMAIN Aborted : ~IsArrival(Aborted[i])
<1> DEFINE S == {c \in Completion : ~c.ok /\ pend[c.kind] > 0}
<1>1. Aborted \in Seq(S)
  BY AbortedFrom
<1>2. ASSUME NEW c \in S PROVE c \in Data /\ ~IsArrival(c)
  BY DEF Data, Completion, Kinds, Attempt, IsArrival
<1>3. QED
  BY <1>1, <1>2

\* An error that is answered while no attempt is outstanding and nothing but
\* reads and writes is queued leaves one attempt.
LEMMA ReconnectAttempts ==
  ASSUME TypeOK, ready # <<>>, Reconnect, \A k \in Attempt : pend[k] = 0,
         Tail(ready) \in Seq(Data), buf = 0 \/ LastArrival(Tail(ready), buf)
  PROVE  Attempting'
<1>1. /\ stop' /\ io' = "sleep" /\ ws' = "fresh" /\ got' = 0 /\ buf' = buf
      /\ ready' = Tail(ready) \o Aborted
  BY DEF Reconnect, CloseSocket
<1>2. /\ pend' = [k \in Kinds |-> IF k = "resolve" THEN pend[k] ELSE 0]
      /\ pend["resolve"] = 0
  BY DEF Reconnect, CloseSocket, Attempt
<1>3. \A k \in Kinds : pend'[k] = 0
  BY <1>2
<1>4. pend \in [Kinds -> Nat]
  BY DEF TypeOK
<1>5. /\ Aborted \in Seq(Data)
      /\ \A i \in DOMAIN Aborted : ~IsArrival(Aborted[i])
  BY <1>4, AbortedData
<1>6. ready' \in Seq(Data)
  BY <1>1, <1>5
<1>7. buf = 0 \/ LastArrival(ready', buf)
  BY <1>1, <1>5, ArrivalConcat, DataIsCompletion
<1>8. ~Established'
  BY <1>1 DEF Established
<1>9. QED
  BY <1>1, <1>3, <1>6, <1>7, <1>8 DEF Attempting, Kinds

-----------------------------------------------------------------------------
(* What a step can do to the queue and to the history variables.           *)

LEMMA FailedSound ==
  ASSUME NEW k \in Kinds
  PROVE  Failed(k) \in Sound
BY FailedType DEF Failed, Sound

LEMMA HandlerQueue ==
  ASSUME Handler
  PROVE  /\ ready # <<>>
         /\ \/ ready' = Tail(ready)
            \/ \E k \in Kinds : ready' = Append(Tail(ready), Failed(k))
            \/ ready' = Tail(ready) \o Aborted
<1>1. {"sslHs", "wsHs", "read"} \subseteq Kinds
  BY DEF Kinds
<1>2. ready # <<>>
  BY DEF Handler, OnResolved, OnConnected, OnSSLHandshake, OnReady, OnRead,
         Handle
<1>3. ASSUME Reconnect PROVE ready' = Tail(ready) \o Aborted
  BY <1>3 DEF Reconnect, CloseSocket
<1>4. CASE OnResolved
  BY <1>2, <1>3, <1>4 DEF OnResolved, CloseSocket
<1>5. CASE OnConnected
  BY <1>1, <1>2, <1>3, <1>5 DEF OnConnected, StartHandshake
<1>6. CASE OnSSLHandshake
  BY <1>1, <1>2, <1>6 DEF OnSSLHandshake, StartHandshake
<1>7. CASE OnReady
  BY <1>1, <1>2, <1>3, <1>7 DEF OnReady, AsyncReadData
<1>8. CASE OnRead("read") \/ OnRead("write")
  BY <1>1, <1>2, <1>3, <1>8 DEF OnRead, Drop, AsyncReadData
<1>9. QED
  BY <1>4, <1>5, <1>6, <1>7, <1>8 DEF Handler

LEMMA NetworkQueue ==
  ASSUME TypeOK, Network
  PROVE  ready' = ready \/ \E c \in Sound : ready' = Append(ready, c)
<1>1. ASSUME NEW k \in Kinds, NEW ok \in BOOLEAN, NEW len \in Nat,
             Completes(k, ok, len),
             ok /\ k \in {"read", "write"} => len > 0
      PROVE  \E c \in Sound : ready' = Append(ready, c)
  <2> DEFINE c == [kind |-> k, ok |-> ok, len |-> len]
  <2>1. c \in Completion /\ c.kind = k /\ c.ok = ok /\ c.len = len
    BY DEF Completion
  <2>2. c \in Sound
    BY <1>1, <2>1 DEF Sound, Data
  <2>3. QED
    BY <1>1, <2>2 DEF Completes
<1>2. Kinds = {"resolve", "connect", "sslHs", "wsHs", "read", "write"}
  BY DEF Kinds
<1>3. CASE ResolveDone \/ ConnectDone
  BY <1>1, <1>2, <1>3 DEF ResolveDone, ConnectDone
<1>4. CASE SslHsDone \/ WsHsDone \/ WsHsMisplaced
  BY <1>1, <1>2, <1>4 DEF SslHsDone, WsHsDone, WsHsMisplaced
<1>5. CASE Arrive \/ WriteDone
  <2>1. \A n \in Sizes : n \in Nat /\ n > 0 /\ got + n \in Nat /\ got + n > 0
    BY SizesAssumption DEF TypeOK
  <2>2. QED
    BY <1>1, <1>2, <1>5, <2>1 DEF Arrive, WriteDone
<1>6. CASE ArrivePiece \/ LoseConnection
  BY <1>6 DEF ArrivePiece, LoseConnection
<1>7. CASE \E k \in Kinds \ {"resolve", "connect"} : OperationFails(k)
  BY <1>1, <1>7 DEF OperationFails
<1>8. QED
  BY <1>3, <1>4, <1>5, <1>6, <1>7 DEF Network

\* The queue, in any step.
LEMMA QueueStep ==
  ASSUME TypeOK, [Next]_vars
  PROVE  \/ ready' = ready
         \/ \E c \in Sound : ready' = Append(ready, c)
         \/ /\ ready # <<>>
            /\ \/ ready' = Tail(ready)
               \/ \E k \in Kinds : ready' = Append(Tail(ready), Failed(k))
               \/ ready' = Tail(ready) \o Aborted
<1>1. CASE Handler
  BY <1>1, HandlerQueue
<1>2. CASE Connect \/ Close \/ UNCHANGED vars
  BY <1>2 DEF Connect, Close, vars
<1>3. CASE Network
  BY <1>3, NetworkQueue
<1>4. CASE AsyncWrite
  <2>1. Failed("write") \in Sound
    BY FailedSound DEF Kinds
  <2>2. QED
    BY <1>4, <2>1 DEF AsyncWrite
<1>5. QED
  BY <1>1, <1>2, <1>3, <1>4 DEF Next, UserSend, OnReconnSend

LEMMA SoundStep ==
  ASSUME TypeOK, NoEmptyMessage, [Next]_vars
  PROVE  NoEmptyMessage'
<1>1. ready \in Seq(Sound)
  BY DEF NoEmptyMessage
<1>2. Aborted \in Seq(Sound)
  <2>1. Aborted \in Seq({c \in Completion : ~c.ok /\ pend[c.kind] > 0})
    BY AbortedFrom DEF TypeOK
  <2>2. {c \in Completion : ~c.ok /\ pend[c.kind] > 0} \subseteq Sound
    BY DEF Sound
  <2>3. QED
    BY <2>1, <2>2
<1>3. ready # <<>> => Tail(ready) \in Seq(Sound)
  BY <1>1
<1>4. ready' \in Seq(Sound)
  <2>1. CASE \E c \in Sound : ready' = Append(ready, c)
    BY <1>1, <2>1
  <2>2. CASE /\ ready # <<>>
             /\ \E k \in Kinds : ready' = Append(Tail(ready), Failed(k))
    BY <1>3, <2>2, FailedSound
  <2>3. CASE ready # <<>> /\ ready' = Tail(ready) \o Aborted
    BY <1>2, <1>3, <2>3
  <2>4. QED
    BY <1>1, <1>3, <2>1, <2>2, <2>3, QueueStep
<1>5. QED
  BY <1>4 DEF NoEmptyMessage

\* What happened stays so.
LEMMA HistoryStep ==
  ASSUME TypeOK, [Next]_vars
  PROVE  /\ closed => closed'
         /\ cut => cut'
         /\ early' \in {early, early + 1}
<1>0. closed \in BOOLEAN /\ cut \in BOOLEAN /\ early \in Nat
  BY DEF TypeOK
<1>1. ASSUME Reconnect
      PROVE  closed' = closed /\ (cut => cut') /\ early' = early
  BY <1>0, <1>1 DEF Reconnect, CloseSocket
<1>2. CASE OnResolved
  BY <1>0, <1>1, <1>2 DEF OnResolved, CloseSocket
<1>3. CASE OnConnected \/ OnSSLHandshake
  BY <1>0, <1>1, <1>3 DEF OnConnected, OnSSLHandshake
<1>4. CASE OnReady
  BY <1>0, <1>1, <1>4 DEF OnReady
<1>5. CASE OnRead("read") \/ OnRead("write")
  BY <1>0, <1>1, <1>5 DEF OnRead, Drop
<1>6. CASE Connect \/ Close \/ UNCHANGED vars
  BY <1>0, <1>6 DEF Connect, Close, vars
<1>7. CASE AsyncWrite
  BY <1>0, <1>7 DEF AsyncWrite
<1>8. CASE Network
  <2>1. CASE ResolveDone \/ ConnectDone
    BY <1>0, <2>1 DEF ResolveDone, ConnectDone, Completes
  <2>2. CASE SslHsDone \/ WsHsDone \/ WsHsMisplaced
    BY <1>0, <2>2 DEF SslHsDone, WsHsDone, WsHsMisplaced, Completes
  <2>3. CASE Arrive \/ ArrivePiece \/ WriteDone \/ LoseConnection
    BY <1>0, <2>3 DEF Arrive, ArrivePiece, WriteDone, LoseConnection, Completes
  <2>4. CASE \E k \in Kinds \ {"resolve", "connect"} : OperationFails(k)
    BY <1>0, <2>4 DEF OperationFails, Completes
  <2>5. QED
    BY <1>8, <2>1, <2>2, <2>3, <2>4 DEF Network
<1>9. QED
  BY <1>2, <1>3, <1>4, <1>5, <1>6, <1>7, <1>8
     DEF Next, Handler, UserSend, OnReconnSend

LEMMA DisturbedForGood ==
  ASSUME TypeOK, [Next]_vars, Undisturbed'
  PROVE  Undisturbed
<1>1. early \in Nat /\ early' = 0 /\ ~cut'
  BY DEF TypeOK, Undisturbed
<1>2. early = 0
  BY <1>1, HistoryStep
<1>3. QED
  BY <1>1, <1>2, HistoryStep DEF Undisturbed

-----------------------------------------------------------------------------
(* A handler moves the chain on, or returns and leaves it where it is.     *)

\* While stop_ is set, reads and writes that end start nothing.
LEMMA AttemptingDrops ==
  ASSUME TypeOK, Attempting, io = "run", NEW k \in {"read", "write"}, OnRead(k),
         Tail(ready) \in Seq(Completion),
         \/ Tail(ready) \in Seq(Data) /\ pend["resolve"] + pend["connect"] = 1
         \/ /\ EndsInLookup(Tail(ready))
            /\ pend["resolve"] = 0 /\ pend["connect"] = 0
  PROVE  Attempting'
<1>1. /\ stop' = stop /\ ws' = ws /\ pend' = pend /\ got' = got /\ io' = "run"
      /\ ready' = Tail(ready) /\ ready # <<>>
  BY DEF OnRead, Drop, Attempting, Handle
<1>2. buf' = 0 \/ LastArrival(ready', buf')
  <2>1. ready \in Seq(Completion)
    BY DEF TypeOK
  <2>2. CASE Drop /\ ~(Head(ready).ok /\ Head(ready).len = buf)
    <3>1. buf' = buf
      BY <2>2 DEF Drop
    <3>2. QED
      BY <1>1, <2>1, <2>2, <3>1, ArrivalTail DEF Attempting, IsArrival
  <2>3. CASE buf' = 0
    BY <2>3
  <2>4. QED
    BY <2>2, <2>3 DEF OnRead, Attempting, Handle
<1>3. Established' = Established
  BY <1>1 DEF Established
<1>4. QED
  BY <1>1, <1>2, <1>3 DEF Attempting

\* The lookup or the connect is handled when the queue holds nothing else.
LEMMA AttemptingGoesOn ==
  ASSUME TypeOK, Attempting, OnResolved \/ OnConnected,
         pend["resolve"] = 0, pend["connect"] = 0,
         ready # <<>>, Tail(ready) = <<>>, buf = 0
  PROVE  Attempting' \/ Handshaking'
<1>1. \A k \in Attempt : pend[k] = 0
  BY DEF Attempting, Attempt
<1>2. Tail(ready) \in Seq(Data)
  BY EmptyIsQueue
<1>3. CASE Reconnect
  BY <1>1, <1>2, <1>3, ReconnectAttempts
<1>4. CASE /\ Handle("resolve", TRUE)
           /\ CloseSocket(IF ws = "fresh" THEN "fresh" ELSE "dead", {"connect"})
           /\ UNCHANGED <<stop, buf, io, conn, threads, sends, faults, closed,
                          early>>
  <2>1. /\ pend' = [k \in Kinds |-> IF k = "connect" THEN 1 ELSE 0]
        /\ ready' = Tail(ready) \o Aborted /\ got' = 0
        /\ ws' \in {"fresh", "dead"}
    BY <1>1, <1>4 DEF CloseSocket, Attempting, Kinds
  <2>2. ready' \in Seq(Data)
    BY <1>1, <1>2, <2>1, AbortedData DEF TypeOK
  <2>3. io' = "run" /\ stop' /\ buf' = 0
    BY <1>4 DEF Handle, Attempting
  <2>4. ~Established'
    BY <2>1 DEF Established
  <2>5. QED
    BY <2>1, <2>2, <2>3, <2>4 DEF Attempting, Kinds
<1>5. CASE /\ Handle("connect", TRUE)
           /\ stop' = FALSE
           /\ StartHandshake("sslHs")
           /\ UNCHANGED <<ws, buf, got, io, conn, threads, sends, faults,
                          closed, early, cut>>
  <2>1. /\ ~stop' /\ io' = "run" /\ buf' = 0 /\ got' = 0
        /\ ~Established' /\ ~Established
    BY <1>5 DEF Handle, Attempting, Established
  <2>2. CASE ws \in {"tcp", "tls", "open"}
    <3>1. pend' = [pend EXCEPT !["sslHs"] = 1] /\ ready' = <<>>
      BY <1>5, <2>2, SMTT(60) DEF StartHandshake, Attempting
    <3>2. QED
      BY <2>1, <3>1 DEF Handshaking, TypeOK, Kinds, Attempting
  <2>3. CASE ws \notin {"tcp", "tls", "open"}
    <3>1. pend' = pend /\ ready' = Append(<<>>, Failed("sslHs"))
      BY <1>5, <2>3 DEF StartHandshake
    <3>2. /\ ready' # <<>> /\ Tail(ready') = <<>>
          /\ Head(ready').kind = "sslHs"
      BY <3>1 DEF Failed
    <3>3. QED
      BY <2>1, <3>1, <3>2 DEF Handshaking, Attempting
  <2>4. QED
    BY <2>2, <2>3
<1>6. QED
  BY <1>3, <1>4, <1>5 DEF OnResolved, OnConnected

LEMMA AttemptingHandler ==
  ASSUME TypeOK, Attempting, Handler
  PROVE  Attempting' \/ Handshaking'
<1>1. io = "run" /\ ready # <<>> /\ ready \in Seq(Completion)
  BY DEF Handler, OnResolved, OnConnected, OnSSLHandshake, OnReady, OnRead,
         Handle, TypeOK
<1>2. ASSUME Head(ready) \in Data
      PROVE  \E k \in {"read", "write"} : OnRead(k)
  BY <1>2 DEF Handler, OnResolved, OnConnected, OnSSLHandshake, OnReady,
         Handle, Data
<1>3. CASE ready \in Seq(Data) /\ pend["resolve"] + pend["connect"] = 1
  <2>1. Head(ready) \in Data /\ Tail(ready) \in Seq(Data)
    BY <1>1, <1>3
  <2>2. Tail(ready) \in Seq(Completion)
    BY <1>1
  <2>3. QED
    BY <1>1, <1>2, <1>3, <2>1, <2>2, AttemptingDrops
<1>4. CASE /\ EndsInLookup(ready)
           /\ pend["resolve"] = 0 /\ pend["connect"] = 0
  <2>1. CASE Head(ready) \in Data
    <3>1. Tail(ready) \in Seq(Completion) /\ EndsInLookup(Tail(ready))
      BY <1>1, <1>4, <2>1, EndsInLookupTail
    <3>2. QED
      BY <1>1, <1>2, <1>4, <2>1, <3>1, AttemptingDrops
  <2>2. CASE Head(ready) \notin Data
    <3>1. /\ Tail(ready) = <<>>
          /\ Head(ready).kind \in {"resolve", "connect"}
          /\ ~LastArrival(ready, buf)
      BY <1>1, <1>4, <2>2, EndsInLookupTail
    <3>2. buf = 0
      BY <3>1 DEF Attempting
    <3>3. OnResolved \/ OnConnected
      BY <3>1 DEF Handler, OnSSLHandshake, OnReady, OnRead, Handle
    <3>4. QED
      BY <1>1, <1>4, <3>1, <3>2, <3>3, AttemptingGoesOn
  <2>3. QED
    BY <2>1, <2>2
<1>5. QED
  BY <1>1, <1>3, <1>4 DEF Attempting

LEMMA HandshakingHandler ==
  ASSUME TypeOK, Handshaking, Handler
  PROVE  Attempting' \/ Handshaking' \/ Receiving' \/ Stopped'
<1>1. io = "run" /\ ready # <<>> /\ ready \in Seq(Completion)
  BY DEF Handler, OnResolved, OnConnected, OnSSLHandshake, OnReady, OnRead,
         Handle, TypeOK
<1>2. Head(ready).kind \in {"sslHs", "wsHs"}
  BY <1>1 DEF Handshaking
<1>3. OnSSLHandshake \/ OnReady
  BY <1>2 DEF Handler, OnResolved, OnConnected, OnRead, Handle
<1>4. pend["sslHs"] = 0 /\ pend["wsHs"] = 0
  BY <1>1 DEF Handshaking
<1>5. CASE OnSSLHandshake
  <2>1. /\ Head(ready).kind = "sslHs"
        /\ Tail(ready) = <<>> /\ ~Established
        /\ pend["write"] = 0
    BY <1>1, <1>5 DEF OnSSLHandshake, Handle, Handshaking
  <2>2. /\ stop' = stop /\ closed' = closed
        /\ io' = "run" /\ buf' = 0 /\ got' = 0
        /\ ~Established'
    BY <1>1, <1>5, <2>1 DEF OnSSLHandshake, Handshaking, Established
  <2>3. CASE ws \in {"tcp", "tls", "open"}
    <3>1. /\ pend' = [pend EXCEPT !["wsHs"] = pend["wsHs"] + 1]
          /\ ready' = <<>>
      BY <1>5, <2>1, <2>3 DEF OnSSLHandshake, StartHandshake
    <3>2. QED
      BY <1>4, <2>1, <2>2, <3>1 DEF Handshaking, TypeOK, Kinds
  <2>4. CASE ws \notin {"tcp", "tls", "open"}
    <3>1. pend' = pend /\ ready' = Append(<<>>, Failed("wsHs"))
      BY <1>5, <2>1, <2>4 DEF OnSSLHandshake, StartHandshake
    <3>2. /\ ready' # <<>> /\ Tail(ready') = <<>>
          /\ Head(ready').kind = "wsHs" /\ ~Head(ready').ok
      BY <3>1 DEF Failed
    <3>3. QED
      BY <1>4, <2>1, <2>2, <3>1, <3>2 DEF Handshaking
  <2>5. QED
    BY <2>3, <2>4
<1>6. CASE OnReady /\ Handle("wsHs", FALSE)
  <2>1. Reconnect
    BY <1>6 DEF OnReady, Handle
  <2>2. Tail(ready) = <<>> /\ buf = 0
    BY <1>1, <1>6 DEF Handle, Handshaking
  <2>3. Tail(ready) \in Seq(Data) /\ \A k \in Attempt : pend[k] = 0
    BY <1>4, <2>2, EmptyIsQueue DEF Handshaking, Attempt
  <2>4. QED
    BY <1>1, <2>1, <2>2, <2>3, ReconnectAttempts
<1>7. CASE OnReady /\ Handle("wsHs", TRUE)
  <2>1. /\ AsyncReadData
        /\ UNCHANGED <<stop, ws, buf, got, closed>>
    BY <1>7 DEF OnReady, Handle
  <2>2. /\ Established /\ pend["read"] = 0
        /\ Tail(ready) \in Seq(Data) /\ NoLoss(Tail(ready))
    BY <1>1, <1>7 DEF Handle, Handshaking
  <2>3. /\ io' = "run" /\ pend' = [pend EXCEPT !["read"] = 1]
        /\ ready' = Tail(ready)
    BY <1>1, <2>1, <2>2 DEF AsyncReadData
  <2>4. Established' /\ buf' = got'
    BY <2>1, <2>2 DEF Established, Handshaking
  <2>5. /\ pend'["read"] = 1
        /\ \A k \in Attempt : pend'[k] = 0
    BY <1>4, <2>3 DEF Handshaking, Attempt, TypeOK, Kinds
  <2>6. CASE ~stop
    BY <2>1, <2>2, <2>3, <2>4, <2>5, <2>6 DEF Receiving
  <2>7. CASE stop
    <3>1. stop' /\ closed'
      BY <2>1, <2>7 DEF Handshaking
    <3>2. \A j \in DOMAIN ready' : ready'[j].kind \notin Attempt
      BY <2>2, <2>3, DataIsCompletion DEF Attempt
    <3>3. QED
      BY <2>3, <2>5, <3>1, <3>2 DEF Stopped, Quiet
  <2>8. QED
    BY <2>6, <2>7
<1>8. QED
  BY <1>3, <1>5, <1>6, <1>7 DEF OnReady

\* An error is answered by one attempt, whichever of the read and the write
\* it is of: the other error finds stop_ set.
LEMMA ReceivingFails ==
  ASSUME TypeOK, Receiving, NEW k \in {"read", "write"}, Handle(k, FALSE),
         Reconnect, ~cut'
  PROVE  Attempting'
<1>1. ready # <<>> /\ io = "run" /\ ~Head(ready).ok
  BY DEF Handle
<1>2. ready \in Seq(Data) /\ ready \in Seq(Completion)
  BY DEF Receiving, TypeOK
<1>3. got = 0
  <2>1. ~(got > 0)
    BY Zenon DEF Reconnect, CloseSocket
  <2>2. QED
    BY <2>1 DEF TypeOK
<1>4. buf = 0 \/ LastArrival(ready, buf)
  BY <1>1, <1>3 DEF Receiving
<1>5. LastArrival(ready, buf) => LastArrival(Tail(ready), buf)
  BY <1>1, <1>2, ArrivalTail DEF IsArrival
<1>6. Tail(ready) \in Seq(Data)
  BY <1>1, <1>2
<1>7. \A j \in Attempt : pend[j] = 0
  BY DEF Receiving
<1>8. QED
  BY <1>1, <1>4, <1>5, <1>6, <1>7, ReconnectAttempts

\* A length that is not that of buffer_ is returned from; what buffer_ waits
\* for is still to come.
LEMMA ReceivingDrops ==
  ASSUME TypeOK, Receiving, ready # <<>>, Head(ready).ok,
         Head(ready).len # buf, Drop, io = "run"
  PROVE  Receiving'
<1>1. ready \in Seq(Data) /\ ready \in Seq(Completion)
  BY DEF Receiving, TypeOK
<1>2. /\ ready' = Tail(ready) /\ UNCHANGED <<stop, ws, buf, got, pend, io>>
      /\ Tail(ready) \in Seq(Data)
  BY <1>1 DEF Drop
<1>3. Established' = Established
  BY <1>2 DEF Established
<1>4. ~IsLoss(Head(ready))
  BY DEF IsLoss
<1>5. /\ NoLoss(ready) => NoLoss(ready')
      /\ OneLoss(ready) => OneLoss(ready')
  BY <1>1, <1>2, <1>4, LossTail
<1>6. LastArrival(ready, buf) => LastArrival(ready', buf)
  BY <1>1, <1>2, ArrivalTail
<1>7. QED
  BY <1>2, <1>3, <1>5, <1>6 DEF Receiving

\* The length of buffer_: the message is taken and the next read armed, also
\* when the completion was that of a write.
LEMMA ReceivingConsumes ==
  ASSUME TypeOK, NoEmptyMessage, Receiving, NEW k \in {"read", "write"},
         Handle(k, TRUE), Head(ready).len = buf, buf' = 0, AsyncReadData,
         UNCHANGED <<stop, ws, got, closed, early, cut>>
  PROVE  Receiving'
<1>1. /\ ready # <<>> /\ io = "run" /\ Head(ready).ok
      /\ Head(ready).kind = k
  BY DEF Handle
<1>2. ready \in Seq(Data) /\ ready \in Seq(Completion) /\ ready \in Seq(Sound)
  BY DEF Receiving, TypeOK, NoEmptyMessage
<1>3. Tail(ready) \in Seq(Data)
  BY <1>1, <1>2
<1>4. buf > 0
  <2>1. Head(ready) \in Sound /\ Head(ready) \in Data
    BY <1>1, <1>2
  <2>2. QED
    BY <1>1, <2>1 DEF Sound
<1>5. Established' = Established /\ Established
  BY DEF Receiving, Established
<1>6. NoLoss(ready) /\ (pend["read"] = 0 => got = 0)
      /\ pend["read"] \in {0, 1}
  BY <1>4 DEF Receiving
<1>7. NoLoss(Tail(ready))
  BY <1>1, <1>2, <1>6, LossTail
<1>8. /\ ready' = Tail(ready) /\ pend' = [pend EXCEPT !["read"] = 1]
      /\ io' = IF pend["read"] = 1 THEN "aborted" ELSE "run"
  <2>1. CASE pend["read"] = 0
    BY <1>1, <1>5, <2>1 DEF AsyncReadData
  <2>2. CASE pend["read"] = 1
    BY <1>1, <2>2 DEF AsyncReadData, TypeOK, Kinds
  <2>3. QED
    BY <1>6, <2>1, <2>2
<1>9. pend'["read"] = 1 /\ \A j \in Attempt : pend'[j] = 0
  BY <1>8 DEF Receiving, Attempt, TypeOK, Kinds
<1>10. io' = "aborted" \/ buf' = got'
  BY <1>6, <1>8
<1>11. QED
  BY <1>3, <1>5, <1>7, <1>8, <1>9, <1>10 DEF Receiving

LEMMA ReceivingHandler ==
  ASSUME TypeOK, NoEmptyMessage, Receiving, Handler, ~cut'
  PROVE  Attempting' \/ Receiving'
<1>1. /\ io = "run" /\ ready # <<>> /\ ~stop
      /\ ready \in Seq(Data)
  BY DEF Handler, OnResolved, OnConnected, OnSSLHandshake, OnReady, OnRead,
         Handle, Receiving
<1>2. Head(ready).kind \in {"read", "write"}
  BY <1>1 DEF Data
<1>3. PICK k \in {"read", "write"} : OnRead(k)
  BY <1>2 DEF Handler, OnResolved, OnConnected, OnSSLHandshake, OnReady, Handle
<1>4. CASE Handle(k, FALSE) /\ Reconnect
  BY <1>4, ReceivingFails
<1>5. CASE Handle(k, TRUE) /\ Head(ready).len # buf /\ Drop
  BY <1>1, <1>5, ReceivingDrops DEF Handle
<1>6. CASE /\ Handle(k, TRUE) /\ Head(ready).len = buf /\ buf' = 0
           /\ AsyncReadData
           /\ UNCHANGED <<stop, ws, got, conn, threads, sends, faults, closed,
                          early, cut>>
  BY <1>6, ReceivingConsumes
<1>7. QED
  BY <1>1, <1>3, <1>4, <1>5, <1>6 DEF OnRead

-----------------------------------------------------------------------------
(* An operation that ends hands the chain over to its completion.          *)

\* What Completes does, with the completion named.
LEMMA CompletesQueue ==
  ASSUME TypeOK, NEW k \in Kinds, NEW ok \in BOOLEAN, NEW len \in Nat,
         Completes(k, ok, len)
  PROVE  \E c \in Completion :
           /\ c.kind = k /\ c.ok = ok /\ c.len = len
           /\ ready' = Append(ready, c)
           /\ pend[k] \in Nat /\ pend[k] > 0
           /\ pend' = [pend EXCEPT ![k] = pend[k] - 1]
           /\ io # "aborted" /\ io' = io /\ stop' = stop
           /\ closed' = closed /\ early' = early
<1> DEFINE c == [kind |-> k, ok |-> ok, len |-> len]
<1>1. c \in Completion /\ c.kind = k /\ c.ok = ok /\ c.len = len
  BY DEF Completion
<1>2. pend[k] \in Nat
  BY DEF TypeOK
<1>3. QED
  BY <1>1, <1>2 DEF Completes

LEMMA AttemptingNetwork ==
  ASSUME TypeOK, Attempting, Network
  PROVE  Attempting'
<1>0. {"resolve", "connect", "sslHs", "wsHs", "read", "write"} = Kinds
  BY DEF Kinds
<1>1. ASSUME NEW k \in {"resolve", "connect"}, NEW ok \in BOOLEAN,
             Completes(k, ok, 0),
             ~Established', UNCHANGED <<buf, got>>
      PROVE  Attempting'
  <2>1. PICK c \in Completion :
           /\ c.kind = k
           /\ ready' = Append(ready, c)
           /\ pend[k] \in Nat /\ pend[k] > 0
           /\ pend' = [pend EXCEPT ![k] = pend[k] - 1]
           /\ io' = io /\ stop' = stop
    <3>1. k \in Kinds
      BY <1>0
    <3>2. QED
      BY <1>1, <3>1, CompletesQueue
  <2>2. /\ io = "run" /\ ready \in Seq(Data)
        /\ pend["resolve"] + pend["connect"] = 1
    BY <2>1 DEF Attempting
  <2>3. /\ pend'["resolve"] = 0 /\ pend'["connect"] = 0
        /\ \A j \in Kinds \ {"resolve", "connect"} : pend'[j] = pend[j]
    BY <1>0, <2>1, <2>2 DEF TypeOK
  <2>4. EndsInLookup(ready')
    BY <2>1, <2>2, EndsInLookupAppend
  <2>5. buf' = 0 \/ LastArrival(ready', buf')
    <3>1. ~IsArrival(c)
      BY <2>1 DEF IsArrival
    <3>2. ready \in Seq(Completion)
      BY DEF TypeOK
    <3>3. QED
      BY <1>1, <2>1, <3>1, <3>2, ArrivalAppend DEF Attempting
  <2>6. QED
    BY <1>0, <1>1, <2>1, <2>2, <2>3, <2>4, <2>5 DEF Attempting
<1>2. CASE ResolveDone
  <2>1. PICK ok \in BOOLEAN :
          Completes("resolve", ok, 0) /\ UNCHANGED <<ws, buf, got>>
    BY <1>2 DEF ResolveDone
  <2>2. ~Established'
    BY <2>1 DEF Attempting, Established
  <2>3. QED
    BY <1>1, <2>1, <2>2
<1>3. CASE ConnectDone
  <2>1. PICK ok \in BOOLEAN :
          /\ Completes("connect", ok, 0) /\ UNCHANGED <<buf, got>>
          /\ ws' = IF ok /\ ws = "fresh" THEN "tcp" ELSE ws
    BY <1>3 DEF ConnectDone
  <2>2. ~Established'
    BY <2>1 DEF Attempting, Established
  <2>3. QED
    BY <1>1, <2>1, <2>2
<1>4. CASE LoseConnection
  <2>1. ~Established' /\ UNCHANGED <<stop, pend, got, buf, ready, io>>
    BY <1>4 DEF LoseConnection, Attempting, Established
  <2>2. QED
    BY <2>1 DEF Attempting
<1>5. ~(SslHsDone \/ WsHsDone \/ WsHsMisplaced \/ Arrive \/ ArrivePiece
        \/ WriteDone)
  BY DEF SslHsDone, WsHsDone, WsHsMisplaced, Arrive, ArrivePiece, WriteDone,
         Completes, Attempting
<1>6. ~\E k \in Kinds \ {"resolve", "connect"} : OperationFails(k)
  <2>1. \A k \in Kinds \ {"resolve", "connect"} : pend[k] = 0
    BY <1>0 DEF Attempting
  <2>2. \A k \in Kinds \ {"resolve", "connect"} :
          OperationFails(k) => pend[k] > 0
    BY DEF OperationFails, Completes
  <2>3. QED
    BY <2>1, <2>2
<1>7. QED
  BY <1>2, <1>3, <1>4, <1>5, <1>6 DEF Network

LEMMA HeadTailAppend ==
  ASSUME NEW S, NEW q \in Seq(S), q # <<>>, NEW c \in S
  PROVE  /\ Head(Append(q, c)) = Head(q)
         /\ Tail(Append(q, c)) = Append(Tail(q), c)
         /\ Tail(q) \in Seq(S) /\ Append(q, c) # <<>>
OBVIOUS

\* A handshake is outstanding and nothing is queued.
LEMMA HandshakeEnds ==
  ASSUME TypeOK, Handshaking, NEW k \in {"sslHs", "wsHs"}, NEW ok \in BOOLEAN,
         Completes(k, ok, 0), UNCHANGED <<buf, got>>,
         k = "sslHs" \/ ~ok => ~Established',
         k = "wsHs" /\ ok => Established'
  PROVE  Handshaking'
<1>1. k \in Kinds
  BY DEF Kinds
<1>2. PICK c \in Completion :
           /\ c.kind = k /\ c.ok = ok
           /\ ready' = Append(ready, c)
           /\ pend[k] \in Nat /\ pend[k] > 0
           /\ pend' = [pend EXCEPT ![k] = pend[k] - 1]
           /\ io' = io /\ stop' = stop /\ closed' = closed
  BY <1>1, CompletesQueue
<1>3. /\ ~Established /\ io = "run" /\ pend["write"] = 0
      /\ pend["sslHs"] + pend["wsHs"] = 1 /\ ready = <<>>
  BY <1>2 DEF Handshaking
<1>4. /\ pend'["sslHs"] = 0 /\ pend'["wsHs"] = 0
      /\ pend'["resolve"] = pend["resolve"]
      /\ pend'["connect"] = pend["connect"]
      /\ pend'["read"] = pend["read"] /\ pend'["write"] = pend["write"]
  BY <1>2, <1>3 DEF TypeOK, Kinds
<1>5. ready' # <<>> /\ Head(ready') = c /\ Tail(ready') = <<>>
  BY <1>2, <1>3
<1>6. Tail(ready') \in Seq(Data) /\ NoLoss(Tail(ready'))
  <2>1. <<>> \in Seq(Data) /\ NoLoss(<<>>)
    BY EmptyIsQueue DEF NoLoss
  <2>2. QED
    BY <1>5, <2>1, Zenon
<1>7. QED
  BY <1>2, <1>3, <1>4, <1>5, <1>6 DEF Handshaking

\* The stream is open, and a write ends before OnReady has run.
LEMMA HandshakingWriteEnds ==
  ASSUME TypeOK, Handshaking, Established, Established',
         NEW ok \in BOOLEAN, NEW len \in Nat, Completes("write", ok, len),
         UNCHANGED <<buf, got>>
  PROVE  Handshaking'
<1>1. "write" \in Kinds
  BY DEF Kinds
<1>2. PICK c \in Completion :
           /\ c.kind = "write"
           /\ ready' = Append(ready, c)
           /\ pend' = [pend EXCEPT !["write"] = pend["write"] - 1]
           /\ io' = io /\ stop' = stop /\ closed' = closed
  BY <1>1, CompletesQueue
<1>3. /\ ready # <<>> /\ ready \in Seq(Completion)
      /\ Tail(ready) \in Seq(Data) /\ NoLoss(Tail(ready))
  BY DEF Handshaking, TypeOK
<1>4. c \in Data /\ ~IsLoss(c)
  BY <1>2 DEF Data, IsLoss
<1>5. /\ Head(ready') = Head(ready) /\ ready' # <<>>
      /\ Tail(ready') = Append(Tail(ready), c)
      /\ Tail(ready) \in Seq(Completion)
  BY <1>2, <1>3, HeadTailAppend
<1>6. Tail(ready') \in Seq(Data) /\ NoLoss(Tail(ready'))
  <2>1. Append(Tail(ready), c) \in Seq(Data)
    BY <1>3, <1>4
  <2>2. NoLoss(Append(Tail(ready), c))
    BY <1>3, <1>4, <1>5, LossAppend
  <2>3. QED
    BY <1>5, <2>1, <2>2, Zenon
<1>7. \A k \in Kinds \ {"write"} : pend'[k] = pend[k]
  BY <1>2 DEF TypeOK
<1>8. QED
  BY <1>2, <1>5, <1>6, <1>7 DEF Handshaking, Kinds

LEMMA HandshakingNetwork ==
  ASSUME TypeOK, Handshaking, Network
  PROVE  Handshaking'
<1>0. {"resolve", "connect", "sslHs", "wsHs", "read", "write"} = Kinds
  BY DEF Kinds
<1>1. CASE SslHsDone
  <2>1. Completes("sslHs", TRUE, 0) /\ UNCHANGED <<buf, got>>
    BY <1>1 DEF SslHsDone
  <2>2. ~Established
    BY <2>1 DEF Completes, Handshaking
  <2>3. ~Established'
    BY <1>1, <2>2 DEF SslHsDone, Established
  <2>4. QED
    BY <2>1, <2>3, HandshakeEnds
<1>2. CASE WsHsDone
  <2>1. Established'
    BY <1>2 DEF WsHsDone, Established
  <2>2. QED
    BY <1>2, <2>1, HandshakeEnds DEF WsHsDone
<1>3. CASE WsHsMisplaced
  <2>1. ~Established'
    BY <1>3 DEF WsHsMisplaced, Established
  <2>2. QED
    BY <1>3, <2>1, HandshakeEnds DEF WsHsMisplaced
<1>4. CASE WriteDone
  <2>1. PICK n \in Sizes :
          Completes("write", TRUE, n) /\ UNCHANGED <<ws, buf, got>>
    BY <1>4 DEF WriteDone
  <2>2. n \in Nat /\ Established /\ Established'
    BY <1>4, <2>1, SizesAssumption DEF WriteDone, Established
  <2>3. QED
    BY <2>1, <2>2, HandshakingWriteEnds
<1>5. CASE LoseConnection
  <2>1. UNCHANGED <<stop, closed, pend, got, buf, ready, io>>
    BY <1>5 DEF LoseConnection
  <2>2. Established' = Established
    BY <1>5 DEF LoseConnection, Established
  <2>3. QED
    BY <2>1, <2>2 DEF Handshaking
<1>6. ~(ResolveDone \/ ConnectDone \/ Arrive \/ ArrivePiece)
  BY DEF ResolveDone, ConnectDone, Arrive, ArrivePiece, Completes, Handshaking
<1>7. ASSUME NEW k \in Kinds \ {"resolve", "connect"}, OperationFails(k)
      PROVE  Handshaking'
  <2>1. /\ Completes(k, FALSE, 0) /\ UNCHANGED <<ws, buf>>
        /\ ws \in {"lost", "dead"}
    BY <1>7 DEF OperationFails
  <2>2. k # "read" /\ Established' = Established
    BY <2>1 DEF Completes, Handshaking, Established
  <2>3. got' = got
    BY <1>7, <2>2 DEF OperationFails
  <2>4. CASE k = "write"
    <3>1. Established
      BY <2>1, <2>4 DEF Completes, Handshaking
    <3>2. QED
      BY <2>1, <2>2, <2>3, <2>4, <3>1, HandshakingWriteEnds
  <2>5. CASE k \in {"sslHs", "wsHs"}
    <3>1. ~Established
      BY <2>1, <2>5 DEF Completes, Handshaking
    <3>2. QED
      BY <2>1, <2>2, <2>3, <2>5, <3>1, HandshakeEnds
  <2>6. QED
    BY <1>0, <2>2, <2>4, <2>5
<1>8. QED
  BY <1>1, <1>2, <1>3, <1>4, <1>5, <1>6, <1>7 DEF Network

\* The message that was awaited is there: its length is that of buffer_.
LEMMA ReceivingArrive ==
  ASSUME TypeOK, Receiving, Arrive
  PROVE  Receiving'
<1>1. PICK n \in Sizes : /\ Completes("read", TRUE, got + n)
                         /\ buf' = buf + n /\ got' = 0 /\ ws' = ws
  BY DEF Arrive
<1>2. "read" \in Kinds /\ got + n \in Nat /\ got \in Nat /\ buf \in Nat
  BY SizesAssumption DEF Kinds, TypeOK
<1>3. PICK c \in Completion :
           /\ c.kind = "read" /\ c.ok /\ c.len = got + n
           /\ ready' = Append(ready, c)
           /\ pend["read"] \in Nat /\ pend["read"] > 0
           /\ pend' = [pend EXCEPT !["read"] = pend["read"] - 1]
           /\ io # "aborted" /\ io' = io /\ stop' = stop
  <2>1. \A ok \in BOOLEAN, len \in Nat : Completes("read", ok, len) =>
          \E c \in Completion :
             /\ c.kind = "read" /\ c.ok = ok /\ c.len = len
             /\ ready' = Append(ready, c)
             /\ pend["read"] \in Nat /\ pend["read"] > 0
             /\ pend' = [pend EXCEPT !["read"] = pend["read"] - 1]
             /\ io # "aborted" /\ io' = io /\ stop' = stop
    BY <1>2, CompletesQueue
  <2>2. QED
    BY <1>1, <1>2, <2>1
<1>4. /\ pend["read"] = 1 /\ NoLoss(ready) /\ buf = got
      /\ ready \in Seq(Data) /\ ready \in Seq(Completion)
  BY <1>3 DEF Receiving, TypeOK
<1>5. c \in Data /\ IsArrival(c) /\ ~IsLoss(c)
  BY <1>3 DEF Data, IsArrival, IsLoss
<1>6. NoLoss(ready')
  BY <1>3, <1>4, <1>5, LossAppend
<1>7. LastArrival(ready', buf')
  BY <1>1, <1>3, <1>4, <1>5, ArrivalAppend
<1>8. ready' \in Seq(Data)
  BY <1>3, <1>4, <1>5
<1>9. pend'["read"] = 0 /\ \A j \in Attempt : pend'[j] = 0
  BY <1>3, <1>4 DEF Receiving, Attempt, TypeOK, Kinds
<1>10. Established' = Established
  BY <1>1 DEF Established
<1>11. QED
  BY <1>1, <1>3, <1>6, <1>7, <1>8, <1>9, <1>10 DEF Receiving

\* A read fails: a message that had begun to arrive is cut, and otherwise
\* buffer_ is empty.
LEMMA ReceivingReadFails ==
  ASSUME TypeOK, Receiving, OperationFails("read"), ~cut'
  PROVE  Receiving'
<1>1. Completes("read", FALSE, 0) /\ UNCHANGED <<ws, buf>> /\ got' = 0
  BY DEF OperationFails
<1>2. "read" \in Kinds
  BY DEF Kinds
<1>3. PICK c \in Completion :
           /\ c.kind = "read" /\ c.ok = FALSE
           /\ ready' = Append(ready, c)
           /\ pend["read"] \in Nat /\ pend["read"] > 0
           /\ pend' = [pend EXCEPT !["read"] = pend["read"] - 1]
           /\ io # "aborted" /\ io' = io /\ stop' = stop
  BY <1>1, <1>2, CompletesQueue
<1>4. /\ pend["read"] = 1 /\ NoLoss(ready) /\ buf = got
      /\ ready \in Seq(Data) /\ ready \in Seq(Completion)
  BY <1>3 DEF Receiving, TypeOK
<1>5. got = 0
  <2>1. ~(got > 0)
    BY Zenon DEF OperationFails
  <2>2. QED
    BY <2>1 DEF TypeOK
<1>6. c \in Data /\ IsLoss(c)
  BY <1>3 DEF Data, IsLoss
<1>7. OneLoss(ready') /\ ready' \in Seq(Data)
  BY <1>3, <1>4, <1>6, LossAppend
<1>8. pend'["read"] = 0 /\ \A j \in Attempt : pend'[j] = 0
  BY <1>3, <1>4 DEF Receiving, Attempt, TypeOK, Kinds
<1>9. Established' = Established
  BY <1>1 DEF Established
<1>10. QED
  BY <1>1, <1>3, <1>4, <1>5, <1>7, <1>8, <1>9 DEF Receiving

\* A write ends while the client reads.
LEMMA ReceivingWriteEnds ==
  ASSUME TypeOK, Receiving, NEW ok \in BOOLEAN, NEW len \in Nat,
         Completes("write", ok, len), UNCHANGED <<ws, buf, got>>
  PROVE  Receiving'
<1>1. "write" \in Kinds
  BY DEF Kinds
<1>2. PICK c \in Completion :
           /\ c.kind = "write"
           /\ ready' = Append(ready, c)
           /\ pend' = [pend EXCEPT !["write"] = pend["write"] - 1]
           /\ io' = io /\ stop' = stop
  BY <1>1, CompletesQueue
<1>3. ready \in Seq(Data) /\ ready \in Seq(Completion)
  BY DEF Receiving, TypeOK
<1>4. c \in Data /\ ~IsArrival(c) /\ ~IsLoss(c)
  BY <1>2 DEF Data, IsArrival, IsLoss
<1>5. /\ NoLoss(ready) => NoLoss(ready')
      /\ OneLoss(ready) => OneLoss(ready')
  BY <1>2, <1>3, <1>4, LossAppend
<1>6. LastArrival(ready, buf) => LastArrival(ready', buf)
  BY <1>2, <1>3, <1>4, ArrivalAppend
<1>7. ready' \in Seq(Data)
  BY <1>2, <1>3, <1>4
<1>8. \A k \in Kinds \ {"write"} : pend'[k] = pend[k]
  BY <1>2 DEF TypeOK
<1>9. pend'["read"] = pend["read"] /\ \A j \in Attempt : pend'[j] = pend[j]
  BY <1>8 DEF Kinds, Attempt
<1>10. Established' = Established
  BY DEF Established
<1>11. QED
  BY <1>2, <1>5, <1>6, <1>7, <1>9, <1>10 DEF Receiving

LEMMA ReceivingNetwork ==
  ASSUME TypeOK, Receiving, Network, ~cut'
  PROVE  Receiving'
<1>0. {"resolve", "connect", "sslHs", "wsHs"} = Attempt
      /\ Kinds = Attempt \cup {"read", "write"}
  BY DEF Kinds, Attempt
<1>1. CASE ArrivePiece
  <2>1. PICK n \in Sizes : /\ io # "aborted" /\ pend["read"] > 0 /\ got = 0
                           /\ buf' = buf + n /\ got' = n
                           /\ UNCHANGED <<stop, ws, pend, ready, io>>
    BY <1>1 DEF ArrivePiece
  <2>2. n \in Nat
    BY SizesAssumption
  <2>3. pend["read"] = 1 /\ NoLoss(ready) /\ buf = 0
    BY <2>1 DEF Receiving
  <2>4. buf' = got' /\ Established' = Established
    BY <2>1, <2>2, <2>3 DEF Established
  <2>5. QED
    BY <2>1, <2>3, <2>4 DEF Receiving
<1>2. CASE WriteDone
  <2>1. PICK n \in Sizes :
          Completes("write", TRUE, n) /\ UNCHANGED <<ws, buf, got>>
    BY <1>2 DEF WriteDone
  <2>2. n \in Nat
    BY SizesAssumption
  <2>3. QED
    BY <2>1, <2>2, ReceivingWriteEnds
<1>3. CASE LoseConnection
  <2>1. UNCHANGED <<stop, pend, got, buf, ready, io>>
    BY <1>3 DEF LoseConnection
  <2>2. Established' = Established
    BY <1>3 DEF LoseConnection, Established
  <2>3. QED
    BY <2>1, <2>2 DEF Receiving
<1>4. ~(ResolveDone \/ ConnectDone \/ SslHsDone \/ WsHsDone \/ WsHsMisplaced)
  <2>1. \A k \in Attempt : pend[k] = 0
    BY DEF Receiving
  <2>2. /\ ResolveDone => pend["resolve"] > 0
        /\ ConnectDone => pend["connect"] > 0
        /\ SslHsDone => pend["sslHs"] > 0
        /\ WsHsDone \/ WsHsMisplaced => pend["wsHs"] > 0
    BY DEF ResolveDone, ConnectDone, SslHsDone, WsHsDone, WsHsMisplaced,
           Completes
  <2>3. QED
    BY <1>0, <2>1, <2>2
<1>5. ASSUME NEW k \in Kinds \ {"resolve", "connect"}, OperationFails(k)
      PROVE  Receiving'
  <2>1. pend[k] > 0
    BY <1>5 DEF OperationFails, Completes
  <2>2. k \in {"read", "write"}
    BY <1>0, <2>1 DEF Receiving
  <2>3. CASE k = "read"
    BY <1>5, <2>3, ReceivingReadFails
  <2>4. CASE k = "write"
    BY <1>5, <2>4, ReceivingWriteEnds DEF OperationFails
  <2>5. QED
    BY <2>2, <2>3, <2>4
<1>6. QED
  BY <1>1, <1>2, <1>3, <1>4, <1>5, ReceivingArrive DEF Network

-----------------------------------------------------------------------------
(* Steps of the other threads, and the invariant.                          *)

\* A write is started on an established stream only.
LEMMA WriteKeepsPhase ==
  ASSUME TypeOK, Attempting \/ Handshaking \/ Receiving, AsyncWrite,
         Undisturbed'
  PROVE  Handshaking' \/ Receiving'
<1>1. Established
  BY DEF AsyncWrite, Undisturbed, TypeOK
<1>2. /\ UNCHANGED <<stop, ws, buf, got, closed>>
      /\ io # "aborted" /\ io' \in {io, "aborted"}
      /\ ready' = ready
      /\ Established'
  BY <1>1 DEF AsyncWrite, Established
<1>3. \A k \in Kinds \ {"write"} : pend'[k] = pend[k]
  BY DEF AsyncWrite, TypeOK, Kinds
<1>4. CASE Handshaking
  <2>1. io # "sleep"
    BY <1>1, <1>4 DEF Handshaking
  <2>2. QED
    BY <1>1, <1>2, <1>3, <1>4, <2>1 DEF Handshaking, Kinds
<1>5. CASE Receiving
  <2>1. pend'["read"] = pend["read"] /\ \A k \in Attempt : pend'[k] = pend[k]
    BY <1>3 DEF Kinds, Attempt
  <2>2. io' # "sleep" /\ (io' = "aborted" \/ io = io')
    BY <1>2, <1>5 DEF Receiving
  <2>3. QED
    BY <1>2, <1>5, <2>1, <2>2 DEF Receiving
<1>6. ~Attempting
  BY <1>1 DEF Attempting
<1>7. QED
  BY <1>4, <1>5, <1>6

\* Only OnConnected clears stop_, and no connect ends in a stopped client.
LEMMA StoppedStep ==
  ASSUME TypeOK, Stopped, [Next]_vars
  PROVE  Stopped'
<1>1. stop /\ closed /\ Quiet
  BY DEF Stopped
<1>2. Quiet'
  BY <1>1, QuietNext
<1>3. closed'
  BY <1>1, HistoryStep
<1>4. stop'
  <2>1. CASE OnConnected
    <3>1. ready # <<>> /\ Head(ready).kind = "connect"
      BY <2>1 DEF OnConnected, Handle
    <3>2. 1 \in DOMAIN ready /\ Head(ready) = ready[1]
      BY <3>1 DEF TypeOK
    <3>3. QED
      BY <1>1, <3>1, <3>2 DEF Quiet, Attempt
  <2>2. CASE OnResolved \/ OnSSLHandshake \/ OnReady
    BY <1>1, <2>2 DEF OnResolved, OnSSLHandshake, OnReady, Reconnect
  <2>3. CASE OnRead("read") \/ OnRead("write")
    BY <1>1, <2>3 DEF OnRead, Drop, Reconnect
  <2>4. CASE Connect \/ Close \/ AsyncWrite \/ UNCHANGED vars
    BY <1>1, <2>4 DEF Connect, Close, AsyncWrite, vars
  <2>5. CASE Network
    <3>1. stop' = stop
      BY <2>5 DEF Network, ResolveDone, ConnectDone, SslHsDone, WsHsDone,
             WsHsMisplaced, Arrive, ArrivePiece, WriteDone, LoseConnection,
             OperationFails, Completes
    <3>2. QED
      BY <1>1, <3>1
  <2>6. QED
    BY <2>1, <2>2, <2>3, <2>4, <2>5
       DEF Next, Handler, UserSend, OnReconnSend
<1>5. QED
  BY <1>2, <1>3, <1>4 DEF Stopped

LEMMA CloseKeepsPhase ==
  ASSUME TypeOK, Attempting \/ Handshaking \/ Receiving, Close
  PROVE  Attempting' \/ Handshaking' \/ Stopped'
<1>1. /\ stop' /\ closed'
      /\ UNCHANGED <<buf, got, pend, ready, io>>
      /\ Established' = Established
  BY DEF Close, Established
<1>2. CASE Attempting
  BY <1>1, <1>2 DEF Attempting
<1>3. CASE Handshaking
  BY <1>1, <1>3 DEF Handshaking
<1>4. CASE Receiving
  <2>1. \A j \in DOMAIN ready : ready[j].kind \notin Attempt
    BY <1>4, DataIsCompletion DEF Receiving, Attempt
  <2>2. QED
    BY <1>1, <1>4, <2>1 DEF Receiving, Stopped, Quiet
<1>5. QED
  BY <1>2, <1>3, <1>4

LEMMA ConnectKeepsPhase ==
  ASSUME TypeOK, Attempting \/ Handshaking \/ Receiving, Connect
  PROVE  Attempting'
<1>1. io = "sleep" /\ Attempting
  BY DEF Connect, Handshaking, Receiving
<1>2. /\ UNCHANGED <<stop, ws, buf, got, ready>> /\ io' = "run"
      /\ pend' = [pend EXCEPT !["resolve"] = pend["resolve"] + 1]
      /\ Established' = Established
  BY <1>1 DEF Connect, Established
<1>3. QED
  BY <1>1, <1>2 DEF Attempting, TypeOK, Kinds

LEMMA PhaseStep ==
  ASSUME TypeOK, NoEmptyMessage, OneHandlerAtATime, [Next]_vars
  PROVE  OneHandlerAtATime'
<1> SUFFICES ASSUME Undisturbed'
             PROVE  Attempting' \/ Handshaking' \/ Receiving' \/ Stopped'
  BY DEF OneHandlerAtATime
<1>1. Attempting \/ Handshaking \/ Receiving \/ Stopped
  BY DisturbedForGood DEF OneHandlerAtATime
<1>2. ~cut'
  BY DEF Undisturbed
<1>3. CASE Stopped
  BY <1>3, StoppedStep
<1>4. CASE ~Stopped
  <2>1. CASE Handler
    BY <1>1, <1>2, <1>4, <2>1, AttemptingHandler, HandshakingHandler,
       ReceivingHandler
  <2>2. CASE Network
    BY <1>1, <1>2, <1>4, <2>2, AttemptingNetwork, HandshakingNetwork,
       ReceivingNetwork
  <2>3. CASE AsyncWrite
    BY <1>1, <1>4, <2>3, WriteKeepsPhase
  <2>4. CASE Connect
    BY <1>1, <1>4, <2>4, ConnectKeepsPhase
  <2>5. CASE Close
    BY <1>1, <1>4, <2>5, CloseKeepsPhase
  <2>6. CASE UNCHANGED vars
    <3>1. UNCHANGED <<stop, ws, buf, got, pend, ready, io, closed>>
      BY <2>6 DEF vars
    <3>2. Established' = Established
      BY <3>1 DEF Established
    <3>3. QED
      BY <1>1, <1>4, <3>1, <3>2 DEF Attempting, Handshaking, Receiving
  <2>7. QED
    BY <2>1, <2>2, <2>3, <2>4, <2>5, <2>6 DEF Next, UserSend, OnReconnSend
<1>5. QED
  BY <1>3, <1>4

LEMMA PhaseInit ==
  ASSUME Init
  PROVE  OneHandlerAtATime /\ NoEmptyMessage
<1>1. /\ pend["resolve"] = 1 /\ pend["connect"] = 0
      /\ \A k \in Kinds \ {"resolve", "connect"} : pend[k] = 0
  BY DEF Init, Kinds
<1>2. ready = <<>> /\ ready \in Seq(Data) /\ ready \in Seq(Sound)
  BY EmptyIsQueue DEF Init
<1>3. ~Established
  BY DEF Init, Established
<1>4. QED
  BY <1>1, <1>2, <1>3
     DEF Init, Kinds, OneHandlerAtATime, Attempting, NoEmptyMessage

\* Where the chain of handlers of an undisturbed client is, in every state.
THEOREM HandlersFormAChain == Spec => [](OneHandlerAtATime /\ NoEmptyMessage)
<1>1. Init => OneHandlerAtATime /\ NoEmptyMessage
  BY PhaseInit
<1>2. TypeOK /\ OneHandlerAtATime /\ NoEmptyMessage /\ [Next]_vars
        => (OneHandlerAtATime /\ NoEmptyMessage)'
  BY PhaseStep, SoundStep
<1>3. QED
  BY <1>1, <1>2, TypeCorrect, PTL DEF Spec

-----------------------------------------------------------------------------
(* How many there are.  Each handler hands over to at most one operation,  *)
(* whatever went before, so only a Send can add to them.                   *)

Held == pend["resolve"] + pend["connect"] + pend["sslHs"] + pend["wsHs"]
          + pend["read"] + pend["write"]

Sleeping == IF io = "sleep" THEN 1 ELSE 0

Conserved == Sleeping + Held + Len(ready) <= 1 + sends

LEMMA HeldChange ==
  ASSUME TypeOK, NEW k \in Kinds, NEW n \in Nat,
         \A j \in Kinds : pend'[j] = IF j = k THEN n ELSE pend[j]
  PROVE  /\ Held \in Nat /\ Held' \in Nat /\ pend[k] \in Nat
         /\ Held' = Held - pend[k] + n
<1>1. /\ pend["resolve"] \in Nat /\ pend["connect"] \in Nat
      /\ pend["sslHs"] \in Nat /\ pend["wsHs"] \in Nat
      /\ pend["read"] \in Nat /\ pend["write"] \in Nat
  BY DEF TypeOK, Kinds
<1>2. QED
  BY <1>1 DEF Held, Kinds

\* An operation more, an operation less.
LEMMA HeldUp ==
  ASSUME TypeOK, NEW k \in Kinds, pend' = [pend EXCEPT ![k] = pend[k] + 1]
  PROVE  Held \in Nat /\ Held' \in Nat /\ Held' = Held + 1
<1> DEFINE n == pend[k] + 1
<1>1. pend[k] \in Nat /\ n \in Nat
  BY DEF TypeOK
<1>2. \A j \in Kinds : pend'[j] = IF j = k THEN n ELSE pend[j]
  BY DEF TypeOK
<1> HIDE DEF n
<1>3. Held \in Nat /\ Held' \in Nat /\ Held' = Held - pend[k] + n
  BY <1>1, <1>2, HeldChange
<1>4. n = pend[k] + 1
  BY DEF n
<1>5. QED
  BY <1>1, <1>3, <1>4

LEMMA HeldDown ==
  ASSUME TypeOK, NEW k \in Kinds, pend[k] > 0,
         pend' = [pend EXCEPT ![k] = pend[k] - 1]
  PROVE  Held \in Nat /\ Held' \in Nat /\ Held' = Held - 1
<1> DEFINE n == pend[k] - 1
<1>1. pend[k] \in Nat /\ n \in Nat
  BY DEF TypeOK
<1>2. \A j \in Kinds : pend'[j] = IF j = k THEN n ELSE pend[j]
  BY DEF TypeOK
<1> HIDE DEF n
<1>3. Held \in Nat /\ Held' \in Nat /\ Held' = Held - pend[k] + n
  BY <1>1, <1>2, HeldChange
<1>4. n = pend[k] - 1
  BY DEF n
<1>5. QED
  BY <1>1, <1>3, <1>4

LEMMA FailuresLength ==
  ASSUME NEW k \in Kinds, pend \in [Kinds -> Nat]
  PROVE  Failures(k) \in Seq(Completion) /\ Len(Failures(k)) = pend[k]
<1>1. pend[k] \in Nat
  OBVIOUS
<1>2. Failures(k) \in Seq(Completion)
  BY FailuresType
<1>3. DOMAIN Failures(k) = 1 .. pend[k]
  BY DEF Failures
<1>4. QED
  BY <1>1, <1>2, <1>3

LEMMA AbortedLength ==
  ASSUME pend \in [Kinds -> Nat]
  PROVE  Aborted \in Seq(Completion) /\ Len(Aborted) = Held - pend["resolve"]
<1>1. /\ Failures("read") \in Seq(Completion)
      /\ Len(Failures("read")) = pend["read"]
      /\ Failures("sslHs") \in Seq(Completion)
      /\ Len(Failures("sslHs")) = pend["sslHs"]
      /\ Failures("wsHs") \in Seq(Completion)
      /\ Len(Failures("wsHs")) = pend["wsHs"]
      /\ Failures("connect") \in Seq(Completion)
      /\ Len(Failures("connect")) = pend["connect"]
      /\ Failures("write") \in Seq(Completion)
      /\ Len(Failures("write")) = pend["write"]
  BY FailuresLength DEF Kinds
<1>2. Len(Aborted) = pend["read"] + pend["sslHs"] + pend["wsHs"]
                       + pend["connect"] + pend["write"]
  <2>1. \A q, r \in Seq(Completion) :
          q \o r \in Seq(Completion) /\ Len(q \o r) = Len(q) + Len(r)
    BY ConcatElements
  <2> DEFINE a == Failures("read") \o Failures("sslHs")
             b == a \o Failures("wsHs")
             c == b \o Failures("connect")
  <2>2. a \in Seq(Completion) /\ Len(a) = pend["read"] + pend["sslHs"]
    <3> DEFINE p == Failures("read")
               q == Failures("sslHs")
    <3>1. /\ p \in Seq(Completion) /\ q \in Seq(Completion)
          /\ Len(p) = pend["read"] /\ Len(q) = pend["sslHs"]
      BY <1>1
    <3> HIDE DEF p, q
    <3>2. p \o q \in Seq(Completion) /\ Len(p \o q) = Len(p) + Len(q)
      BY <2>1, <3>1
    <3>3. a = p \o q
      BY DEF p, q
    <3> QED
      BY <3>1, <3>2, <3>3, Zenon
  <2> HIDE DEF a
  <2>3. b \in Seq(Completion) /\ Len(b) = Len(a) + pend["wsHs"]
    BY <1>1, <2>1, <2>2
  <2> HIDE DEF b
  <2>4. c \in Seq(Completion) /\ Len(c) = Len(b) + pend["connect"]
    BY <1>1, <2>1, <2>3
  <2> HIDE DEF c
  <2>5. Aborted = c \o Failures("write")
    BY DEF Aborted, a, b, c
  <2>6. Len(Aborted) = Len(c) + pend["write"]
    BY <1>1, <2>1, <2>4, <2>5
  <2>7. QED
    BY <2>2, <2>3, <2>4, <2>6
<1>3. /\ pend["resolve"] \in Nat /\ pend["connect"] \in Nat
      /\ pend["sslHs"] \in Nat /\ pend["wsHs"] \in Nat
      /\ pend["read"] \in Nat /\ pend["write"] \in Nat
  BY DEF Kinds
<1>4. QED
  BY <1>2, <1>3, AbortedType DEF Held

\* Each part of a handler takes its completion off the queue and starts no
\* more than one operation, or the sleep of Reconnect, for it.
LEMMA CloseSocketCount ==
  ASSUME TypeOK, ready # <<>>, NEW state,
         NEW started \in {{}, {"connect"}}, CloseSocket(state, started)
  PROVE  /\ Held' \in Nat /\ Len(ready') \in Nat
         /\ started = {} => Held' + Len(ready') = Held + Len(ready) - 1
         /\ Held' + Len(ready') <= Held + Len(ready)
<1>1. pend \in [Kinds -> Nat] /\ ready \in Seq(Completion)
  BY DEF TypeOK
<1>2. /\ Len(Tail(ready)) = Len(ready) - 1 /\ Len(ready) \in Nat
      /\ Len(ready) >= 1
      /\ Tail(ready) \in Seq(Completion)
  BY <1>1, TailElements
<1>3. Aborted \in Seq(Completion) /\ Len(Aborted) = Held - pend["resolve"]
  BY <1>1, AbortedLength
<1>4. Len(ready') = Len(ready) - 1 + Held - pend["resolve"]
  <2>1. ready' = Tail(ready) \o Aborted
    BY DEF CloseSocket
  <2>2. Len(ready') = Len(Tail(ready)) + Len(Aborted)
    BY <1>2, <1>3, <2>1
  <2>3. Held \in Nat /\ pend["resolve"] \in Nat
    BY <1>1 DEF Held, Kinds
  <2>4. QED
    BY <1>2, <1>3, <2>2, <2>3
<1>5. /\ pend'["resolve"] = pend["resolve"]
      /\ pend'["sslHs"] = 0 /\ pend'["wsHs"] = 0
      /\ pend'["read"] = 0 /\ pend'["write"] = 0
      /\ pend'["connect"] = IF started = {} THEN 0 ELSE 1
  BY DEF CloseSocket, Kinds
<1>6. /\ pend["resolve"] \in Nat /\ pend["connect"] \in Nat
      /\ pend["sslHs"] \in Nat /\ pend["wsHs"] \in Nat
      /\ pend["read"] \in Nat /\ pend["write"] \in Nat
  BY <1>1 DEF Kinds
<1>7. Held' = pend["resolve"] + IF started = {} THEN 0 ELSE 1
  BY <1>5, <1>6 DEF Held
<1>8. Held \in Nat /\ Held >= pend["resolve"]
  <2>1. \A r, c, h, w, d, e \in Nat :
          r + c + h + w + d + e \in Nat /\ r + c + h + w + d + e >= r
    OBVIOUS
  <2>2. QED
    BY <1>6, <2>1 DEF Held
<1>9. QED
  BY <1>2, <1>4, <1>6, <1>7, <1>8, SMTT(30)

LEMMA ReconnectCount ==
  ASSUME TypeOK, ready # <<>>, io = "run", Conserved, Reconnect
  PROVE  Conserved'
<1>1. /\ Held' \in Nat /\ Len(ready') \in Nat
      /\ Held' + Len(ready') = Held + Len(ready) - 1
  BY CloseSocketCount DEF Reconnect
<1>2. Sleeping = 0 /\ Sleeping' = 1 /\ sends' = sends
  BY DEF Reconnect, Sleeping
<1>3. Held \in Nat /\ Len(ready) \in Nat /\ sends \in Nat
  BY DEF TypeOK, Held, Kinds
<1>4. QED
  BY <1>1, <1>2, <1>3 DEF Conserved

LEMMA TakenLength ==
  ASSUME NEW q \in Seq(Completion), q # <<>>, NEW c \in Completion
  PROVE  /\ Len(q) \in Nat
         /\ Len(Append(Tail(q), c)) = Len(q)
         /\ Len(Tail(q)) = Len(q) - 1 /\ Len(q) - 1 \in Nat
<1>1. Len(q) \in Nat /\ Len(q) >= 1 /\ Len(Tail(q)) = Len(q) - 1
      /\ Tail(q) \in Seq(Completion)
  BY TailElements
<1>2. Len(Append(Tail(q), c)) = Len(Tail(q)) + 1
  BY <1>1, AppendElements
<1>3. QED
  BY <1>1, <1>2

\* A completion is handled, and one operation started or its failure queued.
LEMMA HandOverCount ==
  ASSUME TypeOK, ready # <<>>, Conserved, sends' = sends,
         io' \in {io, "aborted"},
         \/ pend' = pend /\ ready' = Tail(ready)
         \/ \E k \in Kinds : /\ pend' = [pend EXCEPT ![k] = pend[k] + 1]
                             /\ ready' = Tail(ready)
         \/ \E k \in Kinds : /\ pend' = pend
                             /\ ready' = Append(Tail(ready), Failed(k))
  PROVE  Conserved'
<1>1. ready \in Seq(Completion) /\ pend \in [Kinds -> Nat]
  BY DEF TypeOK
<1>2. \A k \in Kinds :
        /\ Len(ready) \in Nat
        /\ Len(Append(Tail(ready), Failed(k))) = Len(ready)
        /\ Len(Tail(ready)) = Len(ready) - 1 /\ Len(ready) - 1 \in Nat
  BY <1>1, TakenLength, FailedType
<1>3. Held \in Nat /\ sends \in Nat /\ Len(ready) \in Nat
  BY DEF TypeOK, Held, Kinds
<1>4. Sleeping \in {0, 1} /\ Sleeping' \in {0, 1} /\ Sleeping' <= Sleeping
  BY DEF Sleeping
<1>5. /\ Held' \in Nat /\ Len(ready') \in Nat
      /\ Held' + Len(ready') <= Held + Len(ready)
  <2>1. CASE pend' = pend /\ ready' = Tail(ready)
    <3>1. Held' = Held
      BY <2>1 DEF Held
    <3>2. Len(ready') \in Nat /\ Len(ready') = Len(ready) - 1
      BY <1>2, <2>1, Zenon DEF Kinds
    <3>3. QED
      BY <1>3, <3>1, <3>2
  <2>2. CASE \E k \in Kinds : /\ pend' = [pend EXCEPT ![k] = pend[k] + 1]
                              /\ ready' = Tail(ready)
    <3>1. PICK k \in Kinds : pend' = [pend EXCEPT ![k] = pend[k] + 1]
      BY <2>2
    <3>2. Held' \in Nat /\ Held' = Held + 1
      BY <3>1, HeldUp
    <3>3. ready' = Tail(ready)
      BY <2>2
    <3>4. Len(ready') \in Nat /\ Len(ready') = Len(ready) - 1
      BY <1>2, <3>3, Zenon
    <3>5. QED
      BY <1>3, <3>2, <3>4
  <2>3. CASE \E k \in Kinds : /\ pend' = pend
                              /\ ready' = Append(Tail(ready), Failed(k))
    <3>1. PICK k \in Kinds : ready' = Append(Tail(ready), Failed(k))
      BY <2>3
    <3>2. Held' = Held
      BY <2>3 DEF Held
    <3>3. Len(ready') = Len(ready)
      BY <1>2, <3>1, Zenon
    <3>4. QED
      BY <1>3, <3>2, <3>3
  <2>4. QED
    BY <2>1, <2>2, <2>3
<1>6. QED
  BY <1>3, <1>4, <1>5 DEF Conserved

LEMMA HandlerCount ==
  ASSUME TypeOK, Conserved, Handler
  PROVE  Conserved'
<1>1. ready # <<>> /\ io = "run"
  BY DEF Handler, OnResolved, OnConnected, OnSSLHandshake, OnReady, OnRead,
         Handle
<1>2. ASSUME Reconnect PROVE Conserved'
  BY <1>1, <1>2, ReconnectCount
<1>3. ASSUME NEW k \in {"sslHs", "wsHs"}, StartHandshake(k),
             UNCHANGED <<io, sends>>
      PROVE  Conserved'
  <2>1. k \in Kinds
    BY DEF Kinds
  <2>2. QED
    BY <1>1, <1>3, <2>1, HandOverCount DEF StartHandshake
<1>4. ASSUME AsyncReadData, sends' = sends PROVE Conserved'
  <2>1. "read" \in Kinds /\ pend["read"] \in Nat
    BY DEF Kinds, TypeOK
  <2>2. pend["read"] = 0 => [pend EXCEPT !["read"] = 1]
                              = [pend EXCEPT !["read"] = pend["read"] + 1]
    BY <2>1
  <2>3. io' \in {io, "aborted"}
    BY <1>4 DEF AsyncReadData
  <2>4. \/ pend' = pend /\ ready' = Tail(ready)
        \/ /\ pend' = [pend EXCEPT !["read"] = pend["read"] + 1]
           /\ ready' = Tail(ready)
        \/ pend' = pend /\ ready' = Append(Tail(ready), Failed("read"))
    BY <1>4, <2>1, <2>2 DEF AsyncReadData
  <2>5. QED
    BY <1>1, <1>4, <2>1, <2>3, <2>4, HandOverCount
<1>5. CASE OnResolved
  <2>1. CASE /\ CloseSocket(IF ws = "fresh" THEN "fresh" ELSE "dead",
                            {"connect"})
             /\ UNCHANGED <<io, sends>>
    <3>1. /\ Held' \in Nat /\ Len(ready') \in Nat
          /\ Held' + Len(ready') <= Held + Len(ready)
      BY <1>1, <2>1, CloseSocketCount
    <3>2. Held \in Nat /\ Len(ready) \in Nat /\ sends \in Nat
      BY DEF TypeOK, Held, Kinds
    <3>3. Sleeping = 0 /\ Sleeping' = 0 /\ sends' = sends
      BY <1>1, <2>1 DEF Sleeping
    <3>4. QED
      BY <3>1, <3>2, <3>3 DEF Conserved
  <2>2. QED
    BY <1>2, <1>5, <2>1 DEF OnResolved
<1>6. CASE OnConnected \/ OnSSLHandshake
  BY <1>2, <1>3, <1>6 DEF OnConnected, OnSSLHandshake
<1>7. CASE OnReady
  BY <1>2, <1>4, <1>7 DEF OnReady
<1>8. ASSUME NEW k \in {"read", "write"}, OnRead(k) PROVE Conserved'
  <2>1. CASE Drop
    BY <1>1, <2>1, HandOverCount DEF Drop
  <2>2. CASE /\ IF stop THEN ready' = Tail(ready) /\ UNCHANGED <<pend, io>>
                       ELSE AsyncReadData
             /\ sends' = sends
    <3>1. CASE stop
      BY <1>1, <2>2, <3>1, HandOverCount
    <3>2. QED
      BY <1>4, <2>2, <3>1
  <2>3. QED
    BY <1>2, <1>8, <2>1, <2>2 DEF OnRead
<1>9. QED
  BY <1>5, <1>6, <1>7, <1>8 DEF Handler

\* An operation becomes its completion.
LEMMA CompletesCount ==
  ASSUME TypeOK, Conserved, NEW k \in Kinds, NEW ok \in BOOLEAN,
         NEW len \in Nat, Completes(k, ok, len)
  PROVE  Conserved'
<1>1. PICK c \in Completion :
           /\ ready' = Append(ready, c)
           /\ pend[k] \in Nat /\ pend[k] > 0
           /\ pend' = [pend EXCEPT ![k] = pend[k] - 1]
           /\ io' = io
  BY CompletesQueue
<1>2. Held \in Nat /\ Held' \in Nat /\ Held' = Held - 1
  BY <1>1, HeldDown
<1>5. ready \in Seq(Completion)
  BY DEF TypeOK
<1>6. Len(ready) \in Nat /\ Len(Append(ready, c)) = Len(ready) + 1
  BY <1>5, AppendElements
<1>7. Len(ready') = Len(ready) + 1
  BY <1>1, <1>6, Zenon
<1>8. Sleeping' = Sleeping /\ Sleeping \in {0, 1}
  BY <1>1 DEF Sleeping
<1>9. sends' = sends /\ sends \in Nat
  BY DEF Completes, TypeOK
<1>10. QED
  BY <1>2, <1>6, <1>7, <1>8, <1>9 DEF Conserved

LEMMA WriteCount ==
  ASSUME TypeOK, Conserved, AsyncWrite
  PROVE  Conserved'
<1>1. "write" \in Kinds /\ pend["write"] \in Nat /\ ready \in Seq(Completion)
      /\ sends \in Nat /\ Held \in Nat /\ Len(ready) \in Nat
  BY DEF Kinds, TypeOK, Held
<1>2. Failed("write") \in Completion
  BY <1>1, FailedType
<1>3. Len(Append(ready, Failed("write"))) = Len(ready) + 1
  BY <1>1, <1>2, AppendElements
<1>4. \/ pend' = pend /\ ready' = ready
      \/ pend["write"] = 0 /\ ready' = ready
           /\ pend' = [pend EXCEPT !["write"] = 1]
      \/ pend' = pend /\ ready' = Append(ready, Failed("write"))
  BY DEF AsyncWrite
<1>5. /\ Held' \in Nat /\ Len(ready') \in Nat
      /\ Held' + Len(ready') <= Held + Len(ready) + 1
  <2>1. CASE pend' = pend /\ ready' = ready
    BY <1>1, <2>1 DEF Held
  <2>2. CASE pend["write"] = 0 /\ ready' = ready
             /\ pend' = [pend EXCEPT !["write"] = 1]
    <3>1. pend' = [pend EXCEPT !["write"] = pend["write"] + 1]
      BY <1>1, <2>2
    <3>2. Held' \in Nat /\ Held' = Held + 1
      BY <1>1, <3>1, HeldUp
    <3>3. QED
      BY <1>1, <2>2, <3>2
  <2>3. CASE pend' = pend /\ ready' = Append(ready, Failed("write"))
    <3>1. Held' = Held
      BY <2>3 DEF Held
    <3>2. Len(ready') = Len(ready) + 1
      BY <1>3, <2>3, Zenon
    <3>3. QED
      BY <1>1, <3>1, <3>2
  <2>4. QED
    BY <1>4, <2>1, <2>2, <2>3
<1>6. sends' = sends + 1
  BY DEF AsyncWrite
<1>7. Sleeping \in {0, 1} /\ Sleeping' \in {0, 1} /\ Sleeping' <= Sleeping
  BY DEF AsyncWrite, Sleeping
<1>8. QED
  BY <1>1, <1>5, <1>6, <1>7 DEF Conserved

LEMMA ConservedStep ==
  ASSUME TypeOK, Conserved, [Next]_vars
  PROVE  Conserved'
<1>1. ASSUME UNCHANGED <<io, pend, ready, sends>> PROVE Conserved'
  BY <1>1 DEF Conserved, Held, Sleeping
<1>2. CASE Handler
  BY <1>2, HandlerCount
<1>3. CASE Connect
  <2>1. /\ Sleeping = 1 /\ Sleeping' = 0 /\ sends' = sends /\ ready' = ready
        /\ pend' = [pend EXCEPT !["resolve"] = pend["resolve"] + 1]
    BY <1>3 DEF Connect, Sleeping
  <2>2. "resolve" \in Kinds /\ pend["resolve"] \in Nat
        /\ Len(ready) \in Nat /\ sends \in Nat
    BY DEF Kinds, TypeOK
  <2>3. Held \in Nat /\ Held' \in Nat /\ Held' = Held + 1
    BY <2>1, <2>2, HeldUp
  <2>4. QED
    BY <2>1, <2>2, <2>3 DEF Conserved
<1>4. CASE Network
  <2>1. CASE LoseConnection \/ ArrivePiece
    BY <1>1, <2>1 DEF LoseConnection, ArrivePiece
  <2>2. CASE ~(LoseConnection \/ ArrivePiece)
    BY <1>4, <2>2, NetworkCompletes, CompletesCount
  <2>3. QED
    BY <2>1, <2>2
<1>5. CASE AsyncWrite
  BY <1>5, WriteCount
<1>6. CASE Close \/ UNCHANGED vars
  BY <1>1, <1>6 DEF Close, vars
<1>7. QED
  BY <1>2, <1>3, <1>4, <1>5, <1>6 DEF Next, UserSend, OnReconnSend

\* Of operations, completions and sleeping Reconnects there is one, and at
\* most one more for each Send: whatever the order in which they fail, errors
\* do not multiply.
THEOREM ErrorsDoNotMultiply == Spec => []Conserved
<1>1. Init => Conserved
  BY DEF Init, Conserved, Held, Sleeping, Kinds
<1>2. TypeOK /\ Conserved /\ [Next]_vars => Conserved'
  BY ConservedStep
<1>3. QED
  BY <1>1, <1>2, TypeCorrect, PTL DEF Spec

-----------------------------------------------------------------------------
(* What the invariants say of the attempts and reads that are counted.     *)

FailedReads == {i \in Queued({"read"}) : ~ready[i].ok}

LEMMA Counts ==
  ASSUME TypeOK
  PROVE  /\ Cardinality(Queued(Attempt)) \in Nat
         /\ Cardinality(FailedReads) \in Nat
         /\ Cardinality(Queued(Attempt)) + Cardinality(FailedReads)
              <= Len(ready)
<1> DEFINE A == Queued(Attempt)
           L == FailedReads
           D == 1 .. Len(ready)
<1>1. Len(ready) \in Nat /\ DOMAIN ready = D
  BY DEF TypeOK
<1>2. IsFiniteSet(D) /\ Cardinality(D) = Len(ready)
  <2> DEFINE n == Len(ready)
  <2>1. n \in Nat
    BY <1>1
  <2> HIDE DEF n
  <2>2. /\ IsFiniteSet(1 .. n)
        /\ Cardinality(1 .. n) = IF 1 > n THEN 0 ELSE n - 1 + 1
    BY <2>1, FS_Interval
  <2>3. Cardinality(1 .. n) = n
    BY <2>1, <2>2
  <2>4. QED
    BY <2>2, <2>3 DEF n
<1>3. A \subseteq D /\ L \subseteq D /\ A \cup L \subseteq D
  BY <1>1 DEF Queued, FailedReads
<1>4. A \cap L = {}
  BY DEF Queued, FailedReads, Attempt
<1> HIDE DEF A, L, D
<1>5. IsFiniteSet(A) /\ IsFiniteSet(L)
  BY <1>2, <1>3, FS_Subset
<1>6. /\ Cardinality(A) \in Nat /\ Cardinality(L) \in Nat
  BY <1>5, FS_CardinalityType
<1>7. Cardinality(A \cup L) = Cardinality(A) + Cardinality(L)
  <2>1. Cardinality(A \cup L)
          = Cardinality(A) + Cardinality(L) - Cardinality(A \cap L)
    BY <1>5, FS_Union
  <2>2. Cardinality(A \cap L) = 0
    BY <1>4, FS_EmptySet
  <2>3. QED
    BY <1>6, <2>1, <2>2
<1>8. Cardinality(A \cup L) <= Cardinality(D)
  BY <1>2, <1>3, FS_Subset
<1>9. QED
  BY <1>2, <1>6, <1>7, <1>8 DEF A, L

LEMMA AtMostOneEach ==
  ASSUME TypeOK, Conserved
  PROVE  Attempts + Reads <= 1 + sends
<1> DEFINE a == Cardinality(Queued(Attempt))
           f == Cardinality(FailedReads)
           l == Len(ready)
           p == pend["resolve"]
           c == pend["connect"]
           h == pend["sslHs"]
           w == pend["wsHs"]
           d == pend["read"]
           e == pend["write"]
<1>1. a \in Nat /\ f \in Nat /\ a + f <= l
  BY Counts
<1>2. /\ l \in Nat /\ p \in Nat /\ c \in Nat /\ h \in Nat /\ w \in Nat
      /\ d \in Nat /\ e \in Nat /\ sends \in Nat
  BY DEF TypeOK, Kinds
<1>3. Sleeping \in Nat
  BY DEF Sleeping
<1>4. Attempts = Sleeping + p + c + h + w + a
  BY DEF Attempts, Sleeping
<1>5. Reads = IF stop THEN 0 ELSE d + f
  BY DEF Reads, FailedReads
<1>6. Sleeping + (p + c + h + w + d + e) + l <= 1 + sends
  BY DEF Conserved, Held
<1> HIDE DEF a, f, l, p, c, h, w, d, e
<1>7. Reads \in Nat /\ Reads <= d + f
  BY <1>1, <1>2, <1>5
<1>8. QED
  BY <1>1, <1>2, <1>3, <1>4, <1>6, <1>7

\* In each phase there is one attempt, or no attempt and at most one read.
LEMMA AttemptingCounts ==
  ASSUME TypeOK, Attempting
  PROVE  Attempts = 1 /\ Reads = 0
<1>1. Reads = 0
  BY DEF Attempting, Reads
<1>2. ready \in Seq(Data) => Queued(Attempt) = {}
  BY DataIsCompletion DEF Queued, Attempt
<1>3. EndsInLookup(ready) => Queued(Attempt) = {Len(ready)}
  <2> SUFFICES ASSUME EndsInLookup(ready)
               PROVE  Queued(Attempt) = {Len(ready)}
    OBVIOUS
  <2> DEFINE front == SubSeq(ready, 1, Len(ready) - 1)
  <2>1. /\ ready # <<>> /\ front \in Seq(Data)
        /\ ready[Len(ready)].kind \in {"resolve", "connect"}
    BY DEF EndsInLookup
  <2>2. /\ DOMAIN ready = 1 .. Len(ready) /\ Len(ready) \in Nat
        /\ Len(ready) >= 1
    BY <2>1, TailElements DEF TypeOK
  <2>3. /\ Len(front) = Len(ready) - 1
        /\ \A j \in 1 .. Len(ready) - 1 : front[j] = ready[j]
    BY <2>2 DEF TypeOK
  <2>4. \A j \in 1 .. Len(ready) - 1 : ready[j].kind \in {"read", "write"}
    BY <2>1, <2>3 DEF Data
  <2>5. QED
    BY <2>1, <2>2, <2>4 DEF Queued, Attempt
<1>4. Cardinality({}) = 0 /\ Cardinality({Len(ready)}) = 1
  BY FS_EmptySet, FS_Singleton
<1>5. /\ pend["resolve"] \in Nat /\ pend["connect"] \in Nat
      /\ pend["sslHs"] = 0 /\ pend["wsHs"] = 0
  BY DEF TypeOK, Kinds, Attempting
<1> DEFINE a == Cardinality(Queued(Attempt))
<1>6. a \in Nat
  BY Counts
<1>7. Attempts = Sleeping + pend["resolve"] + pend["connect"] + 0 + 0 + a
  BY <1>5 DEF Attempts, Sleeping
<1>8. \/ /\ Sleeping = 1 /\ a = 0
         /\ pend["resolve"] = 0 /\ pend["connect"] = 0
      \/ Sleeping = 0 /\ a = 0 /\ pend["resolve"] + pend["connect"] = 1
      \/ /\ Sleeping = 0 /\ a = 1
         /\ pend["resolve"] = 0 /\ pend["connect"] = 0
  BY <1>2, <1>3, <1>4 DEF Attempting, Sleeping
<1> HIDE DEF a
<1>9. QED
  BY <1>1, <1>5, <1>6, <1>7, <1>8

LEMMA SingleQueue ==
  ASSUME NEW q \in Seq(Completion), q # <<>>, Tail(q) = <<>>
  PROVE  Len(q) = 1
<1> DEFINE r == Tail(q)
<1>1. /\ Len(q) \in Nat
      /\ r \in Seq(Completion) /\ Len(r) = Len(q) - 1
  BY TailElements
<1>2. r = <<>>
  OBVIOUS
<1> HIDE DEF r
<1>3. Len(r) = 0
  BY <1>1, <1>2, EmptyQueue
<1>4. QED
  BY <1>1, <1>3

LEMMA HandshakingCounts ==
  ASSUME TypeOK, Handshaking, ~closed
  PROVE  Attempts = 1 /\ Reads = 0
<1>1. /\ ready \in Seq(Completion)
      /\ ready # <<>> => /\ DOMAIN ready = 1 .. Len(ready) /\ Len(ready) \in Nat
                         /\ Len(ready) >= 1 /\ Head(ready) = ready[1]
                         /\ Len(Tail(ready)) = Len(ready) - 1
                         /\ \A j \in 1 .. Len(ready) - 1 :
                              Tail(ready)[j] = ready[j + 1]
  BY TailElements DEF TypeOK
<1>2. /\ ~stop /\ io # "sleep"
      /\ pend["resolve"] = 0 /\ pend["connect"] = 0 /\ pend["read"] = 0
      /\ pend["sslHs"] \in Nat /\ pend["wsHs"] \in Nat
  BY DEF Handshaking, TypeOK, Kinds
<1>3. \/ /\ pend["sslHs"] + pend["wsHs"] = 1
         /\ Queued(Attempt) = {} /\ FailedReads = {}
      \/ /\ pend["sslHs"] = 0 /\ pend["wsHs"] = 0
         /\ Queued(Attempt) = {1} /\ FailedReads = {}
  <2>1. CASE pend["sslHs"] + pend["wsHs"] = 1 /\ ready = <<>>
    BY <2>1 DEF Queued, FailedReads
  <2>2. CASE /\ pend["sslHs"] = 0 /\ pend["wsHs"] = 0
             /\ ready # <<>> /\ Tail(ready) = <<>>
             /\ Head(ready).kind \in {"sslHs", "wsHs"}
    <3>1. Len(ready) = 1
      BY <1>1, <2>2, SingleQueue
    <3>2. DOMAIN ready = {1} /\ ready[1].kind \in {"sslHs", "wsHs"}
      BY <1>1, <2>2, <3>1
    <3>3. QED
      BY <2>2, <3>2 DEF Queued, FailedReads, Attempt
  <2>3. CASE /\ pend["sslHs"] = 0 /\ pend["wsHs"] = 0
             /\ ready # <<>> /\ Head(ready).kind = "wsHs"
             /\ Tail(ready) \in Seq(Data) /\ NoLoss(Tail(ready))
    <3>1. ready[1].kind = "wsHs" /\ 1 \in DOMAIN ready
      BY <1>1, <2>3
    <3>2. ASSUME NEW j \in DOMAIN ready, j # 1
          PROVE  ready[j].kind \in {"read", "write"} /\ ~IsLoss(ready[j])
      <4>1. j - 1 \in 1 .. Len(ready) - 1 /\ ready[j] = Tail(ready)[j - 1]
        BY <1>1, <2>3, <3>2
      <4>2. j - 1 \in DOMAIN Tail(ready)
        BY <1>1, <2>3, <4>1
      <4>3. QED
        BY <2>3, <4>1, <4>2, DataIsCompletion DEF NoLoss
    <3>3. QED
      BY <2>3, <3>1, <3>2 DEF Queued, FailedReads, Attempt, IsLoss
  <2>4. QED
    BY <2>1, <2>2, <2>3 DEF Handshaking
<1>4. Cardinality({}) = 0 /\ Cardinality({1}) = 1
  BY FS_EmptySet, FS_Singleton
<1> DEFINE a == Cardinality(Queued(Attempt))
           f == Cardinality(FailedReads)
<1>5. /\ f = 0
      /\ \/ pend["sslHs"] + pend["wsHs"] = 1 /\ a = 0
         \/ pend["sslHs"] = 0 /\ pend["wsHs"] = 0 /\ a = 1
  BY <1>3, <1>4, Zenon
<1>6. Attempts = 0 + 0 + 0 + pend["sslHs"] + pend["wsHs"] + a
  BY <1>2 DEF Attempts
<1>7. Reads = 0 + f
  BY <1>2 DEF Reads, FailedReads
<1> HIDE DEF a, f
<1>8. QED
  BY <1>2, <1>5, <1>6, <1>7

LEMMA ReceivingCounts ==
  ASSUME TypeOK, Receiving
  PROVE  Attempts + Reads <= 1 /\ ~Deaf
<1>1. /\ ~stop /\ io # "sleep" /\ ready \in Seq(Data)
      /\ pend["resolve"] = 0 /\ pend["connect"] = 0
      /\ pend["sslHs"] = 0 /\ pend["wsHs"] = 0
  BY DEF Receiving, Attempt
<1>2. Queued(Attempt) = {}
  BY <1>1, DataIsCompletion DEF Queued, Attempt
<1>3. NoLoss(ready) => FailedReads = {}
  BY DEF NoLoss, FailedReads, Queued, IsLoss
<1>4. OneLoss(ready) => \E i \in Queued({"read"}) : FailedReads = {i}
  BY DEF OneLoss, FailedReads, Queued, IsLoss
<1>5. LastArrival(ready, buf) => Queued({"read"}) # {}
  BY DEF LastArrival, Queued, IsArrival
<1>6. Cardinality({}) = 0 /\ \A i : Cardinality({i}) = 1
  BY FS_EmptySet, FS_Singleton
<1> DEFINE f == Cardinality(FailedReads)
<1>7. \/ pend["read"] = 1 /\ f = 0
      \/ pend["read"] = 0 /\ f = 1 /\ Queued({"read"}) # {}
      \/ pend["read"] = 0 /\ f = 0 /\ Queued({"read"}) # {}
  BY <1>3, <1>4, <1>5, <1>6 DEF Receiving
<1>8. Attempts = 0
  BY <1>1, <1>2, <1>6 DEF Attempts
<1>9. Reads = pend["read"] + f
  BY <1>1 DEF Reads, FailedReads
<1> HIDE DEF f
<1>10. QED
  BY <1>7, <1>8, <1>9 DEF Deaf

-----------------------------------------------------------------------------
(* The properties.                                                         *)

\* Errors of reads, writes and handshakes, in whatever order, leave one chain
\* of handlers in an undisturbed client, and one more for each Send in any.
THEOREM ChainsAreBounded == Spec => []OneChain
<1>1. ASSUME TypeOK, OneHandlerAtATime, Conserved PROVE OneChain
  <2>1. CASE Undisturbed /\ ~closed
    <3>1. Attempting \/ Handshaking \/ Receiving
      BY <1>1, <2>1 DEF OneHandlerAtATime, Stopped
    <3>2. Attempts + Reads <= 1
      BY <1>1, <2>1, <3>1, AttemptingCounts, HandshakingCounts,
         ReceivingCounts
    <3>3. QED
      BY <2>1, <3>2 DEF OneChain
  <2>2. CASE ~Undisturbed
    BY <1>1, <2>2, AtMostOneEach DEF OneChain
  <2>3. CASE closed
    BY <2>3 DEF OneChain
  <2>4. QED
    BY <2>1, <2>2, <2>3
<1>2. QED
  BY <1>1, TypeCorrect, HandlersFormAChain, ErrorsDoNotMultiply, PTL

LEMMA NotDeaf ==
  ASSUME TypeOK, OneHandlerAtATime, Undisturbed, ~closed
  PROVE  ~Deaf
<1>1. Attempting \/ Handshaking \/ Receiving
  BY DEF OneHandlerAtATime, Stopped
<1>2. QED
  BY <1>1, AttemptingCounts, HandshakingCounts, ReceivingCounts DEF Deaf

\* An undisturbed client that was not closed always has an attempt under way
\* or a read whose completion will be handled.
THEOREM ChainNeverEnds == Spec => []DeafOnlyIfDisturbed
<1>1. TypeOK /\ OneHandlerAtATime => DeafOnlyIfDisturbed
  BY NotDeaf DEF DeafOnlyIfDisturbed
<1>2. QED
  BY <1>1, TypeCorrect, HandlersFormAChain, PTL

\* The io thread arms a second read only where a write's length was that of
\* the piece in buffer_.
LEMMA SecondReadMidMessage ==
  ASSUME TypeOK, NoEmptyMessage, OneHandlerAtATime, Undisturbed, Next,
         io = "run", io' = "aborted", sends' = sends
  PROVE  got > 0
<1>1. Handler
  <2>1. CASE Network
    BY <2>1 DEF Network, ResolveDone, ConnectDone, SslHsDone, WsHsDone,
       WsHsMisplaced, Arrive, ArrivePiece, WriteDone, LoseConnection,
       OperationFails, Completes
  <2>2. CASE AsyncWrite
    BY <2>2 DEF AsyncWrite, TypeOK
  <2>3. CASE Connect \/ Close
    BY <2>3 DEF Connect, Close
  <2>4. QED
    BY <2>1, <2>2, <2>3 DEF Next, UserSend, OnReconnSend
<1>2. ASSUME Reconnect PROVE FALSE
  BY <1>2 DEF Reconnect
<1>3. \/ OnReady /\ Handle("wsHs", TRUE) /\ AsyncReadData
      \/ \E k \in {"read", "write"} :
           /\ OnRead(k) /\ Handle(k, TRUE) /\ Head(ready).len = buf
           /\ ~stop /\ AsyncReadData
  BY <1>1, <1>2
     DEF Handler, OnResolved, OnConnected, OnSSLHandshake, OnReady, OnRead,
         Drop
<1>4. pend["read"] > 0
  BY <1>3 DEF AsyncReadData
<1>5. ready # <<>> /\ ready \in Seq(Completion) /\ Head(ready) = ready[1]
      /\ 1 \in DOMAIN ready
  <2>1. ready # <<>> /\ ready \in Seq(Completion)
    BY <1>3 DEF Handle, TypeOK
  <2>2. QED
    BY <2>1
<1>6. Receiving
  <2>1. ~Attempting /\ ~Handshaking
    BY <1>4 DEF Attempting, Handshaking
  <2>2. ~Stopped
    <3>1. CASE Handle("wsHs", TRUE)
      BY <1>5, <3>1 DEF Handle, Stopped, Quiet, Attempt
    <3>2. CASE ~stop
      BY <3>2 DEF Stopped
    <3>3. QED
      BY <1>3, <3>1, <3>2
  <2>3. QED
    BY <2>1, <2>2 DEF OneHandlerAtATime
<1>7. Head(ready) \in Data /\ Head(ready) \in Sound
  BY <1>5, <1>6 DEF Receiving, NoEmptyMessage
<1>8. Head(ready).len = buf /\ Head(ready).ok
  BY <1>3, <1>7 DEF Handle, Data
<1>9. buf > 0
  BY <1>7, <1>8 DEF Sound
<1>10. buf = got
  BY <1>4, <1>6 DEF Receiving
<1>11. QED
  BY <1>9, <1>10

\* In an undisturbed client no handler reads where a read is outstanding, but
\* in the middle of a message.
THEOREM ReadsDoNotCollide == Spec => ReadAbortOnlyMidMessage
<1>1. TypeOK /\ OneHandlerAtATime /\ NoEmptyMessage /\ [Next]_vars
        => [io = "run" /\ io' = "aborted" /\ sends' = sends
              => got > 0 \/ ~Undisturbed]_vars
  BY SecondReadMidMessage
<1>2. QED
  BY <1>1, TypeCorrect, HandlersFormAChain, PTL
     DEF Spec, ReadAbortOnlyMidMessage

-----------------------------------------------------------------------------
(* A program that waits for an established stream and for its last write,  *)
(* gives no callback and does not call Close, on a network whose messages  *)
(* arrive whole: the constants of the run client_disciplined.              *)

DisciplinedUse == SendWhen = "open" /\ ~HasOnReconn /\ ~Torn /\ ~CanClose

Calm ==
  /\ Undisturbed /\ ~closed
  /\ got = 0 /\ threads = 0
  /\ io # "aborted"

LEMMA CalmHandler ==
  ASSUME DisciplinedUse, TypeOK, Calm, Handler
  PROVE  /\ Undisturbed' /\ ~closed' /\ got' = 0 /\ threads' = 0
         /\ sends' = sends
<1> DEFINE Same == early' = early /\ cut' = cut /\ closed' = closed
                   /\ got' = got /\ threads' = threads /\ sends' = sends
<1>1. early = 0 /\ ~cut /\ ~closed /\ got = 0 /\ threads = 0
  BY DEF Calm, Undisturbed
<1>2. ~(got > 0) /\ cut \in BOOLEAN /\ closed \in BOOLEAN
  BY <1>1 DEF TypeOK
<1>3. ASSUME NEW state, NEW started, CloseSocket(state, started)
      PROVE  got' = got /\ cut' = cut
  <2>1. got' = 0 /\ cut' = (cut \/ got > 0)
    BY <1>3 DEF CloseSocket
  <2>2. cut' = cut
    BY <1>2, <2>1, Zenon
  <2>3. QED
    BY <1>1, <2>1, <2>2
<1>4. ASSUME Reconnect
      PROVE  Same
  <2>1. CloseSocket("fresh", {})
    BY <1>4 DEF Reconnect
  <2>2. got' = got /\ cut' = cut
    BY <1>3, <2>1
  <2>3. QED
    BY <1>4, <2>2 DEF Reconnect
<1>5. ASSUME OnResolved
      PROVE  Same
  <2>1. CASE Handle("resolve", FALSE) /\ Reconnect
    BY <1>4, <2>1
  <2>2. CASE CloseSocket(IF ws = "fresh" THEN "fresh" ELSE "dead", {"connect"})
             /\ UNCHANGED <<stop, buf, io, conn, threads, sends, faults,
                            closed, early>>
    <3>1. got' = got /\ cut' = cut
      BY <1>3, <2>2
    <3>2. QED
      BY <2>2, <3>1
  <2>3. QED
    BY <1>5, <2>1, <2>2 DEF OnResolved
<1>6. ASSUME OnConnected \/ OnSSLHandshake
      PROVE  Same
  BY <1>4, <1>6 DEF OnConnected, OnSSLHandshake
<1>7. ASSUME OnReady
      PROVE  Same
  <2>1. ApiOnConnected => threads' = threads
    BY DEF ApiOnConnected, DisciplinedUse
  <2>2. QED
    BY <1>4, <1>7, <2>1 DEF OnReady
<1>8. ASSUME OnRead("read") \/ OnRead("write")
      PROVE  Same
  BY <1>4, <1>8 DEF OnRead, Drop
<1>9. Same
  BY <1>5, <1>6, <1>7, <1>8 DEF Handler
<1>10. QED
  BY <1>1, <1>9 DEF Undisturbed

LEMMA CalmNetwork ==
  ASSUME DisciplinedUse, TypeOK, Calm, Network
  PROVE  Calm'
<1>1. early = 0 /\ ~cut /\ ~closed /\ got = 0 /\ threads = 0
      /\ io # "aborted"
  BY DEF Calm, Undisturbed
<1>2. ~(got > 0) /\ cut \in BOOLEAN /\ closed \in BOOLEAN
  BY <1>1 DEF TypeOK
<1> DEFINE Same == early' = early /\ cut' = cut /\ closed' = closed
                   /\ threads' = threads /\ io' = io /\ got' = 0
<1>3. ASSUME ResolveDone \/ ConnectDone
      PROVE  Same
  BY <1>1, <1>3 DEF ResolveDone, ConnectDone, Completes
<1>4. ASSUME SslHsDone \/ WsHsDone
      PROVE  Same
  BY <1>1, <1>4 DEF SslHsDone, WsHsDone, Completes
<1>5. ASSUME Arrive \/ WriteDone \/ LoseConnection
      PROVE  Same
  BY <1>1, <1>5 DEF Arrive, WriteDone, LoseConnection, Completes
<1>6. ASSUME NEW k \in Kinds \ {"resolve", "connect"}, OperationFails(k)
      PROVE  Same
  <2>1. cut' = (cut \/ (k = "read" /\ got > 0))
    BY <1>6 DEF OperationFails
  <2>2. cut' = cut
    BY <1>2, <2>1, Zenon
  <2>3. QED
    BY <1>1, <1>6, <2>2 DEF OperationFails, Completes
<1>7. CASE Same
  BY <1>1, <1>7 DEF Calm, Undisturbed
<1>8. CASE WsHsMisplaced
  BY <1>1, <1>8 DEF WsHsMisplaced, Completes, Calm, Undisturbed
<1>9. ~ArrivePiece
  BY DEF DisciplinedUse, ArrivePiece
<1>10. QED
  BY <1>3, <1>4, <1>5, <1>6, <1>7, <1>8, <1>9 DEF Network

LEMMA CalmStep ==
  ASSUME DisciplinedUse, TypeOK, NoEmptyMessage, OneHandlerAtATime, Calm,
         [Next]_vars
  PROVE  Calm'
<1>1. early = 0 /\ ~cut /\ ~closed /\ got = 0 /\ threads = 0
      /\ io # "aborted"
  BY DEF Calm, Undisturbed
<1>2. CASE Handler
  <2>1. /\ Undisturbed' /\ ~closed' /\ got' = 0 /\ threads' = 0
        /\ sends' = sends
    BY <1>2, CalmHandler
  <2>2. io = "run"
    BY <1>2 DEF Handler, OnResolved, OnConnected, OnSSLHandshake, OnReady,
       OnRead, Handle
  <2>3. io' # "aborted"
    <3>1. Next
      BY <1>2 DEF Next
    <3>2. ~(got > 0)
      BY <1>1
    <3>3. QED
      BY <2>1, <2>2, <3>1, <3>2, SecondReadMidMessage DEF Calm
  <2>4. QED
    BY <2>1, <2>3 DEF Calm
<1>3. CASE Connect \/ UNCHANGED vars
  BY <1>1, <1>3 DEF Connect, vars, Calm, Undisturbed
<1>4. CASE Network
  BY <1>4, CalmNetwork
<1>5. CASE UserSend
  BY <1>1, <1>5 DEF UserSend, AsyncWrite, DisciplinedUse, Calm, Undisturbed
<1>6. ~OnReconnSend /\ ~Close
  BY <1>1 DEF OnReconnSend, Close, DisciplinedUse
<1>7. QED
  BY <1>2, <1>3, <1>4, <1>5, <1>6 DEF Next

LEMMA StaysCalm ==
  ASSUME DisciplinedUse
  PROVE  Spec => []Calm
<1>1. Init => Calm
  BY DEF Init, Calm, Undisturbed
<1>2. TypeOK /\ OneHandlerAtATime /\ NoEmptyMessage /\ Calm /\ [Next]_vars
        => Calm'
  BY CalmStep
<1>3. QED
  BY <1>1, <1>2, TypeCorrect, HandlersFormAChain, PTL DEF Spec

\* Used so, the client never reads or writes where a read or a write is
\* outstanding, for any number of Sends and faults.
THEOREM DisciplinedNeverAborts ==
  ASSUME DisciplinedUse
  PROVE  Spec => []NeverAborts
<1>1. Calm => NeverAborts
  BY DEF Calm, NeverAborts
<1>2. QED
  BY <1>1, StaysCalm, PTL

\* And it is always connecting or reading: work()'s io_context never runs out
\* of operations.
THEOREM DisciplinedNeverDeaf ==
  ASSUME DisciplinedUse
  PROVE  Spec => []NeverDeaf
<1>1. TypeOK /\ OneHandlerAtATime /\ Calm => NeverDeaf
  BY NotDeaf DEF Calm, NeverDeaf
<1>2. QED
  BY <1>1, StaysCalm, TypeCorrect, HandlersFormAChain, PTL
=============================================================================
