------------------------- MODULE ExampleCaches_proof ------------------------
(***************************************************************************)
(* Theorems about the example programs and simple_websocket, for every     *)
(* value of the constants: messages go to the right callback and to the    *)
(* right connection, and the caches hold what the exchange published.      *)
(***************************************************************************)
EXTENDS ExampleCaches, TLAPS

-----------------------------------------------------------------------------
(* simple_websocket: connections and their callbacks.                      *)

Lines ==
  /\ program \in Programs
  /\ line \in [Addresses -> Endpoints \cup {Null}]
  /\ up \subseteq {w \in Addresses : line[w] # Null}
  /\ DOMAIN handles \subseteq Addresses \cup {Null}

\* The public connection is where pionex_pub_conn says until it has ended.
PublicKnown ==
  /\ pionex_pub_conn \in Addresses \cup {Null}
  /\ broken \/ pionex_pub_conn = Null \/ line[pionex_pub_conn] = Public

ConnInv == Lines /\ RightCallback /\ PublicKnown

\* What the programs do to simple_websocket.
Conn ==
  \/ \E e \in Endpoints : ConnectFails(e) \/ \E w \in Addresses : ConnectStarts(e, w)
  \/ \E w \in Addresses : Established(w) \/ Closed(w)
  \/ send_pionex_lws_msg
  \/ UNCHANGED swVars

LEMMA ConnSteps ==
  ASSUME program \in Programs, [Next]_vars
  PROVE  Conn /\ program' = program
<1>1. CASE Connect
  <2>1. Feed[program] \subseteq Endpoints
    BY FeedAssumption
  <2>2. QED
    BY <1>1, <2>1 DEF Connect, Conn
<1>2. CASE Publish \/ Snapshot
  BY <1>2 DEF Publish, Snapshot, Conn
<1>3. CASE Send
  BY <1>3 DEF Send, Conn, exVars
<1>4. CASE \E w \in Addresses : Opens(w) \/ Ends(w)
  BY <1>4 DEF Opens, Ends, Conn
<1>5. CASE \E w \in Addresses : Receive(w) \/ ReceiveTorn(w)
  BY <1>5 DEF Receive, ReceiveTorn, Conn
<1>6. CASE UNCHANGED vars
  BY <1>6 DEF vars, exVars, Conn
<1>7. QED
  BY <1>1, <1>2, <1>3, <1>4, <1>5, <1>6 DEF Next

LEMMA ConnInit == Init => ConnInv
<1> SUFFICES ASSUME Init PROVE ConnInv
  OBVIOUS
<1>1. SwInit /\ program \in Programs
  BY DEF Init
<1>2. Lines
  BY <1>1 DEF SwInit, Lines
<1>3. RightCallback
  BY <1>1 DEF SwInit, RightCallback
<1>4. PublicKnown
  BY <1>1 DEF SwInit, PublicKnown
<1>5. QED
  BY <1>2, <1>3, <1>4 DEF ConnInv

LEMMA StartKeeps ==
  ASSUME ConnInv, NEW e \in Endpoints, NEW w \in Addresses, ConnectStarts(e, w),
         program' = program
  PROVE  ConnInv'
<1>1. /\ line[w] = Null /\ e # Null /\ w # Null
      /\ line' = [line EXCEPT ![w] = e]
      /\ handles' = With(handles, w, e)
      /\ pionex_pub_conn' = IF e = Public THEN w ELSE pionex_pub_conn
      /\ up' = up /\ broken' = broken
  BY FeedAssumption, NullAssumption DEF ConnectStarts, Keep
<1>2. /\ line'[w] = e
      /\ \A v \in Addresses : v # w => line'[v] = line[v]
      /\ line' \in [Addresses -> Endpoints \cup {Null}]
  BY <1>1 DEF ConnInv, Lines
<1>3. /\ DOMAIN handles' = DOMAIN handles \cup {w}
      /\ handles'[w] = e
      /\ \A v \in DOMAIN handles : v # w => handles'[v] = handles[v]
  BY <1>1 DEF With
<1>4. Lines'
  BY <1>1, <1>2, <1>3 DEF ConnInv, Lines
<1>5. RightCallback'
  BY <1>1, <1>2, <1>3 DEF ConnInv, RightCallback, Receiver
<1>6. PublicKnown'
  <2>1. CASE e = Public
    BY <1>1, <1>2, <2>1 DEF ConnInv, PublicKnown
  <2>2. CASE e # Public /\ pionex_pub_conn = w
    <3>1. line[pionex_pub_conn] # Public
      BY <1>1, <2>2, FeedAssumption, NullAssumption
    <3>2. broken \/ pionex_pub_conn = Null
      BY <3>1 DEF ConnInv, PublicKnown
    <3>3. QED
      BY <1>1, <2>2, <3>2 DEF ConnInv, PublicKnown
  <2>3. CASE e # Public /\ pionex_pub_conn # w
    BY <1>1, <1>2, <2>3 DEF ConnInv, PublicKnown
  <2>4. QED
    BY <2>1, <2>2, <2>3
<1>7. QED
  BY <1>4, <1>5, <1>6 DEF ConnInv

LEMMA ClosedKeeps ==
  ASSUME ConnInv, NEW w \in Addresses, Closed(w), program' = program
  PROVE  ConnInv'
<1>1. /\ w # Null
      /\ line' = [line EXCEPT ![w] = Null]
      /\ handles' = Without(handles, w)
      /\ pionex_pub_conn' = pionex_pub_conn
      /\ up' = up \ {w}
      /\ broken' = (broken \/ w = pionex_pub_conn)
  BY NullAssumption DEF Closed
<1>2. /\ line'[w] = Null
      /\ \A v \in Addresses : v # w => line'[v] = line[v]
      /\ line' \in [Addresses -> Endpoints \cup {Null}]
  BY <1>1 DEF ConnInv, Lines
<1>3. /\ DOMAIN handles' = DOMAIN handles \ {w}
      /\ \A v \in DOMAIN handles : v # w => handles'[v] = handles[v]
  BY <1>1 DEF Without
<1>4. Lines'
  BY <1>1, <1>2, <1>3 DEF ConnInv, Lines
<1>5. RightCallback'
  BY <1>1, <1>2, <1>3 DEF ConnInv, RightCallback, Receiver
<1>6. PublicKnown'
  BY <1>1, <1>2 DEF ConnInv, PublicKnown
<1>7. QED
  BY <1>4, <1>5, <1>6 DEF ConnInv

LEMMA ConnStep ==
  ASSUME ConnInv, [Next]_vars
  PROVE  ConnInv'
<1>1. Conn /\ program' = program /\ program \in Programs
  BY ConnSteps DEF ConnInv, Lines
<1>2. ASSUME NEW e \in Endpoints, ConnectFails(e)
      PROVE  ConnInv'
  <2>1. /\ DOMAIN handles' = DOMAIN handles \cup {Null}
        /\ \A v \in DOMAIN handles : v # Null => handles'[v] = handles[v]
    BY <1>2 DEF ConnectFails, Keep, With
  <2>2. line' = line /\ up' = up /\ broken' = (broken \/ e = Public)
        /\ pionex_pub_conn' = IF e = Public THEN Null ELSE pionex_pub_conn
    BY <1>2 DEF ConnectFails, Keep
  <2>3. Lines' /\ PublicKnown'
    BY <1>1, <2>1, <2>2 DEF ConnInv, Lines, PublicKnown
  <2>4. RightCallback'
    BY <2>1, <2>2, NullAssumption DEF ConnInv, RightCallback, Receiver
  <2>5. QED
    BY <2>3, <2>4 DEF ConnInv
<1>3. ASSUME NEW w \in Addresses, Established(w)
      PROVE  ConnInv'
  BY <1>1, <1>3
     DEF Established, ConnInv, Lines, RightCallback, Receiver, PublicKnown
<1>4. CASE send_pionex_lws_msg \/ UNCHANGED swVars
  BY <1>1, <1>4 DEF send_pionex_lws_msg, swVars, ConnInv, Lines, RightCallback,
     Receiver, PublicKnown
<1>5. QED
  BY <1>1, <1>2, <1>3, <1>4, StartKeeps, ClosedKeeps DEF Conn

\* event_cb finds the callback of the endpoint a message came from, although
\* it looks it up by an address that may have been used before; and what has
\* ended has no callback.
THEOREM CallbacksAreRight == Spec => []RightCallback
<1>1. ConnInv => RightCallback
  BY DEF ConnInv
<1>2. QED
  BY <1>1, ConnInit, ConnStep, PTL DEF Spec

\* What is written to pionex_pub_conn reaches the public endpoint as long as
\* that connection has not ended.
THEOREM MessagesGoToPublic == Spec => SendsToPublic
<1>1. ConnInv /\ [Next]_vars => [sent' # sent /\ sent' # Public => broken]_swVars
  <2> SUFFICES ASSUME ConnInv, [Next]_vars, sent' # sent, sent' # Public
               PROVE  broken
    OBVIOUS
  <2>1. Conn
    BY ConnSteps DEF ConnInv, Lines
  <2>2. send_pionex_lws_msg
    BY <2>1 DEF Conn, ConnectFails, ConnectStarts, Established, Closed, swVars
  <2>3. QED
    BY <2>2 DEF send_pionex_lws_msg, ConnInv, PublicKnown
<1>2. QED
  BY <1>1, ConnInit, ConnStep, PTL DEF Spec, SendsToPublic

-----------------------------------------------------------------------------
(* The caches.                                                             *)

Values == Nat \cup [free : {1, 2}, locked : {1, 2}]
Rec == UNION {[D -> Values] : D \in SUBSET Keys}
Message == [id : Nat, rec : Rec]

Typed ==
  /\ program \in Programs
  /\ pc \in {"start", "connect", "loop"}
  /\ log \in Seq(Rec) /\ wire \in Seq(Message)
  /\ answered \in 0 .. Len(log)
  /\ gap \in BOOLEAN

\* Before the event loop there is no connection, so nothing has been sent.
Idle ==
  pc # "loop" => wire = <<>> /\ \A w \in Addresses : line[w] = Null

\* main() has not begun to fill its cache.
Blank ==
  pc = "start" => DOMAIN cache = {} /\ lastUpdateId = 0 /\ answered = 0

\* A trade's record says under which time it is known.
TradeLog ==
  program = "tradesByTime" =>
    \A n \in 1 .. Len(log) : \E k \in Keys : log[n] = [x \in {k} |-> n]

\* Of the records of L numbered in N, n is the last that says something of k.
LastIn(L, N, k, n) ==
  /\ n \in N /\ k \in DOMAIN L[n]
  /\ \A i \in N : i > n => k \notin DOMAIN L[i]

\* Of the first m records there is a last, for every m.
SomeLast ==
  \A k \in Keys : \A m \in 0 .. Len(log) :
    \/ ~Published(log, 1 .. m, k)
    \/ \E n \in 1 .. m : LastIn(log, 1 .. m, k, n)

\* The program has taken m records; those on the wire follow them.
InOrder(m) ==
  /\ answered <= m /\ m + Len(wire) = Len(log)
  /\ \A i \in 1 .. Len(wire) : wire[i].id = m + i /\ wire[i].rec = log[m + i]

\* A level the program knows of is in the cache as the first m records leave it.
Knows(k, m) == k \in Best(log, 1 .. answered) \/ Published(log, answered + 1 .. m, k)

Holds(k, m) ==
  \/ ~Knows(k, m) /\ k \notin DOMAIN cache
  \/ /\ Knows(k, m)
     /\ \E n \in 1 .. m :
          /\ LastIn(log, 1 .. m, k, n)
          /\ log[n][k] = 0 => k \notin DOMAIN cache
          /\ log[n][k] # 0 => k \in DOMAIN cache /\ cache[k] = log[n][k]

BookAt(m) == \A k \in Keys : Holds(k, m)

\* Of the first m trades those the program has heard of.
Part(m) == {n \in 1 .. m : n <= MaxTrades \/ n > answered}

NumbersAt(m) == \A n \in Part(m) : n \in DOMAIN cache /\ cache[n] = n

TimesAt(m) ==
  \A k \in Keys :
    \A n \in Part(m) :
      LastIn(log, Part(m), k, n) => k \in DOMAIN cache /\ cache[k] = log[n][k]

\* Of the trades the program has heard of there is a last of every time.
SomeTrade(m) ==
  \A k \in Keys :
    \/ ~Published(log, Part(m), k)
    \/ \E n \in Part(m) : LastIn(log, Part(m), k, n)

FilledTo(m) ==
  /\ InOrder(m)
  /\ program = "depthCache" => BookAt(m) /\ lastUpdateId = m
  /\ program = "aggTrades" => NumbersAt(m)
  /\ program = "tradesByTime" => TimesAt(m) /\ SomeTrade(m)

Filled == pc # "start" /\ ~gap => \E m \in Nat : FilledTo(m)

CacheInv == Typed /\ Idle /\ Blank /\ TradeLog /\ SomeLast /\ Filled

-----------------------------------------------------------------------------
(* Facts about sequences.                                                  *)

LEMMA Appended ==
  ASSUME NEW S, NEW q \in Seq(S), NEW x \in S
  PROVE  /\ Append(q, x) \in Seq(S)
         /\ Len(Append(q, x)) = Len(q) + 1
         /\ \A i \in 1 .. Len(q) : Append(q, x)[i] = q[i]
         /\ Append(q, x)[Len(q) + 1] = x
         /\ Len(q) \in Nat
  OBVIOUS

LEMMA Shortened ==
  ASSUME NEW S, NEW q \in Seq(S), q # <<>>
  PROVE  /\ Tail(q) \in Seq(S)
         /\ Len(q) \in Nat \ {0} /\ Len(Tail(q)) = Len(q) - 1
         /\ \A i \in 1 .. Len(q) - 1 : Tail(q)[i] = q[i + 1]
         /\ Head(q) = q[1] /\ Head(q) \in S
  OBVIOUS

LEMMA RecordKeys ==
  ASSUME NEW r \in Rec
  PROVE  DOMAIN r \subseteq Keys
BY DEF Rec

LEMMA RecordsRec ==
  ASSUME Typed
  PROVE  Records \subseteq Rec
<1>1. Len(log) + 1 \in Nat
  BY DEF Typed
<1>2. CASE program = "depthCache"
  <2>1. ASSUME NEW r \in Records PROVE r \in Rec
    <3>1. PICK D \in {{k} : k \in Keys} \cup {Keys} : r \in [D -> Amounts]
      BY <1>2, <2>1 DEF Records
    <3>2. D \in SUBSET Keys /\ r \in [D -> Values]
      BY <3>1 DEF Amounts, Values
    <3>3. QED
      BY <3>2 DEF Rec
  <2>2. QED
    BY <2>1
<1>3. CASE program = "userStream"
  <2>1. ASSUME NEW r \in Records PROVE r \in Rec
    <3>1. PICK k \in Keys : r \in [{k} -> [free : {1, 2}, locked : {1, 2}]]
      BY <1>3, <2>1 DEF Records
    <3>2. {k} \in SUBSET Keys /\ r \in [{k} -> Values]
      BY <3>1 DEF Values
    <3>3. QED
      BY <3>2 DEF Rec
  <2>2. QED
    BY <2>1
<1>4. CASE program # "depthCache" /\ program # "userStream"
  <2>1. ASSUME NEW r \in Records PROVE r \in Rec
    <3>1. PICK k \in Keys : r = [x \in {k} |-> Len(log) + 1]
      BY <1>4, <2>1 DEF Records
    <3>2. {k} \in SUBSET Keys /\ r \in [{k} -> Values]
      BY <1>1, <3>1 DEF Values
    <3>3. QED
      BY <3>2 DEF Rec
  <2>2. QED
    BY <2>1
<1>5. QED
  BY <1>2, <1>3, <1>4

\* LastOf, whose CHOOSE has one choice.
LEMMA LastIsLastOf ==
  ASSUME NEW L, NEW N \in SUBSET Nat, NEW k, NEW n, LastIn(L, N, k, n)
  PROVE  Published(L, N, k) /\ LastOf(L, N, k) = L[n][k]
<1> DEFINE Q(i) == /\ k \in DOMAIN L[i]
                   /\ \A j \in N : j > i => k \notin DOMAIN L[j]
<1>1. n \in N /\ Q(n)
  BY DEF LastIn
<1>2. \A i \in N : Q(i) => i = n
  BY <1>1
<1>3. (CHOOSE i \in N : Q(i)) = n
  BY <1>1, <1>2
<1>4. QED
  BY <1>1, <1>3 DEF Published, LastOf

\* The last of a set of records depends on these records only.
LEMMA LastAgrees ==
  ASSUME NEW L, NEW M, NEW N, \A n \in N : L[n] = M[n]
  PROVE  /\ \A k : Published(L, N, k) <=> Published(M, N, k)
         /\ \A k, n : LastIn(L, N, k, n) <=> LastIn(M, N, k, n)
BY DEF Published, LastIn

LEMMA BestAgrees ==
  ASSUME NEW L, NEW M, NEW N \in SUBSET Nat, \A n \in N : L[n] = M[n],
         \A k \in Keys : ~Published(L, N, k) \/ \E n \in N : LastIn(L, N, k, n)
  PROVE  Best(L, N) = Best(M, N)
<1>0. \A X, k, n : LastIn(X, N, k, n) =>
        Published(X, N, k) /\ LastOf(X, N, k) = X[n][k]
  BY LastIsLastOf
<1>1. ASSUME NEW k \in Keys
      PROVE  k \in Book(L, N) <=> k \in Book(M, N)
  <2>1. CASE ~Published(L, N, k)
    BY <2>1, LastAgrees DEF Book
  <2>2. ASSUME NEW n \in N, LastIn(L, N, k, n)
        PROVE  k \in Book(L, N) <=> k \in Book(M, N)
    <3>1. LastIn(M, N, k, n)
      BY <2>2, LastAgrees
    <3>2. Published(L, N, k) /\ LastOf(L, N, k) = L[n][k]
      BY <1>0, <2>2
    <3>3. Published(M, N, k) /\ LastOf(M, N, k) = M[n][k]
      BY <1>0, <3>1
    <3>4. QED
      BY <3>2, <3>3 DEF Book
  <2>3. QED
    BY <2>1, <2>2
<1>2. Book(L, N) = Book(M, N)
  BY <1>1 DEF Book
<1>3. QED
  BY <1>2 DEF Best

\* The levels the program knows of stay the same when records are added.
LEMMA KnowsAgrees ==
  ASSUME Typed, SomeLast, answered' = answered, NEW m \in Nat,
         answered <= m, m <= Len(log), \A n \in 1 .. m : log'[n] = log[n]
  PROVE  /\ \A k \in Keys : Knows(k, m)' <=> Knows(k, m)
         /\ \A k \in Keys, n \in 1 .. m : LastIn(log', 1 .. m, k, n) <=> LastIn(log, 1 .. m, k, n)
<1>1. /\ answered \in Nat /\ 1 .. answered \subseteq 1 .. m /\ 1 .. answered \in SUBSET Nat
      /\ answered + 1 .. m \subseteq 1 .. m /\ answered \in 0 .. Len(log)
  BY DEF Typed
<1>2. Best(log, 1 .. answered) = Best(log', 1 .. answered)
  BY <1>1, BestAgrees DEF SomeLast
<1>3. \A k : Published(log', answered + 1 .. m, k) <=> Published(log, answered + 1 .. m, k)
  BY <1>1 DEF Published
<1>4. \A k \in Keys, n \in 1 .. m : LastIn(log', 1 .. m, k, n) <=> LastIn(log, 1 .. m, k, n)
  BY DEF LastIn
<1>5. QED
  BY <1>2, <1>3, <1>4 DEF Knows

-----------------------------------------------------------------------------
(* The steps.                                                              *)

\* What the cache holds of m records is not changed by others.
LEMMA FilledAgrees ==
  ASSUME Typed, SomeLast, UNCHANGED <<program, cache, lastUpdateId, answered>>,
         NEW m \in Nat, answered <= m, m <= Len(log), FilledTo(m),
         \A n \in 1 .. m : log'[n] = log[n], InOrder(m)'
  PROVE  FilledTo(m)'
<1>1. BookAt(m) => BookAt(m)'
  BY KnowsAgrees DEF BookAt, Holds
<1>2. Part(m)' = Part(m) /\ \A n \in Part(m) : log'[n] = log[n]
  BY DEF Part
<1>3. NumbersAt(m) => NumbersAt(m)'
  BY <1>2 DEF NumbersAt
<1>4. TimesAt(m) /\ SomeTrade(m) => TimesAt(m)' /\ SomeTrade(m)'
  <2>1. /\ \A k : Published(log', Part(m), k) <=> Published(log, Part(m), k)
        /\ \A k, n : LastIn(log', Part(m), k, n) <=> LastIn(log, Part(m), k, n)
    BY <1>2, LastAgrees
  <2>2. QED
    BY <1>2, <2>1 DEF TimesAt, SomeTrade
<1>5. QED
  BY <1>1, <1>3, <1>4 DEF FilledTo

LEMMA PublishKeeps ==
  ASSUME Lines, CacheInv, Publish
  PROVE  CacheInv'
<1> USE DEF CacheInv
<1>1. PICK r \in Records :
        /\ log' = Append(log, r)
        /\ wire' = IF Listening THEN Append(wire, [id |-> Len(log'), rec |-> r])
                                 ELSE wire
  BY DEF Publish
<1>2. /\ UNCHANGED <<program, pc, connects, cache, lastUpdateId, swVars>>
      /\ gap' = (gap \/ (pc # "start" /\ ~Listening))
      /\ answered' = answered
  BY DEF Publish
<1>3. r \in Rec
  BY <1>1, RecordsRec
<1>4. /\ log' \in Seq(Rec) /\ Len(log) \in Nat
      /\ Len(log') = Len(log) + 1
      /\ \A i \in 1 .. Len(log) : log'[i] = log[i]
      /\ log'[Len(log) + 1] = r
  BY <1>1, <1>3, Appended DEF Typed
<1>5. [id |-> Len(log'), rec |-> r] \in Message
  BY <1>3, <1>4 DEF Message
<1>6. Typed'
  <2>1. wire' \in Seq(Message)
    BY <1>1, <1>5, Appended DEF Typed
  <2>2. QED
    BY <1>2, <1>4, <2>1 DEF Typed
<1>7. Idle'
  <2>1. CASE pc = "loop"
    BY <1>2, <2>1 DEF Idle
  <2>2. CASE pc # "loop"
    <3>1. ~Listening
      BY <2>2 DEF Idle, Listening, Lines
    <3>2. QED
      BY <1>1, <1>2, <2>2, <3>1 DEF Idle, swVars
  <2>3. QED
    BY <2>1, <2>2
<1>8. Blank'
  BY <1>2 DEF Blank
<1>9. TradeLog'
  <2> SUFFICES ASSUME program = "tradesByTime", NEW n \in 1 .. Len(log')
               PROVE  \E k \in Keys : log'[n] = [x \in {k} |-> n]
    BY <1>2 DEF TradeLog
  <2>1. CASE n = Len(log) + 1
    <3>1. PICK k \in Keys : r = [x \in {k} |-> Len(log) + 1]
      BY <1>1 DEF Records
    <3>2. log'[n] = [x \in {k} |-> n]
      BY <1>4, <2>1, <3>1, Zenon
    <3>3. QED
      BY <3>2
  <2>2. CASE n \in 1 .. Len(log)
    BY <1>4, <2>2 DEF TradeLog
  <2>3. n = Len(log) + 1 \/ n \in 1 .. Len(log)
    BY <1>4
  <2>4. QED
    BY <2>1, <2>2, <2>3
<1>10. SomeLast'
  <2> SUFFICES ASSUME NEW k \in Keys, NEW m \in 0 .. Len(log')
               PROVE  \/ ~Published(log', 1 .. m, k)
                      \/ \E n \in 1 .. m : LastIn(log', 1 .. m, k, n)
    BY DEF SomeLast
  <2>1. CASE m \in 0 .. Len(log)
    <3>1. \A n \in 1 .. m : log'[n] = log[n]
      BY <1>4, <2>1
    <3>2. QED
      BY <2>1, <3>1, LastAgrees DEF SomeLast
  <2>2. CASE m = Len(log) + 1
    <3>1. CASE k \in DOMAIN r
      BY <1>4, <2>2, <3>1 DEF LastIn
    <3>2. CASE k \notin DOMAIN r
      <4>1. \A n \in 1 .. m : n \in 1 .. Len(log) \/ log'[n] = r
        BY <1>4, <2>2
      <4>2. CASE ~Published(log, 1 .. Len(log), k)
        BY <1>4, <3>2, <4>1, <4>2 DEF Published
      <4>3. ASSUME NEW n \in 1 .. Len(log), LastIn(log, 1 .. Len(log), k, n)
            PROVE  LastIn(log', 1 .. m, k, n) /\ n \in 1 .. m
        BY <1>4, <2>2, <3>2, <4>1, <4>3 DEF LastIn
      <4>4. QED
        BY <1>4, <4>2, <4>3 DEF SomeLast
    <3>3. QED
      BY <3>1, <3>2
  <2>3. m \in 0 .. Len(log) \/ m = Len(log) + 1
    BY <1>4
  <2>4. QED
    BY <2>1, <2>2, <2>3
<1>11. Filled'
  <2> SUFFICES ASSUME pc' # "start", ~gap'
               PROVE  \E m \in Nat : FilledTo(m)'
    BY DEF Filled
  <2>1. pc # "start" /\ ~gap /\ Listening
    BY <1>2, Zenon
  <2>2. PICK m \in Nat : FilledTo(m)
    BY <2>1 DEF Filled
  <2>3. wire' = Append(wire, [id |-> Len(log) + 1, rec |-> r])
    BY <1>1, <1>4, <2>1
  <2>4. /\ Len(wire') = Len(wire) + 1 /\ Len(wire) \in Nat
        /\ \A i \in 1 .. Len(wire) : wire'[i] = wire[i]
        /\ wire'[Len(wire) + 1] = [id |-> Len(log) + 1, rec |-> r]
    BY <1>4, <1>5, <2>3, Appended DEF Typed
  <2>5. /\ m + Len(wire) = Len(log) /\ \A i \in 1 .. m : log'[i] = log[i]
        /\ answered <= m /\ m <= Len(log) /\ answered' = answered
    BY <1>2, <1>4, <2>2, <2>4 DEF FilledTo, InOrder
  <2>6. InOrder(m)'
    <3>1. ASSUME NEW i \in 1 .. Len(wire')
          PROVE  wire'[i].id = m + i /\ wire'[i].rec = log'[m + i]
      <4>1. CASE i = Len(wire) + 1
        <5>1. m + i = Len(log) + 1
          BY <1>4, <2>4, <2>5, <4>1
        <5>2. QED
          BY <1>4, <2>4, <4>1, <5>1
      <4>2. CASE i \in 1 .. Len(wire)
        <5>1. wire[i].id = m + i /\ wire[i].rec = log[m + i]
          BY <2>2, <4>2 DEF FilledTo, InOrder
        <5>2. m + i \in 1 .. Len(log)
          BY <1>4, <2>4, <2>5, <4>2
        <5>3. QED
          BY <1>4, <2>4, <4>2, <5>1, <5>2
      <4>3. QED
        BY <2>4, <4>1, <4>2
    <3>2. QED
      BY <1>4, <2>4, <2>5, <3>1 DEF InOrder
  <2>7. FilledTo(m)'
    BY <1>2, <2>2, <2>5, <2>6, FilledAgrees
  <2>8. QED
    BY <2>7
<1>12. QED
  BY <1>6, <1>7, <1>8, <1>9, <1>10, <1>11

LEMMA Unmoved ==
  ASSUME TradeLog, SomeLast, UNCHANGED <<program, log>>
  PROVE  TradeLog' /\ SomeLast'
BY DEF TradeLog, SomeLast

LEMMA SnapshotKeeps ==
  ASSUME Lines, CacheInv, Snapshot
  PROVE  CacheInv'
<1> USE DEF CacheInv
<1>1. /\ pc = "start" /\ pc' = "connect"
      /\ UNCHANGED <<program, connects, log, wire, swVars>>
  BY DEF Snapshot
<1>2. wire = <<>> /\ Len(wire) = 0
  BY <1>1 DEF Idle
<1>3. gap' \in BOOLEAN
  BY DEF Snapshot, Typed
<1>4. Typed' /\ Idle' /\ Blank'
  <2>1. answered' \in 0 .. Len(log)
    BY DEF Snapshot, Typed
  <2>2. QED
    BY <1>1, <1>3, <2>1 DEF Typed, Idle, Blank, swVars
<1>5. TradeLog' /\ SomeLast'
  BY <1>1, Unmoved
<1>6. Len(log) \in Nat /\ DOMAIN log = 1 .. Len(log) /\ answered' = Len(log)
  BY DEF Snapshot, Typed
<1>7. CASE cache' = Answer /\ lastUpdateId' = Len(log)
  <2>0. PICK m \in Nat : m = Len(log)
    BY <1>6
  <2>1. InOrder(m)'
    BY <1>1, <1>2, <1>6, <2>0 DEF InOrder
  <2>2. CASE program = "depthCache"
    <3>1. cache' = [k \in Best(log, 1 .. m) |-> LastOf(log, 1 .. m, k)]
      BY <1>6, <1>7, <2>0, <2>2 DEF Answer
    <3>2. ASSUME NEW k \in Keys
          PROVE  Holds(k, m)'
      <4>1. Knows(k, m)' <=> k \in Best(log, 1 .. m)
        BY <1>1, <1>6, <2>0 DEF Knows, Published
      <4>2. CASE k \notin Best(log, 1 .. m)
        BY <3>1, <4>1, <4>2 DEF Holds
      <4>3. CASE k \in Best(log, 1 .. m)
        <5>1. Published(log, 1 .. m, k) /\ LastOf(log, 1 .. m, k) # 0
          BY <4>3 DEF Best, Book
        <5>2. PICK n \in 1 .. m : LastIn(log, 1 .. m, k, n)
          BY <1>6, <2>0, <5>1 DEF SomeLast
        <5>3. LastOf(log, 1 .. m, k) = log[n][k]
          <6>1. 1 .. m \in SUBSET Nat
            OBVIOUS
          <6>2. QED
            BY <5>2, <6>1, LastIsLastOf, Zenon
        <5>4. log'[n][k] # 0 /\ k \in DOMAIN cache' /\ cache'[k] = log'[n][k]
          BY <1>1, <3>1, <4>3, <5>1, <5>3
        <5>5. LastIn(log', 1 .. m, k, n)
          BY <1>1, <5>2
        <5>6. QED
          BY <4>1, <4>3, <5>4, <5>5 DEF Holds
      <4>4. QED
        BY <4>2, <4>3
    <3>3. FilledTo(m)'
      BY <1>1, <1>7, <2>0, <2>1, <2>2, <3>2 DEF FilledTo, BookAt
    <3>4. QED
      BY <1>4, <1>5, <1>6, <3>3 DEF Filled
  <2> DEFINE first == {n \in 1 .. m : n <= MaxTrades}
  <2>3. Part(m)' = first
    BY <1>6, <2>0 DEF Part
  <2>4. CASE program = "aggTrades"
    <3>1. cache' = [n \in first |-> n]
      BY <1>6, <1>7, <2>0, <2>4 DEF Answer
    <3>2. FilledTo(m)'
      BY <1>1, <2>1, <2>3, <2>4, <3>1 DEF FilledTo, NumbersAt
    <3>3. QED
      BY <1>4, <1>5, <1>6, <3>2 DEF Filled
  <2>5. CASE program = "tradesByTime"
    <3>1. cache' = [k \in {k \in Keys : Published(log, first, k)} |-> LastOf(log, first, k)]
      BY <1>6, <1>7, <2>0, <2>5 DEF Answer
    <3>2. PICK q \in 0 .. m : first = 1 .. q
      <4>1. CASE MaxTrades <= m
        BY <1>6, <4>1, LimitsAssumption
      <4>2. CASE m < MaxTrades
        BY <1>6, <4>2, LimitsAssumption
      <4>3. QED
        BY <1>6, <4>1, <4>2, LimitsAssumption
    <3> HIDE DEF first
    <3>3. \A k \in Keys : \/ ~Published(log, first, k)
                          \/ \E n \in first : LastIn(log, first, k, n)
      BY <1>6, <2>0, <3>2 DEF SomeLast
    <3>4. first \in SUBSET Nat
      BY <1>6, <3>2
    <3>5. ASSUME NEW k \in Keys, NEW n \in first, LastIn(log, first, k, n)
          PROVE  k \in DOMAIN cache' /\ cache'[k] = log[n][k]
      <4>1. Published(log, first, k) /\ LastOf(log, first, k) = log[n][k]
        BY <3>4, <3>5, LastIsLastOf, Zenon
      <4>2. QED
        BY <3>1, <4>1
    <3>6. TimesAt(m)' /\ SomeTrade(m)'
      BY <1>1, <2>3, <3>3, <3>5 DEF TimesAt, SomeTrade
    <3>7. FilledTo(m)'
      BY <1>1, <2>1, <2>5, <3>6 DEF FilledTo
    <3>8. QED
      BY <1>4, <1>5, <1>6, <3>7 DEF Filled
  <2>6. CASE program \notin {"depthCache", "aggTrades", "tradesByTime"}
    <3>1. FilledTo(m)'
      BY <1>1, <2>1, <2>6 DEF FilledTo
    <3>2. QED
      BY <1>4, <1>5, <1>6, <3>1 DEF Filled
  <2>7. QED
    BY <2>2, <2>4, <2>5, <2>6
<1>8. CASE /\ gap' = (gap \/ log # <<>>)
           /\ UNCHANGED <<cache, lastUpdateId>>
  <2> SUFFICES ASSUME ~gap'
               PROVE  FilledTo(0)'
    BY <1>4, <1>5 DEF Filled
  <2>1. log = <<>>
    BY <1>8, Zenon
  <2>2. /\ Len(log) = 0 /\ DOMAIN cache' = {} /\ lastUpdateId' = 0 /\ answered' = 0
        /\ Len(wire') = 0 /\ Len(log') = 0
    BY <1>1, <1>2, <1>6, <1>8, <2>1 DEF Blank
  <2>3. InOrder(0)'
    BY <2>2 DEF InOrder
  <2>4. BookAt(0)'
    <3>1. \A k : ~Published(log', 1 .. 0, k)
      BY DEF Published
    <3>2. \A k : k \notin Best(log', 1 .. 0)
      BY <3>1 DEF Best, Book
    <3>3. \A k \in Keys : ~Knows(k, 0)'
      BY <2>2, <3>1, <3>2 DEF Knows, Published
    <3>4. QED
      BY <2>2, <3>3 DEF BookAt, Holds
  <2>5. NumbersAt(0)' /\ TimesAt(0)' /\ SomeTrade(0)'
    BY DEF NumbersAt, TimesAt, SomeTrade, Part, Published
  <2>6. QED
    BY <2>2, <2>3, <2>4, <2>5 DEF FilledTo
<1>9. QED
  BY <1>7, <1>8 DEF Snapshot

\* What the program does without touching its cache or its records.
LEMMA OtherKeeps ==
  ASSUME CacheInv, pc' = "start" <=> pc = "start",
         pc' \in {"start", "connect", "loop"}, Idle',
         UNCHANGED <<program, log, cache, lastUpdateId, answered>>,
         wire' \in Seq(Message), gap' \in BOOLEAN,
         ~gap' => ~gap /\ wire' = wire
  PROVE  CacheInv'
<1> USE DEF CacheInv
<1>1. Typed' /\ Blank'
  BY DEF Typed, Blank
<1>2. TradeLog' /\ SomeLast'
  BY Unmoved
<1>3. Filled'
  <2> SUFFICES ASSUME pc' # "start", ~gap'
               PROVE  \E m \in Nat : FilledTo(m)'
    BY DEF Filled
  <2>1. PICK m \in Nat : FilledTo(m)
    BY DEF Filled
  <2>2. InOrder(m)' /\ answered <= m /\ m <= Len(log)
    BY <2>1 DEF FilledTo, InOrder, Typed
  <2>3. FilledTo(m)'
    BY <2>1, <2>2, FilledAgrees
  <2>4. QED
    BY <2>3
<1>4. QED
  BY <1>1, <1>2, <1>3

-----------------------------------------------------------------------------
(* A record is taken into the cache.                                       *)

LEMMA SetCache ==
  ASSUME NEW r, cache' = Set(cache, r)
  PROVE  /\ DOMAIN cache' = (DOMAIN cache \cup DOMAIN r) \ {j \in DOMAIN r : r[j] = 0}
         /\ \A j \in DOMAIN cache' :
              cache'[j] = IF j \in DOMAIN r THEN r[j] ELSE cache[j]
BY DEF Set, Over

LEMMA SetBook ==
  ASSUME Typed, SomeLast, NEW m \in Nat, answered <= m, m + 1 <= Len(log), BookAt(m),
         cache' = Set(cache, log[m + 1]), UNCHANGED <<log, answered>>
  PROVE  BookAt(m + 1)'
<1> DEFINE r == log[m + 1]
<1>1. /\ DOMAIN cache' = (DOMAIN cache \cup DOMAIN r) \ {j \in DOMAIN r : r[j] = 0}
      /\ \A j \in DOMAIN cache' :
           cache'[j] = IF j \in DOMAIN r THEN r[j] ELSE cache[j]
  BY SetCache
<1>2. /\ answered \in Nat /\ m + 1 \in answered + 1 .. m + 1 /\ m + 1 \in 1 .. m + 1
      /\ \A n \in 1 .. m + 1 : n \in 1 .. m \/ n = m + 1
      /\ \A n \in answered + 1 .. m + 1 : n \in answered + 1 .. m \/ n = m + 1
      /\ answered + 1 .. m \subseteq answered + 1 .. m + 1
      /\ \A n \in 1 .. m : n \in 1 .. m + 1
  BY DEF Typed
<1>3. \A k \in Keys : Knows(k, m)' <=> Knows(k, m)
  BY KnowsAgrees
<1>4. Best(log', 1 .. answered') = Best(log, 1 .. answered)
  OBVIOUS
<1> SUFFICES ASSUME NEW k \in Keys
             PROVE  Holds(k, m + 1)'
  BY DEF BookAt
<1>5. CASE k \in DOMAIN r
  <2>1. LastIn(log', 1 .. m + 1, k, m + 1)
    BY <1>2, <1>5 DEF LastIn
  <2>2. Knows(k, m + 1)'
    BY <1>2, <1>5 DEF Knows, Published
  <2>3. r[k] = 0 => k \notin DOMAIN cache'
    BY <1>1, <1>5
  <2>4. r[k] # 0 => k \in DOMAIN cache' /\ cache'[k] = r[k]
    BY <1>1, <1>5
  <2>5. log'[m + 1] = r
    OBVIOUS
  <2>6. QED
    BY <1>2, <2>1, <2>2, <2>3, <2>4, <2>5 DEF Holds
<1>6. CASE k \notin DOMAIN r
  <2>1. k \in DOMAIN cache' <=> k \in DOMAIN cache
    BY <1>1, <1>6
  <2>2. k \in DOMAIN cache' => cache'[k] = cache[k]
    BY <1>1, <1>6
  <2>3. Knows(k, m + 1)' <=> Knows(k, m)
    <3>1. Published(log', answered + 1 .. m + 1, k) <=> Published(log, answered + 1 .. m, k)
      BY <1>2, <1>6 DEF Published
    <3>2. QED
      BY <3>1 DEF Knows
  <2>4. CASE ~Knows(k, m) /\ k \notin DOMAIN cache
    BY <2>1, <2>3, <2>4 DEF Holds
  <2>5. ASSUME NEW n \in 1 .. m, LastIn(log, 1 .. m, k, n)
        PROVE  LastIn(log', 1 .. m + 1, k, n) /\ n \in 1 .. m + 1
    BY <1>2, <1>6, <2>5 DEF LastIn
  <2>6. Holds(k, m)
    BY DEF BookAt
  <2>7. QED
    BY <2>1, <2>2, <2>3, <2>4, <2>5, <2>6 DEF Holds
<1>7. QED
  BY <1>5, <1>6

\* The trade of number m + 1 is heard of, and no other with it.
LEMMA NextPart ==
  ASSUME Typed, NEW m \in Nat, answered <= m
  PROVE  Part(m + 1) = Part(m) \cup {m + 1} /\ \A n \in Part(m) : n \in Nat /\ m + 1 > n
<1>1. answered \in Nat
  BY DEF Typed
<1>2. QED
  BY <1>1, LimitsAssumption DEF Part

LEMMA SetTimes ==
  ASSUME Typed, TradeLog, program = "tradesByTime",
         NEW m \in Nat, answered <= m, m + 1 <= Len(log), TimesAt(m), SomeTrade(m),
         cache' = Set(cache, log[m + 1]), UNCHANGED <<log, answered>>
  PROVE  TimesAt(m + 1)' /\ SomeTrade(m + 1)'
<1>1. PICK j \in Keys : log[m + 1] = [x \in {j} |-> m + 1]
  <2>1. m + 1 \in 1 .. Len(log)
    BY DEF Typed
  <2>2. QED
    BY <2>1, Zenon DEF TradeLog
<1>2. /\ DOMAIN log[m + 1] = {j} /\ log[m + 1][j] = m + 1 /\ m + 1 # 0
      /\ \A k : k \in DOMAIN log[m + 1] => k = j
  BY <1>1
<1>3. /\ j \in DOMAIN cache' /\ cache'[j] = m + 1
      /\ \A k \in DOMAIN cache : k # j => k \in DOMAIN cache' /\ cache'[k] = cache[k]
  <2>1. {i \in DOMAIN log[m + 1] : log[m + 1][i] = 0} = {}
    BY <1>2
  <2>2. DOMAIN cache' = DOMAIN cache \cup {j}
    <3>1. DOMAIN cache' = (DOMAIN cache \cup DOMAIN log[m + 1])
                            \ {i \in DOMAIN log[m + 1] : log[m + 1][i] = 0}
      BY SetCache
    <3>2. QED
      BY <1>2, <2>1, <3>1
  <2>3. \A k \in DOMAIN cache' :
          cache'[k] = IF k \in DOMAIN log[m + 1] THEN log[m + 1][k] ELSE cache[k]
    BY SetCache
  <2>4. QED
    BY <1>2, <2>2, <2>3
<1> DEFINE P == Part(m)
           Q == Part(m + 1)
<1>4. Q = P \cup {m + 1} /\ \A n \in P : n \in Nat /\ m + 1 > n
  BY NextPart
<1>5. Part(m + 1)' = Q
  BY DEF Part
<1>6. \A k \in Keys : \A n \in P : LastIn(log, P, k, n) => k \in DOMAIN cache /\ cache[k] = log[n][k]
  BY DEF TimesAt
<1>7. \A k \in Keys : ~Published(log, P, k) \/ \E n \in P : LastIn(log, P, k, n)
  BY DEF SomeTrade
<1> HIDE DEF P, Q
<1>8. ASSUME NEW k \in Keys, NEW n \in Q, LastIn(log, Q, k, n)
      PROVE  k \in DOMAIN cache' /\ cache'[k] = log[n][k]
  <2>1. CASE k = j
    <3>1. n = m + 1
      BY <1>2, <1>4, <1>8, <2>1 DEF LastIn
    <3>2. QED
      BY <1>2, <1>3, <2>1, <3>1
  <2>2. CASE k # j
    <3>1. n \in P
      BY <1>2, <1>4, <1>8, <2>2 DEF LastIn
    <3>2. LastIn(log, P, k, n)
      BY <1>4, <1>8, <3>1 DEF LastIn
    <3>3. QED
      BY <1>3, <1>6, <2>2, <3>1, <3>2
  <2>3. QED
    BY <2>1, <2>2
<1>9. ASSUME NEW k \in Keys
      PROVE  ~Published(log, Q, k) \/ \E n \in Q : LastIn(log, Q, k, n)
  <2>1. CASE k = j
    <3>1. LastIn(log, Q, j, m + 1)
      <4>1. \A i \in Q : ~(i > m + 1)
        BY <1>4
      <4>2. QED
        BY <1>2, <1>4, <4>1 DEF LastIn
    <3>2. QED
      BY <1>4, <2>1, <3>1
  <2>2. CASE k # j /\ ~Published(log, P, k)
    BY <1>2, <1>4, <2>2 DEF Published
  <2>3. ASSUME k # j, NEW n \in P, LastIn(log, P, k, n)
        PROVE  n \in Q /\ LastIn(log, Q, k, n)
    BY <1>2, <1>4, <2>3 DEF LastIn
  <2>4. QED
    BY <1>7, <2>1, <2>2, <2>3
<1>10. QED
  BY <1>5, <1>8, <1>9 DEF TimesAt, SomeTrade

LEMMA ReceiveKeeps ==
  ASSUME Lines, RightCallback, CacheInv, NEW w \in Addresses, Receive(w)
  PROVE  CacheInv'
<1> USE DEF CacheInv
<1> DEFINE h == Head(wire)
<1>1. /\ pc = "loop" /\ w \in up /\ wire # <<>> /\ wire' = Tail(wire)
      /\ gap' = (gap \/ (program = "depthCache" /\ h.id > MaxInt))
      /\ UNCHANGED <<program, pc, connects, log, answered, swVars>>
  BY DEF Receive
<1>2. OnData(h.id, h.rec)
  <2>1. Receiver(w) = line[w]
    BY <1>1 DEF Lines, RightCallback
  <2>2. QED
    BY <2>1 DEF Receive
<1>3. /\ wire' \in Seq(Message) /\ Len(wire) \in Nat \ {0}
      /\ Len(wire') = Len(wire) - 1
      /\ \A i \in 1 .. Len(wire) - 1 : wire'[i] = wire[i + 1]
      /\ h = wire[1]
  BY <1>1, Shortened DEF Typed
<1>4. Typed'
  <2>1. gap' \in BOOLEAN
    BY <1>1
  <2>2. QED
    BY <1>1, <1>3, <2>1 DEF Typed
<1>5. Idle' /\ Blank' /\ TradeLog' /\ SomeLast'
  BY <1>1, Unmoved DEF Idle, Blank
<1>6. Filled'
  <2> SUFFICES ASSUME ~gap'
               PROVE  \E m \in Nat : FilledTo(m)'
    BY DEF Filled
  <2>1. ~gap /\ (program = "depthCache" => ~(h.id > MaxInt))
    BY <1>1, Zenon
  <2>2. PICK m \in Nat : FilledTo(m)
    BY <1>1, <2>1 DEF Filled
  <2>3. /\ h.id = m + 1 /\ h.rec = log[m + 1]
        /\ m + Len(wire) = Len(log) /\ answered <= m
    BY <1>3, <2>2 DEF FilledTo, InOrder
  <2>4. Len(log) \in Nat /\ m + 1 <= Len(log) /\ answered <= m + 1
    BY <1>3, <2>3 DEF Typed
  <2>5. InOrder(m + 1)'
    <3>1. ASSUME NEW i \in 1 .. Len(wire')
          PROVE  wire'[i].id = m + 1 + i /\ wire'[i].rec = log'[m + 1 + i]
      <4>1. i + 1 \in 1 .. Len(wire) /\ wire'[i] = wire[i + 1]
            /\ m + (i + 1) = m + 1 + i
        BY <1>3
      <4>2. wire[i + 1].id = m + (i + 1) /\ wire[i + 1].rec = log[m + (i + 1)]
        BY <2>2, <4>1 DEF FilledTo, InOrder
      <4>3. QED
        BY <1>1, <4>1, <4>2
    <3>2. m + 1 + Len(wire') = Len(log')
      BY <1>1, <1>3, <2>3
    <3>3. QED
      BY <1>1, <2>4, <3>1, <3>2 DEF InOrder
  <2>6. CASE program = "depthCache"
    <3>1. BookAt(m) /\ lastUpdateId = m
      BY <2>2, <2>6 DEF FilledTo
    <3>2. h.id > lastUpdateId /\ h.id <= MaxInt
      BY <2>1, <2>3, <2>6, <3>1, BoundsAssumption
    <3>3. cache' = Set(cache, log[m + 1]) /\ lastUpdateId' = m + 1
      BY <1>2, <2>3, <2>6, <3>2 DEF OnData
    <3>4. BookAt(m + 1)'
      BY <1>1, <2>3, <2>4, <3>1, <3>3, SetBook
    <3>5. FilledTo(m + 1)'
      BY <1>1, <2>5, <2>6, <3>3, <3>4 DEF FilledTo
    <3>6. QED
      BY <3>5
  <2>7. CASE program = "tradesByTime"
    <3>1. TimesAt(m) /\ SomeTrade(m)
      BY <2>2, <2>7 DEF FilledTo
    <3>2. cache' = Set(cache, log[m + 1])
      BY <1>2, <2>3, <2>7 DEF OnData, Put
    <3>3. TimesAt(m + 1)' /\ SomeTrade(m + 1)'
      BY <1>1, <2>3, <2>4, <2>7, <3>1, <3>2, SetTimes
    <3>4. FilledTo(m + 1)'
      BY <1>1, <2>5, <2>7, <3>3 DEF FilledTo
    <3>5. QED
      BY <3>4
  <2>8. CASE program = "aggTrades"
    <3>1. NumbersAt(m)
      BY <2>2, <2>8 DEF FilledTo
    <3>2. cache' = With(cache, m + 1, m + 1)
      BY <1>2, <2>3, <2>8 DEF OnData, Put
    <3>3. /\ DOMAIN cache' = DOMAIN cache \cup {m + 1}
          /\ cache'[m + 1] = m + 1
          /\ \A n \in DOMAIN cache : n # m + 1 => cache'[n] = cache[n]
      BY <3>2 DEF With
    <3>4. Part(m + 1)' = Part(m) \cup {m + 1} /\ \A n \in Part(m) : n # m + 1
      <4>1. Part(m + 1)' = Part(m + 1)
        BY <1>1 DEF Part
      <4>2. QED
        BY <2>3, <4>1, NextPart
    <3>5. FilledTo(m + 1)'
      BY <1>1, <2>5, <2>8, <3>1, <3>3, <3>4 DEF FilledTo, NumbersAt
    <3>6. QED
      BY <3>5
  <2>9. CASE program \notin {"depthCache", "tradesByTime", "aggTrades"}
    <3>1. FilledTo(m + 1)'
      BY <1>1, <2>5, <2>9 DEF FilledTo
    <3>2. QED
      BY <3>1
  <2>10. QED
    BY <2>6, <2>7, <2>8, <2>9
<1>7. QED
  BY <1>4, <1>5, <1>6

LEMMA CacheInit == Init => CacheInv
<1> SUFFICES ASSUME Init PROVE CacheInv
  OBVIOUS
<1>1. /\ pc = "start" /\ log = <<>> /\ wire = <<>> /\ Len(log) = 0
      /\ DOMAIN cache = {} /\ lastUpdateId = 0 /\ gap = FALSE /\ answered = 0
      /\ program \in Programs /\ line = [w \in Addresses |-> Null]
  BY DEF Init, SwInit
<1>2. Typed /\ Idle /\ Blank /\ Filled
  <2>1. Typed
    <3>1. <<>> \in Seq(Rec) /\ <<>> \in Seq(Message) /\ answered \in 0 .. Len(log)
      BY <1>1
    <3>2. QED
      BY <1>1, <3>1, Zenon DEF Typed
  <2>2. Idle
    BY <1>1 DEF Idle
  <2>3. Blank /\ Filled
    BY <1>1 DEF Blank, Filled
  <2>4. QED
    BY <2>1, <2>2, <2>3
<1>3. TradeLog /\ SomeLast
  BY <1>1 DEF TradeLog, SomeLast, Published
<1>4. QED
  BY <1>2, <1>3 DEF CacheInv

LEMMA CacheStep ==
  ASSUME ConnInv, CacheInv, [Next]_vars
  PROVE  CacheInv'
<1>1. Lines /\ RightCallback
  BY DEF ConnInv
<1>2. Typed /\ Idle
  BY DEF CacheInv
<1>3. CASE Connect
  <2>1. pc' = "loop" /\ pc # "start"
        /\ UNCHANGED <<program, log, wire, cache, lastUpdateId, answered, gap>>
    BY <1>3 DEF Connect
  <2>2. QED
    BY <1>2, <2>1, OtherKeeps DEF Typed, Idle
<1>4. ASSUME NEW w \in Addresses, Opens(w)
      PROVE  CacheInv'
  <2>1. pc = "loop" /\ pc' = "loop"
        /\ UNCHANGED <<program, log, wire, cache, lastUpdateId, answered, gap>>
    BY <1>4 DEF Opens
  <2>2. QED
    BY <1>2, <2>1, OtherKeeps DEF Typed, Idle
<1>5. ASSUME NEW w \in Addresses, Ends(w)
      PROVE  CacheInv'
  <2>1. /\ pc = "loop" /\ pc' = "loop"
        /\ UNCHANGED <<program, log, cache, lastUpdateId, answered>>
        /\ wire' = IF line[w] # Public THEN <<>> ELSE wire
        /\ gap' = (gap \/ (line[w] # Public /\ wire # <<>>))
    BY <1>5 DEF Ends
  <2>2. wire' \in Seq(Message) /\ gap' \in BOOLEAN
    BY <1>2, <2>1 DEF Typed
  <2>3. ~gap' => ~gap /\ (line[w] # Public => wire = <<>>)
    BY <2>1, Zenon
  <2>4. QED
    BY <2>1, <2>2, <2>3, OtherKeeps DEF Idle
<1>6. ASSUME NEW w \in Addresses, ReceiveTorn(w)
      PROVE  CacheInv'
  <2>1. /\ pc = "loop" /\ pc' = "loop" /\ gap' = TRUE
        /\ UNCHANGED <<program, log, answered, swVars>>
        /\ wire # <<>> /\ wire' = Tail(wire)
    BY <1>6 DEF ReceiveTorn
  <2>2. wire' \in Seq(Message)
    BY <1>2, <2>1, Shortened DEF Typed
  <2>3. TradeLog' /\ SomeLast'
    BY <2>1, Unmoved DEF CacheInv
  <2>4. QED
    BY <1>2, <2>1, <2>2, <2>3 DEF CacheInv, Typed, Idle, Blank, Filled
<1>7. CASE Send \/ UNCHANGED vars
  <2>1. /\ UNCHANGED exVars /\ line' = line
    BY <1>7 DEF Send, send_pionex_lws_msg, vars, swVars
  <2>2. QED
    BY <1>2, <2>1, OtherKeeps DEF Typed, Idle, exVars
<1>8. QED
  BY <1>1, <1>3, <1>4, <1>5, <1>6, <1>7, PublishKeeps, SnapshotKeeps,
     ReceiveKeeps DEF Next

LEMMA CachesFollow == Spec => [](Lines /\ CacheInv)
<1>1. ConnInv => Lines
  BY DEF ConnInv
<1>2. QED
  BY <1>1, ConnInit, ConnStep, CacheInit, CacheStep, PTL DEF Spec

\* Whatever is published, and however often the program connects: while
\* nothing was missed, torn or beyond asInt(), the depth cache is the book as
\* far as the program was told of its levels.
THEOREM CacheIsBook == Spec => []DepthIsBook
<1>1. ASSUME CacheInv, program = "depthCache", Current, NEW k \in Keys
      PROVE  IF k \in Book(log, DOMAIN log) /\ Told(k)
             THEN k \in DOMAIN cache /\ cache[k] = LastOf(log, DOMAIN log, k)
             ELSE k \notin DOMAIN cache
  <2>1. PICK m \in Nat : FilledTo(m)
    BY <1>1 DEF CacheInv, Filled, Current
  <2>2. m = Len(log) /\ DOMAIN log = 1 .. m
    BY <1>1, <2>1 DEF FilledTo, InOrder, Current, CacheInv, Typed
  <2>3. Holds(k, m) /\ (Knows(k, m) <=> Told(k))
    BY <1>1, <2>1, <2>2 DEF FilledTo, BookAt, Knows, Told
  <2>4. ASSUME NEW n \in 1 .. m, LastIn(log, 1 .. m, k, n)
        PROVE  Published(log, 1 .. m, k) /\ LastOf(log, 1 .. m, k) = log[n][k]
    BY <2>4, LastIsLastOf
  <2>5. QED
    BY <2>2, <2>3, <2>4 DEF Holds, Book
<1>2. CacheInv => DepthIsBook
  BY <1>1 DEF DepthIsBook
<1>3. QED
  BY <1>2, CachesFollow, PTL

\* Every trade that reached the program is in its cache, or was replaced by a
\* later one of the same time in example.cpp, which keeps trades by time.
THEOREM TradesAreKept == Spec => []TradesKept
<1>1. ASSUME CacheInv, program \in {"aggTrades", "tradesByTime"}, Current,
             NEW n \in Heard
      PROVE  \/ \E k \in DOMAIN cache : cache[k] = n
             \/ /\ program = "tradesByTime"
                /\ \E i \in Heard : i > n /\ DOMAIN log[i] = DOMAIN log[n]
  <2>1. PICK m \in Nat : FilledTo(m)
    BY <1>1 DEF CacheInv, Filled, Current
  <2>2. m = Len(log) /\ DOMAIN log = 1 .. m
    BY <1>1, <2>1 DEF FilledTo, InOrder, Current, CacheInv, Typed
  <2>3. Part(m) = Heard /\ n \in Part(m) /\ n \in 1 .. Len(log)
    BY <2>2 DEF Part, Heard
  <2>4. CASE program = "aggTrades"
    BY <2>1, <2>3, <2>4 DEF FilledTo, NumbersAt
  <2>5. CASE program = "tradesByTime"
    <3>1. PICK k \in Keys : log[n] = [x \in {k} |-> n]
      BY <1>1, <2>3, <2>5 DEF CacheInv, TradeLog
    <3>2. Published(log, Part(m), k)
      BY <2>3, <3>1 DEF Published
    <3>3. PICK i \in Part(m) : LastIn(log, Part(m), k, i)
      BY <2>1, <2>5, <3>2 DEF FilledTo, SomeTrade
    <3>4. k \in DOMAIN cache /\ cache[k] = log[i][k]
      BY <2>1, <2>5, <3>3 DEF FilledTo, TimesAt
    <3>5. i \in 1 .. Len(log) /\ i \in Heard
      BY <2>2, <2>3 DEF Part
    <3>6. PICK j \in Keys : log[i] = [x \in {j} |-> i]
      BY <1>1, <2>5, <3>5 DEF CacheInv, TradeLog
    <3>7. j = k /\ ~(n > i)
      BY <2>3, <3>1, <3>3, <3>6 DEF LastIn
    <3>8. CASE i = n
      BY <3>1, <3>4, <3>8
    <3>9. CASE i # n
      <4>1. i > n
        BY <2>3, <3>5, <3>7, <3>9
      <4>2. QED
        BY <2>5, <3>1, <3>5, <3>6, <3>7, <4>1
    <3>10. QED
      BY <3>8, <3>9
  <2>6. QED
    BY <1>1, <2>4, <2>5
<1>2. CacheInv => TradesKept
  BY <1>1 DEF TradesKept
<1>3. QED
  BY <1>2, CachesFollow, PTL
=============================================================================
