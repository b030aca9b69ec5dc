---------------------------- MODULE ExampleCaches ---------------------------
(***************************************************************************)
(* The example programs that copy the exchange's data (example_depthCache, *)
(* example_aggTrades, example_userStream and example.cpp, which does all   *)
(* three): main() fills a map from one REST answer, connects a stream, and *)
(* from then on the stream's callback updates the map.  The answer has no  *)
(* more than main() asks for: the best levels of the book, or the first of *)
(* all trades there ever were.                                             *)
(* Messages come through simple_websocket's event loop.                    *)
(*                                                                         *)
(* Whatever the exchange publishes between the answer and the connection,  *)
(* or while the connection is down, is missed, and the program is not told.*)
(***************************************************************************)
EXTENDS SimpleWebsocket, Sequences, FiniteSets

CONSTANTS
  Programs,     \* the programs to look at, see Feed
  Keys,         \* price levels (the greater the better), assets or time stamps
  MaxLevels,    \* the levels get_depth asks for (20)
  MaxTrades,    \* the trades get_aggTrades asks for, from id 0 (10)
  MaxPublished, \* bound: what the exchange publishes
  MaxInt,       \* the largest update id that asInt() returns
  MaxConnects   \* bound: connections a program makes

ASSUME LimitsAssumption ==
  Keys \subseteq Nat /\ MaxLevels \in Nat /\ MaxTrades \in Nat
ASSUME BoundsAssumption ==
  MaxPublished \in Nat /\ MaxInt \in Nat /\ MaxConnects \in Nat

\* The endpoints each program connects.
Feed == [depthCache |-> {"depth"}, aggTrades |-> {"trades"}, tradesByTime |-> {"trades"},
         userStream |-> {"user"}, pionex |-> {"pub", "depth"}]

ASSUME FeedAssumption ==
  /\ Programs \subseteq DOMAIN Feed /\ Null \notin Endpoints
  /\ \A p \in Programs : Feed[p] \subseteq Endpoints

VARIABLES
  program,
  pc,            \* "start", "connect", "loop"
  connects,      \* connect calls so far
  log,           \* what the exchange has published
  wire,          \* what is on its way to the program
  cache,         \* the program's map
  lastUpdateId,
  answered,      \* history: what had been published when main() asked
  gap            \* history: something after the answer was missed or torn

exVars == <<program, pc, connects, log, wire, cache, lastUpdateId,
            answered, gap>>
vars == <<exVars, swVars>>

Init ==
  /\ program \in Programs
  /\ pc = "start" /\ connects = 0
  /\ log = <<>> /\ wire = <<>>
  /\ cache = [k \in {} |-> 0]
  /\ lastUpdateId = 0 /\ answered = 0
  /\ gap = FALSE
  /\ SwInit

-----------------------------------------------------------------------------
(* The exchange.  A record changes the levels of the keys in its domain:   *)
(* in a depth update a quantity of 0 deletes the level, an account has two *)
(* amounts per asset, and a trade, known by its number, has a time.        *)

Amounts == 0 .. 2

Records ==
  CASE program = "depthCache" ->
         UNION {[D -> Amounts] : D \in {{k} : k \in Keys} \cup {Keys}}
    [] program = "userStream" ->
         UNION {[{k} -> [free : {1, 2}, locked : {1, 2}]] : k \in Keys}
    [] OTHER -> {[x \in {k} |-> Len(log) + 1] : k \in Keys}

Listening == \E w \in up : line[w] \in Feed[program] \ {Public}

Publish ==
  /\ program # "pionex" /\ Len(log) < MaxPublished
  /\ \E r \in Records :
       /\ log' = Append(log, r)
       /\ wire' = IF Listening THEN Append(wire, [id |-> Len(log'), rec |-> r])
                                ELSE wire
  /\ gap' = (gap \/ (pc # "start" /\ ~Listening))
  /\ UNCHANGED <<program, pc, connects, cache, lastUpdateId, answered, swVars>>

-----------------------------------------------------------------------------
(* What main() and the callbacks make of a record.                         *)

\* What r says, and c where r says nothing.
Over(r, c) ==
  [k \in DOMAIN r \cup DOMAIN c |-> IF k \in DOMAIN r THEN r[k] ELSE c[k]]

\* A slip: a level of quantity 0 is kept.
SetKeepsZero(c, r) == Over(r, c)

\* depthCache[...][price] = qty, or erase(price) when the quantity is 0.
Set(c, r) ==
  LET erased == {k \in DOMAIN r : r[k] = 0}
  IN  [k \in (DOMAIN c \cup DOMAIN r) \ erased |-> Over(r, c)[k]]

\* A slip: trades are kept by their time in every program.
PutByTime(c, r, id) == Set(c, r)

\* aggTradeCache[...] by the trade's number, and in example.cpp by its time.
Put(c, r, id) ==
  IF program = "aggTrades" THEN With(c, id, id) ELSE Set(c, r)

\* The stream's free balance is stored as locked, too.
PutBalance(c, r) ==
  Over([k \in DOMAIN r |-> [free |-> r[k].free, locked |-> r[k].free]], c)

\* ws_depth_onData (asInt() throws on an id above MaxInt, and event_cb drops
\* the message), ws_aggTrade_OnData, ws_userStream_OnData.
OnData(id, r) ==
  CASE program = "depthCache" ->
         IF id > lastUpdateId /\ id <= MaxInt
         THEN cache' = Set(cache, r) /\ lastUpdateId' = id
         ELSE UNCHANGED <<cache, lastUpdateId>>
    [] program = "userStream" ->
         cache' = PutBalance(cache, r) /\ UNCHANGED lastUpdateId
    [] OTHER -> cache' = Put(cache, r, id) /\ UNCHANGED lastUpdateId

\* What the records of L that are numbered in N say last of a key.
Published(L, N, k) == \E n \in N : k \in DOMAIN L[n]

LastOf(L, N, k) == L[CHOOSE n \in N :
                       /\ k \in DOMAIN L[n]
                       /\ \A i \in N : i > n => k \notin DOMAIN L[i]][k]

\* The book they make, and the best of its levels.
Book(L, N) == {k \in Keys : Published(L, N, k) /\ LastOf(L, N, k) # 0}

Best(L, N) ==
  {k \in Book(L, N) : Cardinality({j \in Book(L, N) : j > k}) < MaxLevels}

\* The trades that are in the program's messages: MaxTrades from the first
\* there was, and those after its answer.
Heard == {n \in DOMAIN log : n <= MaxTrades \/ n > answered}

\* The map that main() makes of a REST answer: the first trades there were, in
\* example.cpp by their time, the best levels of the book, or the balances.
Answer ==
  LET first == {n \in DOMAIN log : n <= MaxTrades}
      last(K, N) == [k \in K |-> LastOf(log, N, k)]
  IN  CASE program = "aggTrades" -> [n \in first |-> n]
        [] program = "tradesByTime" ->
             last({k \in Keys : Published(log, first, k)}, first)
        [] program = "depthCache" -> last(Best(log, DOMAIN log), DOMAIN log)
        [] OTHER -> last({k \in Keys : Published(log, DOMAIN log, k)}, DOMAIN log)

\* main() up to init(): the map is filled from the answer, which a failed
\* call leaves empty without main() noticing.
Snapshot ==
  /\ pc = "start"
  /\ pc' = "connect"
  /\ answered' = Len(log)
  /\ \/ /\ cache' = Answer
        /\ lastUpdateId' = Len(log)
        /\ program = "depthCache" => Len(log) <= MaxInt
        /\ UNCHANGED gap
     \/ /\ gap' = (gap \/ log # <<>>)
        /\ UNCHANGED <<cache, lastUpdateId>>
  /\ UNCHANGED <<program, connects, log, wire, swVars>>

\* main() connects an endpoint; a Pionex program may connect again later.
Connect ==
  /\ pc \in {"connect", "loop"} /\ connects < MaxConnects
  /\ program # "pionex" => connects = 0
  /\ connects' = connects + 1
  /\ \E e \in Feed[program] :
       ConnectFails(e) \/ \E w \in Addresses : ConnectStarts(e, w)
  /\ pc' = "loop"
  /\ UNCHANGED <<program, log, wire, cache, lastUpdateId, answered, gap>>

-----------------------------------------------------------------------------
(* The event loop: lws_service calls event_cb.                             *)

Opens(w) ==
  /\ pc = "loop" /\ Established(w)
  /\ UNCHANGED <<program, pc, connects, log, wire, cache, lastUpdateId, answered, gap>>

Ends(w) ==
  /\ pc = "loop" /\ Closed(w)
  /\ wire' = IF line[w] # Public THEN <<>> ELSE wire
  /\ gap' = (gap \/ (line[w] # Public /\ wire # <<>>))
  /\ UNCHANGED <<program, pc, connects, log, cache, lastUpdateId, answered>>

\* A whole message.
Receive(w) ==
  /\ pc = "loop" /\ w \in up /\ line[w] # Public /\ wire # <<>>
  /\ wire' = Tail(wire)
  /\ IF Receiver(w) = line[w] THEN OnData(Head(wire).id, Head(wire).rec)
                              ELSE UNCHANGED <<cache, lastUpdateId>>
  /\ gap' = (gap \/ (program = "depthCache" /\ Head(wire).id > MaxInt))
  /\ UNCHANGED <<program, pc, connects, log, answered, swVars>>

\* A message larger than the receive buffer (a trade never is) comes in pieces
\* that are parsed one by one.  Of the first the parser keeps what it has read,
\* and an amount that was cut off counts as 0; the other pieces are no
\* documents, their update id is 0, and nothing is done about them.
Nothing == IF program = "userStream" THEN [free |-> 0, locked |-> 0] ELSE 0

ReceiveTorn(w) ==
  /\ pc = "loop" /\ w \in up /\ line[w] # Public /\ wire # <<>>
  /\ program \in {"depthCache", "userStream"}
  /\ wire' = Tail(wire)
  /\ LET r == Head(wire).rec IN
       \E D \in SUBSET DOMAIN r : \E cut \in DOMAIN r :
         /\ D = DOMAIN r => cut \in D
         /\ OnData(Head(wire).id, [k \in D |-> IF k = cut THEN Nothing ELSE r[k]])
  /\ gap' = TRUE
  /\ UNCHANGED <<program, pc, connects, log, answered, swVars>>

Send == pc = "loop" /\ send_pionex_lws_msg /\ UNCHANGED exVars

Next ==
  \/ Publish \/ Snapshot \/ Connect \/ Send
  \/ \E w \in Addresses : Opens(w) \/ Ends(w) \/ Receive(w) \/ ReceiveTorn(w)

Spec == Init /\ [][Next]_vars

-----------------------------------------------------------------------------
Current == pc = "loop" /\ ~gap /\ wire = <<>>

\* Of a level the program has been told if it was among the best when it
\* asked, or if a record has named it since.
Told(k) ==
  \/ k \in Best(log, 1 .. answered)
  \/ Published(log, answered + 1 .. Len(log), k)

\* Unless an update was missed, torn or beyond what asInt() returns, the
\* depth cache holds the exchange's levels and no other, but for those levels
\* that were below the best MaxLevels when the program asked and have not
\* changed since: as better ones go, the cache has holes where the book has
\* none.
DepthIsBook ==
  program = "depthCache" /\ Current =>
    \A k \in Keys :
      IF k \in Book(log, DOMAIN log) /\ Told(k)
      THEN k \in DOMAIN cache /\ cache[k] = LastOf(log, DOMAIN log, k)
      ELSE k \notin DOMAIN cache

\* A trade that reached the program is in its cache (those between the first
\* MaxTrades and its question are in no message); example.cpp, which keeps
\* trades by their time, loses those followed by another of the same time.
TradesKept ==
  program \in {"aggTrades", "tradesByTime"} /\ Current =>
    \A n \in Heard :
      \/ \E k \in DOMAIN cache : cache[k] = n
      \/ /\ program = "tradesByTime"
         /\ \E i \in Heard : i > n /\ DOMAIN log[i] = DOMAIN log[n]

\* The locked balance shown (example_userStream.cpp:48) is the locked balance.
LockedAsReported ==
  program = "userStream" /\ Current =>
    \A k \in DOMAIN cache : cache[k].locked = LastOf(log, DOMAIN log, k).locked
=============================================================================
