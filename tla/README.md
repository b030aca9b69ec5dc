# TLA+ verification of MyQuantTrader

The program under `src/PioNex/FastAPI` is a C++ library for crypto exchanges:
REST clients (Binance, Pionex, OKX) and streaming clients (Boost.Beast and
libwebsockets) that trading programs embed, with the JSON and decimal libraries
every order goes through. These modules model it, TLC checks them on small
instances, and TLAPS proves the most important properties for every instance.

All paths below are relative to `src/PioNex/FastAPI/src` unless they say
otherwise.

## 1. Inventory

| Component | Code | State | Operations | Interacts with | What is hard | What makes it correct |
|---|---|---|---|---|---|---|
| WebSocket client | `WebSocketSSLClient.h` | `ws_`, `stop_`, `buffer_`, the outstanding operations | Connect, Send, Close, Reconnect; the handlers OnResolved, OnConnected, OnSSLHandshake, OnReady, OnRead | the io thread runs its handlers; any thread calls Send and Close; calls the api object | a chain of callbacks nobody supervises: errors of several operations, in any order, and Sends at the wrong moment | the chain never ends and never forks; it recovers; a closed client stays closed; Boost.Beast's rules on overlapping operations are kept |
| WSClient api | `base_websocket.h` 90-149 | `m_conn_num`, `cb`, `m_OnReconn` | OnConnected, OnDataReady, OnReconnect | called by the client on the io thread; detaches a thread that sends | the thread runs when it likes | as above, with its Sends |
| Worker | `Webclient::work`, `single_con` | `m_work`, the io_context | work, connect | every program thread calls it; runs the clients' handlers | a check-then-act counter; an io_context that stops for good | one io thread, and always one |
| Registry | `Webclient::connect`, `connect_endpoint_*`, `get_cli` | `m_index`, `m_dat`, the callers' index variables | connect, get_cli | handlers and program threads | an unlocked map; an id that is given out before its client exists, in a variable that connect reads again | an id finds its own client once connect has returned |
| BinaCPP | `binacpp.cpp` | static key, secret and curl handle | init, cleanup, 24 calls | libcurl; the program's thread | options stay on the handle | each call sends its own request, with the right key |
| curl helper | `SmartCURL`, `getCurlWithHeader` | a handle per call | one call | PionexCPP, OkexCPP | refused options | as BinaCPP, without history |
| http_async | `base_websocket.h` 182-221 | a task per call | start, callback | the workflow library's threads | lifetimes of what the callback uses | one callback for each request |
| PionexCPP | `pionexcpp.cpp` | static keys; OpenSSL's static digest | order, cancel, queries, subscriptions | curl helper, http_async, registry, Send | several threads share the keys and the digest | what is sent is what was signed, with one account's keys |
| OkexCPP | `okexcpp.cpp` | static keys | order, queries | curl helper, http_async | as PionexCPP | as PionexCPP |
| simple_websocket | `simple_websocket.cpp` | lws context, `handles`, `pionex_pub_conn` | connect, send, event loop | libwebsockets | connections are known by an address that is used again | a message reaches the callback of its connection |
| Examples | `../example` | depth, trade, candle and balance caches | main(), stream callbacks | BinaCPP, simple_websocket | a REST answer and a stream that must meet without a gap | the cache is what the exchange published |
| decimal | `decimal.h` | an integer | rounding, arithmetic, conversion, text | PionexCPP (prices and sizes) | signs, ties, limits of int64 | the nearest decimal, read back as written |
| jsoncpp | `../lib/jsoncpp-1.8.3` | Values with their blocks of memory | read, write, convert, compare, navigate | every REST call and stream | hand-written lexer and ownership, 64 bit limits | what is written is read back; torn text is refused |
| Utilities | `utils.h`, `binacpp_utils.cpp` | OpenSSL's static digest | encodings, HMAC, clocks | all | a sign bit in a byte | nothing is lost |
| Logger | `binacpp_logger.cpp` | log file, level | write_log | all | | pure output |
| Test driver | `../unitTest/main.cpp` | index variables | connects, subscribes, answers pings | registry, worker | needs the live exchanges | |
| Other vendored | `../lib` | | | | | third-party headers |

`PROJECT.json` lists the hazards of this code, each at its line with the
property that covers it or the reason none does.

## 2. Modules

| Module | Models | Kind |
|---|---|---|
| `WebSocketSSLClient` | one streaming client, its io thread, senders and closers, the network | specification |
| `IoWorker` | `Webclient::work`, `connect` and the io_context's run and stop | specification |
| `Webclient` | the registry, composed with `IoWorker` (INSTANCE), as unitTest/main.cpp uses it | specification |
| `CurlHandle` | the options of a libcurl easy handle (external) | operators |
| `BinaCPP` | the Binance REST client over its static handle | specification |
| `RestCalls` | the calls of PionexCPP and OkexCPP as data | constants |
| `RestPromise` | what a REST call promises its caller | abstract specification |
| `RestClients` | PionexCPP, OkexCPP, http_async and HMAC step by step | specification, implements `RestPromise` |
| `SimpleWebsocket` | the libwebsockets client | specification |
| `ExampleCaches` | the example programs on top of `SimpleWebsocket` | composed specification |
| `JsonValue`, `JsonMemory`, `JsonConvert` | `Json::Value`: arrays and members, ownership, numbers | operators |
| `JsonPath` | members by their names, `Json::Path`, and a program that makes a path in a Value | specification |
| `JsonOrder` | the order of Values, and a program that compares three | specification |
| `JsonArray` | a `Json::Value` that is an array, and the list it stands for | specification |
| `JsonText`, `JsonLexer`, `JsonReader`, `JsonWriter` | text of strings and numbers, `readToken`, both readers, the five writers | operators |
| `JsonNumber` | text of integers and back: `valueToString`, `decodeNumber` | operators |
| `Rounding`, `Decimal`, `DecimalClass`, `DecimalText` | the rounding policies, multDiv, the class, its text | operators |
| `Encodings` | base64, url and hex | operators |
| `Calls` | the program that makes one call of a pure function | the state of the next four, of `JsonOrder` and of `JsonPath` |
| `DecimalCalls` | a call of a rounding, of multDiv, of the arithmetic and the whole numbers of decimals, of a construction, and decimals written and read | specification |
| `NumberCalls` | an integer written and read; the conversions of a scalar | specification |
| `TextCalls` | a string put between quotes and read; a text encoded | specification |
| `LibraryCalls` | composes `JsonArray`, `JsonMemory`, `JsonOrder`, `JsonPath`, `NumberCalls`, `TextCalls` and `DecimalCalls` with calls of the readers and writers | composed specification |
| `MC*` | the values TLC gives to the constants | instances |
| `*_proof` | theorems (section 5) | proofs |

### WebSocketSSLClient

State. `stop` is `stop_`. `ws` is how far the stream `*ws_` has come. `buf` is
`buffer_.size()` and `got` the part of it that belongs to a message still
being received. `pend` counts the asynchronous operations of each kind that
are outstanding, `ready` is the queue of completions in the io_context, and
`io` says whether the io thread runs handlers, sleeps in `Reconnect`, or has
been aborted by an assertion of Boost.Beast (the build files do not define
`NDEBUG`). `conn` and `threads` are `m_conn_num` and the detached
`m_OnReconn` threads. `closed`, `early` and `cut` are history variables that
only properties read.

Actions. Each handler is one action (`OnResolved`, `OnConnected`,
`OnSSLHandshake`, `OnReady`, `OnRead`): it takes the completion at the head of
`ready` and does all the code does, up to starting the next operation.
`Reconnect` ends at the two-second sleep; `Connect` is what follows it, so that
other threads and the network act in between. `UserSend`, `OnReconnSend` and
`Close` are the other threads. `CloseSocket` is what replacing or closing the
stream does to the operations going on: they complete with
`operation_aborted`, in one fixed order for those aborted by one call (boost
queues them when the descriptor is closed); completions of distinct steps are
interleaved freely.

Boost.Asio and Boost.Beast are external, modelled as `src/` uses them: an
operation on a stream in the wrong state fails at once through the queue; a
second read or a second write is an assertion failure; a TLS handshake still
due is done by OpenSSL when the upgrade request is written.

Abstractions. A message is its length. `OnDataReady` always consumes: its
result only chooses a line of output, and its parsing is in `LibraryCalls`. A
torn message has two pieces. Name lookup of a replaced stream goes on, as it
belongs to `resolver_`. `SSL_set_tlsext_host_name` failing is the same as a
failing lookup.

### IoWorker and Webclient

`m_work` and the program counter of each thread in `work()`; increment, test,
loop test and `run()` are separate actions because they are separate atomic
operations. `clients` counts the clients with work on the io_context. That the
work of a client does not end on its own is `NeverDeaf` of
`WebSocketSSLClient`; in `IoWorker` it is the constant `ClientsEnd`.

`Webclient` composes the registry with `Worker == INSTANCE IoWorker`. `connect`
takes its id by reference (`int &id`, base_websocket.h:329), so every step of it
that reads `id` reads the caller's variable, `cell[v]`, as it is then. A call is
five steps: `++m_index`, which is atomic (`Draw`); its value written to the variable
(`Assign`); the client made and started (`Start`, which is `Worker!Connect`);
`m_dat[id]` begins its search of the map, with a reference to `id`
(`BeginInsert`); and the entry is there (`EndInsert`). The three
`connect_endpoint_*` have a variable of their own (`NoCell`; `Id`). The io thread
runs callbacks as soon as it serves (`Up`, `Lost`, `Ping`), and another thread
subscribes (`Subscribe`).

`m_dat` and the variables have no lock. Of these races the model has the outcomes that
matter to what is found later: a search whose key changes under way can stop at
either key or at an entry between them (`Keys`); of two insertions at once one
can be lost (`EndInsert`); a search in a map that is being changed can miss what
is there (`get_cli`). `overlapped` is history: connects through one variable, or two
insertions, have been under way together. With it set, entries do go to
another client or are missing for good, and the properties speak of executions
before that.

### CurlHandle and BinaCPP

The handle is the record of the options that shape a request. The 24 calls are
records that say which request each means to make; `Call` is the code they
share: guard, options, perform, parse. Urls, parameters and signatures are left
out: they are built anew in every call. Undefined behaviour (a call after
`cleanup`) is not modelled: the guard `curl # Freed` ends there.

### RestCalls, RestPromise and RestClients

`RestPromise` is five steps of a caller (Begin, GiveUp, Send, Return, and Cross
and Configure by others): a call sends the documented request, signed over what
is sent with the secret of the account whose key it carries, or nothing. It
promises less to a caller whose keys are set during its call (`disturbed`) and
to one whose Pionex signature is computed while another's is (`crossed`).

`RestClients` has every caller's program points: the key guard, reading the key
into a header, reading the secret and signing (`get_okex_sign`, or `HMAC`, which
leaves the digest in OpenSSL's static array, and `b2a_hex`, which copies it
from there), the request through a fresh handle (`Perform`) or `http_async`, and
the return that destroys `keyinfo`. `init` is two steps, for it assigns two
strings and locks nothing. Copying one string is one step: the data race on the
string itself, which a late `init` also is, has no useful set of outcomes. The
pass phrase of OKX, which `init` also sets, is left out like urls and time
stamps. `KeepsPromise` is the refinement, `Phase` its mapping. `http_async`'s
callback falls off its end on success (no return value, undefined), and what
keyinfo it reads, which it has by reference (base_websocket.h:185), is the
caller's while the call lasts and undefined afterwards: both are left out, and of
the callback the model has that there is one for each request.

### SimpleWebsocket and ExampleCaches

A connection is the address of its `lws` object, which is used again after the
connection has ended. `handles` and `pionex_pub_conn` are the code's. `Null` is an
address too: the code stores a handle under it when a connect fails. A write to
an address that holds no connection is undefined and not modelled.

`ExampleCaches` runs one of five programs: it takes a REST answer (`Snapshot`,
which may fail without notice), connects, and serves the event loop. The
exchange (`Publish`) goes on publishing all the time. `gap` is history: something
was missed between answer and stream or while a connection was down, came torn,
or has an id that `asInt` refuses. Nothing in the code notices gaps, so the
properties speak of states without one. `Answer` is what the exchange answers a
REST call with, given directly from what it has `Published` (the code of the
exchange is external): no more than the program asks for, which is the best
`MaxLevels` = 20 levels of a book (example_depthCache.cpp:95) and `MaxTrades` = 10
trades from id 0 on (example_aggTrades.cpp:65). So a cache is not all of what was
published. The depth cache holds the levels the program was told of, and has holes
where a level was below the best 20 when it asked and has not changed since
(`Told`); the trade caches hold the first 10 trades and those published after
the answer (`Heard`).

### The libraries

These are pure functions, so their operators have no state (except arrays and
memory, which stay between calls). `JsonArray` has the operations on one array
and, beside it, the list the program means; a `resize` that throws leaves the
array changed, and the program can go on with it. Every other function has an
action that takes inputs from small sets and leaves inputs and results in
`call`; an invariant says of the results what the function is for, in terms of
a definition that is not the code's: a grammar by splitting, a nearest
fraction, a decoder, a list. Texts are sequences of bytes where bytes matter.
JSON's Int and Int64 have `Narrow` = 4 and `Wide` = 8 bits with a `Mantissa` of 6,
keeping the relation 64 > 53 > 32 between them.

Integers of decimals have 16 bits (`IntMax`), and what the code computes in int64
wraps around where the build does (`Wrapped`): sums and differences, the scaled
operands of `%`, floor and ceil, `init` of an integer, `pack`, and the parts that
`parse_unpacked` adds up. (Wrapping once at the end is the same as at each step, as
nothing is compared or divided in between; where something is, each step wraps.)
Dividing by 0, and the least integer by -1, is a signal: `modulo` and `multDiv` then
have no result. A stream is its numpunct facet: `toStream` writes the digits before
the point with the format's groups or, if it has none, the stream's, and those after
the point with the stream's always (`AfterPoint`). `getAsDouble` is left out, and a
decimal is made of a double only where every step of it is exact (`IsExact`, with
`DoubleMax` for 2^53); floating point inside multDiv is exact to within one. A
decimal whose `m_value` is the least integer is left out, as it has no amount.

The calls are split by what can be proved about them. `DecimalCalls`,
`NumberCalls`, `TextCalls`, `JsonOrder`, `JsonPath` and `JsonArray` are specifications
of their own (`DecimalSpec` and its like) that no RECURSIVE operator reaches: what
repeats in the code is a recursive function on the numbers, texts or Values it works
on. `operator<` goes down Values, so `Comparables` is any set of Values that has
what they hold, and `Nesting` says how deep each is (`OrderAssumption`). A path goes
down one Value only, so its nodes are a function on its arguments' numbers; `Roots`
is any set of Values that has what they hold (`PathAssumption`).
`makePath` reads a text as a function on texts and what is left of the five
arguments for placeholders; an index of too many digits wraps around at `MaxIndex`;
texts and keys are without NULs, as a `PathArgument` takes its key by `c_str()`, and
a text in which a name begins with one keeps the code's loop from ending.
`LibraryCalls` takes their actions as they are (`OnDecimals`, `OnNumbers`,
`OnTexts`, `OnOrder`, `OnPath`, `OnArray`), beside the calls of readers and writers
and the steps of `JsonMemory`, whose operators are RECURSIVE. So what is proved of
the six holds of the calls TLC makes.

## 3. Runs

| Run | Checks | Shows |
|---|---|---|
| `client_disciplined` | NeverDeaf, NeverAborts, Recovers | With whole messages and senders that wait for an established stream and for their last write, faults at any point neither end the chain nor abort the process, and after the last fault the client reads for ever. |
| `client_any_send` | TypeOK, NoLostReconnect, OneChain, DeafOnlyIfDisturbed, ReadAbortOnlyMidMessage, StoppedStaysDown | Sends, Close, torn messages and faults at any moment: no reconnection is lost, a premature Send adds one attempt and no more, a client goes deaf or two reads collide only after a premature Send or in the middle of a message, and a closed one stays closed. |
| `work_any_order` | OneIoThread | Never two io threads. |
| `work_overlap` (violation) | StartsServing | Overlapping calls return, or spin in the loop without running it: no io thread. |
| `registry` | SubscribesOwn, EntriesStay, MissesOnlyWhileConnecting, KeepsServing | As long as connects through one variable, and insertions, do not overlap, subscriptions and callbacks reach their own client but in the window a connect leaves open; when calls of work() do not overlap, clients are served for ever. |
| `rest` | KeepsPromise | The REST clients implement their promise under concurrent callers and a late init. |
| `binacpp` | TypeOK, DeviatesOnlyAfterWrite, CarriesCurrentKey | Requests are as documented until the handle has been used to write; keys are right always. |
| `binacpp_documented` (violation) | SentAsDocumented | After a write, reads go out as POST, PUT or DELETE with a stale body. |
| `stream` | DepthIsBook, TradesKept, RightCallback, SendsToPublic | Without a gap the caches are what the program was told of what was published; messages reach the right callback although addresses are used again. |
| `balance` (violation) | LockedAsReported | The locked balance is overwritten by the free one. |
| `algorithms` | ReadsBack, TornIsRefused, TokensReadBack, ParsesJson, QuotedReadsBack, NumberReadsBack, ConvertsExactly, ValuesOrdered, PathsResolve, ArrayIsList, OwnedOnce, PoliciesRound, ArithmeticRounds, WholeAround, DecimalReadsBack, EncodingsReadBack | Each library function does what it is for, with the exceptions the properties state. |
| `decimal_documented` (violation) | ReadsListedFormats | Numbers without a digit before their point are refused. |

Bounds.

* Client: `MaxFaults` 3: one fault hits the connection and two the attempts to
  replace it; a chain that survives that is back in a state it has been in.
  `MaxSends` 2: two are needed for writes that overlap and for a forked chain to
  fork again. `Sizes` {1, 2} so that the length of a write can and can fail to
  be that in the buffer; `MaxBuf` 2, beyond which nothing more arrives.
  `m_conn_num` is capped at 2 as the code compares it with 1 only; threads by
  `MaxSends`; `got` holds one piece.
* `IoWorker`: four threads, so that two may have returned when two others race;
  symmetric, as they run the same code.
* `Webclient`: two threads, two index variables, four connects (one variable is
  given to connect by both threads, one connect has none) and `MaxLookups` 2
  subscriptions.
* `BinaCPP`: two keys, so that a program can change accounts; nothing else is
  bounded.
* `RestClients`: one caller of everything and one that signs (calls that differ
  in their url only stand for each other), two accounts at Pionex, `MaxTasks` 2
  unanswered requests. More callers are the theorem's part.
* `ExampleCaches`: `MaxLevels` and `MaxTrades` 1, so that there are levels and
  trades beyond the answer; two addresses (symmetric), three connects so that an address
  is used again after a failure, three records on two keys, ids beyond 2 as
  those `asInt` refuses.
* `LibraryCalls`: arrays and objects nested up to the stack limits tried, documents of up to five
  tokens and every edit of one of 19, texts of two words with every kind of gap,
  cut at every byte; strings of two code points from each length class; all
  numbers from -300 to 300, on both sides of what 8 bits hold; blocks up to 6. Decimals at both limits of 16 bits and around 0,
  precisions 0, 1, 2 and 4, which is `MaxPoints` as 18 is the code's: the largest whose
  factor is an integer. Streams without groups and with groups of one, two and three
  digits, so that they divide the digits after the point or leave them together.

Deadlock is checked where the system may not stop (`client_disciplined`,
`binacpp`, `registry`). Elsewhere it stops legitimately: after an abort, after
Close, when the client is deaf, when all threads have returned, or at a bound.

Fairness. The io thread stays in `io_context::run`, so a queued completion is
handled and a sleep ends (`WF` on `Handler` and `Connect`). Lookups, connects,
handshakes and writes end, and operations on a lost connection fail: this is
the network's and the kernel's part; the code sets no timeout on anything, so
without it a silent peer stops the client for ever. No fairness is assumed for
faults, Sends, arriving messages or m_OnReconn threads. `IoWorker` assumes that a
thread inside `work()` is scheduled, not that anyone calls it; `Webclient` that
the threads of its plan, whose next statement always is a connect or work(), are.

## 4. Findings

1. `base_websocket.h:396-397`: when first calls of `work()` overlap, all return
   (each incremented before another read), or one passes the test, finds `m_work`
   above 1 at 401 and spins; nobody runs the io_context.
2. `binacpp.cpp:1834-1839`: options that a POST, PUT or DELETE set are never unset;
   later calls are sent with the wrong method and a dangling body.
3. `../example/example_userStream.cpp:89`: the free balance is stored as the
   locked one.
4. `decimal.h:1813`: `.123`, listed among the formats read (1858), is refused.

Not counted as findings, because nothing in the repository says otherwise, but
shown by the models or met while writing them:

* A connection lost between two pieces of a message leaves the client deaf
  (`DeafOnlyIfDisturbed`); a write completion in the middle of a message can abort
  the process (`ReadAbortOnlyMidMessage`); a Close during an attempt is undone by
  `OnConnected` (which is why `StoppedStaysDown` speaks of clients without an
  attempt under way); a Send before the stream is up forks the chain. A forked
  chain need not heal: with one such Send and no fault, `Recovers` fails, as each
  of the two attempts keeps closing the connection of the other.
* How far a forked chain goes came out of the proofs. TLC, with two Sends,
  agreed that an early Send alone makes no client deaf and no read collide with
  another. With three it is false: the end of a handshake of a stream that was
  replaced is taken by the handler as the new stream's, so two handlers read on one
  stream, or one takes a message of a length that is not its own and reads no
  more. The properties therefore speak of clients that are `Undisturbed` (no
  early Send, no message cut), which is what could be proved; the bounds of the
  run are not what makes them hold.
* A callback can find no client while a connect is under way (`Webclient`); that of
  unitTest (main.cpp:76) does not test for null.
* Two connects through one index variable at once (`overlapped`) can write
  `m_dat` under one id: one client's entry is given to the other, and the other id
  has none for good.
* The depth cache of the example has holes below the best 20 levels, and the trade
  cache only the first 10 trades of all that were before the program started.
* Overlapping signed calls of Pionex can send each other's signature, and calls
  during `init` one account's key with the other's signature (`RestPromise`);
  after its caller has returned, a callback of `http_async` reads a `keyinfo`
  that is gone (its reference at base_websocket.h:185); OKX orders go out unsigned.
* OKX orders: "market" (okexcpp.cpp:58) is unreachable, `ordType` stays unset
  for other price types with a time condition, and time condition 0 overrides
  post_only. The bit fields of unitTest's order (main.cpp:298) are not set.
  `get_utc_time` always ends in ".500Z".
* simple_websocket stores a callback under a null address when a connect fails,
  and writes to the last public address after its connection has ended.
* jsoncpp: characters from U+DFFF to U+FFFF are written as U+FFFD (a limit
  mistyped in utf8ToCodepoint) and those from U+40000 on are broken; a lone "-"
  and leading zeros are read as numbers; `{"":v,}` is accepted; the token after
  a comment that follows a member is not checked; comments are accepted inside
  arrays and objects even where they are not allowed, `[/**/]` is refused, and
  an apostrophe begins a comment in OurReader; what follows the document is
  ignored by default; a cut array has a null more; Reader refuses a double that
  overflows, where OurReader reads infinity; integers between 2^31 and 2^63 are
  read as unsigned and so are not equal to the signed ones that were written;
  the real 2^63 passes asInt64's test, and 2^64, read as a double, asUInt64's,
  so both are cast though they do not fit; of digits beyond the widest type
  -2^63 - 1 is read as a double that is -2^63; OurReader negates minLargestInt, which
  overflows; the public `copy` and `copyPayload` of Value share a string's or a
  map's block between two Values, which both free it (`shared` in `JsonMemory`); resize(5) and then resize(3) throws; a
  path with a missing argument or bracket is followed anyhow. Both stream
  callbacks ignore the parser's result.
* decimal: half_even with an odd divisor takes less than a half for a tie;
  ceiling, floor and half_up are mirrored for a negative divisor; div_rounded
  truncates within half a divisor of the limits and multDiv loses the fraction
  there; near the limits sums, products, floor, ceil, construction from an integer
  and a text of too many digits wrap around, and `%` of two precisions scales an
  operand until it wraps or the division traps, though the remainder would fit; a
  stream whose locale groups digits groups those after the point too
  (decimal.h:1719), and what it writes is not read back; setWithExponent beyond 18
  digits divides by 0; "1,234" without grouping
  is read as 1. Sizes and prices below 0.00005 are sent as "0.0000"
  (pionexcpp.cpp:119).

## 5. Proofs

TLAPS checks, from the ASSUMEs of the modules only:

* `WebSocketSSLClient_proof!TypeCorrect`: `Spec => []TypeOK`. `TypeOK` is
  inductive. The part that is not a type is that no more than one read and one write are
  outstanding. One lemma per group of actions: the handlers rest on
  `CloseSocketType`, `StartHandshakeType` and `AsyncReadDataType`, the network on
  `CompletesType`.
* `WebSocketSSLClient_proof!ReconnectNeverLost`: `Spec => []NoLostReconnect`, for
  all values of the constants. Inductive with `TypeOK`. The argument: what
  `Connecting` counts is a sleep, a lookup, a connect, or the completion of
  one; the sleep ends in a lookup, a lookup or connect becomes its completion
  (`AwaitedAppend`), the handler of a lookup starts a connect or sleeps, and the handler of a
  connect sleeps or clears `stop`; every other handler takes a completion of
  another kind off the queue (`AwaitedTail`).
* `WebSocketSSLClient_proof!StoppedForGood`: `Spec => StoppedStaysDown`.
  `AttemptsQuiet` says without counting when `Attempts` is 0 (`Quiet`: no sleep,
  nothing of an attempt outstanding or queued). In such a state the only handler
  that can run is `OnRead`, which with `stop` set starts nothing (`QuietHandler`);
  a completion adds nothing of an attempt to the queue (`QuietCompletes`), and neither does a
  Send, which only writes (`QuietNext`).
* `WebSocketSSLClient_proof!HandlersFormAChain`: the inductive invariant
  `OneHandlerAtATime`, with `NoEmptyMessage` and `TypeOK`. Nothing supervises the
  handlers, so what carries a client on is wherever the last handler left it, and
  the invariant says where that can be: `Attempting` (asleep in Reconnect, a
  lookup or connect going on, or its completion last in the queue behind what is
  left of the older stream), `Handshaking` (a handshake going on, or its completion
  with only writes behind it), `Receiving` (a read going on and `buffer_` holding
  its part of a message; or one failed read; or one message as long as the buffer), or
  `Stopped` by a Close. One lemma per handler and per completion says from which
  of the four it leads to which.
* From it `ChainNeverEnds` (`Spec => []DeafOnlyIfDisturbed`), `ReadsDoNotCollide`
  (`Spec => ReadAbortOnlyMidMessage`) and the undisturbed half of `ChainsAreBounded`
  (`Spec => []OneChain`). Its other half is `ErrorsDoNotMultiply`: `Conserved`
  counts sleeps, operations and completions together, which every handler keeps
  and only a Send raises, by one.
* `DisciplinedNeverAborts` and `DisciplinedNeverDeaf`: under `DisciplinedUse`, which
  is how `client_disciplined` sets the constants, `[]NeverAborts` and
  `[]NeverDeaf` for any number of Sends and faults. `Calm` says that such a client
  is undisturbed and not closed, and has no piece of a message, no m_OnReconn thread
  and no abort.
* `IoWorker_proof!TypeCorrect` and `MutualExclusion`: `Spec => []OneIoThread` for
  any set of threads. Mutual exclusion is not inductive; `CounterInv` adds what
  `m_work` says of the callers so far (0: none, 1: one), which is why a thread
  that reads 1 is alone.
* `Webclient_proof!TypeCorrect`, `SubscriptionsAreOwn`, `EntriesNeverChange` and
  `MissesAreExplained`, for any number of threads, clients and index variables and
  any plan. `RegistryInv` follows a number from `m_index` to `m_dat`: numbers drawn
  are at most `m_index` (`Counted`), a client that exists has its number as
  `mine` of its connect() or was made by an earlier one (`Started`), from `Assign`
  on a variable holds a number drawn for it (`Assigned`, `CellsKnown`). Until
  connects have overlapped, threads inside connect() have different variables and
  one at most inserts (`Apart`), so what `m_dat[id]` reads again is the number drawn
  (`OwnKey`), entries and subscriptions are their client's (`Entries`, `SubsKnown`).
  The steps of work() and of a ping leave all that alone (`OtherStep`).
* `BinaCPP_proof!TypeCorrect`, `KeyIsCurrent` and `OnlyWritesLinger`, for any set
  of keys. The two action properties rest on the invariant `HandleInv`: the
  header on the handle is the current key's or none, and before the first write since `init`
  the handle has neither a custom method nor a body. `PerformedCall` shows
  that a call preserves it and sends what the properties say.
* `RestClients_proof!Implements`: `Spec => KeepsPromise`, the refinement, for any
  number of callers, accounts and calls under way. The invariant `RestInv`
  (`RestInvariant`) says of the keys that key and secret are one account's while no
  account is being set, and of each caller what it has so far: `CallerInv`. A
  caller that is not disturbed has a header with the key of now and a signature
  by the secret of now; one that is not crossed has a signature, or a digest it is
  about to copy, that covers its own call (`Covers`). `Frame` is what makes this
  hold under other callers' steps: only HMAC writes what another reads, and it
  crosses whoever was about to read it. Then one lemma per action maps it to its
  step of the promise (`PromisedSend` and its like) or to none
  (`PromisedStutter`).
* `ExampleCaches_proof!CallbacksAreRight` and `MessagesGoToPublic`, from
  `ConnInv`: a live address has the handle of its endpoint, a handle has a live
  address, and `pionex_pub_conn` is the public connection's address until that
  has ended (`PublicKnown`). Starting writes both maps, closing erases both, which
  is why an address can be used again (`StartKeeps`, `ClosedKeeps`).
* `ExampleCaches_proof!CacheIsBook` and `TradesAreKept`, for any number of levels
  and trades asked for, from `CacheInv`: the cache is what the program was told of
  all that was published but what is still on the wire (`Filled`, `TradeLog`), as
  long as nothing was missed; a cache that was not filled yet is empty (`Blank`),
  and nothing is on the wire (`Idle`). `LastOf` needs a greatest element of the
  log, which `SomeLast` carries as an invariant: each record published becomes it.
* `Decimal_proof!PoliciesAreRight`: `DecimalSpec => []PoliciesRound`, for integers
  of any width. `TruncatedDivision` says what truncating division leaves, `Apart` that
  multiples are a divisor apart, `Near` is `Rounded` without a product of two
  unknowns; then one lemma per policy finds which multiple it chooses.
* `Decimal_proof!ArithmeticIsRight`: `DecimalSpec => []ArithmeticRounds`. multDiv
  cancels common factors first, so what Euclid's algorithm returns has to divide
  both: `Euclid` is a function, and a proof by the least counterexample over the
  absolute value of its first argument, which < makes well founded, shows that it
  does (`EuclidDivides`). `ReducedFraction` says that cancelling changes no quotient,
  `Close` that what a policy returns is within a unit. The property says where
  it does not hold: within half a divisor of the limits (`NearLimit`, `Room`),
  where div_rounded truncates, and where the result is not within the limits
  (`Fits`). That the sums and products on the way may wrap around is no condition:
  integers that wrap to the same one are a multiple of the width apart
  (`WrapsAgain`), and one that is nearest to what fits is itself within the limits
  (`NearFits`, `NearestFits`), so it is what it wraps to (`WrappedIs`,
  `ProductIsQuotient`). For `%` no wrap is harmless, as a remainder is taken after
  it, so there each operand has to fit (`ModuloIsNear`).
* `Decimal_proof!WholesAreRight`: `DecimalSpec => []WholeAround`. A decimal is a
  multiple of the power of ten and a rest (`FactorIsPositive`, `FactorIsGreater`);
  the zeros at the end of the mantissa are taken off, and come back in the
  exponent (`Zeros`, `ZerosAre`). floor, ceil and round need room for one more
  (`WholesAreAround`); the parts and the exponent need nothing.
* `Decimal_proof!TextsAreReadBack`: `DecimalSpec => []DecimalReadsBack`, for any
  precision, value and text of any length. Three functions carry it: `Written` (the
  digits of a number), `Grouped` (digits with separators) and `Amount` (the number
  that a text shows to a reader that skips what is no digit). Each is shown
  to satisfy its equation by the library's theorem on well-founded recursion
  (`WFInductiveDef`, with `MeasureIsWellFounded` for their measures); a fact about all texts is
  proved as one about a set of texts that has the empty one and every text one
  longer (`AppendInduction`), so nothing needs a theorem with an operator as
  parameter. For toStream: `WrittenWrites`, `PaddedWrites` and `GroupsAreSpaced` say
  that what is written shows the number and that a separator stands in it only
  between digits. For fromStream: `RunIs` finds where the digits end, `ParseReads`
  what a text in its parts is taken for, `PackIsExact` that no digit is lost while there are at
  most as many as the precision. `PartsMakeUp` is the sign: "-0.5" has the whole
  part -0, and its sign is read apart. The conditions of the property are the
  code's limits: a format whose point or separator is a digit, or whose separator
  is its point, cannot be read (`Readable`), nor can digits after the point that the
  stream's locale has put in groups (`Ungrouped`); beyond `MaxPoints` digits `pow10` is
  0, near the limits div_rounded truncates (`CanRound`), and beyond them all wraps
  around (`Fits`). What wraps on the way to a result that fits does no harm
  (`StreamReads`, `ConvertedIs`, `InitIsNearest`).
* `Json_proof!ArrayStandsForList`: `ArraySpec => []ArrayIsList`, for any length
  and elements. The invariant is `Represents`: the array's indices are those of the
  list, and each element of the list is the array's or a hole that is null. One
  lemma per operation; the size of an array, a maximum, exists by `Greatest`,
  from the least upper bound (`LeastNatural`, from the library's theorem that < is
  well founded).
* `Json_proof!NumbersAreReadBack`: `NumberSpec => []NumberReadsBack`. `DigitsAre` and
  `ValueIs` are the equations of the writer and of the reader of digits, `Shows` what
  holds of the digits of a number at every one of their beginnings: there the
  reader compares with a tenth of the limit, which is the test that overflow hangs on
  (`Before`). `CastTurns` and `NegatedIs` are the casts and the negation by which the
  reader makes a signed number of the digits, whatever they wrap around to.
  `BeyondIsRefused` is about integers beyond the widest type, which are read as
  doubles: every conversion to an integer refuses them, but for those
  read as the doubles -2^63, which is returned, or 2^64, which passes asUInt64's test
  (in the code's widths).
* `Json_proof!ConversionsAreExact`: `NumberSpec => []ConvertsExactly`. From
  `WidthAssumption`, which is all that the code's 32, 53 and 64 have in common with
  the run's 4, 6 and 8: Int is not empty, is narrower than Int64, and every Int is a
  double. The proof found a slip in the model: its `Truncated` did not
  round every negative real towards zero, as a cast does, at values no run had tried.
* `Json_proof!EncodingsLoseNothing`: `TextSpec => []EncodingsReadBack`, for bytes of
  any length. The encoders and decoders are functions on texts; `TextInduction` is
  again induction as a set of texts, three bytes or one longer. `Quantum` is
  what three bytes become, and the groups of six bits make them up again.
* `Json_proof!QuotesLoseNothing`: `TextSpec => []QuotedReadsBack`, for any string
  of code points that `utf8ToCodepoint` knows (`Known`: those left out are the ones
  section 4 lists). One lemma per way a code point is written: as
  it is, as a letter behind a backslash, as \u and four digits, or as a surrogate
  pair; each is read back from whatever text follows it.

* `Json_proof!ValuesAreOrdered`: `OrderSpec => []ValuesOrdered`, for arrays and
  objects of any size, nested to any depth. `StrictOrder` is the notion all of it
  is about. `BytesLessIs` and `TextsAreOrdered` are the order of strings: one comes
  before the other for the first byte at which they differ, or ends there.
  `ListsAreOrdered` is what std::map's comparison does to the entries of two
  containers of equal size when entries are ordered, and `SomeList` says that a
  container's entries can be listed in order at all. `WithinAreOrdered` is the
  induction: if the Values less deep than m are ordered, so are entries with such
  Values (`EntriesAreOrdered`), the Values of each type that are one deeper
  (`TypeIsOrdered`), and all of them, by their types (`DeeperAreOrdered`).
  `LessIs` and `EqualIs` are the equations of the two operators, well founded
  as what a Value holds is less deep. `EqualIsSame` repeats the induction for
  `operator==`.
* `Json_proof!PathsAreRight`: `PathSpec => []PathsResolve`, for any Values, and paths of
  any length in a text with any of the arguments given for placeholders. Half of it
  is about Values. `NodesAre` and `RemadeAre` are the equations of the way down
  and of what is made on the way back up; `PutIsFound` says of one `operator[]`
  that what is put is found, and that other arguments reach what they reached, where
  null and lost cannot be told apart as both resolve to null: an array that grows
  has holes, which are there and null (`EquivalentOnTheWay`). Induction along the way gives
  `MadeIsFound` and, for a path that parts from it somewhere, `ElsewhereIsKept`;
  `RemovedIsGone` is the same for a member that is removed. The other half is about
  the text: `makePathIs` shows that `makePath` satisfies its equation, as what it goes on
  with is shorter; one lemma per sign and per way an argument is written says what is read
  and what is left (`GivenIndexIsRead`, `GivenKeyIsRead`, `IndexIsRead`,
  `NameIsRead`, together `PieceIsRead`), from whatever text follows; that text begins
  with a sign or is empty, which is what ends a name. `AllStepsAreRead` is the induction
  over the arguments.

The proofs rest on the ASSUMEs of the constants and nothing else. Those of the
libraries say that arguments have the type that C++ gives them, that divisors are
positive, how the widths of integers compare (for decimals only that the factor of
`MaxPoints` is one, `DecimalAssumption`), and that a set of Values to compare or
to follow paths in has the Values they hold; the arguments themselves are any sets of such.

Model-checked only:

* Liveness (`Recovers`, `KeepsServing`), which is out of TLAPS's reach.
* `ReadsBack`, `TornIsRefused`, `TokensReadBack`, `ParsesJson` and `OwnedOnce`. Their
  operators are RECURSIVE and TLAPS has no SMT backend in a module that reaches
  one. A recursive function needs a set to be defined on: numbers, texts and the
  arguments of a path are one, and for the order a set of Values can be assumed, as
  comparing makes no new ones; readers and heaps make Values that no such set can
  name beforehand.

## 6. Not modelled

* Subscribe and Unsubscribe of the client with their handlers (nothing in the
  repository calls them), OnClose (never called), the pong sent by
  `control_callback`, the lifetime of the string given to Send, the data races on
  `ws_` and inside `m_dat`.
* The clocks, time formatting and string splitting of the utilities; the logger.
* The candle caches, which mix two intervals under one key: nothing in the code
  says how they should be related.
* In jsoncpp: comments kept with values, offsets, special floats, single quotes,
  numeric keys, dropped nulls, stream operators and string Values without a text
  (`Value(stringValue)`), which these programs do not use.
* In decimal.h: `getAsDouble` and `getAsXDouble`, which round to floating point, and
  doubles of more bits than are exact.
* libcurl, libwebsockets, Workflow, Boost and OpenSSL are external: only what
  `src/` relies on is modelled.

## 7. Plan

1. Proofs: ownership (`OwnedOnce`), once `Below`, `Copied` and `Destroyed` of
   `JsonMemory` are functions on sets of addresses.
2. Subscribe, Unsubscribe and pongs in `WebSocketSSLClient`, if anything comes to
   use them.
3. The composition of `Webclient` with one `WebSocketSSLClient` per client, with
   `ClientsEnd` replaced by that client's deafness.
