------------------------------ MODULE BinaCPP -------------------------------
(***************************************************************************)
(* BinaCPP, the client of Binance's REST api (binacpp.cpp).  Every call    *)
(* goes through one static easy handle, whose options outlive the call     *)
(* that set them.  Calls come one after the other from one thread: the     *)
(* class is all static state without a lock.                               *)
(***************************************************************************)
EXTENDS CurlHandle

CONSTANTS
  Keys,       \* api keys an application initialises the library with
  Null,       \* no handle has been made
  Freed,      \* the handle was freed
  NoRequest   \* no request has been sent

ASSUME KeysAssumption == "none" \notin Keys
ASSUME NullAssumption == Null # Freed

VARIABLES
  api_key,     \* BinaCPP::api_key, "none" when empty
  secret_key,  \* BinaCPP::secret_key is not empty
  curl,        \* BinaCPP::curl: its options, or Null, or Freed
  wire,        \* the last request sent, or NoRequest
  json,        \* the call whose answer the caller's Json::Value holds
  wrote        \* history: a POST, PUT or DELETE was called since init

vars == <<api_key, secret_key, curl, wire, json, wrote>>

-----------------------------------------------------------------------------
(* The calls: the request each one means to make, what it requires, and    *)
(* whether it fills the caller's Json::Value.  Those that write, and no    *)
(* others, have a body, if only an empty one.                              *)

Public(name)  == [name |-> name, needs |-> "nothing", action |-> "GET",
                  result |-> TRUE]
Query(name)   == [name |-> name, needs |-> "both", action |-> "GET",
                  result |-> TRUE]
Order(name, action) == [name |-> name, needs |-> "both", action |-> action,
                        result |-> TRUE]
Stream(name, action, result) ==
  [name |-> name, needs |-> "key", action |-> action, result |-> result]

get_exchangeInfo   == Public("get_exchangeInfo")
get_serverTime     == Public("get_serverTime")
get_allPrices      == Public("get_allPrices")
get_allBookTickers == Public("get_allBookTickers")
get_depth          == Public("get_depth")
get_aggTrades      == Public("get_aggTrades")
get_24hr           == Public("get_24hr")
get_klines         == Public("get_klines")

\* These two ask for all symbols, into a Json::Value of their own.
get_price      == [get_allPrices EXCEPT !.name = "get_price", !.result = FALSE]
get_bookTicker == [get_allBookTickers EXCEPT !.name = "get_bookTicker"]

get_account         == Query("get_account")
get_myTrades        == Query("get_myTrades")
get_openOrders      == Query("get_openOrders")
get_allOrders       == Query("get_allOrders")
get_order           == Query("get_order")
get_depositHistory  == Query("get_depositHistory")
get_withdrawHistory == Query("get_withdrawHistory")
get_depositAddress  == Query("get_depositAddress")

send_order   == Order("send_order", "POST")
cancel_order == Order("cancel_order", "DELETE")
withdraw     == Order("withdraw", "POST")

\* keep_ and close_ have no Json::Value.
start_userDataStream == Stream("start_userDataStream", "POST", TRUE)
keep_userDataStream  == Stream("keep_userDataStream", "PUT", FALSE)
close_userDataStream == Stream("close_userDataStream", "DELETE", FALSE)

Calls ==
  {get_exchangeInfo, get_serverTime, get_allPrices, get_price,
   get_allBookTickers, get_bookTicker, get_depth, get_aggTrades, get_24hr,
   get_klines, get_account, get_myTrades, get_openOrders, get_allOrders,
   send_order, get_order, cancel_order, start_userDataStream,
   keep_userDataStream, close_userDataStream, withdraw, get_depositHistory,
   get_withdrawHistory, get_depositAddress}

Writes(call) == call.action # "GET"

-----------------------------------------------------------------------------
\* There is a handle to use.
Usable == curl \notin {Null, Freed}

Init ==
  /\ api_key = "none" /\ secret_key = FALSE
  /\ curl = Null
  /\ wire = NoRequest
  /\ json = "nothing"
  /\ wrote = FALSE

\* A slip: a handle that exists is kept.
initKeepsHandle(key, secret) ==
  /\ api_key' = key /\ secret_key' = secret
  /\ curl' = IF curl \in {Null, Freed} THEN Fresh ELSE curl
  /\ wrote' = FALSE
  /\ UNCHANGED <<wire, json>>

\* A second init leaks the first handle.
init(key, secret) ==
  /\ api_key' = key /\ secret_key' = secret
  /\ curl' = Fresh
  /\ wrote' = FALSE
  /\ UNCHANGED <<wire, json>>

\* The handle is freed, and BinaCPP::curl not cleared: every use of it until
\* the next init is undefined, and not modelled.
cleanup ==
  /\ Usable
  /\ curl' = Freed
  /\ UNCHANGED <<api_key, secret_key, wire, json, wrote>>

\* A slip: the custom method is set for every action that has a body.
OptionsCustomPost(h, call) ==
  LET keyed == IF call.needs = "nothing" THEN h ELSE SetHeader(h, api_key)
  IN  IF Writes(call) THEN SetPostFields(SetCustomRequest(keyed, call.action))
                      ELSE SetCustomRequest(keyed, "GET")

\* A slip: the headers are set with the body.
OptionsHeaderLate(h, call) ==
  IF ~Writes(call) THEN h
  ELSE LET keyed == SetHeader(h, api_key)
           acted == IF call.action \in {"PUT", "DELETE"}
                    THEN SetCustomRequest(keyed, call.action) ELSE keyed
       IN  SetPostFields(acted)

\* The options curl_api_with_header has set on the handle when it performs.
\* Nothing is ever unset.
Options(h, call) ==
  LET keyed == IF call.needs = "nothing" THEN h ELSE SetHeader(h, api_key)
      acted == IF call.action \in {"PUT", "DELETE"}
               THEN SetCustomRequest(keyed, call.action) ELSE keyed
  IN  IF Writes(call) THEN SetPostFields(acted) ELSE acted

\* The request that is put on the wire.
Request(h, call) ==
  [call |-> call, method |-> Method(h), key |-> h.header, body |-> h.fields]

\* A call that needs keys returns at once when they are not set.
Allowed(call) ==
  /\ call.needs # "nothing" => api_key # "none"
  /\ call.needs = "both" => secret_key

\* A call: refused for want of keys; or without a handle, which looks to the
\* caller like an empty answer; or performed.  An empty answer leaves the
\* caller's Json::Value as it was; one that is no JSON empties it.
Call(call) ==
  \/ /\ ~Allowed(call) \/ curl = Null
     /\ curl # Freed
     /\ UNCHANGED vars
  \/ /\ Allowed(call)
     /\ Usable
     /\ wire' = Request(Options(curl, call), call)
     /\ curl' = Expire(Options(curl, call))
     /\ json' \in IF call.result THEN {json, "nothing", call.name} ELSE {json}
     /\ wrote' = (wrote \/ Writes(call))
     /\ UNCHANGED <<api_key, secret_key>>

Next ==
  \/ \E key \in Keys \cup {"none"}, secret \in BOOLEAN : init(key, secret)
  \/ cleanup
  \/ \E call \in Calls : Call(call)

Spec == Init /\ [][Next]_vars

-----------------------------------------------------------------------------
Handles == [custom : {"none", "PUT", "DELETE"},
            fields : {"none", "own", "stale"},
            header : Keys \cup {"none"}]

Requests == [call : Calls, method : {"GET", "POST", "PUT", "DELETE"},
             key : Keys \cup {"none"}, body : {"none", "own", "stale"}]

\* Between calls the handle never refers to the body of a call under way.
TypeOK ==
  /\ api_key \in Keys \cup {"none"}
  /\ secret_key \in BOOLEAN
  /\ curl \in Handles \cup {Null, Freed}
  /\ Usable => curl.fields # "own"
  /\ wire \in Requests \cup {NoRequest}
  /\ json \in {call.name : call \in Calls} \cup {"nothing"}
  /\ wrote \in BOOLEAN

\* A request is sent as its function documents it.
AsDocumented(r) ==
  /\ r.method = r.call.action
  /\ r.body = IF Writes(r.call) THEN "own" ELSE "none"

\* "get order (SIGNED) GET /api/v3/order" (binacpp.cpp:1002-1003), and so on
\* for every function: the method in its comment is the one it is sent with.
SentAsDocumented == wire # NoRequest => AsDocumented(wire)

\* Requests deviate from their documentation only on a handle that has been
\* used for a POST, PUT or DELETE before: a program that only reads, or that
\* calls init before each call, is served as documented.
DeviatesOnlyAfterWrite ==
  [][wire' # wire /\ ~wrote => AsDocumented(wire')]_vars

\* A request whose function needs the api key carries the key that is set,
\* and no request carries the key of an account the program has left.
CarriesCurrentKey ==
  [][wire' # wire => /\ wire'.key \in {api_key, "none"}
                     /\ wire'.call.needs # "nothing" => wire'.key # "none"]_vars
=============================================================================
