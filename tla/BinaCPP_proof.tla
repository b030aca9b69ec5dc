---------------------------- MODULE BinaCPP_proof ----------------------------
(***************************************************************************)
(* Theorems about BinaCPP for any set of keys.                             *)
(***************************************************************************)
EXTENDS BinaCPP, TLAPS

-----------------------------------------------------------------------------
(* What the options of a handle are after a call has set its own.          *)

LEMMA CallsType ==
  ASSUME NEW call \in Calls
  PROVE  /\ call.action \in {"GET", "POST", "PUT", "DELETE"}
         /\ call.needs \in {"nothing", "key", "both"}
         /\ call.result \in BOOLEAN
<1> DEFINE Typed(c) == /\ c.action \in {"GET", "POST", "PUT", "DELETE"}
                        /\ c.needs \in {"nothing", "key", "both"}
                        /\ c.result \in BOOLEAN
<1>1. \A name : Typed(Public(name)) /\ Typed(Query(name))
  BY DEF Public, Query
<1>2. \A name, action :
        action \in {"POST", "DELETE"} => Typed(Order(name, action))
  BY DEF Order
<1>3. \A name, action, result :
        action \in {"POST", "PUT", "DELETE"} /\ result \in BOOLEAN
          => Typed(Stream(name, action, result))
  BY DEF Stream
<1>4. Typed(get_price) /\ Typed(get_bookTicker)
  BY DEF get_price, get_bookTicker, get_allPrices, get_allBookTickers, Public
<1> HIDE DEF Typed
<1>5. CASE call \in {get_exchangeInfo, get_serverTime, get_allPrices,
                     get_allBookTickers, get_depth, get_aggTrades, get_24hr,
                     get_klines}
  <2>1. Typed(call)
    BY <1>1, <1>5 DEF get_exchangeInfo, get_serverTime, get_allPrices,
       get_allBookTickers, get_depth, get_aggTrades, get_24hr, get_klines
  <2>2. QED
    BY <2>1 DEF Typed
<1>6. CASE call \in {get_account, get_myTrades, get_openOrders, get_allOrders,
                     get_order, get_depositHistory, get_withdrawHistory,
                     get_depositAddress}
  <2>1. Typed(call)
    BY <1>1, <1>6 DEF get_account, get_myTrades, get_openOrders,
       get_allOrders, get_order, get_depositHistory, get_withdrawHistory,
       get_depositAddress
  <2>2. QED
    BY <2>1 DEF Typed
<1>7. CASE call \in {send_order, cancel_order, withdraw}
  <2>1. Typed(call)
    BY <1>2, <1>7 DEF send_order, cancel_order, withdraw
  <2>2. QED
    BY <2>1 DEF Typed
<1>8. CASE call \in {start_userDataStream, keep_userDataStream,
                     close_userDataStream}
  <2>1. Typed(call)
    BY <1>3, <1>8 DEF start_userDataStream, keep_userDataStream,
       close_userDataStream
  <2>2. QED
    BY <2>1 DEF Typed
<1>9. CASE call \in {get_price, get_bookTicker}
  BY <1>4, <1>9 DEF Typed
<1>10. QED
  BY <1>5, <1>6, <1>7, <1>8, <1>9 DEF Calls

LEMMA OptionsType ==
  ASSUME NEW h \in Handles, api_key \in Keys \cup {"none"},
         NEW call \in Calls
  PROVE  /\ Options(h, call) \in Handles
         /\ Options(h, call).header =
              IF call.needs = "nothing" THEN h.header ELSE api_key
         /\ Options(h, call).custom =
              IF call.action \in {"PUT", "DELETE"} THEN call.action
                                                   ELSE h.custom
         /\ Options(h, call).fields =
              IF Writes(call) THEN "own" ELSE h.fields
<1> DEFINE keyed == IF call.needs = "nothing" THEN h ELSE SetHeader(h, api_key)
           acted == IF call.action \in {"PUT", "DELETE"}
                    THEN SetCustomRequest(keyed, call.action) ELSE keyed
<1>1. /\ keyed \in Handles
      /\ keyed.header = IF call.needs = "nothing" THEN h.header ELSE api_key
      /\ keyed.custom = h.custom
      /\ keyed.fields = h.fields
  BY DEF Handles, SetHeader
<1>2. /\ acted \in Handles
      /\ acted.header = keyed.header
      /\ acted.custom = IF call.action \in {"PUT", "DELETE"} THEN call.action
                                                             ELSE h.custom
      /\ acted.fields = h.fields
  <2> HIDE DEF keyed
  <2>1. QED
    BY <1>1 DEF Handles, SetCustomRequest
<1>3. Options(h, call) = IF Writes(call) THEN SetPostFields(acted) ELSE acted
  BY DEF Options
<1> HIDE DEF keyed, acted
<1>4. QED
  BY <1>1, <1>2, <1>3 DEF Handles, SetPostFields

LEMMA ExpireType ==
  ASSUME NEW h \in Handles
  PROVE  /\ Expire(h) \in Handles
         /\ Expire(h).fields # "own"
         /\ Expire(h).header = h.header
         /\ Expire(h).custom = h.custom
         /\ Expire(h).fields = "none" <=> h.fields = "none"
BY DEF Handles, Expire

LEMMA RequestType ==
  ASSUME NEW h \in Handles, NEW call \in Calls
  PROVE  Request(h, call) \in Requests
<1>1. Method(h) \in {"GET", "POST", "PUT", "DELETE"}
  BY DEF Method, Handles
<1>2. QED
  BY <1>1 DEF Request, Requests, Handles

-----------------------------------------------------------------------------
(* Type correctness.                                                       *)

LEMMA CallType ==
  ASSUME TypeOK, NEW call \in Calls, Call(call)
  PROVE  TypeOK'
<1>1. CASE UNCHANGED vars
  BY <1>1 DEF TypeOK, vars, Usable
<1>2. CASE /\ Usable
           /\ wire' = Request(Options(curl, call), call)
           /\ curl' = Expire(Options(curl, call))
           /\ json' \in IF call.result
                        THEN {json, "nothing", call.name} ELSE {json}
           /\ wrote' = (wrote \/ Writes(call))
           /\ UNCHANGED <<api_key, secret_key>>
  <2>1. curl \in Handles /\ api_key \in Keys \cup {"none"}
    BY <1>2 DEF TypeOK, Usable
  <2>2. Options(curl, call) \in Handles
    BY <2>1, OptionsType
  <2>3. curl' \in Handles /\ curl'.fields # "own"
    BY <1>2, <2>2, ExpireType
  <2>4. wire' \in Requests
    BY <1>2, <2>2, RequestType
  <2>5. json' \in {c.name : c \in Calls} \cup {"nothing"}
    BY <1>2 DEF TypeOK
  <2>6. wrote' \in BOOLEAN
    BY <1>2, Zenon DEF TypeOK
  <2>7. QED
    BY <1>2, <2>1, <2>3, <2>4, <2>5, <2>6 DEF TypeOK
<1>3. QED
  BY <1>1, <1>2 DEF Call

LEMMA NextType ==
  ASSUME TypeOK, [Next]_vars
  PROVE  TypeOK'
<1>1. ASSUME NEW key \in Keys \cup {"none"}, NEW secret \in BOOLEAN,
             init(key, secret)
      PROVE  TypeOK'
  <2>1. Fresh \in Handles /\ Fresh.fields # "own"
    BY DEF Fresh, Handles
  <2>2. QED
    BY <1>1, <2>1 DEF init, TypeOK
<1>2. CASE cleanup
  BY <1>2 DEF cleanup, TypeOK, Usable
<1>3. ASSUME NEW call \in Calls, Call(call)
      PROVE  TypeOK'
  BY <1>3, CallType
<1>4. CASE UNCHANGED vars
  BY <1>4 DEF vars, TypeOK, Usable
<1>5. QED
  BY <1>1, <1>2, <1>3, <1>4 DEF Next

\* The variables keep their types: no call leaves a pointer to its own body
\* that looks valid on the handle, and no custom method but PUT and DELETE.
THEOREM TypeCorrect == Spec => []TypeOK
<1>1. Init => TypeOK
  BY DEF Init, TypeOK, Usable
<1>2. TypeOK /\ [Next]_vars => TypeOK'
  BY NextType
<1>3. QED
  BY <1>1, <1>2, PTL DEF Spec

-----------------------------------------------------------------------------
(* The key on the handle, and what a handle that only read looks like.     *)

HandleInv ==
  Usable => /\ curl.header \in {api_key, "none"}
            /\ ~wrote => curl.custom = "none" /\ curl.fields = "none"

LEMMA PerformedCall ==
  ASSUME TypeOK, HandleInv, NEW call \in Calls, Call(call), ~UNCHANGED vars
  PROVE  /\ HandleInv'
         /\ wire'.call = call
         /\ wire'.key \in {api_key, "none"}
         /\ call.needs # "nothing" => wire'.key # "none"
         /\ ~wrote => AsDocumented(wire')
<1>1. /\ Usable /\ Allowed(call)
      /\ wire' = Request(Options(curl, call), call)
      /\ curl' = Expire(Options(curl, call))
      /\ wrote' = (wrote \/ Writes(call))
      /\ UNCHANGED api_key
  BY DEF Call
<1>2. /\ curl \in Handles /\ api_key \in Keys \cup {"none"}
      /\ curl.header \in {api_key, "none"}
      /\ ~wrote => curl.custom = "none" /\ curl.fields = "none"
  BY <1>1 DEF TypeOK, HandleInv, Usable
<1>3. /\ call.action \in {"GET", "POST", "PUT", "DELETE"}
      /\ call.needs # "nothing" => api_key # "none"
  BY <1>1, CallsType DEF Allowed
<1>4. PICK h \in Handles :
        /\ h = Options(curl, call)
        /\ h.header = IF call.needs = "nothing" THEN curl.header ELSE api_key
        /\ h.custom = IF call.action \in {"PUT", "DELETE"} THEN call.action
                                                           ELSE curl.custom
        /\ h.fields = IF Writes(call) THEN "own" ELSE curl.fields
  BY <1>2, OptionsType
<1>5. wire' = [call |-> call, method |-> Method(h), key |-> h.header,
               body |-> h.fields]
  BY <1>1, <1>4 DEF Request
<1>6. HandleInv'
  <2>1. /\ curl'.header = h.header /\ curl'.custom = h.custom
        /\ curl'.fields = "none" <=> h.fields = "none"
    BY <1>1, <1>4, ExpireType
  <2>2. curl'.header \in {api_key', "none"}
    BY <1>1, <1>2, <1>4, <2>1
  <2>3. ASSUME ~wrote'
        PROVE  curl'.custom = "none" /\ curl'.fields = "none"
    <3>1. ~wrote /\ ~Writes(call)
      BY <1>1, <2>3
    <3>2. call.action = "GET"
      BY <3>1 DEF Writes
    <3>3. QED
      BY <1>2, <1>4, <2>1, <3>1, <3>2
  <2>4. QED
    BY <2>2, <2>3 DEF HandleInv
<1>7. ~wrote => AsDocumented(wire')
  <2> SUFFICES ASSUME ~wrote
               PROVE  /\ Method(h) = call.action
                      /\ h.fields = IF Writes(call) THEN "own" ELSE "none"
    BY <1>5 DEF AsDocumented
  <2>1. h.fields = IF Writes(call) THEN "own" ELSE "none"
    BY <1>2, <1>4
  <2>2. h.custom = IF call.action \in {"PUT", "DELETE"} THEN call.action
                                                        ELSE "none"
    BY <1>2, <1>4
  <2>3. QED
    BY <1>3, <2>1, <2>2 DEF Method, Writes
<1>8. QED
  BY <1>2, <1>3, <1>4, <1>5, <1>6, <1>7

LEMMA HandleInvInit == Init => HandleInv
BY DEF Init, HandleInv, Usable

LEMMA HandleInvStep == TypeOK /\ HandleInv /\ [Next]_vars => HandleInv'
<1> SUFFICES ASSUME TypeOK, HandleInv, [Next]_vars
             PROVE  HandleInv'
  OBVIOUS
<1>1. ASSUME NEW key \in Keys \cup {"none"}, NEW secret \in BOOLEAN,
             init(key, secret)
      PROVE  HandleInv'
  BY <1>1 DEF init, HandleInv, Fresh
<1>2. CASE cleanup
  BY <1>2 DEF cleanup, HandleInv, Usable
<1>3. CASE UNCHANGED vars
  BY <1>3 DEF vars, HandleInv, Usable
<1>4. ASSUME NEW call \in Calls, Call(call)
      PROVE  HandleInv'
  BY <1>3, <1>4, PerformedCall
<1>5. QED
  BY <1>1, <1>2, <1>3, <1>4 DEF Next

\* Only a performed call changes wire.
LEMMA WireStep ==
  ASSUME [Next]_vars, wire' # wire
  PROVE  \E call \in Calls : Call(call) /\ ~UNCHANGED vars
BY DEF Next, init, cleanup, vars

\* Whatever accounts a program changes between, and with whatever keys
\* missing, a request carries the key that is set, and carries one if its
\* function needs it.
THEOREM KeyIsCurrent == Spec => CarriesCurrentKey
<1>1. TypeOK /\ HandleInv /\ [Next]_vars =>
        [wire' # wire => /\ wire'.key \in {api_key, "none"}
                         /\ wire'.call.needs # "nothing" =>
                              wire'.key # "none"]_vars
  <2> SUFFICES ASSUME TypeOK, HandleInv, [Next]_vars, wire' # wire
               PROVE  /\ wire'.key \in {api_key, "none"}
                      /\ wire'.call.needs # "nothing" => wire'.key # "none"
    OBVIOUS
  <2>1. PICK call \in Calls : Call(call) /\ ~UNCHANGED vars
    BY WireStep
  <2>2. QED
    BY <2>1, PerformedCall
<1>2. QED
  BY <1>1, TypeCorrect, HandleInvInit, HandleInvStep, PTL
     DEF Spec, CarriesCurrentKey

\* On a handle that has sent no POST, PUT or DELETE since init, every request
\* has the method and the body its documentation gives it.
THEOREM OnlyWritesLinger == Spec => DeviatesOnlyAfterWrite
<1>1. TypeOK /\ HandleInv /\ [Next]_vars =>
        [wire' # wire /\ ~wrote => AsDocumented(wire')]_vars
  <2> SUFFICES ASSUME TypeOK, HandleInv, [Next]_vars, wire' # wire, ~wrote
               PROVE  AsDocumented(wire')
    OBVIOUS
  <2>1. PICK call \in Calls : Call(call) /\ ~UNCHANGED vars
    BY WireStep
  <2>2. QED
    BY <2>1, PerformedCall
<1>2. QED
  BY <1>1, TypeCorrect, HandleInvInit, HandleInvStep, PTL
     DEF Spec, DeviatesOnlyAfterWrite
=============================================================================
