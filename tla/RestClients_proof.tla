-------------------------- MODULE RestClients_proof -------------------------
(***************************************************************************)
(* RestClients implements RestPromise for any number of callers and        *)
(* accounts.  CallerInv says of one caller what its call has got together   *)
(* so far, and of which keys; a caller that is not disturbed reads the key  *)
(* and the secret of one account because no half of init can come between.  *)
(* Each step of the detailed clients is then a step of the promise or one   *)
(* that it does not see.                                                    *)
(***************************************************************************)
EXTENDS RestClients, TLAPS

Keys == Accounts \cup {NoAccount}
Signatures == [by : Keys, method : Methods, body : BOOLEAN]
Requests == [account : Keys, method : Methods, body : BOOLEAN, sign : Signatures \cup {NoSign}]

VenueOf(t) == Call[call[t]].venue

TypeInv ==
  /\ key \in [Venues -> Keys] /\ secret \in [Venues -> Keys] /\ setting \in [Venues -> Keys]
  /\ pc \in [Callers -> Places]
  /\ call \in [Callers -> Calls \cup {NoCall}]
  /\ hdr \in [Callers -> Keys]
  /\ sig \in [Callers -> Signatures \cup {NoSign}]
  /\ digest \in Signatures \cup {NoSign}
  /\ request \in [Callers -> Requests \cup {NoRequest}]
  /\ tasks \in [Callers -> Nat]

\* While no account is being set key and secret are one account's.
KeysInv ==
  \A v \in Venues :
    IF setting[v] = NoAccount THEN key[v] = secret[v]
    ELSE key[v] = setting[v]

Working(t) == pc[t] \in Places \ {"idle", "return"}

\* s covers what the call of t sends.
Covers(t, s) ==
  /\ s.method = Call[call[t]].method
  /\ s.body = Call[call[t]].body
  /\ Call[call[t]].guarded => s.by # NoAccount
  /\ t \notin disturbed => s.by = secret[VenueOf(t)]

CallerInv(t) ==
  /\ pc[t] # "idle" => call[t] \in Calls
  /\ pc[t] # "return" => request[t] = NoRequest
  /\ pc[t] \in {"idle", "guard", "header", "sign", "hex"} => sig[t] = NoSign
  /\ pc[t] \in {"header", "sign", "hex", "send"} /\ Call[call[t]].guarded =>
       key[VenueOf(t)] # NoAccount /\ secret[VenueOf(t)] # NoAccount
  /\ pc[t] \in {"sign", "hex", "send"} /\ Call[call[t]].guarded => hdr[t] # NoAccount
  /\ Working(t) /\ t \notin disturbed => setting[VenueOf(t)] = NoAccount
  /\ pc[t] \in {"sign", "hex", "send"} /\ t \notin disturbed => hdr[t] = key[VenueOf(t)]
  /\ pc[t] \in {"sign", "hex"} => Call[call[t]].signed
  /\ pc[t] = "hex" => VenueOf(t) = "pionex" /\ digest \in Signatures
  /\ pc[t] = "hex" /\ t \notin crossed => Covers(t, digest)
  /\ pc[t] = "send" /\ ~Call[call[t]].signed => sig[t] = NoSign
  /\ pc[t] = "send" /\ Call[call[t]].signed => sig[t] \in Signatures
  /\ pc[t] = "send" /\ Call[call[t]].signed /\ t \notin crossed => Covers(t, sig[t])

RestInv == TypeInv /\ KeysInv /\ \A t \in Callers : CallerInv(t)

-----------------------------------------------------------------------------
(* What is said of every call in RestCalls.                                *)

LEMMA CallsAre ==
  Calls = {"send_order", "send_order_cb", "send_order_null", "cancel_order", "get_order",
           "get_order_local", "get_all_pos", "okex_send_order", "okex_get_pos", "okex_get_order"}
BY DEF Calls, Call

LEMMA CallFacts ==
  ASSUME NEW c \in Calls
  PROVE  /\ Call[c].venue \in Venues /\ Call[c].method \in Methods /\ Call[c].body \in BOOLEAN
         /\ Call[c].guarded => Call[c].signed
         /\ Call[c].async => Call[c].method = "POST"
         /\ Method(Options(c)) = Call[c].method
         /\ c # NoCall
<1> USE DEF Call, Pionex, Okex, send_order, cancel_order, get_order, get_order_local,
            get_all_pos, send_order_cb, okex_send_order, okex_get_pos, okex_get_order
<1>1. /\ Call[c].venue \in Venues /\ Call[c].method \in Methods
      /\ Call[c].async => Call[c].method = "POST"
  BY CallsAre DEF Venues, Methods
<1>2. Call[c].body \in BOOLEAN
  <2>1. CASE c \in {"send_order", "send_order_cb", "send_order_null", "cancel_order", "okex_send_order"}
    <3>1. Call[c].body = TRUE
      BY <2>1
    <3>2. QED
      BY <3>1
  <2>2. CASE c \in {"get_order", "get_order_local", "get_all_pos", "okex_get_pos", "okex_get_order"}
    <3>1. Call[c].body = FALSE
      BY <2>2
    <3>2. QED
      BY <3>1
  <2>3. QED
    BY CallsAre, <2>1, <2>2
<1>3. Call[c].guarded => Call[c].signed
  BY CallsAre
<1>4. Method(Options(c)) = Call[c].method
  BY CallsAre DEF Method, Options, Fresh, SetCustomRequest, SetPostFields
<1>5. c # NoCall
  BY CallsAre DEF NoCall
<1>6. QED
  BY <1>1, <1>2, <1>3, <1>4, <1>5

LEMMA PromisedCalls == Promise!Call = Call /\ Promise!Calls = Calls /\ Promise!NoCall = NoCall
                       /\ Promise!Venues = Venues /\ Promise!Methods = Methods
BY DEF Promise!Call, Promise!Pionex, Promise!Okex, Promise!send_order, Promise!cancel_order,
       Promise!get_order, Promise!get_order_local, Promise!get_all_pos, Promise!send_order_cb,
       Promise!okex_send_order, Promise!okex_get_pos, Promise!okex_get_order,
       Call, Pionex, Okex, send_order, cancel_order, get_order, get_order_local,
       get_all_pos, send_order_cb, okex_send_order, okex_get_pos, okex_get_order,
       Promise!Calls, Calls, Promise!NoCall, NoCall, Promise!Venues, Venues, Promise!Methods, Methods

-----------------------------------------------------------------------------
(* The invariant.                                                          *)

LEMMA RestInit == Init => RestInv
<1> SUFFICES ASSUME Init PROVE RestInv
  OBVIOUS
<1>1. TypeInv
  BY DEF Init, TypeInv, Keys, Places
<1>2. KeysInv
  BY DEF Init, KeysInv
<1>3. ASSUME NEW t \in Callers PROVE CallerInv(t)
  BY DEF Init, CallerInv, Working
<1>4. QED
  BY <1>1, <1>2, <1>3 DEF RestInv

\* What a step of another caller may do without u noticing.
LEMMA Frame ==
  ASSUME NEW u \in Callers, CallerInv(u), UNCHANGED keys,
         pc'[u] = pc[u], call'[u] = call[u], hdr'[u] = hdr[u], sig'[u] = sig[u],
         request'[u] = request[u],
         u \in disturbed' <=> u \in disturbed,
         u \in crossed => u \in crossed',
         digest' = digest \/ pc[u] # "hex" \/ (u \in crossed' /\ digest' \in Signatures)
  PROVE  CallerInv(u)'
BY DEF CallerInv, Covers, VenueOf, Working, keys

\* A caller that is idle again has nothing left of its call.
LEMMA IdleInv ==
  ASSUME NEW t \in Callers, pc'[t] = "idle", request'[t] = NoRequest, sig'[t] = NoSign
  PROVE  CallerInv(t)'
BY DEF CallerInv, Working

LEMMA LeaveInv ==
  ASSUME RestInv, NEW t \in Callers, Leave(t), UNCHANGED <<keys, digest>>,
         tasks' \in [Callers -> Nat]
  PROVE  RestInv'
<1> USE DEF RestInv
<1>1. TypeInv'
  BY DEF TypeInv, Leave, keys, Places, Keys
<1>2. KeysInv'
  BY DEF KeysInv, keys
<1>3. CallerInv(t)'
  BY IdleInv DEF Leave, TypeInv
<1>4. ASSUME NEW u \in Callers, u # t PROVE CallerInv(u)'
  BY <1>4, Frame DEF Leave, TypeInv
<1>5. QED
  BY <1>1, <1>2, <1>3, <1>4

\* Those whose keys are written are disturbed, unless they have sent.
LEMMA InitStep ==
  ASSUME RestInv, NEW v \in Venues, InitSecret(v) \/ \E a \in Sets[v] : InitKey(v, a)
  PROVE  RestInv'
<1> USE DEF RestInv
<1>1. Sets[v] \subseteq Accounts /\ NoAccount \notin Accounts
  BY MayAssumption, AccountsAssumption
<1> DEFINE Written ==
      /\ UNCHANGED <<pc, call, hdr, sig, digest, request, tasks, crossed>>
      /\ disturbed' = disturbed \cup
           {t \in Callers : pc[t] # "idle" /\ Call[call[t]].venue = v /\ request[t] = NoRequest}
      /\ \A w \in Venues \ {v} : key'[w] = key[w] /\ secret'[w] = secret[w] /\ setting'[w] = setting[w]
      /\ key[v] # NoAccount => key'[v] # NoAccount
      /\ secret[v] # NoAccount => secret'[v] # NoAccount
      /\ IF setting'[v] = NoAccount THEN key'[v] = secret'[v] ELSE key'[v] = setting'[v]
      /\ key' \in [Venues -> Keys] /\ secret' \in [Venues -> Keys] /\ setting' \in [Venues -> Keys]
<1>2. Written
  <2>1. CASE InitSecret(v)
    BY <2>1 DEF InitSecret, KeysInv, TypeInv, Keys
  <2>2. ASSUME NEW a \in Sets[v], InitKey(v, a)
        PROVE  Written
    BY <1>1, <2>2 DEF InitKey, KeysInv, TypeInv, Keys
  <2>3. QED
    BY <2>1, <2>2
<1>3. TypeInv'
  BY <1>2 DEF TypeInv
<1>4. KeysInv'
  BY <1>2 DEF KeysInv
<1>5. ASSUME NEW t \in Callers PROVE CallerInv(t)'
  <2>1. CASE VenueOf(t) = v
    <3>1. Working(t) => t \in disturbed'
      BY <1>2, <2>1 DEF Working, CallerInv, VenueOf, Places
    <3>2. pc[t] \in {"header", "sign", "hex", "send"} => Working(t)
      BY DEF Working, Places
    <3>3. QED
      BY <1>2, <2>1, <3>1, <3>2 DEF CallerInv, Covers, VenueOf, Working
  <2>2. CASE VenueOf(t) # v
    <3>1. pc[t] # "idle" => VenueOf(t) \in Venues
      BY CallFacts DEF CallerInv, VenueOf
    <3>2. t \in disturbed' <=> t \in disturbed
      BY <1>2, <2>2 DEF VenueOf
    <3>3. QED
      BY <1>2, <2>2, <3>1, <3>2 DEF CallerInv, Covers, VenueOf, Working
  <2>3. QED
    BY <2>1, <2>2
<1>6. QED
  BY <1>3, <1>4, <1>5

-----------------------------------------------------------------------------
(* The callers' steps.                                                     *)

LEMMA EnterStep ==
  ASSUME RestInv, NEW t \in Callers, NEW c \in Calls, Enter(t, c)
  PROVE  RestInv'
<1> USE DEF RestInv
<1>1. /\ pc[t] = "idle" /\ call' = [call EXCEPT ![t] = c]
      /\ pc' = [pc EXCEPT ![t] = IF Call[c].guarded THEN "guard" ELSE "header"]
      /\ disturbed' = IF setting[Call[c].venue] = NoAccount THEN disturbed ELSE disturbed \cup {t}
      /\ UNCHANGED <<keys, hdr, sig, digest, request, tasks, crossed>>
  BY DEF Enter
<1>2. TypeInv'
  BY <1>1 DEF TypeInv, keys, Places
<1>3. KeysInv'
  BY <1>1 DEF KeysInv, keys
<1>4. CallerInv(t)'
  <2>1. /\ call'[t] = c /\ request'[t] = NoRequest /\ sig'[t] = NoSign
        /\ pc'[t] = "guard" \/ (pc'[t] = "header" /\ ~Call[c].guarded)
    BY <1>1 DEF TypeInv, CallerInv
  <2>2. t \notin disturbed' => setting'[Call[c].venue] = NoAccount
    BY <1>1 DEF keys
  <2>3. QED
    BY <2>1, <2>2 DEF CallerInv, VenueOf, Working
<1>5. ASSUME NEW u \in Callers, u # t PROVE CallerInv(u)'
  BY <1>1, <1>5, Frame DEF TypeInv
<1>6. QED
  BY <1>2, <1>3, <1>4, <1>5

LEMMA GuardStep ==
  ASSUME RestInv, NEW t \in Callers, Guard(t)
  PROVE  RestInv'
<1> USE DEF RestInv
<1>1. UNCHANGED <<keys, digest, tasks>> /\ pc[t] = "guard"
  BY DEF Guard
<1>2. CASE Leave(t)
  BY <1>1, <1>2, LeaveInv DEF TypeInv
<1>3. CASE ~Leave(t)
  <2>1. /\ key[VenueOf(t)] # NoAccount /\ secret[VenueOf(t)] # NoAccount
        /\ pc' = [pc EXCEPT ![t] = "header"]
        /\ UNCHANGED <<call, hdr, sig, request, hist>>
    BY <1>3 DEF Guard, VenueOf
  <2>2. TypeInv' /\ KeysInv'
    BY <1>1, <2>1 DEF TypeInv, KeysInv, keys, hist, Places
  <2>3. CallerInv(t)'
    BY <1>1, <2>1 DEF TypeInv, CallerInv, VenueOf, Working, keys, hist, Places
  <2>4. ASSUME NEW u \in Callers, u # t PROVE CallerInv(u)'
    BY <1>1, <2>1, <2>4, Frame DEF TypeInv, hist
  <2>5. QED
    BY <2>2, <2>3, <2>4
<1>4. QED
  BY <1>2, <1>3

LEMMA HeaderStep ==
  ASSUME RestInv, NEW t \in Callers, Header(t)
  PROVE  RestInv'
<1> USE DEF RestInv
<1>1. /\ pc[t] = "header" /\ hdr' = [hdr EXCEPT ![t] = key[VenueOf(t)]]
      /\ pc' = [pc EXCEPT ![t] = IF Call[call[t]].signed THEN "sign" ELSE "send"]
      /\ UNCHANGED <<keys, call, sig, digest, request, tasks, hist>>
  BY DEF Header, VenueOf
<1>2. call[t] \in Calls /\ VenueOf(t) \in Venues
  BY <1>1, CallFacts DEF CallerInv, VenueOf
<1>3. TypeInv' /\ KeysInv'
  BY <1>1, <1>2 DEF TypeInv, KeysInv, keys, Places
<1>4. CallerInv(t)'
  <2>1. hdr'[t] = key[VenueOf(t)]
    BY <1>1 DEF TypeInv
  <2>2. CASE Call[call[t]].signed
    <3>1. pc'[t] = "sign"
      BY <1>1, <2>2 DEF TypeInv
    <3>2. QED
      BY <1>1, <2>1, <2>2, <3>1 DEF CallerInv, VenueOf, Working, keys, hist, Places
  <2>3. CASE ~Call[call[t]].signed
    <3>1. pc'[t] = "send"
      BY <1>1, <2>3 DEF TypeInv
    <3>2. ~Call[call[t]].guarded
      BY <1>2, <2>3, CallFacts
    <3>3. QED
      BY <1>1, <2>1, <2>3, <3>1, <3>2 DEF CallerInv, VenueOf, Working, keys, hist, Places
  <2>4. QED
    BY <2>2, <2>3
<1>5. ASSUME NEW u \in Callers, u # t PROVE CallerInv(u)'
  BY <1>1, <1>5, Frame DEF TypeInv, hist
<1>6. QED
  BY <1>3, <1>4, <1>5

\* What a call signs covers it, with the secret of now.
LEMMA SignatureFacts ==
  ASSUME RestInv, NEW t \in Callers, pc[t] = "sign"
  PROVE  /\ Signature(t) \in Signatures
         /\ Covers(t, Signature(t))
<1>1. call[t] \in Calls /\ CallerInv(t)
  BY DEF RestInv, CallerInv
<1>2. Signature(t) \in Signatures
  BY <1>1, CallFacts DEF Signature, Signatures, RestInv, TypeInv
<1>3. Covers(t, Signature(t))
  BY <1>1 DEF Signature, Covers, CallerInv, VenueOf
<1>4. QED
  BY <1>2, <1>3

LEMMA SignStep ==
  ASSUME RestInv, NEW t \in Callers, get_okex_sign(t)
  PROVE  RestInv'
<1> USE DEF RestInv
<1>1. /\ pc[t] = "sign" /\ sig' = [sig EXCEPT ![t] = Signature(t)]
      /\ pc' = [pc EXCEPT ![t] = "send"]
      /\ UNCHANGED <<keys, call, hdr, digest, request, tasks, hist>>
  BY DEF get_okex_sign
<1>2. Signature(t) \in Signatures /\ Covers(t, Signature(t))
  BY <1>1, SignatureFacts
<1>3. TypeInv' /\ KeysInv'
  BY <1>1, <1>2 DEF TypeInv, KeysInv, keys, Places
<1>4. CallerInv(t)'
  <2>1. pc'[t] = "send" /\ sig'[t] = Signature(t)
    BY <1>1 DEF TypeInv
  <2>2. Covers(t, sig[t])'
    BY <1>1, <1>2, <2>1 DEF Covers, VenueOf, keys, hist
  <2>3. QED
    BY <1>1, <1>2, <2>1, <2>2 DEF CallerInv, VenueOf, Working, keys, hist, Places
<1>5. ASSUME NEW u \in Callers, u # t PROVE CallerInv(u)'
  BY <1>1, <1>5, Frame DEF TypeInv, hist
<1>6. QED
  BY <1>3, <1>4, <1>5

\* The digest of whoever was about to copy his own is lost to him.
LEMMA HMACStep ==
  ASSUME RestInv, NEW t \in Callers, HMAC(t)
  PROVE  RestInv'
<1> USE DEF RestInv
<1>1. /\ pc[t] = "sign" /\ VenueOf(t) = "pionex" /\ digest' = Signature(t)
      /\ crossed' = crossed \cup {u \in Callers \ {t} : pc[u] = "hex"}
      /\ pc' = [pc EXCEPT ![t] = "hex"]
      /\ UNCHANGED <<keys, call, hdr, sig, request, tasks, disturbed>>
  BY DEF HMAC, VenueOf
<1>2. Signature(t) \in Signatures /\ Covers(t, Signature(t))
  BY <1>1, SignatureFacts
<1>3. TypeInv' /\ KeysInv'
  BY <1>1, <1>2 DEF TypeInv, KeysInv, keys, Places
<1>4. CallerInv(t)'
  <2>1. pc'[t] = "hex"
    BY <1>1 DEF TypeInv
  <2>2. Covers(t, digest)'
    BY <1>1, <1>2 DEF Covers, VenueOf, keys
  <2>3. QED
    BY <1>1, <1>2, <2>1, <2>2 DEF CallerInv, VenueOf, Working, keys, Places
<1>5. ASSUME NEW u \in Callers, u # t PROVE CallerInv(u)'
  BY <1>1, <1>2, <1>5, Frame DEF TypeInv
<1>6. QED
  BY <1>3, <1>4, <1>5

LEMMA HexStep ==
  ASSUME RestInv, NEW t \in Callers, b2a_hex(t)
  PROVE  RestInv'
<1> USE DEF RestInv
<1>1. /\ pc[t] = "hex" /\ sig' = [sig EXCEPT ![t] = digest]
      /\ digest' = IF \E u \in Callers \ {t} : pc[u] = "hex" THEN digest ELSE NoSign
      /\ pc' = [pc EXCEPT ![t] = "send"]
      /\ UNCHANGED <<keys, call, hdr, request, tasks, hist>>
  BY DEF b2a_hex
<1>2. TypeInv' /\ KeysInv'
  BY <1>1 DEF TypeInv, KeysInv, keys, Places
<1>3. CallerInv(t)'
  <2>1. pc'[t] = "send" /\ sig'[t] = digest
    BY <1>1 DEF TypeInv
  <2>2. t \notin crossed => Covers(t, sig[t])'
    BY <1>1, <2>1 DEF CallerInv, Covers, VenueOf, keys, hist
  <2>3. QED
    BY <1>1, <2>1, <2>2 DEF CallerInv, VenueOf, Working, keys, hist, Places
<1>4. ASSUME NEW u \in Callers, u # t PROVE CallerInv(u)'
  BY <1>1, <1>4, Frame DEF TypeInv, hist
<1>5. QED
  BY <1>2, <1>3, <1>4

\* The call has done all it does with its keys.
LEMMA ReturnInv ==
  ASSUME RestInv, NEW t \in Callers, pc[t] = "send", pc' = [pc EXCEPT ![t] = "return"],
         \/ request' = request
         \/ \E r \in Requests : request' = [request EXCEPT ![t] = r],
         UNCHANGED <<keys, call, hdr, sig, digest, hist>>,
         tasks' \in [Callers -> Nat]
  PROVE  RestInv'
<1> USE DEF RestInv
<1>1. TypeInv' /\ KeysInv'
  BY DEF TypeInv, KeysInv, keys, Places
<1>2. CallerInv(t)'
  BY DEF CallerInv, TypeInv, Working
<1>3. ASSUME NEW u \in Callers, u # t PROVE CallerInv(u)'
  BY <1>3, Frame DEF TypeInv, hist
<1>4. QED
  BY <1>1, <1>2, <1>3

\* What goes out is the documented request.
LEMMA SentIsRequest ==
  ASSUME RestInv, NEW t \in Callers, pc[t] = "send"
  PROVE  /\ call[t] \in Calls
         /\ Sent(t, Call[call[t]].method, Call[call[t]].body) \in Requests
BY CallFacts DEF RestInv, TypeInv, CallerInv, Sent, Requests

LEMMA PerformStep ==
  ASSUME RestInv, NEW t \in Callers, Perform(t) \/ http_async(t)
  PROVE  /\ pc[t] = "send" /\ pc' = [pc EXCEPT ![t] = "return"]
         /\ UNCHANGED <<keys, call, hdr, sig, digest, hist>>
         /\ \/ request' = request
            \/ request' = [request EXCEPT ![t] = Sent(t, Call[call[t]].method, Call[call[t]].body)]
         /\ tasks' \in [Callers -> Nat]
<1>1. CASE Perform(t)
  BY <1>1, SentIsRequest, CallFacts DEF Perform, RestInv, TypeInv
<1>2. CASE http_async(t)
  <2>1. tasks' = [tasks EXCEPT ![t] = @ + 1]
    BY <1>2 DEF http_async
  <2>2. tasks' \in [Callers -> Nat]
    BY <2>1 DEF RestInv, TypeInv
  <2>3. QED
    BY <1>2, <2>2, SentIsRequest, CallFacts DEF http_async
<1>3. QED
  BY <1>1, <1>2

LEMMA RestStep == RestInv /\ [Next]_vars => RestInv'
<1> SUFFICES ASSUME RestInv, [Next]_vars PROVE RestInv'
  OBVIOUS
<1> USE DEF RestInv
<1>1. ASSUME NEW v \in Venues, InitSecret(v) \/ \E a \in Sets[v] : InitKey(v, a)
      PROVE  RestInv'
  BY <1>1, InitStep
<1>2. ASSUME NEW t \in Callers, NEW c \in Calls, Enter(t, c) PROVE RestInv'
  BY <1>2, EnterStep
<1>3. ASSUME NEW t \in Callers, Callback(t) PROVE RestInv'
  <2>1. /\ UNCHANGED <<keys, pc, call, hdr, sig, digest, request, hist>>
        /\ tasks[t] > 0 /\ tasks' = [tasks EXCEPT ![t] = @ - 1]
    BY <1>3 DEF Callback
  <2>2. tasks' \in [Callers -> Nat]
    BY <2>1 DEF TypeInv
  <2>3. TypeInv' /\ KeysInv'
    BY <2>1, <2>2 DEF TypeInv, KeysInv, keys
  <2>4. ASSUME NEW u \in Callers PROVE CallerInv(u)'
    BY <2>1, Frame DEF hist
  <2>5. QED
    BY <2>3, <2>4
<1>4. ASSUME NEW t \in Callers, Step(t) PROVE RestInv'
  <2>1. CASE Guard(t)
    BY <2>1, GuardStep
  <2>2. CASE Header(t)
    BY <2>2, HeaderStep
  <2>3. CASE get_okex_sign(t)
    BY <2>3, SignStep
  <2>4. CASE HMAC(t)
    BY <2>4, HMACStep
  <2>5. CASE b2a_hex(t)
    BY <2>5, HexStep
  <2>6. CASE Perform(t) \/ http_async(t)
    <3>1. PICK r \in Requests : request' = request \/ request' = [request EXCEPT ![t] = r]
      BY <2>6, PerformStep, SentIsRequest
    <3>2. QED
      BY <2>6, <3>1, PerformStep, ReturnInv
  <2>7. CASE NullId(t)
    BY <2>7, LeaveInv DEF NullId, TypeInv
  <2>8. CASE Return(t)
    BY <2>8, LeaveInv DEF Return, TypeInv
  <2>9. QED
    BY <1>4, <2>1, <2>2, <2>3, <2>4, <2>5, <2>6, <2>7, <2>8 DEF Step
<1>5. CASE UNCHANGED vars
  <2>1. TypeInv' /\ KeysInv'
    BY <1>5 DEF vars, keys, TypeInv, KeysInv
  <2>2. ASSUME NEW u \in Callers PROVE CallerInv(u)'
    BY <1>5, Frame DEF vars, hist
  <2>3. QED
    BY <2>1, <2>2
<1>6. QED
  BY <1>1, <1>2, <1>3, <1>4, <1>5 DEF Next

\* Whatever a caller has got together for its request is its own account's
\* and its own call's, but for what the history says of it.
THEOREM RestInvariant == Spec => []RestInv
<1>1. QED
  BY RestInit, RestStep, PTL DEF Spec

-----------------------------------------------------------------------------
(* The promise, step by step.                                              *)

LEMMA PhaseStep ==
  ASSUME NEW t \in Callers,
         \A u \in Callers \ {t} : (pc'[u] = "idle" <=> pc[u] = "idle") /\ request'[u] = request[u]
  PROVE  Phase' = [Phase EXCEPT ![t] = Phase'[t]]
BY DEF Phase

LEMMA PhaseKept ==
  ASSUME \A u \in Callers : (pc'[u] = "idle" <=> pc[u] = "idle") /\ request'[u] = request[u]
  PROVE  Phase' = Phase
BY DEF Phase

\* Before its request a call is busy.
LEMMA PhaseBusy ==
  ASSUME RestInv, NEW t \in Callers, Working(t)
  PROVE  Phase[t] = "busy"
BY DEF Phase, Working, RestInv, CallerInv, Places

LEMMA PromisedInit == Init => Promise!Init
<1> SUFFICES ASSUME Init PROVE Promise!Init
  OBVIOUS
<1>1. Phase = [t \in Callers |-> "idle"]
  BY DEF Init, Phase
<1>2. {v \in Venues : setting[v] # NoAccount} = {}
  BY DEF Init
<1>3. QED
  BY <1>1, <1>2, PromisedCalls DEF Init, Promise!Init

\* A call that ends without a request has given up, one that ends with one
\* returns.
LEMMA PromisedLeave ==
  ASSUME RestInv, NEW t \in Callers, Leave(t), UNCHANGED keys, pc[t] # "idle"
  PROVE  Promise!GiveUp(t) \/ Promise!Return(t)
<1>1. Phase' = [Phase EXCEPT ![t] = "idle"]
  <2>1. Phase'[t] = "idle"
    BY DEF Phase, Leave, RestInv, TypeInv
  <2>2. QED
    BY <2>1, PhaseStep DEF Leave, RestInv, TypeInv
<1>2. UNCHANGED {v \in Venues : setting[v] # NoAccount}
  BY DEF keys
<1>3. CASE request[t] = NoRequest
  <2>1. Phase[t] = "busy" /\ request' = request
    BY <1>3 DEF Phase, Leave, RestInv, TypeInv
  <2>2. QED
    BY <1>1, <1>2, <2>1, PromisedCalls DEF Promise!GiveUp, Leave
<1>4. CASE request[t] # NoRequest
  <2>1. Phase[t] = "sent"
    BY <1>4 DEF Phase
  <2>2. QED
    BY <1>1, <1>2, <2>1, PromisedCalls DEF Promise!Return, Leave
<1>5. QED
  BY <1>3, <1>4

LEMMA PromisedEnter ==
  ASSUME RestInv, NEW t \in Callers, NEW c \in Calls, Enter(t, c)
  PROVE  Promise!Begin(t)
<1>1. /\ pc[t] = "idle" /\ call' = [call EXCEPT ![t] = c]
      /\ pc' = [pc EXCEPT ![t] = IF Call[c].guarded THEN "guard" ELSE "header"]
      /\ disturbed' = IF setting[Call[c].venue] = NoAccount THEN disturbed ELSE disturbed \cup {t}
      /\ UNCHANGED <<keys, request, crossed>>
  BY DEF Enter
<1>2. Phase[t] = "idle" /\ Phase'[t] = "busy"
  BY <1>1 DEF Phase, RestInv, TypeInv, CallerInv
<1>3. Phase' = [Phase EXCEPT ![t] = "busy"]
  BY <1>1, <1>2, PhaseStep DEF RestInv, TypeInv
<1>4. UNCHANGED {v \in Venues : setting[v] # NoAccount}
  BY <1>1 DEF keys
<1>5. Call[c].venue \in {v \in Venues : setting[v] # NoAccount} <=> setting[Call[c].venue] # NoAccount
  BY CallFacts
<1>6. QED
  BY <1>1, <1>2, <1>3, <1>4, <1>5, PromisedCalls DEF Promise!Begin

LEMMA PromisedInitKeys ==
  ASSUME RestInv, NEW v \in Venues, InitSecret(v) \/ \E a \in Sets[v] : InitKey(v, a)
  PROVE  Promise!Configure(v)
<1> DEFINE Changing == {w \in Venues : setting[w] # NoAccount}
<1>1. /\ UNCHANGED <<pc, call, request, crossed>>
      /\ disturbed' = disturbed \cup
           {t \in Callers : pc[t] # "idle" /\ Call[call[t]].venue = v /\ request[t] = NoRequest}
  BY DEF InitKey, InitSecret
<1>2. Changing' \in {Changing \cup {v}, Changing \ {v}}
  <2>1. \A w \in Venues \ {v} : setting'[w] = setting[w]
    BY DEF InitKey, InitSecret, RestInv, TypeInv
  <2>2. setting'[v] = NoAccount \/ setting'[v] # NoAccount
    OBVIOUS
  <2>3. CASE setting'[v] = NoAccount
    <3>1. Changing' = Changing \ {v}
      BY <2>1, <2>3
    <3>2. QED
      BY <3>1
  <2>4. CASE setting'[v] # NoAccount
    <3>1. Changing' = Changing \cup {v}
      BY <2>1, <2>4
    <3>2. QED
      BY <3>1
  <2>5. QED
    BY <2>3, <2>4
<1>3. Phase' = Phase
  BY <1>1, PhaseKept
<1>4. {t \in Callers : pc[t] # "idle" /\ Call[call[t]].venue = v /\ request[t] = NoRequest}
        = {t \in Callers : Phase[t] = "busy" /\ Call[call[t]].venue = v}
  BY DEF Phase
<1>5. QED
  BY <1>1, <1>2, <1>3, <1>4, PromisedCalls DEF Promise!Configure

LEMMA PromisedHMAC ==
  ASSUME RestInv, NEW t \in Callers, HMAC(t)
  PROVE  Promise!Cross
<1>1. /\ pc[t] = "sign" /\ Call[call[t]].venue = "pionex"
      /\ crossed' = crossed \cup {u \in Callers \ {t} : pc[u] = "hex"}
      /\ pc' = [pc EXCEPT ![t] = "hex"]
      /\ UNCHANGED <<keys, call, request, disturbed>>
  BY DEF HMAC
<1> DEFINE Signing == {u \in Callers : Phase[u] = "busy" /\ Call[call[u]].venue = "pionex"}
           T == {u \in Callers \ {t} : pc[u] = "hex"}
<1>2. t \in Signing
  BY <1>1, PhaseBusy DEF Working, Places
<1>3. T \in SUBSET (Signing \ {t})
  <2>1. ASSUME NEW u \in T PROVE u \in Signing \ {t}
    <3>1. Working(u) /\ CallerInv(u) /\ u \in Callers
      BY DEF Working, Places, RestInv
    <3>2. QED
      BY <3>1, PhaseBusy DEF CallerInv, VenueOf
  <2>2. QED
    BY <2>1
<1>4. Phase' = Phase
  BY <1>1, PhaseKept DEF RestInv, TypeInv
<1>5. UNCHANGED {v \in Venues : setting[v] # NoAccount}
  BY <1>1 DEF keys
<1>6. \E u \in Signing : \E W \in SUBSET (Signing \ {u}) : crossed' = crossed \cup W
  BY <1>1, <1>2, <1>3
<1>7. QED
  BY <1>1, <1>4, <1>5, <1>6, PromisedCalls DEF Promise!Cross

\* What is sent is what was promised.
LEMMA PromisedSend ==
  ASSUME RestInv, NEW t \in Callers, pc[t] = "send", pc' = [pc EXCEPT ![t] = "return"],
         request' = [request EXCEPT ![t] = Sent(t, Call[call[t]].method, Call[call[t]].body)],
         UNCHANGED <<keys, call, hist>>
  PROVE  Promise!Send(t)
<1> DEFINE r == Sent(t, Call[call[t]].method, Call[call[t]].body)
<1>1. call[t] \in Calls /\ r \in Requests /\ CallerInv(t)
  BY SentIsRequest DEF RestInv
<1>2. r # NoRequest
  BY <1>1, NoRequestAssumption DEF Requests, Signatures, Keys
<1>3. r \in Promise!Request
  BY <1>1, PromisedCalls DEF Promise!Request, Promise!Signature, Requests, Signatures, Keys
<1>4. Phase[t] = "busy"
  BY PhaseBusy DEF Working, Places
<1>5. request'[t] = r /\ pc'[t] = "return" /\ Phase'[t] = "sent"
  <2>1. request'[t] = r /\ pc'[t] = "return"
    BY DEF RestInv, TypeInv
  <2>2. QED
    BY <1>2, <2>1 DEF Phase
<1>6. Phase' = [Phase EXCEPT ![t] = "sent"]
  BY <1>5, PhaseStep DEF RestInv, TypeInv
<1>7. Promise!Proper(call[t], r, t \notin disturbed, t \notin crossed)
  <2>1. /\ r.account = hdr[t] /\ r.method = Call[call[t]].method /\ r.body = Call[call[t]].body
        /\ r.sign = sig[t]
    BY DEF Sent
  <2>2. Call[call[t]].guarded => r.account # NoAccount
    BY <1>1, <2>1 DEF CallerInv
  <2>3. IF ~Call[call[t]].signed THEN r.sign = NoSign ELSE r.sign # NoSign
    BY <1>1, <2>1, NoSignAssumption DEF CallerInv, Signatures, Keys
  <2>4. Call[call[t]].signed /\ t \notin crossed =>
          /\ Call[call[t]].guarded => r.sign.by # NoAccount
          /\ r.sign.method = r.method
          /\ r.sign.body = r.body
    BY <1>1, <2>1 DEF CallerInv, Covers
  <2>5. Call[call[t]].signed /\ t \notin crossed /\ t \notin disturbed => r.sign.by = r.account
    <3>1. SUFFICES ASSUME Call[call[t]].signed, t \notin crossed, t \notin disturbed
                   PROVE  sig[t].by = hdr[t]
      BY <2>1
    <3>2. VenueOf(t) \in Venues
      BY <1>1, CallFacts DEF VenueOf
    <3>3. setting[VenueOf(t)] = NoAccount
      BY <1>1, <3>1 DEF CallerInv, Working, Places
    <3>4. key[VenueOf(t)] = secret[VenueOf(t)]
      BY <3>2, <3>3 DEF RestInv, KeysInv
    <3>5. QED
      BY <1>1, <3>1, <3>4 DEF CallerInv, Covers
  <2>6. QED
    BY <2>1, <2>2, <2>3, <2>4, <2>5, PromisedCalls DEF Promise!Proper
<1>8. UNCHANGED {v \in Venues : setting[v] # NoAccount}
  BY DEF keys
<1>9. QED
  BY <1>3, <1>4, <1>6, <1>7, <1>8, PromisedCalls DEF Promise!Send, hist

\* What the promise does not see.
LEMMA PromisedStutter ==
  ASSUME UNCHANGED <<keys, call, request, hist>>,
         \A u \in Callers : pc'[u] = "idle" <=> pc[u] = "idle"
  PROVE  UNCHANGED Promise!vars
<1>1. Phase' = Phase
  BY PhaseKept
<1>2. UNCHANGED {v \in Venues : setting[v] # NoAccount}
  BY DEF keys
<1>3. QED
  BY <1>1, <1>2 DEF Promise!vars, hist

LEMMA PromisedStep == RestInv /\ [Next]_vars => [Promise!Next]_(Promise!vars)
<1> SUFFICES ASSUME RestInv, [Next]_vars PROVE [Promise!Next]_(Promise!vars)
  OBVIOUS
<1>1. ASSUME NEW v \in Venues, InitSecret(v) \/ \E a \in Sets[v] : InitKey(v, a)
      PROVE  Promise!Next
  BY <1>1, PromisedInitKeys, PromisedCalls DEF Promise!Next
<1>2. ASSUME NEW t \in Callers, NEW c \in Calls, Enter(t, c) PROVE Promise!Next
  BY <1>2, PromisedEnter DEF Promise!Next
<1>3. ASSUME NEW t \in Callers, Callback(t) PROVE UNCHANGED Promise!vars
  BY <1>3, PromisedStutter DEF Callback
<1>4. ASSUME NEW t \in Callers, Step(t) PROVE [Promise!Next]_(Promise!vars)
  <2>1. CASE Guard(t)
    <3>1. CASE Leave(t)
      BY <2>1, <3>1, PromisedLeave DEF Guard, Promise!Next
    <3>2. CASE ~Leave(t)
      BY <2>1, <3>2, PromisedStutter DEF Guard, RestInv, TypeInv
    <3>3. QED
      BY <3>1, <3>2
  <2>2. CASE Header(t)
    <3>1. pc'[t] # "idle"
      BY <2>2 DEF Header, RestInv, TypeInv
    <3>2. QED
      BY <2>2, <3>1, PromisedStutter DEF Header, RestInv, TypeInv
  <2>3. CASE get_okex_sign(t)
    BY <2>3, PromisedStutter DEF get_okex_sign, RestInv, TypeInv
  <2>4. CASE HMAC(t)
    BY <2>4, PromisedHMAC DEF Promise!Next
  <2>5. CASE b2a_hex(t)
    BY <2>5, PromisedStutter DEF b2a_hex, RestInv, TypeInv
  <2>6. CASE Perform(t) \/ http_async(t)
    <3>1. CASE request' = request
      BY <2>6, <3>1, PerformStep, PromisedStutter DEF RestInv, TypeInv
    <3>2. CASE request' # request
      BY <2>6, <3>2, PerformStep, PromisedSend DEF Promise!Next
    <3>3. QED
      BY <3>1, <3>2
  <2>7. CASE NullId(t)
    BY <2>7, PromisedLeave DEF NullId, Promise!Next
  <2>8. CASE Return(t)
    BY <2>8, PromisedLeave DEF Return, Promise!Next
  <2>9. QED
    BY <1>4, <2>1, <2>2, <2>3, <2>4, <2>5, <2>6, <2>7, <2>8 DEF Step
<1>5. CASE UNCHANGED vars
  BY <1>5, PromisedStutter DEF vars
<1>6. QED
  BY <1>1, <1>2, <1>3, <1>4, <1>5 DEF Next

\* Every call, in whatever interleaving of any number of callers and with
\* init, sends the one documented request that its signature covers, or
\* none: the clients implement RestPromise.
THEOREM Implements == Spec => KeepsPromise
<1>1. QED
  BY RestInvariant, PromisedInit, PromisedStep, PTL DEF Spec, KeepsPromise, Promise!Spec
=============================================================================
