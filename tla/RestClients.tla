----------------------------- MODULE RestClients ----------------------------
(***************************************************************************)
(* PionexCPP and OkexCPP (pionexcpp.cpp, okexcpp.cpp) over                 *)
(* getCurlWithHeader and http_async (base_websocket.h), with several       *)
(* threads calling and one setting the keys.  A call reads the api key for *)
(* its header and, later, the secret for its signature; init writes both,  *)
(* one after the other, and nothing is locked.  hmac_sha256 leaves its     *)
(* result in a static array of OpenSSL's, which b2a_hex reads afterwards;  *)
(* get_okex_sign has an array of its own.                                  *)
(*                                                                         *)
(* Reading and assigning a std::string, or the array, is taken as one step.*)
(***************************************************************************)
EXTENDS RestCalls, CurlHandle, Naturals

CONSTANTS
  Callers,    \* the threads that make calls
  Accounts,   \* key pairs a program may set
  Sets,       \* those it sets for each venue
  NoAccount,  \* an empty key
  NoRequest, NoSign,
  MaxTasks,   \* bound: unanswered requests of one caller
  InitsLate,  \* the keys may be set while a call is under way
  May         \* the calls each caller makes

ASSUME AccountsAssumption == NoAccount \notin Accounts
ASSUME NoSignAssumption ==
  NoSign \notin [by : Accounts \cup {NoAccount}, method : Methods,
                 body : BOOLEAN]
ASSUME NoRequestAssumption ==
  NoRequest \notin [account : Accounts \cup {NoAccount}, method : Methods, body : BOOLEAN,
                    sign : [by : Accounts \cup {NoAccount}, method : Methods,
                            body : BOOLEAN] \cup {NoSign}]
ASSUME MayAssumption ==
  May \in [Callers -> SUBSET Calls] /\ Sets \in [Venues -> SUBSET Accounts]
ASSUME MaxTasksAssumption == MaxTasks \in Nat /\ InitsLate \in BOOLEAN

VARIABLES
  key, secret,  \* m_api_key and m_secret_key of each venue's class
  setting,      \* the account init is about to write as secret, by venue
  pc,           \* where each caller is
  call,         \* the call each caller is in, or NoCall
  hdr, sig,     \* the headers of the call under way
  digest,       \* the static array HMAC is called without a place for
  request,      \* what the call has sent
  tasks,        \* tasks[t]: requests of t handed to Workflow, unanswered
  disturbed,    \* history: callers whose venue's keys were set in their call
  crossed       \* history: callers whose digest was written over

keys == <<key, secret, setting>>
hist == <<disturbed, crossed>>
vars == <<keys, pc, call, hdr, sig, digest, request, tasks, hist>>

Places == {"idle", "guard", "header", "sign", "hex", "send", "return"}

Init ==
  /\ key = [v \in Venues |-> NoAccount]
  /\ secret = [v \in Venues |-> NoAccount]
  /\ setting = [v \in Venues |-> NoAccount]
  /\ pc = [t \in Callers |-> "idle"]
  /\ call = [t \in Callers |-> NoCall]
  /\ hdr = [t \in Callers |-> NoAccount]
  /\ sig = [t \in Callers |-> NoSign]
  /\ digest = NoSign
  /\ request = [t \in Callers |-> NoRequest]
  /\ tasks = [t \in Callers |-> 0]
  /\ disturbed = {} /\ crossed = {}

Quiet(v) == \A t \in Callers : pc[t] # "idle" => Call[call[t]].venue # v

\* init: m_api_key = api_key (curl_easy_init's handle is not used by a call)
InitKey(v, a) ==
  /\ setting[v] = NoAccount
  /\ InitsLate \/ Quiet(v)
  /\ key' = [key EXCEPT ![v] = a]
  /\ setting' = [setting EXCEPT ![v] = a]
  /\ disturbed' = disturbed \cup
       {t \in Callers : pc[t] # "idle" /\ Call[call[t]].venue = v
                          /\ request[t] = NoRequest}
  /\ UNCHANGED <<secret, pc, call, hdr, sig, digest, request, tasks, crossed>>

\* init: m_secret_key = secret_key
InitSecret(v) ==
  /\ setting[v] # NoAccount
  /\ InitsLate \/ Quiet(v)
  /\ secret' = [secret EXCEPT ![v] = setting[v]]
  /\ setting' = [setting EXCEPT ![v] = NoAccount]
  /\ disturbed' = disturbed \cup
       {t \in Callers : pc[t] # "idle" /\ Call[call[t]].venue = v
                          /\ request[t] = NoRequest}
  /\ UNCHANGED <<key, pc, call, hdr, sig, digest, request, tasks, crossed>>

-----------------------------------------------------------------------------
\* A call begins.  (One that begins between the two halves of init counts as
\* disturbed: its keys are being set.)
Enter(t, c) ==
  /\ pc[t] = "idle" /\ c \in May[t]
  /\ ~InitsLate => setting[Call[c].venue] = NoAccount
  /\ pc' = [pc EXCEPT ![t] = IF Call[c].guarded THEN "guard" ELSE "header"]
  /\ call' = [call EXCEPT ![t] = c]
  /\ disturbed' = IF setting[Call[c].venue] = NoAccount
                  THEN disturbed ELSE disturbed \cup {t}
  /\ UNCHANGED <<keys, hdr, sig, digest, request, tasks, crossed>>

\* The call's local variables go.
Leave(t) ==
  /\ pc' = [pc EXCEPT ![t] = "idle"]
  /\ call' = [call EXCEPT ![t] = NoCall]
  /\ hdr' = [hdr EXCEPT ![t] = NoAccount]
  /\ sig' = [sig EXCEPT ![t] = NoSign]
  /\ request' = [request EXCEPT ![t] = NoRequest]
  /\ disturbed' = disturbed \ {t} /\ crossed' = crossed \ {t}

\* A slip: the call goes on when one of the keys is set.
GuardEither(t) ==
  /\ pc[t] = "guard"
  /\ LET v == Call[call[t]].venue IN
       IF key[v] = NoAccount /\ secret[v] = NoAccount
       THEN Leave(t)
       ELSE /\ pc' = [pc EXCEPT ![t] = "header"]
            /\ UNCHANGED <<call, hdr, sig, request, hist>>
  /\ UNCHANGED <<keys, digest, tasks>>

\* if (m_api_key.size() == 0 || m_secret_key.size() == 0) return;
Guard(t) ==
  /\ pc[t] = "guard"
  /\ LET v == Call[call[t]].venue IN
       IF key[v] = NoAccount \/ secret[v] = NoAccount
       THEN Leave(t)
       ELSE /\ pc' = [pc EXCEPT ![t] = "header"]
            /\ UNCHANGED <<call, hdr, sig, request, hist>>
  /\ UNCHANGED <<keys, digest, tasks>>

\* The header with the key.
Header(t) ==
  /\ pc[t] = "header"
  /\ hdr' = [hdr EXCEPT ![t] = key[Call[call[t]].venue]]
  /\ pc' = [pc EXCEPT ![t] = IF Call[call[t]].signed THEN "sign" ELSE "send"]
  /\ UNCHANGED <<keys, call, sig, digest, request, tasks, hist>>

\* What the call signs: action + url + post_data, with the secret of now.
Signature(t) ==
  [by |-> secret[Call[call[t]].venue], method |-> Call[call[t]].method,
   body |-> Call[call[t]].body]

\* get_okex_sign
get_okex_sign(t) ==
  /\ pc[t] = "sign" /\ Call[call[t]].venue = "okex"
  /\ sig' = [sig EXCEPT ![t] = Signature(t)]
  /\ pc' = [pc EXCEPT ![t] = "send"]
  /\ UNCHANGED <<keys, call, hdr, digest, request, tasks, hist>>

\* hmac_sha256: HMAC puts the digest where the last caller's still may be.
HMAC(t) ==
  /\ pc[t] = "sign" /\ Call[call[t]].venue = "pionex"
  /\ digest' = Signature(t)
  /\ crossed' = crossed \cup {u \in Callers \ {t} : pc[u] = "hex"}
  /\ pc' = [pc EXCEPT ![t] = "hex"]
  /\ UNCHANGED <<keys, call, hdr, sig, request, tasks, disturbed>>

\* hmac_sha256: b2a_hex copies what is in the array now.  (What nobody is
\* about to copy is forgotten: HMAC writes the array before it is read.)
b2a_hex(t) ==
  /\ pc[t] = "hex"
  /\ sig' = [sig EXCEPT ![t] = digest]
  /\ digest' = IF \E u \in Callers \ {t} : pc[u] = "hex" THEN digest ELSE NoSign
  /\ pc' = [pc EXCEPT ![t] = "send"]
  /\ UNCHANGED <<keys, call, hdr, request, tasks, hist>>

\* The request as it goes out, with the headers of call c of caller t.
Sent(t, method, body) ==
  [account |-> hdr[t], method |-> method, body |-> body, sign |-> sig[t]]

\* getCurlWithHeader on its handle of its own: a method other than POST is
\* set by name, and a body makes a POST of the rest.
Options(c) ==
  LET named == IF Call[c].method \in {"PUT", "DELETE"}
               THEN SetCustomRequest(Fresh, Call[c].method) ELSE Fresh
  IN IF Call[c].body \/ Call[c].method \in {"POST", "PUT", "DELETE"}
     THEN SetPostFields(named) ELSE named

\* getCurlWithHeader: nothing is sent when libcurl refuses the value 1 of
\* SSL_VERIFYHOST, or cannot connect; the callers do not look at its result.
Perform(t) ==
  /\ pc[t] = "send" /\ ~Call[call[t]].async
  /\ pc' = [pc EXCEPT ![t] = "return"]
  /\ \/ UNCHANGED request
     \/ request' = [request EXCEPT ![t] =
          Sent(t, Method(Options(call[t])), Call[call[t]].body)]
  /\ UNCHANGED <<keys, call, hdr, sig, digest, tasks, hist>>

\* http_async: always a POST, with the body copied and keyinfo by reference.
http_async(t) ==
  /\ pc[t] = "send" /\ Call[call[t]].async /\ call[t] # "send_order_null"
  /\ tasks[t] < MaxTasks
  /\ pc' = [pc EXCEPT ![t] = "return"]
  /\ request' = [request EXCEPT ![t] = Sent(t, "POST", Call[call[t]].body)]
  /\ tasks' = [tasks EXCEPT ![t] = @ + 1]
  /\ UNCHANGED <<keys, call, hdr, sig, digest, hist>>

\* std::string(clientOrderId) of a null pointer throws.
NullId(t) ==
  /\ pc[t] = "send" /\ call[t] = "send_order_null"
  /\ Leave(t)
  /\ UNCHANGED <<keys, digest, tasks>>

\* The call returns, and the string that was given as keyinfo is destroyed.
Return(t) ==
  /\ pc[t] = "return"
  /\ Leave(t)
  /\ UNCHANGED <<keys, digest, tasks>>

\* A thread of Workflow runs the task's callback, once, on success or not.
\* What keyinfo it reads, after the string may be gone, is left out.
Callback(t) ==
  /\ tasks[t] > 0
  /\ tasks' = [tasks EXCEPT ![t] = @ - 1]
  /\ UNCHANGED <<keys, pc, call, hdr, sig, digest, request, hist>>

Step(t) ==
  \/ Guard(t) \/ Header(t) \/ get_okex_sign(t) \/ HMAC(t) \/ b2a_hex(t)
  \/ Perform(t) \/ http_async(t) \/ NullId(t) \/ Return(t)

Next ==
  \/ \E v \in Venues : \E a \in Sets[v] : InitKey(v, a)
  \/ \E v \in Venues : InitSecret(v)
  \/ \E t \in Callers :
       Step(t) \/ Callback(t) \/ \E c \in Calls : Enter(t, c)

Spec == Init /\ [][Next]_vars

-----------------------------------------------------------------------------
\* What the abstract specification says of the callers: a call that has read
\* its keys and not returned from libcurl or Workflow is busy.
Phase ==
  [t \in Callers |->
     IF pc[t] = "idle" THEN "idle"
     ELSE IF request[t] # NoRequest THEN "sent"
     ELSE "busy"]

Promise == INSTANCE RestPromise WITH
  phase <- Phase,
  changing <- {v \in Venues : setting[v] # NoAccount}

\* Every call, in whatever interleaving with other callers and with init,
\* sends the one documented request that its signature covers, or none; key
\* and signature are one account's unless the keys were set meanwhile, and
\* only calls of Pionex that overlap can send one another's signature.
KeepsPromise == Promise!Spec
=============================================================================
