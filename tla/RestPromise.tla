----------------------------- MODULE RestPromise ----------------------------
(***************************************************************************)
(* What a caller of the signed REST clients may count on, whatever other   *)
(* threads call: its call sends one request or none, the request is the    *)
(* documented one, and its signature is the account's whose key it carries *)
(* and covers what is sent.  Two callers are promised less.  One during    *)
(* whose call the keys are set again may send a key and a signature that   *)
(* disagree.  One during whose call another call signs with the same       *)
(* library (OpenSSL, for Pionex) may send that other call's signature.     *)
(***************************************************************************)
EXTENDS RestCalls

CONSTANTS Callers, Accounts, NoAccount, NoRequest, NoSign

Signature == [by : Accounts \cup {NoAccount}, method : Methods, body : BOOLEAN]

Request ==
  [account : Accounts \cup {NoAccount}, method : Methods, body : BOOLEAN,
   sign : Signature \cup {NoSign}]

VARIABLES
  phase,     \* phase[t]: "idle", "busy" (before the request), "sent"
  call,      \* call[t]: the call t is in, or NoCall
  request,   \* request[t]: what the call has sent, or NoRequest
  changing,  \* venues whose keys are being set
  disturbed, \* callers whose venue's keys were being set during their call
  crossed    \* callers whose signature another call may have replaced

vars == <<phase, call, request, changing, disturbed, crossed>>

Init ==
  /\ phase = [t \in Callers |-> "idle"]
  /\ call = [t \in Callers |-> NoCall]
  /\ request = [t \in Callers |-> NoRequest]
  /\ changing = {} /\ disturbed = {} /\ crossed = {}

Begin(t) ==
  /\ phase[t] = "idle"
  /\ phase' = [phase EXCEPT ![t] = "busy"]
  /\ \E c \in Calls :
       /\ call' = [call EXCEPT ![t] = c]
       /\ disturbed' = IF Call[c].venue \in changing
                       THEN disturbed \cup {t} ELSE disturbed
  /\ UNCHANGED <<request, changing, crossed>>

\* Nothing is sent: no keys, no connection, or an exception.
GiveUp(t) ==
  /\ phase[t] = "busy"
  /\ phase' = [phase EXCEPT ![t] = "idle"]
  /\ call' = [call EXCEPT ![t] = NoCall]
  /\ disturbed' = disturbed \ {t} /\ crossed' = crossed \ {t}
  /\ UNCHANGED <<request, changing>>

\* A call of Pionex is being signed while others are.
Cross ==
  LET Signing == {t \in Callers : phase[t] = "busy" /\ Call[call[t]].venue = "pionex"}
  IN  /\ \E u \in Signing : \E T \in SUBSET (Signing \ {u}) : crossed' = crossed \cup T
      /\ UNCHANGED <<phase, call, request, changing, disturbed>>

\* The request r of call c; settled says that no keys were set meanwhile,
\* own that no other call's signature was mistaken for its own.
Proper(c, r, settled, own) ==
  /\ r.method = Call[c].method
  /\ r.body = Call[c].body
  /\ Call[c].guarded => r.account # NoAccount
  /\ IF ~Call[c].signed THEN r.sign = NoSign ELSE r.sign # NoSign
  /\ Call[c].signed /\ own =>
       /\ Call[c].guarded => r.sign.by # NoAccount
       /\ r.sign.method = r.method
       /\ r.sign.body = r.body
       /\ settled => r.sign.by = r.account

Send(t) ==
  /\ phase[t] = "busy"
  /\ phase' = [phase EXCEPT ![t] = "sent"]
  /\ \E r \in Request :
       /\ Proper(call[t], r, t \notin disturbed, t \notin crossed)
       /\ request' = [request EXCEPT ![t] = r]
  /\ UNCHANGED <<call, changing, disturbed, crossed>>

Return(t) ==
  /\ phase[t] = "sent"
  /\ phase' = [phase EXCEPT ![t] = "idle"]
  /\ request' = [request EXCEPT ![t] = NoRequest]
  /\ call' = [call EXCEPT ![t] = NoCall]
  /\ disturbed' = disturbed \ {t} /\ crossed' = crossed \ {t}
  /\ UNCHANGED <<changing>>

\* The keys of a venue begin to change, or have changed.
Configure(v) ==
  /\ changing' \in {changing \cup {v}, changing \ {v}}
  /\ disturbed' = disturbed \cup
       {t \in Callers : phase[t] = "busy" /\ Call[call[t]].venue = v}
  /\ UNCHANGED <<phase, call, request, crossed>>

Next ==
  \/ \E t \in Callers : Begin(t) \/ GiveUp(t) \/ Send(t) \/ Return(t)
  \/ Cross
  \/ \E v \in Venues : Configure(v)

Spec == Init /\ [][Next]_vars
=============================================================================
