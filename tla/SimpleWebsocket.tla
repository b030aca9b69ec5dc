--------------------------- MODULE SimpleWebsocket --------------------------
(***************************************************************************)
(* simple_websocket (simple_websocket.cpp, simple_websocket.h) on top of   *)
(* libwebsockets: one thread connects endpoints and then serves them; the  *)
(* callback of a connection is looked up by the address of its lws object. *)
(* libwebsockets frees that object when the connection ends and may use    *)
(* the address again.                                                      *)
(***************************************************************************)
EXTENDS Naturals

CONSTANTS
  Endpoints,  \* the callbacks given to the connect calls, one per endpoint
  Public,     \* the endpoint of connect_pionex_public
  Addresses,  \* where libwebsockets may place a connection
  Null        \* the null pointer

ASSUME NullAssumption == Null \notin Addresses /\ Public \in Endpoints

VARIABLES
  line,             \* line[w]: the endpoint the connection at w leads to, or Null
  up,               \* the addresses whose connection is established
  handles,          \* single_con::handles: callbacks by address
  pionex_pub_conn,  \* single_con's
  sent,             \* where the last message of send_pionex_lws_msg went
  broken            \* history: the public connection has ended

swVars == <<line, up, handles, pionex_pub_conn, sent, broken>>

SwInit ==
  /\ line = [w \in Addresses |-> Null]
  /\ up = {}
  /\ handles = [w \in {} |-> Null]
  /\ pionex_pub_conn = Null
  /\ sent = Null
  /\ broken = FALSE

With(f, x, y) == [z \in DOMAIN f \cup {x} |-> IF z = x THEN y ELSE f[z]]
Without(f, x) == [z \in DOMAIN f \ {x} |-> f[z]]

Keep(w, e) ==
  /\ handles' = With(handles, w, e)
  /\ pionex_pub_conn' = IF e = Public THEN w ELSE pionex_pub_conn

\* connect_endpoint, connect_pionex_private and connect_pionex_public: the
\* entry is made when lws_client_connect_via_info has returned, also when it
\* has returned null.
ConnectFails(e) ==
  /\ Keep(Null, e)
  /\ broken' = (broken \/ e = Public)
  /\ UNCHANGED <<line, up, sent>>

ConnectStarts(e, w) ==
  /\ line[w] = Null
  /\ line' = [line EXCEPT ![w] = e]
  /\ Keep(w, e)
  /\ UNCHANGED <<up, sent, broken>>

\* LWS_CALLBACK_CLIENT_ESTABLISHED
Established(w) ==
  /\ line[w] # Null /\ w \notin up
  /\ up' = up \cup {w}
  /\ UNCHANGED <<line, handles, pionex_pub_conn, sent, broken>>

\* LWS_CALLBACK_CLIENT_RECEIVE: the callback the message is given to.
Receiver(w) == IF w \in DOMAIN handles THEN handles[w] ELSE Null

\* A slip: a connection's entry stays.
ClosedKeepsHandle(w) ==
  /\ line[w] # Null
  /\ line' = [line EXCEPT ![w] = Null]
  /\ up' = up \ {w}
  /\ broken' = (broken \/ w = pionex_pub_conn)
  /\ UNCHANGED <<handles, pionex_pub_conn, sent>>

\* LWS_CALLBACK_CLOSED and LWS_CALLBACK_CLIENT_CONNECTION_ERROR, after which
\* the lws object is gone.  pionex_pub_conn keeps its address.
Closed(w) ==
  /\ line[w] # Null
  /\ line' = [line EXCEPT ![w] = Null]
  /\ up' = up \ {w}
  /\ handles' = Without(handles, w)
  /\ broken' = (broken \/ w = pionex_pub_conn)
  /\ UNCHANGED <<pionex_pub_conn, sent>>

\* A slip: the message is written to whatever connection is up.
SendAnywhere ==
  /\ \E w \in up : sent' = line[w]
  /\ UNCHANGED <<line, up, handles, pionex_pub_conn, broken>>

\* send_pionex_lws_msg writes to the connection at that address (what it does
\* to an object that has been freed is undefined, and not modelled).
send_pionex_lws_msg ==
  /\ pionex_pub_conn # Null /\ line[pionex_pub_conn] # Null
  /\ sent' = line[pionex_pub_conn]
  /\ UNCHANGED <<line, up, handles, pionex_pub_conn, broken>>

-----------------------------------------------------------------------------
\* A message is given to the callback of the endpoint it came from, although
\* callbacks are found by an address that may have been used before; only
\* live connections have a callback.
RightCallback ==
  /\ \A w \in Addresses : line[w] # Null => Receiver(w) = line[w]
  /\ \A w \in DOMAIN handles \ {Null} : line[w] # Null

\* What is meant for Pionex reaches another endpoint only after the public
\* connection has ended and its address has been given to that endpoint.
SendsToPublic == [][sent' # sent /\ sent' # Public => broken]_swVars
=============================================================================
