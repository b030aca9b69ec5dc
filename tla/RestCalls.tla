------------------------------ MODULE RestCalls -----------------------------
(***************************************************************************)
(* The calls of PionexCPP and OkexCPP that build an HTTP request, by what  *)
(* tells them apart: the venue whose keys they use, the method and whether *)
(* there is a body, whether they return before the answer, ask for both    *)
(* keys to be set, and add a signature.                                    *)
(***************************************************************************)

Pionex(method, body) ==
  [venue |-> "pionex", method |-> method, body |-> body,
   async |-> FALSE, guarded |-> TRUE, signed |-> TRUE]

Okex(method, body, signed) ==
  [venue |-> "okex", method |-> method, body |-> body,
   async |-> body, guarded |-> FALSE, signed |-> signed]

send_order      == Pionex("POST", TRUE)
cancel_order    == Pionex("DELETE", TRUE)
get_order       == Pionex("GET", FALSE)
get_order_local == Pionex("GET", FALSE)

\* Asks for no keys.
get_all_pos == [Pionex("GET", FALSE) EXCEPT !.guarded = FALSE]

\* The send_order that takes a callback; it fails on a client order id that
\* is null, which the other one takes.
send_order_cb == [Pionex("POST", TRUE) EXCEPT !.async = TRUE]

\* An order goes to OKX unsigned.
okex_send_order == Okex("POST", TRUE, FALSE)
okex_get_pos    == Okex("GET", FALSE, TRUE)
okex_get_order  == Okex("GET", FALSE, TRUE)

Call == [
  send_order      |-> send_order,
  send_order_cb   |-> send_order_cb,
  send_order_null |-> send_order_cb,
  cancel_order    |-> cancel_order,
  get_order       |-> get_order,
  get_order_local |-> get_order_local,
  get_all_pos     |-> get_all_pos,
  okex_send_order |-> okex_send_order,
  okex_get_pos    |-> okex_get_pos,
  okex_get_order  |-> okex_get_order]

Calls == DOMAIN Call
NoCall == "none"
Venues == {"pionex", "okex"}
Methods == {"GET", "POST", "PUT", "DELETE"}
=============================================================================
