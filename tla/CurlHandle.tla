----------------------------- MODULE CurlHandle -----------------------------
(***************************************************************************)
(* The easy handle of libcurl, as far as binacpp.cpp, pionexcpp.cpp and    *)
(* base_websocket.h use it: what each option sets, that an option keeps    *)
(* its value until it is set again, and which request curl_easy_perform    *)
(* makes of them.  External: libcurl is not part of the source.            *)
(*                                                                         *)
(* CURLOPT_POSTFIELDS keeps a pointer to the caller's buffer.  "own" is    *)
(* the buffer of the call under way, "stale" that of a call that has       *)
(* returned and freed it.                                                  *)
(***************************************************************************)

\* curl_easy_init
Fresh == [custom |-> "none", fields |-> "none", header |-> "none"]

\* CURLOPT_HTTPHEADER, CURLOPT_CUSTOMREQUEST and CURLOPT_POSTFIELDS
SetHeader(h, value) == [h EXCEPT !.header = value]
SetCustomRequest(h, action) == [h EXCEPT !.custom = action]
SetPostFields(h) == [h EXCEPT !.fields = "own"]

\* The call that set the body returns.
Expire(h) == [h EXCEPT !.fields = IF @ = "none" THEN "none" ELSE "stale"]

\* A custom method replaces the one that follows from the options; setting
\* a body makes that one POST.
Method(h) ==
  IF h.custom # "none" THEN h.custom
  ELSE IF h.fields # "none" THEN "POST" ELSE "GET"
=============================================================================
