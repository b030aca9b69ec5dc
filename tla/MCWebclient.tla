---------------------------- MODULE MCWebclient -----------------------------
(* Values of the constants of Webclient for TLC.                           *)
EXTENDS Webclient, TLC

CONSTANTS t1, t2, pub, pri

MCThreads == {t1, t2}
MCCells == {pub, pri}

\* The first thread connects the public and the private client, as in
\* unitTest/main.cpp; the second takes the index variable of the first's
\* public client, as okex_api and pionex_api do in one program, and then
\* connects a client of an endpoint, whose index it never learns.
MCPlan == (t1 :> <<pub, pri>>) @@ (t2 :> <<pub, NoCell>>)
=============================================================================
