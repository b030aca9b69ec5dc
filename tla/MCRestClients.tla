--------------------------- MODULE MCRestClients ----------------------------
(* Values of the constants of RestClients for TLC.                         *)
EXTENDS RestClients

CONSTANTS t1, t2

\* Callers share the keys, which they only read, and the digest: one caller
\* of everything (calls that differ in their url alone stand for each other)
\* and one that signs meet every pair of calls that interfere.
MCCallers == {t1, t2}
MCMay == [t \in MCCallers |->
  IF t = t1 THEN Calls \ {"get_order_local", "okex_get_order"}
            ELSE {"cancel_order"}]

\* A program that changes between two accounts at Pionex.
MCAccounts == {"first", "second"}
MCSets == [v \in Venues |-> IF v = "pionex" THEN MCAccounts ELSE {"first"}]
=============================================================================
