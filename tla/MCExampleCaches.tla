-------------------------- MODULE MCExampleCaches ---------------------------
(* Values of the constants of ExampleCaches for TLC.                       *)
EXTENDS ExampleCaches, TLC

CONSTANTS w1, w2

MCEndpoints == {"depth", "trades", "user", "pub"}
MCAddresses == {w1, w2}
MCKeys == {1, 2}
MCPrograms == {"depthCache", "userStream", "aggTrades", "tradesByTime", "pionex"}
Symmetry == Permutations(MCAddresses)
MCUserStream == {"userStream"}
=============================================================================
