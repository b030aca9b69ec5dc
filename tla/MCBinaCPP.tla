------------------------------ MODULE MCBinaCPP -----------------------------
(* Values of the constants of BinaCPP for TLC.                             *)
EXTENDS BinaCPP

\* Two accounts, so that a program can leave one for the other.
MCKeys == {"key1", "key2"}
=============================================================================
