----------------------------- MODULE MCExchanges -----------------------------
(* Instances of Exchanges for TLC.                                         *)
EXTENDS Exchanges

CONSTANTS n1, n2   \* notes
=============================================================================
