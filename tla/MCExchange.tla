----------------------------- MODULE MCExchange -----------------------------
(* Instances of Exchange for TLC: the sizes are small, the order of the    *)
(* bytes of an answer is what they keep.                                   *)
EXTENDS Exchange
=============================================================================
