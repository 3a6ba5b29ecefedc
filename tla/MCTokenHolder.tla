----------------------------- MODULE MCTokenHolder -----------------------------
(* Small instances of TokenHolder for TLC. *)
EXTENDS TokenHolder

CONSTANTS c1, c2, c3

ThreeCallers == {c1, c2, c3}
=============================================================================
