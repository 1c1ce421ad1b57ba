------------------------- MODULE MCFuturesPosition -------------------------
(* Two workers closing one symbol's position of a few lots.                   *)
EXTENDS FuturesPosition, TLC

Symmetry == Permutations(Calls)
=============================================================================
