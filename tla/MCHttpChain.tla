---------------------------- MODULE MCHttpChain ----------------------------
(* Two workers, a breaker that opens after two failures, a client timeout of  *)
(* half a minute: one tick stands for 30 seconds.                             *)
EXTENDS HttpChain, TLC

Symmetry == Permutations(Calls)
=============================================================================
