----------------------------- MODULE MCSession -----------------------------
(* Two calls of any kind in two lives of the server.  The environments: one   *)
(* that sets nothing, one for the testnet with a useless timeout, one without *)
(* keys.                                                                      *)
EXTENDS Session, TLC

CONSTANT crossed

Symmetry == Permutations(Calls)
Round    == {<<"SPOT", "FUTURES">>, <<"FUTURES", "FUNDING">>, <<"FUNDING", "FUNDING">>}
TwoWays  == {[json |-> "number", n |-> 5], [json |-> "number", n |-> 10]}
Start    == [leverage |-> 20, marginMode |-> crossed]
Given    == {[keys |-> TRUE, testnet |-> <<>>, timeout |-> <<>>],
             [keys |-> TRUE, testnet |-> <<TRUE>>, timeout |-> <<-1>>],
             [keys |-> FALSE, testnet |-> <<FALSE>>, timeout |-> <<20>>]}
=============================================================================
