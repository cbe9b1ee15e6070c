---------------------------- MODULE MCStreamPanel ----------------------------
(* StreamPanel for TLC: an answer that ends without a result, and one long *)
(* enough to go on after a cancellation.                                   *)
EXTENDS StreamPanel, TLC

MCAnswers == {<<"content">>, <<"content", "content", "result">>}
Symmetry == Permutations(Requests)
=============================================================================
