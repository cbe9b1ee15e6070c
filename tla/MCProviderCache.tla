--------------------------- MODULE MCProviderCache ---------------------------
(* ProviderCache for TLC; the cfg files give the constants their values.   *)
EXTENDS ProviderCache, TLC

Symmetry == Permutations(Calls) \cup Permutations(Configs \ Unbuildable)
=============================================================================
