---------------------- MODULE MCClientCredentialsTokens ----------------------
(* Instances of ClientCredentialsTokens for TLC.                           *)
EXTENDS ClientCredentialsTokens, TLC

CONSTANTS c1, c2, c3

Symmetry == Permutations(Calls)
==============================================================================
