-------------------------- MODULE MCPaiementMobile --------------------------
(* Small instances of PaiementMobile for TLC.                              *)
EXTENDS PaiementMobile, TLC

Symetrie == Permutations(Intentions) \cup Permutations(Evenements) \cup Permutations(Requetes)
=============================================================================
