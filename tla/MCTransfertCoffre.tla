------------------------- MODULE MCTransfertCoffre -------------------------
(* Small instances of TransfertCoffre for TLC: the till c1 has a session.  *)
EXTENDS TransfertCoffre, TLC

CONSTANTS c1, s1

MCCaisseDe == s1 :> c1

Symetrie == Permutations(Requetes) \cup Permutations(Transferts) \cup Permutations(Agents)
=============================================================================
