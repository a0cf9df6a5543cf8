------------------------- MODULE MCOuvertureCaisse -------------------------
(* Small instances of OuvertureCaisse for TLC.                             *)
EXTENDS OuvertureCaisse, TLC

Symetrie == Permutations(Requetes) \cup Permutations(Caissiers)
=============================================================================
