------------------------ MODULE MCCirculationCoffres ------------------------
(* Small instances of CirculationCoffres for TLC: an agency vault, which a *)
(* transfer and an evacuation both want to empty into the central one.     *)
EXTENDS CirculationCoffres, TLC

CONSTANTS k1, k2, t1, e1

MCSource == t1 :> k1 @@ e1 :> k1
MCDestination == t1 :> k2 @@ e1 :> k2
MCMontant == t1 :> 1 @@ e1 :> 2
MCSolde == k1 :> 2 @@ k2 :> 0
MCMinimum == k1 :> 1 @@ k2 :> 0
MCPlafond == k1 :> 0 @@ k2 :> 3

Symetrie == Permutations(Utilisateurs) \cup Permutations(TicRequetes)
=============================================================================
