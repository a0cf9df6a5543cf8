-------------------------- MODULE MCSessionCaisse --------------------------
(* Small instances of SessionCaisse for TLC.                               *)
EXTENDS SessionCaisse, TLC

Symetrie == Permutations(Caisses) \cup Permutations(Caissiers)
              \cup Permutations(Sessions) \cup Permutations(Remises)
              \cup Permutations(Requetes)
=============================================================================
