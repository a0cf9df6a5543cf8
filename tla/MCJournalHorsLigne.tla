------------------------- MODULE MCJournalHorsLigne -------------------------
(* Small instances of JournalHorsLigne for TLC.                            *)
EXTENDS JournalHorsLigne, TLC

MCMontants == {-1}

Symetrie == Permutations(Saisies) \cup Permutations(Onglets) \cup Permutations(Taches) \cup
             Permutations(Entrees)
=============================================================================
