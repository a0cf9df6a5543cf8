--------------------------- MODULE CoffreAbstrait ---------------------------
(***************************************************************************)
(* What a coffre-fort (the vault of an agency) promises, seen from outside *)
(* the transactions that serve it: each transfer moves its money at most   *)
(* once, a debit leaves at least the minimum balance, and what goes out    *)
(* (comes in) during one day stays under the daily cap when one is set.    *)
(*                                                                         *)
(* TransfertCoffre, where these promises are kept by row locks, unlocked   *)
(* reads and unique keys, is shown to implement this module.               *)
(***************************************************************************)
EXTENDS Integers

CONSTANTS
    Transferts,         \* identities of the transfers
    Montants,           \* amounts
    SoldeInitial,       \* coffres_forts.solde at the start
    SoldeMinimum,       \* coffres_forts.soldeMinimum
    PlafondSortant,     \* config.plafondJournalierSortant, 0 when not set
    PlafondEntrant      \* config.plafondJournalierEntrant, 0 when not set

VARIABLES
    solde,              \* the balance
    sortant,            \* what went out today
    entrant,            \* what came in today
    deplaces            \* the transfers whose money has moved

varsCoffre == <<solde, sortant, entrant, deplaces>>

SousPlafond(total, plafond) == plafond = 0 \/ total <= plafond

Init ==
    /\ solde = SoldeInitial
    /\ sortant = 0
    /\ entrant = 0
    /\ deplaces = {}

(* Transfer t takes m out of the vault.                                    *)
Sortie(t, m) ==
    /\ t \notin deplaces
    /\ solde - m >= SoldeMinimum
    /\ SousPlafond(sortant + m, PlafondSortant)
    /\ solde' = solde - m
    /\ sortant' = sortant + m
    /\ deplaces' = deplaces \cup {t}
    /\ UNCHANGED entrant

(* Transfer t brings m into the vault.                                     *)
Entree(t, m) ==
    /\ t \notin deplaces
    /\ SousPlafond(entrant + m, PlafondEntrant)
    /\ solde' = solde + m
    /\ entrant' = entrant + m
    /\ deplaces' = deplaces \cup {t}
    /\ UNCHANGED sortant

(* The owner of the agency funds the vault.                                *)
Apport(m) ==
    /\ SousPlafond(entrant + m, PlafondEntrant)
    /\ solde' = solde + m
    /\ entrant' = entrant + m
    /\ UNCHANGED <<sortant, deplaces>>

(* Midnight: the daily totals start again.                                 *)
NouveauJour ==
    /\ sortant' = 0
    /\ entrant' = 0
    /\ UNCHANGED <<solde, deplaces>>

Next ==
    \/ \E t \in Transferts, m \in Montants : Sortie(t, m) \/ Entree(t, m)
    \/ \E m \in Montants : Apport(m)
    \/ NouveauJour

Spec == Init /\ [][Next]_varsCoffre
=============================================================================
