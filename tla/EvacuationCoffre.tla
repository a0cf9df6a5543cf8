-------------------------- MODULE EvacuationCoffre --------------------------
(***************************************************************************)
(* Evacuation of the surplus of a vault (services/evacuation-coffre) to    *)
(* the bank, to a carrier or to the central vault: draft, submission,      *)
(* approval, preparation, dispatch, deposit, reconciliation.               *)
(*                                                                         *)
(* Most operations end in simpleTransition, whose UPDATE asks for the      *)
(* statut it read: they are one step.  prepareEvacuation compares users    *)
(* on an earlier read, and reconcileEvacuation updates by id alone: two    *)
(* steps each.  Dispatch and deposit are transactions that lock the row.   *)
(*                                                                         *)
(* The rules of separation are those of getDefaultConfig.                  *)
(***************************************************************************)
EXTENDS Integers

CONSTANTS
    Coffres,            \* rows of coffres_forts
    Evacuations,        \* rows that can be inserted in evacuations_coffre
    Utilisateurs,
    Admins,             \* users whose role is ADMIN
    EvcRequetes,        \* slots for concurrent handlers
    Source,             \* evacuation -> its vault
    Destination,        \* evacuation -> the central vault, or DEHORS
    DEHORS,             \* BANQUE and TRANSPORTEUR: no vault is credited
    Montant,            \* evacuation -> montant
    MontantsRecus,      \* amounts counted at preparation and at deposit
    SoldeInitial,       \* vault -> solde at the start
    Plafond,            \* vault -> plafond_encaisse, 0 when not set
    AUCUN               \* NULL

VARIABLES
    solde,              \* vault -> coffres_forts.solde
    evc,                \* evacuation -> its row
    evcSorti,           \* evacuation -> total of its SORTIE_COFFRE_EVACUATION movements
    evcEntre,           \* evacuation -> total of its DEPOT_EVACUATION movements
    evcDemandes         \* slot -> what its handler is about to do

varsEvc == <<solde, evc, evcSorti, evcEntre, evcDemandes>>

Annulables == {"DRAFT", "SUBMITTED", "APPROVED"}
Rapproches == {"RECONCILED", "DISCREPANCY"}
Parties    == {"IN_TRANSIT", "DEPOSITED"} \cup Rapproches

Lignes == [statut : {"ABSENT", "PREPARED", "REJECTED", "CANCELLED"}
                        \cup Annulables \cup Parties,
           createdBy : Utilisateurs \cup {AUCUN},
           approvedBy : Utilisateurs \cup {AUCUN},
           preparedBy : Utilisateurs \cup {AUCUN},
           montantCompte : Nat,
           verrouille : BOOLEAN]

LigneVide == [statut |-> "ABSENT", createdBy |-> AUCUN, approvedBy |-> AUCUN,
              preparedBy |-> AUCUN, montantCompte |-> 0, verrouille |-> FALSE]

Libre == [op |-> "libre", e |-> AUCUN, u |-> AUCUN]

Demandes == [op : {"libre", "PREPARER", "RAPPROCHER"},
             e : Evacuations \cup {AUCUN}, u : Utilisateurs \cup {AUCUN}]

Init ==
    /\ solde = SoldeInitial
    /\ evc = [e \in Evacuations |-> LigneVide]
    /\ evcSorti = [e \in Evacuations |-> 0]
    /\ evcEntre = [e \in Evacuations |-> 0]
    /\ evcDemandes = [q \in EvcRequetes |-> Libre]

-----------------------------------------------------------------------------
(* The balances validateCreation reads; nothing looks at the ceiling again.*)
Valide(e) ==
    /\ solde[Source[e]] >= Montant[e]
    /\ Destination[e] \in Coffres =>
          \/ Plafond[Destination[e]] = 0
          \/ solde[Destination[e]] + Montant[e] <= Plafond[Destination[e]]

Creer(e, u) ==
    /\ evc[e].statut = "ABSENT"
    /\ Valide(e)
    /\ evc' = [evc EXCEPT ![e].statut = "DRAFT", ![e].createdBy = u]
    /\ UNCHANGED <<solde, evcSorti, evcEntre, evcDemandes>>

SansComparaison(de, vers) == de # "ABSENT"      \* Mutant

(* EVACUATION_COFFRE_TRANSITIONS, for the statuts simpleTransition writes. *)
TransitionPermise(de, vers) ==
    CASE vers = "SUBMITTED" -> de = "DRAFT"
      [] vers = "APPROVED"  -> de = "SUBMITTED"
      [] vers = "PREPARED"  -> de = "APPROVED"
      [] vers = "REJECTED"  -> de \in {"SUBMITTED", "APPROVED"}
      [] vers = "CANCELLED" -> de \in Annulables

(* simpleTransition: the UPDATE finds the row only in the statut expected. *)
Transition(e, vers, ligne) ==
    /\ TransitionPermise(evc[e].statut, vers)
    /\ evc' = [evc EXCEPT ![e] = [ligne EXCEPT !.statut = vers]]
    /\ UNCHANGED <<solde, evcSorti, evcEntre>>

Soumettre(e) == Transition(e, "SUBMITTED", evc[e]) /\ UNCHANGED evcDemandes

Approuver(e, u) ==
    /\ u # evc[e].createdBy
    /\ Transition(e, "APPROVED", [evc[e] EXCEPT !.approvedBy = u])
    /\ UNCHANGED evcDemandes

Rejeter(e) == Transition(e, "REJECTED", evc[e]) /\ UNCHANGED evcDemandes

Annuler(e, u) ==
    /\ u = evc[e].createdBy \/ u \in Admins
    /\ Transition(e, "CANCELLED", evc[e])
    /\ UNCHANGED evcDemandes

-----------------------------------------------------------------------------
Prendre(q, op, e, u) ==
    /\ evcDemandes[q] = Libre
    /\ evcDemandes' = [evcDemandes EXCEPT ![q] = [op |-> op, e |-> e, u |-> u]]
    /\ UNCHANGED <<solde, evc, evcSorti, evcEntre>>

Rendre(q) == evcDemandes' = [evcDemandes EXCEPT ![q] = Libre]

(* canPrepare compares u with the approver of the row it read, which has   *)
(* none before the approval.                                               *)
PreparerLire(q, e, u) ==
    /\ evc[e].statut # "ABSENT"
    /\ u # evc[e].approvedBy
    /\ Prendre(q, "PREPARER", e, u)

Preparer(q, m) ==
    LET d == evcDemandes[q] IN
    /\ d.op = "PREPARER"
    /\ Transition(d.e, "PREPARED",
                  [evc[d.e] EXCEPT !.preparedBy = d.u, !.montantCompte = m])
    /\ Rendre(q)

RapprocherLire(q, e) ==
    /\ evc[e].statut = "DEPOSITED"
    /\ Prendre(q, "RAPPROCHER", e, AUCUN)

Rapprocher(q, conforme) ==
    /\ evcDemandes[q].op = "RAPPROCHER"
    /\ evc' = [evc EXCEPT ![evcDemandes[q].e].statut =
                  IF conforme THEN "RECONCILED" ELSE "DISCREPANCY"]
    /\ Rendre(q)
    /\ UNCHANGED <<solde, evcSorti, evcEntre>>

Abandonner(q) ==
    /\ evcDemandes[q] # Libre
    /\ Rendre(q)
    /\ UNCHANGED <<solde, evc, evcSorti, evcEntre>>

-----------------------------------------------------------------------------
(* checkMouvementAlreadyExists, read under the lock of the row.            *)
MouvementExiste(total) == total > 0

(* dispatchEvacuation and executeDispatch: the vault gives what was        *)
(* counted at the preparation.                                             *)
Dispatcher(e) ==
    LET m == evc[e].montantCompte IN
    /\ evc[e].statut = "PREPARED"
    /\ ~evc[e].verrouille
    /\ ~MouvementExiste(evcSorti[e])
    /\ solde[Source[e]] >= m
    /\ solde' = [solde EXCEPT ![Source[e]] = @ - m]
    /\ evcSorti' = [evcSorti EXCEPT ![e] = @ + m]
    /\ evc' = [evc EXCEPT ![e].statut = "IN_TRANSIT", ![e].verrouille = TRUE]
    /\ UNCHANGED <<evcEntre, evcDemandes>>

(* executeDeposit: only the central vault has a balance to credit.         *)
Deposer(e, m) ==
    /\ evc[e].statut = "IN_TRANSIT"
    /\ ~MouvementExiste(evcEntre[e])
    /\ solde' = IF Destination[e] \in Coffres
                THEN [solde EXCEPT ![Destination[e]] = @ + m]
                ELSE solde
    /\ evcEntre' = [evcEntre EXCEPT ![e] = @ + m]
    /\ evc' = [evc EXCEPT ![e].statut = "DEPOSITED"]
    /\ UNCHANGED <<evcSorti, evcDemandes>>

-----------------------------------------------------------------------------
Next ==
    \/ \E e \in Evacuations :
          \/ Soumettre(e)
          \/ Rejeter(e)
          \/ Dispatcher(e)
          \/ \E m \in MontantsRecus : Deposer(e, m)
          \/ \E u \in Utilisateurs : Creer(e, u) \/ Approuver(e, u) \/ Annuler(e, u)
          \/ \E q \in EvcRequetes :
                RapprocherLire(q, e) \/ \E u \in Utilisateurs : PreparerLire(q, e, u)
    \/ \E q \in EvcRequetes :
          \/ \E m \in MontantsRecus : Preparer(q, m)
          \/ \E conforme \in BOOLEAN : Rapprocher(q, conforme)
          \/ Abandonner(q)

Spec == Init /\ [][Next]_varsEvc
=============================================================================
