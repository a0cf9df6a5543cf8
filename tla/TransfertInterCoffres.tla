----------------------- MODULE TransfertInterCoffres -----------------------
(***************************************************************************)
(* Transfers of cash between two vaults (services/transfert-inter-coffres):*)
(* draft, submission, two approvals, dispatch, reception.                  *)
(*                                                                         *)
(* Dispatch and reception are transactions that lock the row (FOR UPDATE   *)
(* NOWAIT) and the vault they move: one step each.  Every other operation  *)
(* reads the row, decides, and updates it by its id alone, whatever it has *)
(* become since: two steps, between which any other handler may run.       *)
(*                                                                         *)
(* The rules of separation are those of getDefaultConfig.                  *)
(***************************************************************************)
EXTENDS Integers

CONSTANTS
    Coffres,            \* rows of coffres_forts
    Transferts,         \* rows that can be inserted in transferts_inter_coffres
    Utilisateurs,
    Admins,             \* users whose role is ADMIN
    TicRequetes,        \* slots for concurrent handlers
    Source, Destination,\* transfer -> its vaults
    Montant,            \* transfer -> montant
    MontantsRecus,      \* amounts a receiver may count
    SoldeInitial,       \* vault -> solde at the start
    SoldeMinimum,       \* vault -> solde_minimum
    Plafond,            \* vault -> plafond_encaisse, 0 when not set
    AUCUN               \* NULL

VARIABLES
    solde,              \* vault -> coffres_forts.solde
    tic,                \* transfer -> its row
    ticSorti,           \* transfer -> total of its SORTIE_COFFRE_TRANSIT movements
    ticEntre,           \* transfer -> total of its ENTREE_COFFRE_RECEPTION movements
    ticDemandes         \* slot -> what its handler is about to do

varsTic == <<solde, tic, ticSorti, ticEntre, ticDemandes>>

Annulables == {"DRAFT", "SUBMITTED", "APPROVED_L1", "APPROVED_L2"}
Recus      == {"RECEIVED", "RECEIVED_WITH_DISCREPANCY"}
Ops == {"libre", "VALIDER", "SOUMETTRE", "RECEVOIR", "ANNULER", "SUPPRIMER",
        "APPROVED_L1", "APPROVED_L2", "REJECTED_L1", "REJECTED_L2"}

(* ABSENT before the INSERT, DELETED after the DELETE.                     *)
Lignes == [statut : {"ABSENT", "DELETED", "IN_TRANSIT", "REJECTED", "CANCELLED"}
                        \cup Annulables \cup Recus,
           createdBy : Utilisateurs \cup {AUCUN},
           n1 : Utilisateurs \cup {AUCUN},
           n2 : Utilisateurs \cup {AUCUN},
           verrouille : BOOLEAN]

LigneVide == [statut |-> "ABSENT", createdBy |-> AUCUN, n1 |-> AUCUN,
              n2 |-> AUCUN, verrouille |-> FALSE]

Libre == [op |-> "libre", t |-> AUCUN, u |-> AUCUN]

Demandes == [op : Ops, t : Transferts \cup {AUCUN}, u : Utilisateurs \cup {AUCUN}]

Init ==
    /\ solde = SoldeInitial
    /\ tic = [t \in Transferts |-> LigneVide]
    /\ ticSorti = [t \in Transferts |-> 0]
    /\ ticEntre = [t \in Transferts |-> 0]
    /\ ticDemandes = [q \in TicRequetes |-> Libre]

-----------------------------------------------------------------------------
(* Reading: a handler checks the row it read and remembers what to write.  *)

Existe(t) == tic[t].statut \notin {"ABSENT", "DELETED"}

Prendre(q, op, t, u) ==
    /\ ticDemandes[q] = Libre
    /\ ticDemandes' = [ticDemandes EXCEPT ![q] = [op |-> op, t |-> t, u |-> u]]
    /\ UNCHANGED <<solde, tic, ticSorti, ticEntre>>

(* The balances validateCreation reads, without a lock.                    *)
Valide(t) ==
    /\ solde[Source[t]] - Montant[t] >= SoldeMinimum[Source[t]]
    /\ Plafond[Destination[t]] = 0
          \/ solde[Destination[t]] + Montant[t] <= Plafond[Destination[t]]

Creer(t, u) ==
    /\ tic[t].statut = "ABSENT"
    /\ Valide(t)
    /\ tic' = [tic EXCEPT ![t].statut = "DRAFT", ![t].createdBy = u]
    /\ UNCHANGED <<solde, ticSorti, ticEntre, ticDemandes>>

SoumettreLire(q, t) ==
    /\ tic[t].statut = "DRAFT"
    /\ Prendre(q, "VALIDER", t, AUCUN)

SoumettreValider(q) ==
    /\ ticDemandes[q].op = "VALIDER"
    /\ ticDemandes' = [ticDemandes EXCEPT ![q] =
          IF Valide(@.t) THEN [@ EXCEPT !.op = "SOUMETTRE"] ELSE Libre]
    /\ UNCHANGED <<solde, tic, ticSorti, ticEntre>>

NiveauDeuxDirect(q, t, u, op) ==                \* Mutant
    /\ op \in {"APPROVED_L2", "REJECTED_L2"}
    /\ tic[t].statut \in {"SUBMITTED", "APPROVED_L1"} /\ tic[t].n1 # u
    /\ Prendre(q, op, t, u)

(* canApproveLevel1: not the creator; canApproveLevel2: not the approver   *)
(* of level 1.  A rejection passes the same checks.                        *)
ApprouverLire(q, t, u, op) ==
    /\ \/ op \in {"APPROVED_L1", "REJECTED_L1"}
          /\ tic[t].statut = "SUBMITTED" /\ tic[t].createdBy # u
       \/ op \in {"APPROVED_L2", "REJECTED_L2"}
          /\ tic[t].statut = "APPROVED_L1" /\ tic[t].n1 # u
    /\ Prendre(q, op, t, u)

(* canReceive looks at the approvers only, never at the statut.            *)
ReceptionLire(q, t, u) ==
    /\ Existe(t)
    /\ u \notin {tic[t].n1, tic[t].n2}
    /\ Prendre(q, "RECEVOIR", t, u)

AnnulerLire(q, t, u) ==
    /\ tic[t].statut \in Annulables
    /\ u = tic[t].createdBy \/ u \in Admins
    /\ Prendre(q, "ANNULER", t, u)

SupprimerLire(q, t) ==
    /\ tic[t].statut = "DRAFT"
    /\ Prendre(q, "SUPPRIMER", t, AUCUN)

-----------------------------------------------------------------------------
(* Writing: UPDATE ... WHERE id = t.  It finds no row when t was deleted.  *)

Rendre(q) == ticDemandes' = [ticDemandes EXCEPT ![q] = Libre]

(* The row an UPDATE by id leaves, for each operation that has one.        *)
LigneEcrite(l, d) ==
    CASE d.op = "SOUMETTRE"   -> [l EXCEPT !.statut = "SUBMITTED"]
      [] d.op = "APPROVED_L1" -> [l EXCEPT !.statut = "APPROVED_L1", !.n1 = d.u]
      [] d.op = "APPROVED_L2" -> [l EXCEPT !.statut = "APPROVED_L2", !.n2 = d.u]
      [] d.op = "REJECTED_L1" -> [l EXCEPT !.statut = "REJECTED", !.n1 = d.u]
      [] d.op = "REJECTED_L2" -> [l EXCEPT !.statut = "REJECTED", !.n2 = d.u]
      [] d.op = "ANNULER"     -> [l EXCEPT !.statut = "CANCELLED"]

Ecrire(q) ==
    LET d == ticDemandes[q] IN
    /\ d.op \notin {"libre", "VALIDER", "RECEVOIR", "SUPPRIMER"}
    /\ tic' = IF Existe(d.t) THEN [tic EXCEPT ![d.t] = LigneEcrite(@, d)]
              ELSE tic
    /\ Rendre(q)
    /\ UNCHANGED <<solde, ticSorti, ticEntre>>

(* DELETE by id: the foreign keys of the reconciliation, written with the  *)
(* entry, refuse it once the cash is in.                                   *)
SupprimerEcrire(q) ==
    LET t == ticDemandes[q].t IN
    /\ ticDemandes[q].op = "SUPPRIMER"
    /\ tic' = IF ticEntre[t] > 0 THEN tic ELSE [tic EXCEPT ![t].statut = "DELETED"]
    /\ Rendre(q)
    /\ UNCHANGED <<solde, ticSorti, ticEntre>>

(* What executeDispatch checks under the lock of the row beside its        *)
(* statut: verrouille, and checkMouvementAlreadyExists.                    *)
StatutSeulVerifie(t) == FALSE                   \* Mutant
DejaParti(t) == tic[t].verrouille \/ ticSorti[t] > 0

SoldeVuALaCreation(disponible, m) == TRUE       \* Mutant
SoldeCouvre(disponible, m) == disponible >= m

(* dispatchTransfert and executeDispatch: one locked transaction.          *)
Dispatcher(t) ==
    /\ tic[t].statut = "APPROVED_L2"
    /\ ~DejaParti(t)
    /\ SoldeCouvre(solde[Source[t]], Montant[t])
    /\ solde' = [solde EXCEPT ![Source[t]] = @ - Montant[t]]
    /\ ticSorti' = [ticSorti EXCEPT ![t] = @ + Montant[t]]
    /\ tic' = [tic EXCEPT ![t].statut = "IN_TRANSIT", ![t].verrouille = TRUE]
    /\ UNCHANGED <<ticEntre, ticDemandes>>

(* executeReceive: the statut follows the flag "conforme" of the request,  *)
(* not the amount it comes with.                                           *)
Recevoir(q, m, conforme) ==
    LET t == ticDemandes[q].t IN
    /\ ticDemandes[q].op = "RECEVOIR"
    /\ tic[t].statut = "IN_TRANSIT"
    /\ ticEntre[t] = 0
    /\ solde' = [solde EXCEPT ![Destination[t]] = @ + m]
    /\ ticEntre' = [ticEntre EXCEPT ![t] = @ + m]
    /\ tic' = [tic EXCEPT ![t].statut = IF conforme THEN "RECEIVED"
                                        ELSE "RECEIVED_WITH_DISCREPANCY"]
    /\ Rendre(q)
    /\ UNCHANGED ticSorti

(* A refusal, or the death of the process between the read and the write.  *)
Abandonner(q) ==
    /\ ticDemandes[q] # Libre
    /\ Rendre(q)
    /\ UNCHANGED <<solde, tic, ticSorti, ticEntre>>

-----------------------------------------------------------------------------
Lire(q, t, u) ==
    \/ SoumettreLire(q, t)
    \/ \E op \in {"APPROVED_L1", "REJECTED_L1", "APPROVED_L2", "REJECTED_L2"} :
          ApprouverLire(q, t, u, op)
    \/ ReceptionLire(q, t, u)
    \/ AnnulerLire(q, t, u)
    \/ SupprimerLire(q, t)

Suite(q) ==
    \/ SoumettreValider(q)
    \/ Ecrire(q)
    \/ SupprimerEcrire(q)
    \/ \E m \in MontantsRecus, conforme \in BOOLEAN : Recevoir(q, m, conforme)
    \/ Abandonner(q)

Next ==
    \/ \E t \in Transferts, u \in Utilisateurs : Creer(t, u)
    \/ \E q \in TicRequetes, t \in Transferts, u \in Utilisateurs : Lire(q, t, u)
    \/ \E t \in Transferts : Dispatcher(t)
    \/ \E q \in TicRequetes : Suite(q)

Spec == Init /\ [][Next]_varsTic
=============================================================================
