------------------------- MODULE CirculationCoffres -------------------------
(***************************************************************************)
(* The transfers between vaults and the evacuations together, on the same  *)
(* vaults.  The two services share nothing but coffres_forts.solde, which  *)
(* each locks before it takes from it.                                     *)
(***************************************************************************)
EXTENDS Integers

CONSTANTS
    Coffres, Transferts, Evacuations, Utilisateurs, Admins,
    TicRequetes, EvcRequetes,
    Source, Destination, Montant,   \* of a transfer or an evacuation
    DEHORS, MontantsRecus, SoldeInitial, SoldeMinimum, Plafond, AUCUN

ASSUME PiecesDistinctes == Transferts \cap Evacuations = {}

(* A document names two different places and a positive amount; only an    *)
(* evacuation may leave the vaults.                                        *)
ASSUME ConstantesPieces ==
    /\ \A p \in Transferts \cup Evacuations :
          /\ Source[p] \in Coffres
          /\ Destination[p] \in (Coffres \ {Source[p]}) \cup {DEHORS}
          /\ Montant[p] \in Nat \ {0}
    /\ \A t \in Transferts : Destination[t] \in Coffres
    /\ DEHORS \notin Coffres
    /\ MontantsRecus \subseteq Nat \ {0}

ASSUME ConstantesCoffres ==
    /\ SoldeInitial \in [Coffres -> Nat]
    /\ SoldeMinimum \in [Coffres -> Nat]
    /\ Plafond \in [Coffres -> Nat]

ASSUME ConstantesUtilisateurs ==
    /\ Admins \subseteq Utilisateurs
    /\ AUCUN \notin Utilisateurs \cup Transferts \cup Evacuations

VARIABLES solde, tic, ticSorti, ticEntre, ticDemandes,
          evc, evcSorti, evcEntre, evcDemandes

T == INSTANCE TransfertInterCoffres
E == INSTANCE EvacuationCoffre

varsT == <<tic, ticSorti, ticEntre, ticDemandes>>
varsE == <<evc, evcSorti, evcEntre, evcDemandes>>
vars == <<solde, varsT, varsE>>

Init == T!Init /\ E!Init

Next ==
    \/ T!Next /\ UNCHANGED varsE
    \/ E!Next /\ UNCHANGED varsT

Spec == Init /\ [][Next]_vars

-----------------------------------------------------------------------------
(* The rows, the requests and the balances keep their types; a movement    *)
(* never has a negative amount and a vault never a negative balance.       *)
TypeOK ==
    /\ solde \in [Coffres -> Nat]
    /\ tic \in [Transferts -> T!Lignes]
    /\ ticSorti \in [Transferts -> Nat]
    /\ ticEntre \in [Transferts -> Nat]
    /\ ticDemandes \in [TicRequetes -> T!Demandes]
    /\ evc \in [Evacuations -> E!Lignes]
    /\ evcSorti \in [Evacuations -> Nat]
    /\ evcEntre \in [Evacuations -> Nat]
    /\ evcDemandes \in [EvcRequetes -> E!Demandes]

(* The statut of an evacuation tells where its cash is: it left the vault  *)
(* exactly when the row says so, and it was deposited exactly when the row *)
(* is DEPOSITED or reconciled.  No cancellation, rejection or preparation  *)
(* that was decided earlier can hide cash on the road.                     *)
EvacuationSuitArgent ==
    \A e \in Evacuations :
        /\ evcSorti[e] > 0 <=> evc[e].statut \in E!Parties
        /\ evcEntre[e] > 0 <=> evc[e].statut \in E!Parties \ {"IN_TRANSIT"}

(* Cash leaves a vault only after the approvals its workflow asks for, the *)
(* first by somebody else than the creator, however approvals, rejections  *)
(* and submissions that were decided earlier rewrite the row.              *)
ArgentPartiAutorise ==
    /\ \A t \in Transferts : ticSorti[t] > 0 =>
          /\ AUCUN \notin {tic[t].n1, tic[t].n2}
          /\ tic[t].n1 # tic[t].createdBy
    /\ \A e \in Evacuations : evcSorti[e] > 0 =>
          /\ AUCUN \notin {evc[e].approvedBy, evc[e].preparedBy}
          /\ evc[e].approvedBy # evc[e].createdBy

(* The cash of each document leaves its vault once at most, covered by the *)
(* balance, and arrives once at most, after it left: both services         *)
(* implement ArgentEnRoute on the vaults they share.                       *)
Montants == MontantsRecus \cup {Montant[t] : t \in Transferts}
Pieces == Transferts \cup Evacuations
Parti  == [p \in Pieces |-> IF p \in Transferts THEN ticSorti[p] ELSE evcSorti[p]]
Arrive == [p \in Pieces |-> IF p \in Transferts THEN ticEntre[p] ELSE evcEntre[p]]

Route == INSTANCE ArgentEnRoute WITH parti <- Parti, arrive <- Arrive

ArgentSuivi == Route!Spec

(* Violated: canCancel refuses a transfer that left ("Impossible d'annuler *)
(* un transfert en statut ..."), yet its UPDATE by id alone cancels one    *)
(* that left after the check.  The cash is then on the road of a document  *)
(* nobody can receive.                                                     *)
TransitSuivi ==
    \A t \in Transferts :
        ticSorti[t] > 0 /\ ticEntre[t] = 0 => tic[t].statut = "IN_TRANSIT"
=============================================================================
