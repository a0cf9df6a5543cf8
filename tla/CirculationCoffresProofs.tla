---------------------- MODULE CirculationCoffresProofs ----------------------
(***************************************************************************)
(* Proofs about CirculationCoffres, for any set of vaults, documents,      *)
(* users and handlers.                                                     *)
(*                                                                         *)
(* The invariant of each service says two things: what the columns of a    *)
(* row tell of each other whatever its statut was rewritten to, and what   *)
(* stays true of the row a waiting handler has read, however long it waits.*)
(***************************************************************************)
EXTENDS CirculationCoffres, TLAPS

N1 == {"APPROVED_L1", "REJECTED_L1"}
N2 == {"APPROVED_L2", "REJECTED_L2"}

(* A row of transferts_inter_coffres and what left for it.                 *)
LigneTic(l, sorti) ==
    /\ l.statut = "ABSENT" => l.n1 = AUCUN
    /\ l.n1 # AUCUN => l.n1 # l.createdBy
    /\ l.statut \in {"APPROVED_L1", "APPROVED_L2"} => l.n1 # AUCUN
    /\ l.statut = "APPROVED_L2" => l.n2 # AUCUN
    /\ sorti > 0 => l.n1 # AUCUN /\ l.n2 # AUCUN
    /\ l.statut = "IN_TRANSIT" => sorti > 0

(* A handler that has read its row, whatever the row has become.           *)
DemandeTic(d) ==
    d.op # "libre" =>
        /\ d.t \in Transferts
        /\ tic[d.t].statut # "ABSENT"
        /\ d.op \in N1 \cup N2 => d.u \in Utilisateurs
        /\ d.op \in N1 => d.u # tic[d.t].createdBy
        /\ d.op \in N2 => tic[d.t].n1 # AUCUN

InvTic ==
    /\ \A t \in Transferts : LigneTic(tic[t], ticSorti[t])
    /\ \A q \in TicRequetes : DemandeTic(ticDemandes[q])

(* A row of evacuations_coffre, what left and what was deposited for it.   *)
LigneEvc(l, sorti, entre) ==
    /\ l.statut = "ABSENT" => l.approvedBy = AUCUN
    /\ l.approvedBy # AUCUN => l.approvedBy # l.createdBy
    /\ l.statut \in {"APPROVED", "PREPARED"} => l.approvedBy # AUCUN
    /\ l.statut = "PREPARED" => l.preparedBy # AUCUN /\ l.montantCompte \in MontantsRecus
    /\ sorti > 0 => AUCUN \notin {l.approvedBy, l.preparedBy}
    /\ sorti > 0 <=> l.statut \in E!Parties
    /\ entre > 0 <=> l.statut \in E!Parties \ {"IN_TRANSIT"}

DemandeEvc(d) ==
    /\ d.op # "libre" => d.e \in Evacuations
    /\ d.op = "PREPARER" => d.u \in Utilisateurs
    /\ d.op = "RAPPROCHER" => evcEntre[d.e] > 0 /\ evcSorti[d.e] > 0

InvEvc ==
    /\ \A e \in Evacuations : LigneEvc(evc[e], evcSorti[e], evcEntre[e])
    /\ \A q \in EvcRequetes : DemandeEvc(evcDemandes[q])

IInv == TypeOK /\ InvTic /\ InvEvc

(* TypeOK, the part of each service.                                       *)
TypeTic ==
    /\ tic \in [Transferts -> T!Lignes]
    /\ ticSorti \in [Transferts -> Nat]
    /\ ticEntre \in [Transferts -> Nat]
    /\ ticDemandes \in [TicRequetes -> T!Demandes]

TypeEvc ==
    /\ evc \in [Evacuations -> E!Lignes]
    /\ evcSorti \in [Evacuations -> Nat]
    /\ evcEntre \in [Evacuations -> Nat]
    /\ evcDemandes \in [EvcRequetes -> E!Demandes]

SoldeOK == solde \in [Coffres -> Nat]
-----------------------------------------------------------------------------
(***************************************************************************)
(* The transfers between vaults.                                           *)
(***************************************************************************)

(* A handler takes a request that is well formed on the row it read.       *)
LEMMA TicPrendre ==
    ASSUME TypeTic, InvTic, NEW q \in TicRequetes, NEW op \in T!Ops \ {"libre"},
           NEW t \in Transferts, NEW u \in Utilisateurs \cup {AUCUN},
           tic[t].statut # "ABSENT",
           op \in N1 \cup N2 => u \in Utilisateurs,
           op \in N1 => u # tic[t].createdBy,
           op \in N2 => tic[t].n1 # AUCUN,
           T!Prendre(q, op, t, u)
    PROVE  TypeTic' /\ InvTic' /\ solde' = solde
<1> DEFINE d == [op |-> op, t |-> t, u |-> u]
<1>1. /\ ticDemandes' = [ticDemandes EXCEPT ![q] = d]
      /\ UNCHANGED <<solde, tic, ticSorti, ticEntre>>
    BY DEF T!Prendre
<1>2. d \in T!Demandes
    BY DEF T!Demandes
<1>3. TypeTic'
    BY <1>1, <1>2 DEF TypeTic
<1>4. DemandeTic(d)' /\ \A r \in TicRequetes : DemandeTic(ticDemandes[r])'
    BY <1>1 DEF DemandeTic, InvTic, TypeTic
<1>5. InvTic'
    BY <1>1, <1>4 DEF InvTic, LigneTic
<1> QED BY <1>1, <1>3, <1>5

(* A handler gives its slot back.                                          *)
LEMMA TicRendre ==
    ASSUME TypeTic, NEW q \in TicRequetes, T!Rendre(q)
    PROVE  /\ ticDemandes' \in [TicRequetes -> T!Demandes]
           /\ \A r \in TicRequetes : ticDemandes'[r].op # "libre" =>
                  ticDemandes'[r] = ticDemandes[r]
<1>1. T!Libre \in T!Demandes
    BY DEF T!Libre, T!Demandes, T!Ops
<1> QED BY <1>1 DEF TypeTic, T!Rendre, T!Libre

(* A row is rewritten: it stays coherent, it still exists, its creator and *)
(* a level 1 approver it had are still there.  No waiting handler is hurt. *)
LEMMA TicReecrire ==
    ASSUME TypeTic, InvTic, NEW t \in Transferts, NEW l \in T!Lignes,
           tic' = [tic EXCEPT ![t] = l],
           ticSorti' \in [Transferts -> Nat], ticEntre' \in [Transferts -> Nat],
           \A x \in Transferts \ {t} : ticSorti'[x] = ticSorti[x],
           ticDemandes' \in [TicRequetes -> T!Demandes],
           \A r \in TicRequetes : ticDemandes'[r].op # "libre" => ticDemandes'[r] = ticDemandes[r],
           LigneTic(l, ticSorti'[t]),
           l.statut # "ABSENT",
           tic[t].statut # "ABSENT" => l.createdBy = tic[t].createdBy,
           tic[t].n1 # AUCUN => l.n1 # AUCUN
    PROVE  TypeTic' /\ InvTic'
<1>1. TypeTic'
    BY DEF TypeTic
<1>2. \A x \in Transferts : LigneTic(tic[x], ticSorti[x])'
    <2> TAKE x \in Transferts
    <2>1. CASE x = t
        BY <2>1 DEF TypeTic, LigneTic
    <2>2. CASE x # t
        BY <2>2 DEF TypeTic, InvTic, LigneTic
    <2> QED BY <2>1, <2>2
<1>3. \A r \in TicRequetes : DemandeTic(ticDemandes[r])'
    <2> TAKE r \in TicRequetes
    <2>1. CASE ticDemandes'[r].op = "libre"
        BY <2>1 DEF DemandeTic
    <2>2. CASE ticDemandes'[r].op # "libre"
        <3>1. ticDemandes'[r] = ticDemandes[r] /\ DemandeTic(ticDemandes[r])
            BY <2>2 DEF InvTic
        <3>2. tic[ticDemandes[r].t].statut # "ABSENT" /\ ticDemandes[r].t \in Transferts
            BY <2>2, <3>1 DEF DemandeTic
        <3>3. /\ tic'[ticDemandes[r].t].statut # "ABSENT"
              /\ tic'[ticDemandes[r].t].createdBy = tic[ticDemandes[r].t].createdBy
              /\ tic[ticDemandes[r].t].n1 # AUCUN => tic'[ticDemandes[r].t].n1 # AUCUN
            BY <3>2 DEF TypeTic
        <3> QED BY <3>1, <3>3 DEF DemandeTic
    <2> QED BY <2>1, <2>2
<1> QED BY <1>1, <1>2, <1>3 DEF InvTic

(* The INSERT of a draft.                                                  *)
LEMMA TicCreer ==
    ASSUME TypeTic, InvTic, NEW t \in Transferts, NEW u \in Utilisateurs, T!Creer(t, u)
    PROVE  TypeTic' /\ InvTic' /\ solde' = solde
<1> DEFINE l == [tic[t] EXCEPT !.statut = "DRAFT", !.createdBy = u]
<1>1. /\ tic' = [tic EXCEPT ![t] = l]
      /\ tic[t].statut = "ABSENT" /\ tic[t].n1 = AUCUN /\ tic[t] \in T!Lignes
      /\ UNCHANGED <<solde, ticSorti, ticEntre, ticDemandes>>
    BY DEF T!Creer, TypeTic, InvTic, LigneTic
<1>2. l \in T!Lignes /\ l.statut = "DRAFT" /\ l.n1 = AUCUN /\ l.n2 = tic[t].n2
    BY <1>1 DEF T!Lignes, T!Annulables
<1>3. LigneTic(l, ticSorti'[t])
    BY <1>1, <1>2 DEF LigneTic, InvTic
<1> QED BY <1>1, <1>2, <1>3, TicReecrire DEF TypeTic

(* The reads.                                                              *)
LEMMA TicLire ==
    ASSUME TypeTic, InvTic, NEW q \in TicRequetes, NEW t \in Transferts,
           NEW u \in Utilisateurs, T!Lire(q, t, u)
    PROVE  TypeTic' /\ InvTic' /\ solde' = solde
<1>1. CASE T!SoumettreLire(q, t)
    BY <1>1, TicPrendre DEF T!SoumettreLire, T!Ops, N1, N2
<1>2. ASSUME NEW op \in N1 \cup N2, T!ApprouverLire(q, t, u, op)
      PROVE  TypeTic' /\ InvTic' /\ solde' = solde
    BY <1>2, TicPrendre DEF T!ApprouverLire, T!Ops, N1, N2, InvTic, LigneTic
<1>3. CASE T!ReceptionLire(q, t, u)
    BY <1>3, TicPrendre DEF T!ReceptionLire, T!Existe, T!Ops, N1, N2
<1>4. CASE T!AnnulerLire(q, t, u)
    BY <1>4, TicPrendre DEF T!AnnulerLire, T!Annulables, T!Ops, N1, N2
<1>5. CASE T!SupprimerLire(q, t)
    BY <1>5, TicPrendre DEF T!SupprimerLire, T!Ops, N1, N2
<1> QED BY <1>1, <1>2, <1>3, <1>4, <1>5 DEF T!Lire, N1, N2

(* The row an UPDATE by id leaves is coherent: only the request of a level *)
(* writes the approver of this level.                                      *)
LEMMA TicLigneEcrite ==
    ASSUME NEW l \in T!Lignes, NEW sorti \in Nat, NEW d \in T!Demandes, LigneTic(l, sorti),
           l.statut # "ABSENT",
           d.op \notin {"libre", "VALIDER", "RECEVOIR", "SUPPRIMER"},
           d.op \in N1 \cup N2 => d.u \in Utilisateurs,
           d.op \in N1 => d.u # l.createdBy,
           d.op \in N2 => l.n1 # AUCUN
    PROVE  LET m == T!LigneEcrite(l, d) IN
           /\ m \in T!Lignes
           /\ m.statut # "ABSENT"
           /\ m.createdBy = l.createdBy
           /\ l.n1 # AUCUN => m.n1 # AUCUN
           /\ LigneTic(m, sorti)
<1> DEFINE m == T!LigneEcrite(l, d)
<1>1. d.op \in {"SOUMETTRE", "ANNULER"} \cup N1 \cup N2
    BY DEF T!Demandes, T!Ops, N1, N2
<1>2. CASE d.op = "SOUMETTRE"
    <2>1. m = [l EXCEPT !.statut = "SUBMITTED"]
        BY <1>2 DEF T!LigneEcrite
    <2> QED BY <2>1 DEF LigneTic, T!Lignes, T!Annulables
<1>3. CASE d.op = "ANNULER"
    <2>1. m = [l EXCEPT !.statut = "CANCELLED"]
        BY <1>3 DEF T!LigneEcrite
    <2> QED BY <2>1 DEF LigneTic, T!Lignes
<1>4. CASE d.op = "APPROVED_L1"
    <2>1. m = [l EXCEPT !.statut = "APPROVED_L1", !.n1 = d.u]
        BY <1>4 DEF T!LigneEcrite
    <2>2. d.u \in Utilisateurs /\ d.u # AUCUN /\ d.u # l.createdBy
        BY <1>4, ConstantesUtilisateurs DEF N1
    <2> QED BY <2>1, <2>2 DEF LigneTic, T!Lignes, T!Annulables
<1>5. CASE d.op = "REJECTED_L1"
    <2>1. m = [l EXCEPT !.statut = "REJECTED", !.n1 = d.u]
        BY <1>5 DEF T!LigneEcrite
    <2>2. d.u \in Utilisateurs /\ d.u # AUCUN /\ d.u # l.createdBy
        BY <1>5, ConstantesUtilisateurs DEF N1
    <2> QED BY <2>1, <2>2 DEF LigneTic, T!Lignes
<1>6. CASE d.op = "APPROVED_L2"
    <2>1. m = [l EXCEPT !.statut = "APPROVED_L2", !.n2 = d.u]
        BY <1>6 DEF T!LigneEcrite
    <2>2. d.u \in Utilisateurs /\ d.u # AUCUN /\ l.n1 # AUCUN
        BY <1>6, ConstantesUtilisateurs DEF N2
    <2> QED BY <2>1, <2>2 DEF LigneTic, T!Lignes, T!Annulables
<1>7. CASE d.op = "REJECTED_L2"
    <2>1. m = [l EXCEPT !.statut = "REJECTED", !.n2 = d.u]
        BY <1>7 DEF T!LigneEcrite
    <2>2. d.u \in Utilisateurs /\ d.u # AUCUN /\ l.n1 # AUCUN
        BY <1>7, ConstantesUtilisateurs DEF N2
    <2> QED BY <2>1, <2>2 DEF LigneTic, T!Lignes
<1> QED BY ONLY <1>1, <1>2, <1>3, <1>4, <1>5, <1>6, <1>7 DEF N1, N2

(* A slot changes and the rows do not.                                     *)
LEMMA TicDemandesSeules ==
    ASSUME TypeTic, InvTic, UNCHANGED <<tic, ticSorti, ticEntre>>,
           ticDemandes' \in [TicRequetes -> T!Demandes],
           \A r \in TicRequetes : ticDemandes'[r].op # "libre" => ticDemandes'[r] = ticDemandes[r]
    PROVE  TypeTic' /\ InvTic'
<1>1. \A r \in TicRequetes : DemandeTic(ticDemandes[r])'
    BY DEF InvTic, DemandeTic
<1>2. \A t \in Transferts : LigneTic(tic[t], ticSorti[t])'
    BY DEF InvTic, LigneTic
<1> QED BY <1>1, <1>2 DEF TypeTic, InvTic

(* A handler of the transfers between vaults writes what it decided on.    *)
LEMMA TicEcrire ==
    ASSUME TypeTic, InvTic, NEW q \in TicRequetes, T!Ecrire(q)
    PROVE  TypeTic' /\ InvTic' /\ solde' = solde
<1> DEFINE d == ticDemandes[q]
           l == tic[d.t]
           m == T!LigneEcrite(l, d)
<1>1. /\ d \in T!Demandes
      /\ d.op \notin {"libre", "VALIDER", "RECEVOIR", "SUPPRIMER"}
      /\ DemandeTic(d)
      /\ UNCHANGED <<solde, ticSorti, ticEntre>>
      /\ T!Rendre(q)
    BY DEF T!Ecrire, TypeTic, InvTic
<1>2. /\ d.t \in Transferts /\ l.statut # "ABSENT" /\ l \in T!Lignes /\ ticSorti[d.t] \in Nat
      /\ LigneTic(l, ticSorti[d.t])
      /\ d.op \in N1 \cup N2 => d.u \in Utilisateurs
      /\ d.op \in N1 => d.u # l.createdBy
      /\ d.op \in N2 => l.n1 # AUCUN
    BY <1>1 DEF DemandeTic, TypeTic, InvTic
<1>3. /\ ticDemandes' \in [TicRequetes -> T!Demandes]
      /\ \A r \in TicRequetes : ticDemandes'[r].op # "libre" => ticDemandes'[r] = ticDemandes[r]
    BY <1>1, TicRendre
<1>4. CASE ~T!Existe(d.t)
    <2>1. tic' = tic
        BY <1>4 DEF T!Ecrire
    <2> QED BY <1>1, <1>3, <2>1, TicDemandesSeules
<1>5. CASE T!Existe(d.t)
    <2>1. tic' = [tic EXCEPT ![d.t] = m]
        BY <1>5 DEF T!Ecrire
    <2>2. /\ m \in T!Lignes /\ m.statut # "ABSENT" /\ m.createdBy = l.createdBy
          /\ l.n1 # AUCUN => m.n1 # AUCUN
          /\ LigneTic(m, ticSorti[d.t])
        BY <1>1, <1>2, TicLigneEcrite
    <2>3. ticSorti' \in [Transferts -> Nat] /\ ticEntre' \in [Transferts -> Nat]
        BY <1>1 DEF TypeTic
    <2> HIDE DEF d, m
    <2>4. LigneTic(m, ticSorti'[d.t])
        BY <1>1, <2>2
    <2> QED BY <1>1, <1>2, <1>3, <2>1, <2>2, <2>3, <2>4, TicReecrire
<1> QED BY <1>4, <1>5

(* A request to submit a transfer is checked.                              *)
LEMMA TicSoumettreValider ==
    ASSUME TypeTic, InvTic, NEW q \in TicRequetes, T!SoumettreValider(q)
    PROVE  TypeTic' /\ InvTic' /\ solde' = solde
<1> DEFINE d == ticDemandes[q]
           n == [d EXCEPT !.op = "SOUMETTRE"]
<1>1. /\ d \in T!Demandes /\ d.op = "VALIDER" /\ DemandeTic(d)
      /\ UNCHANGED <<solde, tic, ticSorti, ticEntre>>
    BY DEF T!SoumettreValider, TypeTic, InvTic
<1>2. CASE ~T!Valide(d.t)
    <2>1. T!Rendre(q)
        BY <1>2 DEF T!SoumettreValider, T!Rendre, TypeTic
    <2> QED BY <1>1, <2>1, TicRendre, TicDemandesSeules
<1>3. CASE T!Valide(d.t)
    <2>1. ticDemandes' = [ticDemandes EXCEPT ![q] = n]
        BY <1>3 DEF T!SoumettreValider, TypeTic
    <2>2. n \in T!Demandes /\ n.op = "SOUMETTRE" /\ n.t = d.t
        BY <1>1 DEF T!Demandes, T!Ops
    <2>3. TypeTic'
        BY <1>1, <2>1, <2>2 DEF TypeTic
    <2>4. \A r \in TicRequetes : DemandeTic(ticDemandes[r])'
        <3> TAKE r \in TicRequetes
        <3>1. CASE r = q
            <4>1. ticDemandes'[r].op = "SOUMETTRE" /\ ticDemandes'[r].t = d.t
                BY <2>1, <2>2, <3>1 DEF TypeTic
            <4>2. d.t \in Transferts /\ tic'[d.t].statut # "ABSENT"
                BY <1>1 DEF DemandeTic
            <4> QED BY <4>1, <4>2 DEF DemandeTic, N1, N2
        <3>2. CASE r # q
            <4>1. ticDemandes'[r] = ticDemandes[r]
                BY <2>1, <3>2 DEF TypeTic
            <4> QED BY <1>1, <4>1 DEF InvTic, DemandeTic
        <3> QED BY <3>1, <3>2
    <2> QED BY <1>1, <2>3, <2>4 DEF InvTic, LigneTic
<1> QED BY <1>2, <1>3

(* A transfer is deleted after the read that allowed it.                   *)
LEMMA TicSupprimerEcrire ==
    ASSUME TypeTic, InvTic, NEW q \in TicRequetes, T!SupprimerEcrire(q)
    PROVE  TypeTic' /\ InvTic' /\ solde' = solde
<1> DEFINE t == ticDemandes[q].t
           l == [tic[t] EXCEPT !.statut = "DELETED"]
<1>1. /\ t \in Transferts /\ tic[t] \in T!Lignes /\ LigneTic(tic[t], ticSorti[t])
      /\ UNCHANGED <<solde, ticSorti, ticEntre>> /\ T!Rendre(q)
    BY DEF T!SupprimerEcrire, TypeTic, InvTic, DemandeTic
<1>2. /\ ticDemandes' \in [TicRequetes -> T!Demandes]
      /\ \A r \in TicRequetes : ticDemandes'[r].op # "libre" => ticDemandes'[r] = ticDemandes[r]
    BY <1>1, TicRendre
<1>3. CASE ticEntre[t] > 0
    <2>1. tic' = tic
        BY <1>3 DEF T!SupprimerEcrire
    <2> QED BY <1>1, <1>2, <2>1, TicDemandesSeules
<1>4. CASE ~(ticEntre[t] > 0)
    <2>1. tic' = [tic EXCEPT ![t] = l]
        BY <1>4 DEF T!SupprimerEcrire
    <2>2. /\ l \in T!Lignes /\ l.statut = "DELETED"
          /\ l.createdBy = tic[t].createdBy /\ l.n1 = tic[t].n1 /\ l.n2 = tic[t].n2
        BY <1>1 DEF T!Lignes
    <2>3. LigneTic(l, ticSorti'[t])
        BY <1>1, <2>2 DEF LigneTic
    <2> HIDE DEF t, l
    <2> QED BY <1>1, <1>2, <2>1, <2>2, <2>3, TicReecrire DEF TypeTic
<1> QED BY <1>3, <1>4

(* The dispatch leaves a row whose two approvals are still on it.          *)
LEMMA TicDispatcher ==
    ASSUME TypeTic, InvTic, SoldeOK, NEW t \in Transferts, T!Dispatcher(t)
    PROVE  TypeTic' /\ InvTic' /\ SoldeOK'
<1> DEFINE l == [tic[t] EXCEPT !.statut = "IN_TRANSIT", !.verrouille = TRUE]
<1>1. /\ tic' = [tic EXCEPT ![t] = l]
      /\ tic[t].statut = "APPROVED_L2" /\ tic[t] \in T!Lignes /\ LigneTic(tic[t], ticSorti[t])
      /\ ticSorti[t] \in Nat /\ Montant[t] \in Nat \ {0} /\ Source[t] \in Coffres
      /\ ticSorti' = [ticSorti EXCEPT ![t] = @ + Montant[t]]
      /\ solde' = [solde EXCEPT ![Source[t]] = @ - Montant[t]]
      /\ solde[Source[t]] >= Montant[t]
      /\ UNCHANGED <<ticEntre, ticDemandes>>
    BY ConstantesPieces DEF T!Dispatcher, T!SoldeCouvre, TypeTic, InvTic
<1>2. /\ l \in T!Lignes /\ l.statut = "IN_TRANSIT"
      /\ l.createdBy = tic[t].createdBy /\ l.n1 = tic[t].n1 /\ l.n2 = tic[t].n2
    BY <1>1 DEF T!Lignes
<1>3. /\ ticSorti' \in [Transferts -> Nat] /\ ticSorti'[t] > 0
      /\ \A x \in Transferts \ {t} : ticSorti'[x] = ticSorti[x]
    BY <1>1 DEF TypeTic
<1>4. LigneTic(l, ticSorti'[t])
    BY <1>1, <1>2, <1>3 DEF LigneTic
<1>5. SoldeOK'
    BY <1>1 DEF SoldeOK
<1> HIDE DEF l
<1> QED BY <1>1, <1>2, <1>3, <1>4, <1>5, TicReecrire DEF TypeTic

(* The vault that receives a transfer is credited.                         *)
LEMMA TicRecevoir ==
    ASSUME TypeTic, InvTic, SoldeOK, NEW q \in TicRequetes, NEW m \in MontantsRecus,
           NEW conforme \in BOOLEAN, T!Recevoir(q, m, conforme)
    PROVE  TypeTic' /\ InvTic' /\ SoldeOK'
<1> DEFINE t == ticDemandes[q].t
           l == [tic[t] EXCEPT !.statut = IF conforme THEN "RECEIVED"
                                          ELSE "RECEIVED_WITH_DISCREPANCY"]
<1>1. /\ t \in Transferts /\ m \in Nat /\ Destination[t] \in Coffres
      /\ tic' = [tic EXCEPT ![t] = l]
      /\ tic[t] \in T!Lignes /\ LigneTic(tic[t], ticSorti[t]) /\ tic[t].statut = "IN_TRANSIT"
      /\ ticEntre' = [ticEntre EXCEPT ![t] = @ + m]
      /\ solde' = [solde EXCEPT ![Destination[t]] = @ + m]
      /\ ticSorti' = ticSorti /\ T!Rendre(q)
    BY ConstantesPieces DEF T!Recevoir, TypeTic, InvTic, DemandeTic
<1>2. /\ ticDemandes' \in [TicRequetes -> T!Demandes]
      /\ \A r \in TicRequetes : ticDemandes'[r].op # "libre" => ticDemandes'[r] = ticDemandes[r]
    BY <1>1, TicRendre
<1>3. /\ l \in T!Lignes /\ l.statut \in T!Recus
      /\ l.createdBy = tic[t].createdBy /\ l.n1 = tic[t].n1 /\ l.n2 = tic[t].n2
    BY <1>1 DEF T!Lignes, T!Recus
<1>4. LigneTic(l, ticSorti'[t]) /\ l.statut # "ABSENT"
    BY <1>1, <1>3 DEF LigneTic, T!Recus
<1>5. ticEntre' \in [Transferts -> Nat]
    BY <1>1 DEF TypeTic
<1>6. SoldeOK'
    BY <1>1 DEF SoldeOK
<1> HIDE DEF t, l
<1> QED BY <1>1, <1>2, <1>3, <1>4, <1>5, <1>6, TicReecrire DEF TypeTic

(* Every step of the transfers keeps their invariant.                      *)
LEMMA TicPas ==
    ASSUME TypeTic, InvTic, SoldeOK, T!Next
    PROVE  TypeTic' /\ InvTic' /\ SoldeOK'
<1>1. ASSUME NEW t \in Transferts, NEW u \in Utilisateurs, T!Creer(t, u)
      PROVE  TypeTic' /\ InvTic' /\ SoldeOK'
    BY <1>1, TicCreer DEF SoldeOK
<1>2. ASSUME NEW q \in TicRequetes, NEW t \in Transferts, NEW u \in Utilisateurs, T!Lire(q, t, u)
      PROVE  TypeTic' /\ InvTic' /\ SoldeOK'
    BY <1>2, TicLire DEF SoldeOK
<1>3. ASSUME NEW t \in Transferts, T!Dispatcher(t)
      PROVE  TypeTic' /\ InvTic' /\ SoldeOK'
    BY <1>3, TicDispatcher
<1>4. ASSUME NEW q \in TicRequetes, T!Suite(q)
      PROVE  TypeTic' /\ InvTic' /\ SoldeOK'
    <2>1. CASE T!SoumettreValider(q)
        BY <2>1, TicSoumettreValider DEF SoldeOK
    <2>2. CASE T!Ecrire(q)
        BY <2>2, TicEcrire DEF SoldeOK
    <2>3. CASE T!SupprimerEcrire(q)
        BY <2>3, TicSupprimerEcrire DEF SoldeOK
    <2>4. CASE \E m \in MontantsRecus, conforme \in BOOLEAN : T!Recevoir(q, m, conforme)
        BY <2>4, TicRecevoir
    <2>5. CASE T!Abandonner(q)
        BY <2>5, TicRendre, TicDemandesSeules DEF T!Abandonner, SoldeOK
    <2> QED BY <1>4, <2>1, <2>2, <2>3, <2>4, <2>5 DEF T!Suite
<1> QED BY <1>1, <1>2, <1>3, <1>4 DEF T!Next
-----------------------------------------------------------------------------
(***************************************************************************)
(* The evacuations.                                                        *)
(***************************************************************************)

(* A slot is given back or left alone.                                     *)
EvcDemandesOK ==
    /\ evcDemandes' \in [EvcRequetes -> E!Demandes]
    /\ \A r \in EvcRequetes : evcDemandes'[r].op # "libre" => evcDemandes'[r] = evcDemandes[r]

(* A handler of the evacuations goes back to rest.                         *)
LEMMA EvcRendre ==
    ASSUME TypeEvc, NEW q \in EvcRequetes, E!Rendre(q)
    PROVE  EvcDemandesOK
<1>1. E!Libre \in E!Demandes
    BY DEF E!Libre, E!Demandes
<1> QED BY <1>1 DEF TypeEvc, E!Rendre, E!Libre, EvcDemandesOK

(* A handler of the evacuations begins on a document it has read.          *)
LEMMA EvcPrendre ==
    ASSUME TypeEvc, InvEvc, NEW q \in EvcRequetes, NEW op \in {"PREPARER", "RAPPROCHER"},
           NEW e \in Evacuations, NEW u \in Utilisateurs \cup {AUCUN},
           op = "PREPARER" => u \in Utilisateurs,
           op = "RAPPROCHER" => evcEntre[e] > 0 /\ evcSorti[e] > 0,
           E!Prendre(q, op, e, u)
    PROVE  TypeEvc' /\ InvEvc' /\ solde' = solde
<1> DEFINE d == [op |-> op, e |-> e, u |-> u]
<1>1. /\ evcDemandes' = [evcDemandes EXCEPT ![q] = d]
      /\ UNCHANGED <<solde, evc, evcSorti, evcEntre>>
    BY DEF E!Prendre
<1>2. d \in E!Demandes
    BY DEF E!Demandes
<1>3. \A r \in EvcRequetes : DemandeEvc(evcDemandes[r])'
    BY <1>1 DEF DemandeEvc, InvEvc, TypeEvc
<1>4. \A x \in Evacuations : LigneEvc(evc[x], evcSorti[x], evcEntre[x])'
    BY <1>1 DEF InvEvc, LigneEvc
<1> QED BY <1>1, <1>2, <1>3, <1>4 DEF TypeEvc, InvEvc

(* A row and its movements change together and stay coherent; what left    *)
(* and what was deposited is never taken back.                             *)
LEMMA EvcReecrire ==
    ASSUME TypeEvc, InvEvc, NEW e \in Evacuations, NEW l \in E!Lignes,
           NEW sorti \in Nat, NEW entre \in Nat,
           evc' = [evc EXCEPT ![e] = l],
           evcSorti' = [evcSorti EXCEPT ![e] = sorti],
           evcEntre' = [evcEntre EXCEPT ![e] = entre],
           sorti >= evcSorti[e], entre >= evcEntre[e],
           EvcDemandesOK, LigneEvc(l, sorti, entre)
    PROVE  TypeEvc' /\ InvEvc'
<1>1. TypeEvc'
    BY DEF TypeEvc, EvcDemandesOK
<1>2. \A x \in Evacuations : LigneEvc(evc[x], evcSorti[x], evcEntre[x])'
    <2> TAKE x \in Evacuations
    <2>1. CASE x = e
        BY <2>1 DEF TypeEvc, LigneEvc
    <2>2. CASE x # e
        BY <2>2 DEF TypeEvc, InvEvc, LigneEvc
    <2> QED BY <2>1, <2>2
<1>3. \A r \in EvcRequetes : DemandeEvc(evcDemandes[r])'
    BY DEF TypeEvc, InvEvc, DemandeEvc, EvcDemandesOK, E!Demandes
<1> QED BY <1>1, <1>2, <1>3 DEF InvEvc

(* A guarded UPDATE of simpleTransition, from a row ligne which differs    *)
(* from the row read in the columns of the operation.                      *)
LEMMA EvcTransition ==
    ASSUME TypeEvc, InvEvc, NEW e \in Evacuations,
           NEW vers \in {"SUBMITTED", "APPROVED", "PREPARED", "REJECTED", "CANCELLED"},
           NEW l \in E!Lignes,
           E!Transition(e, vers, l), EvcDemandesOK,
           l.createdBy = evc[e].createdBy,
           l.approvedBy # AUCUN => l.approvedBy # l.createdBy,
           evc[e].approvedBy # AUCUN => l.approvedBy # AUCUN,
           vers = "APPROVED" => l.approvedBy # AUCUN,
           vers = "PREPARED" => l.preparedBy # AUCUN /\ l.montantCompte \in MontantsRecus
    PROVE  TypeEvc' /\ InvEvc' /\ solde' = solde
<1> DEFINE n == [l EXCEPT !.statut = vers]
<1>1. /\ E!TransitionPermise(evc[e].statut, vers)
      /\ evc' = [evc EXCEPT ![e] = n]
      /\ UNCHANGED <<solde, evcSorti, evcEntre>>
    BY DEF E!Transition
<1>2. /\ n \in E!Lignes /\ n.statut = vers /\ n.createdBy = l.createdBy
      /\ n.approvedBy = l.approvedBy /\ n.preparedBy = l.preparedBy
      /\ n.montantCompte = l.montantCompte
    BY DEF E!Lignes, E!Annulables
<1>3. /\ evc[e].statut \in {"DRAFT", "SUBMITTED", "APPROVED"}
      /\ vers = "PREPARED" => evc[e].statut = "APPROVED"
    BY <1>1 DEF E!TransitionPermise, E!Annulables
<1>4. /\ LigneEvc(evc[e], evcSorti[e], evcEntre[e])
      /\ evcSorti[e] \in Nat /\ evcEntre[e] \in Nat
    BY DEF InvEvc, TypeEvc
<1>5. ~(evcSorti[e] > 0) /\ ~(evcEntre[e] > 0)
    BY <1>3, <1>4 DEF LigneEvc, E!Parties, E!Rapproches
<1>6. LigneEvc(n, evcSorti[e], evcEntre[e])
    BY <1>2, <1>3, <1>4, <1>5 DEF LigneEvc, E!Parties, E!Rapproches
<1>7. /\ evcSorti' = [evcSorti EXCEPT ![e] = evcSorti[e]]
      /\ evcEntre' = [evcEntre EXCEPT ![e] = evcEntre[e]]
    BY <1>1 DEF TypeEvc
<1>8. evcSorti[e] >= evcSorti[e] /\ evcEntre[e] >= evcEntre[e]
    BY <1>4
<1> HIDE DEF n
<1>9. TypeEvc' /\ InvEvc'
    BY <1>1, <1>2, <1>4, <1>6, <1>7, <1>8, EvcReecrire
<1> QED BY <1>1, <1>9

(* The operations that end in simpleTransition.                            *)
LEMMA EvcSimple ==
    ASSUME TypeEvc, InvEvc, NEW e \in Evacuations,
           \/ E!Soumettre(e)
           \/ E!Rejeter(e)
           \/ \E u \in Utilisateurs : E!Approuver(e, u) \/ E!Annuler(e, u)
    PROVE  TypeEvc' /\ InvEvc' /\ solde' = solde
<1>1. /\ evc[e] \in E!Lignes /\ LigneEvc(evc[e], evcSorti[e], evcEntre[e])
      /\ evc[e].approvedBy # AUCUN => evc[e].approvedBy # evc[e].createdBy
    BY DEF TypeEvc, InvEvc, LigneEvc
<1>2. evcDemandes' = evcDemandes
    BY DEF E!Soumettre, E!Rejeter, E!Approuver, E!Annuler
<1>3. EvcDemandesOK
    BY <1>2 DEF EvcDemandesOK, TypeEvc
<1>4. CASE E!Soumettre(e)
    BY <1>1, <1>3, <1>4, EvcTransition DEF E!Soumettre
<1>5. CASE E!Rejeter(e)
    BY <1>1, <1>3, <1>5, EvcTransition DEF E!Rejeter
<1>6. ASSUME NEW u \in Utilisateurs, E!Approuver(e, u)
      PROVE  TypeEvc' /\ InvEvc' /\ solde' = solde
    <2> DEFINE l == [evc[e] EXCEPT !.approvedBy = u]
    <2>1. /\ l \in E!Lignes /\ l.createdBy = evc[e].createdBy
          /\ l.approvedBy = u /\ u # AUCUN /\ u # evc[e].createdBy
          /\ E!Transition(e, "APPROVED", l)
        BY <1>1, <1>6, ConstantesUtilisateurs DEF E!Approuver, E!Lignes
    <2> HIDE DEF l
    <2> QED BY <1>3, <2>1, EvcTransition
<1>7. ASSUME NEW u \in Utilisateurs, E!Annuler(e, u)
      PROVE  TypeEvc' /\ InvEvc' /\ solde' = solde
    BY <1>1, <1>3, <1>7, EvcTransition DEF E!Annuler
<1> QED BY <1>4, <1>5, <1>6, <1>7

(* The cash of an evacuation is prepared.                                  *)
LEMMA EvcPreparer ==
    ASSUME TypeEvc, InvEvc, NEW q \in EvcRequetes, NEW m \in MontantsRecus, E!Preparer(q, m)
    PROVE  TypeEvc' /\ InvEvc' /\ solde' = solde
<1> DEFINE d == evcDemandes[q]
           l == [evc[d.e] EXCEPT !.preparedBy = d.u, !.montantCompte = m]
<1>1. d.e \in Evacuations /\ d.u \in Utilisateurs /\ d.u # AUCUN
    BY ConstantesUtilisateurs DEF E!Preparer, InvEvc, DemandeEvc
<1>2. /\ evc[d.e] \in E!Lignes /\ m \in Nat
      /\ evc[d.e].approvedBy # AUCUN => evc[d.e].approvedBy # evc[d.e].createdBy
    BY <1>1, ConstantesPieces DEF TypeEvc, InvEvc, LigneEvc
<1>3. /\ l \in E!Lignes /\ l.createdBy = evc[d.e].createdBy
      /\ l.approvedBy = evc[d.e].approvedBy
      /\ l.preparedBy = d.u /\ l.montantCompte = m
    BY <1>1, <1>2 DEF E!Lignes
<1>4. E!Transition(d.e, "PREPARED", l) /\ EvcDemandesOK
    BY EvcRendre DEF E!Preparer
<1> HIDE DEF d, l
<1> QED BY <1>1, <1>2, <1>3, <1>4, EvcTransition

(* A reconciliation decided on an earlier read still finds the cash        *)
(* deposited.                                                              *)
LEMMA EvcRapprocher ==
    ASSUME TypeEvc, InvEvc, NEW q \in EvcRequetes, NEW conforme \in BOOLEAN,
           E!Rapprocher(q, conforme)
    PROVE  TypeEvc' /\ InvEvc' /\ solde' = solde
<1> DEFINE e == evcDemandes[q].e
           l == [evc[e] EXCEPT !.statut = IF conforme THEN "RECONCILED" ELSE "DISCREPANCY"]
<1>1. e \in Evacuations /\ evcEntre[e] > 0 /\ evcSorti[e] > 0
    BY DEF E!Rapprocher, InvEvc, DemandeEvc
<1>2. /\ evc[e] \in E!Lignes /\ LigneEvc(evc[e], evcSorti[e], evcEntre[e])
      /\ evcSorti[e] \in Nat /\ evcEntre[e] \in Nat
    BY <1>1 DEF TypeEvc, InvEvc
<1>3. /\ l \in E!Lignes /\ l.statut \in E!Rapproches
      /\ l.createdBy = evc[e].createdBy /\ l.approvedBy = evc[e].approvedBy
      /\ l.preparedBy = evc[e].preparedBy
    BY <1>2 DEF E!Lignes, E!Parties, E!Rapproches
<1>4. LigneEvc(l, evcSorti[e], evcEntre[e])
    BY <1>1, <1>2, <1>3 DEF LigneEvc, E!Parties, E!Rapproches
<1>5. /\ evc' = [evc EXCEPT ![e] = l]
      /\ evcSorti' = [evcSorti EXCEPT ![e] = evcSorti[e]]
      /\ evcEntre' = [evcEntre EXCEPT ![e] = evcEntre[e]]
      /\ solde' = solde
    BY DEF E!Rapprocher, TypeEvc
<1>6. EvcDemandesOK
    BY EvcRendre DEF E!Rapprocher
<1>7. evcSorti[e] >= evcSorti[e] /\ evcEntre[e] >= evcEntre[e]
    BY <1>2
<1> HIDE DEF e, l
<1>8. TypeEvc' /\ InvEvc'
    BY <1>1, <1>2, <1>3, <1>4, <1>5, <1>6, <1>7, EvcReecrire
<1> QED BY <1>5, <1>8

(* The cash of an evacuation leaves the vault, which is debited.           *)
LEMMA EvcDispatcher ==
    ASSUME TypeEvc, InvEvc, SoldeOK, NEW e \in Evacuations, E!Dispatcher(e)
    PROVE  TypeEvc' /\ InvEvc' /\ SoldeOK'
<1> DEFINE m == evc[e].montantCompte
           l == [evc[e] EXCEPT !.statut = "IN_TRANSIT", !.verrouille = TRUE]
<1>1. /\ evc[e] \in E!Lignes /\ LigneEvc(evc[e], evcSorti[e], evcEntre[e])
      /\ evc[e].statut = "PREPARED" /\ Source[e] \in Coffres
      /\ evcSorti[e] \in Nat /\ evcEntre[e] \in Nat
      /\ evc' = [evc EXCEPT ![e] = l]
      /\ evcSorti' = [evcSorti EXCEPT ![e] = @ + m]
      /\ solde' = [solde EXCEPT ![Source[e]] = @ - m]
      /\ solde[Source[e]] >= m
      /\ UNCHANGED <<evcEntre, evcDemandes>>
    BY ConstantesPieces DEF E!Dispatcher, TypeEvc, InvEvc
<1>2. m \in Nat \ {0} /\ evc[e].approvedBy # AUCUN /\ evc[e].preparedBy # AUCUN
    BY <1>1, ConstantesPieces DEF LigneEvc
<1>3. /\ l \in E!Lignes /\ l.statut = "IN_TRANSIT"
      /\ l.createdBy = evc[e].createdBy /\ l.approvedBy = evc[e].approvedBy
      /\ l.preparedBy = evc[e].preparedBy
    BY <1>1 DEF E!Lignes, E!Parties
<1>4. ~(evcEntre[e] > 0) /\ evcSorti[e] + m > 0 /\ evcSorti[e] + m \in Nat
    BY <1>1, <1>2 DEF LigneEvc, E!Parties, E!Rapproches
<1>5. LigneEvc(l, evcSorti[e] + m, evcEntre[e])
    BY <1>1, <1>2, <1>3, <1>4 DEF LigneEvc, E!Parties, E!Rapproches
<1>6. SoldeOK'
    BY <1>1, <1>2 DEF SoldeOK
<1>7. /\ evcEntre' = [evcEntre EXCEPT ![e] = evcEntre[e]]
      /\ evcSorti' = [evcSorti EXCEPT ![e] = evcSorti[e] + m]
      /\ evcSorti[e] + m >= evcSorti[e] /\ evcEntre[e] >= evcEntre[e]
      /\ EvcDemandesOK
    BY <1>1, <1>2 DEF TypeEvc, EvcDemandesOK
<1> HIDE DEF m, l
<1>8. TypeEvc' /\ InvEvc'
    BY <1>1, <1>3, <1>4, <1>5, <1>7, EvcReecrire
<1> QED BY <1>6, <1>8

(* The cash of an evacuation reaches the bank or another vault.            *)
LEMMA EvcDeposer ==
    ASSUME TypeEvc, InvEvc, SoldeOK, NEW e \in Evacuations, NEW m \in MontantsRecus,
           E!Deposer(e, m)
    PROVE  TypeEvc' /\ InvEvc' /\ SoldeOK'
<1> DEFINE l == [evc[e] EXCEPT !.statut = "DEPOSITED"]
<1>1. /\ evc[e] \in E!Lignes /\ LigneEvc(evc[e], evcSorti[e], evcEntre[e])
      /\ evc[e].statut = "IN_TRANSIT" /\ m \in Nat \ {0}
      /\ evcSorti[e] \in Nat /\ evcEntre[e] \in Nat
      /\ evc' = [evc EXCEPT ![e] = l]
      /\ evcEntre' = [evcEntre EXCEPT ![e] = @ + m]
      /\ UNCHANGED <<evcSorti, evcDemandes>>
    BY ConstantesPieces DEF E!Deposer, TypeEvc, InvEvc
<1>2. /\ l \in E!Lignes /\ l.statut = "DEPOSITED"
      /\ l.createdBy = evc[e].createdBy /\ l.approvedBy = evc[e].approvedBy
      /\ l.preparedBy = evc[e].preparedBy
    BY <1>1 DEF E!Lignes, E!Parties
<1>3. evcSorti[e] > 0 /\ evcEntre[e] + m > 0 /\ evcEntre[e] + m \in Nat
    BY <1>1 DEF LigneEvc, E!Parties
<1>4. LigneEvc(l, evcSorti[e], evcEntre[e] + m)
    BY <1>1, <1>2, <1>3 DEF LigneEvc, E!Parties, E!Rapproches
<1>5. SoldeOK'
    BY <1>1 DEF SoldeOK, E!Deposer
<1>6. /\ evcSorti' = [evcSorti EXCEPT ![e] = evcSorti[e]]
      /\ evcEntre' = [evcEntre EXCEPT ![e] = evcEntre[e] + m]
      /\ evcSorti[e] >= evcSorti[e] /\ evcEntre[e] + m >= evcEntre[e]
      /\ EvcDemandesOK
    BY <1>1 DEF TypeEvc, EvcDemandesOK
<1> HIDE DEF l
<1>7. TypeEvc' /\ InvEvc'
    BY <1>1, <1>2, <1>3, <1>4, <1>6, EvcReecrire
<1> QED BY <1>5, <1>7

(* An evacuation is created.                                               *)
LEMMA EvcCreer ==
    ASSUME TypeEvc, InvEvc, NEW e \in Evacuations, NEW u \in Utilisateurs, E!Creer(e, u)
    PROVE  TypeEvc' /\ InvEvc' /\ solde' = solde
<1> DEFINE l == [evc[e] EXCEPT !.statut = "DRAFT", !.createdBy = u]
<1>1. /\ evc[e] \in E!Lignes /\ LigneEvc(evc[e], evcSorti[e], evcEntre[e])
      /\ evc[e].statut = "ABSENT" /\ evc[e].approvedBy = AUCUN
      /\ evcSorti[e] \in Nat /\ evcEntre[e] \in Nat
      /\ evc' = [evc EXCEPT ![e] = l]
      /\ UNCHANGED <<solde, evcSorti, evcEntre, evcDemandes>>
    BY DEF E!Creer, TypeEvc, InvEvc, LigneEvc
<1>2. /\ l \in E!Lignes /\ l.statut = "DRAFT" /\ l.approvedBy = AUCUN
    BY <1>1 DEF E!Lignes, E!Annulables
<1>3. LigneEvc(l, evcSorti[e], evcEntre[e])
    BY <1>1, <1>2 DEF LigneEvc, E!Parties, E!Rapproches
<1>4. /\ evcSorti' = [evcSorti EXCEPT ![e] = evcSorti[e]]
      /\ evcEntre' = [evcEntre EXCEPT ![e] = evcEntre[e]]
      /\ evcSorti[e] >= evcSorti[e] /\ evcEntre[e] >= evcEntre[e]
      /\ EvcDemandesOK
    BY <1>1 DEF TypeEvc, EvcDemandesOK
<1> HIDE DEF l
<1>5. TypeEvc' /\ InvEvc'
    BY <1>1, <1>2, <1>3, <1>4, EvcReecrire
<1> QED BY <1>1, <1>5

(* Every step of the evacuations keeps their invariant.                    *)
LEMMA EvcPas ==
    ASSUME TypeEvc, InvEvc, SoldeOK, E!Next
    PROVE  TypeEvc' /\ InvEvc' /\ SoldeOK'
<1>1. ASSUME NEW e \in Evacuations, NEW u \in Utilisateurs, E!Creer(e, u)
      PROVE  TypeEvc' /\ InvEvc' /\ SoldeOK'
    BY <1>1, EvcCreer DEF SoldeOK
<1>2. ASSUME NEW e \in Evacuations, NEW u \in Utilisateurs,
             E!Approuver(e, u) \/ E!Annuler(e, u)
      PROVE  TypeEvc' /\ InvEvc' /\ SoldeOK'
    BY <1>2, EvcSimple DEF SoldeOK
<1>3. ASSUME NEW e \in Evacuations, E!Soumettre(e) \/ E!Rejeter(e)
      PROVE  TypeEvc' /\ InvEvc' /\ SoldeOK'
    BY <1>3, EvcSimple DEF SoldeOK
<1>4. ASSUME NEW e \in Evacuations, E!Dispatcher(e)
      PROVE  TypeEvc' /\ InvEvc' /\ SoldeOK'
    BY <1>4, EvcDispatcher
<1>5. ASSUME NEW e \in Evacuations, NEW m \in MontantsRecus, E!Deposer(e, m)
      PROVE  TypeEvc' /\ InvEvc' /\ SoldeOK'
    BY <1>5, EvcDeposer
<1>6. ASSUME NEW e \in Evacuations, NEW q \in EvcRequetes, E!RapprocherLire(q, e)
      PROVE  TypeEvc' /\ InvEvc' /\ SoldeOK'
    <2>1. evcEntre[e] > 0 /\ evcSorti[e] > 0
        BY <1>6 DEF E!RapprocherLire, InvEvc, LigneEvc, E!Parties, E!Rapproches
    <2>2. E!Prendre(q, "RAPPROCHER", e, AUCUN)
        BY <1>6 DEF E!RapprocherLire
    <2> QED BY <2>1, <2>2, EvcPrendre DEF SoldeOK
<1>7. ASSUME NEW e \in Evacuations, NEW q \in EvcRequetes, NEW u \in Utilisateurs,
             E!PreparerLire(q, e, u)
      PROVE  TypeEvc' /\ InvEvc' /\ SoldeOK'
    BY <1>7, EvcPrendre DEF E!PreparerLire, SoldeOK
<1>8. ASSUME NEW q \in EvcRequetes, NEW m \in MontantsRecus, E!Preparer(q, m)
      PROVE  TypeEvc' /\ InvEvc' /\ SoldeOK'
    BY <1>8, EvcPreparer DEF SoldeOK
<1>9. ASSUME NEW q \in EvcRequetes, NEW conforme \in BOOLEAN, E!Rapprocher(q, conforme)
      PROVE  TypeEvc' /\ InvEvc' /\ SoldeOK'
    BY <1>9, EvcRapprocher DEF SoldeOK
<1>10. ASSUME NEW q \in EvcRequetes, E!Abandonner(q)
       PROVE  TypeEvc' /\ InvEvc' /\ SoldeOK'
    <2>1. EvcDemandesOK /\ UNCHANGED <<solde, evc, evcSorti, evcEntre>>
        BY <1>10, EvcRendre DEF E!Abandonner
    <2>2. \A r \in EvcRequetes : DemandeEvc(evcDemandes[r])'
        BY <2>1 DEF InvEvc, DemandeEvc, EvcDemandesOK, TypeEvc, E!Demandes
    <2>3. \A x \in Evacuations : LigneEvc(evc[x], evcSorti[x], evcEntre[x])'
        BY <2>1 DEF InvEvc, LigneEvc
    <2> QED BY <2>1, <2>2, <2>3 DEF TypeEvc, InvEvc, SoldeOK, EvcDemandesOK
<1> QED BY <1>1, <1>2, <1>3, <1>4, <1>5, <1>6, <1>7, <1>8, <1>9, <1>10 DEF E!Next
-----------------------------------------------------------------------------
(***************************************************************************)
(* Both services together.                                                 *)
(***************************************************************************)
LEMMA TypeParService == TypeOK <=> SoldeOK /\ TypeTic /\ TypeEvc
BY DEF TypeOK, SoldeOK, TypeTic, TypeEvc

(* The invariant of both services holds at the start.                      *)
LEMMA InvInit == Init => IInv
<1> SUFFICES ASSUME Init PROVE IInv
    OBVIOUS
<1>1. SoldeOK
    BY ConstantesCoffres DEF Init, T!Init, SoldeOK
<1>2. TypeTic /\ InvTic
    BY DEF Init, T!Init, TypeTic, InvTic, LigneTic, DemandeTic, T!LigneVide, T!Lignes,
           T!Libre, T!Demandes, T!Ops
<1>3. TypeEvc /\ InvEvc
    BY DEF Init, E!Init, TypeEvc, InvEvc, LigneEvc, DemandeEvc, E!LigneVide, E!Lignes,
           E!Libre, E!Demandes, E!Parties, E!Rapproches
<1> QED BY <1>1, <1>2, <1>3, TypeParService DEF IInv

(* Every step of either service keeps the invariant of both.               *)
LEMMA InvPas == IInv /\ [Next]_vars => IInv'
<1> SUFFICES ASSUME IInv, [Next]_vars PROVE IInv'
    OBVIOUS
<1>1. SoldeOK /\ TypeTic /\ TypeEvc /\ InvTic /\ InvEvc
    BY TypeParService DEF IInv
<1>2. CASE T!Next /\ UNCHANGED varsE
    <2>1. TypeTic' /\ InvTic' /\ SoldeOK'
        BY <1>1, <1>2, TicPas
    <2>2. TypeEvc' /\ InvEvc'
        BY <1>1, <1>2 DEF varsE, TypeEvc, InvEvc, LigneEvc, DemandeEvc
    <2> QED BY <2>1, <2>2 DEF IInv, TypeOK, SoldeOK, TypeTic, TypeEvc
<1>3. CASE E!Next /\ UNCHANGED varsT
    <2>1. TypeEvc' /\ InvEvc' /\ SoldeOK'
        BY <1>1, <1>3, EvcPas
    <2>2. TypeTic' /\ InvTic'
        BY <1>1, <1>3 DEF varsT, TypeTic, InvTic, LigneTic, DemandeTic
    <2> QED BY <2>1, <2>2 DEF IInv, TypeOK, SoldeOK, TypeTic, TypeEvc
<1>4. CASE UNCHANGED vars
    BY <1>1, <1>4 DEF vars, varsT, varsE, IInv, TypeOK, SoldeOK, TypeTic, TypeEvc,
           InvTic, LigneTic, DemandeTic, InvEvc, LigneEvc, DemandeEvc
<1> QED BY <1>2, <1>3, <1>4 DEF Next

(* The coherence of the rows and of the handlers waiting to rewrite them   *)
(* holds in every reachable state.                                         *)
THEOREM Invariance == Spec => []IInv
BY InvInit, InvPas, PTL DEF Spec

(* Rows, requests, movements and balances keep their types: in particular  *)
(* no dispatch takes more than the vault holds.                            *)
THEOREM TypeCorrect == Spec => []TypeOK
BY Invariance, PTL DEF IInv

(* The statut of an evacuation says where its cash is, although a          *)
(* reconciliation updates the row by its id alone.                         *)
THEOREM StatutSuitArgent == Spec => []EvacuationSuitArgent
<1>1. IInv => EvacuationSuitArgent
    BY DEF IInv, InvEvc, LigneEvc, EvacuationSuitArgent
<1> QED BY <1>1, Invariance, PTL

(* No vault gives cash without the approvals of its workflow, although the *)
(* statut they led to may have been rewritten since.                       *)
THEOREM ApprobationsRespectees == Spec => []ArgentPartiAutorise
<1>1. IInv => ArgentPartiAutorise
    BY DEF IInv, InvTic, LigneTic, InvEvc, LigneEvc, ArgentPartiAutorise
<1> QED BY <1>1, Invariance, PTL
-----------------------------------------------------------------------------
(***************************************************************************)
(* Refinement: the dispatches are the departures, the receptions and the   *)
(* deposits are the arrivals, and nothing else moves cash.                 *)
(***************************************************************************)
LEMMA RouteInit == Init => Route!Init
BY PiecesDistinctes DEF Init, T!Init, E!Init, Route!Init, Parti, Arrive, Pieces

(* A step that leaves the balances and the movements alone is a stutter.   *)
LEMMA RouteInerte ==
    ASSUME UNCHANGED <<solde, ticSorti, ticEntre, evcSorti, evcEntre>>
    PROVE  UNCHANGED Route!varsRoute
BY DEF Route!varsRoute, Parti, Arrive

(* Booking m on a piece that has no movement yet writes m there, and m     *)
(* alone.                                                                  *)
LEMMA PremierMouvement ==
    ASSUME NEW S, NEW f \in [S -> Nat], NEW x \in S, NEW m \in Nat, f[x] = 0,
           NEW g, g = [f EXCEPT ![x] = @ + m]
    PROVE  g[x] = m /\ \A y \in S : y # x => g[y] = f[y]
OBVIOUS

(* A table over the pieces that changes on one piece is an update of it.   *)
LEMMA UneSeulePiece ==
    ASSUME NEW f, NEW g, NEW x \in Pieces, NEW m,
           f = [p \in Pieces |-> f[p]], g = [p \in Pieces |-> g[p]],
           g[x] = m, \A p \in Pieces : p # x => g[p] = f[p]
    PROVE  g = [f EXCEPT ![x] = m]
<1> DEFINE h == [f EXCEPT ![x] = m]
<1>1. h = [p \in Pieces |-> h[p]] /\ \A p \in Pieces : h[p] = g[p]
    OBVIOUS
<1> HIDE DEF h
<1>2. [p \in Pieces |-> h[p]] = [p \in Pieces |-> g[p]]
    BY <1>1
<1> QED BY <1>1, <1>2 DEF h

(* Both tables, before and after a step, are functions of the pieces, read *)
(* in the movements of the service the piece belongs to.                   *)
LEMMA Tables ==
    /\ Parti = [p \in Pieces |-> Parti[p]] /\ Parti' = [p \in Pieces |-> Parti'[p]]
    /\ Arrive = [p \in Pieces |-> Arrive[p]] /\ Arrive' = [p \in Pieces |-> Arrive'[p]]
    /\ \A t \in Transferts :
          /\ Parti[t] = ticSorti[t] /\ Parti'[t] = ticSorti'[t]
          /\ Arrive[t] = ticEntre[t] /\ Arrive'[t] = ticEntre'[t]
    /\ \A e \in Evacuations :
          /\ Parti[e] = evcSorti[e] /\ Parti'[e] = evcSorti'[e]
          /\ Arrive[e] = evcEntre[e] /\ Arrive'[e] = evcEntre'[e]
BY PiecesDistinctes DEF Parti, Arrive, Pieces

(* A step of the transfers between vaults is a step of the road, or none.  *)
LEMMA RouteTic ==
    ASSUME IInv, T!Next, UNCHANGED varsE
    PROVE  [Route!Next]_(Route!varsRoute)
<1>1. UNCHANGED <<evcSorti, evcEntre>> /\ TypeTic /\ InvTic
    BY TypeParService DEF varsE, IInv
<1>2. ASSUME NEW t \in Transferts, T!Dispatcher(t)
      PROVE  Route!Next
    <2>1. t \in Pieces /\ Montant[t] \in Montants
        BY DEF Pieces, Montants
    <2>2. ticSorti[t] = 0
        BY <1>1, <1>2 DEF T!Dispatcher, T!DejaParti, TypeTic
    <2>3. Parti' = [Parti EXCEPT ![t] = Montant[t]]
        <3>1. Montant[t] \in Nat /\ ticSorti' = [ticSorti EXCEPT ![t] = @ + Montant[t]]
            BY <1>2, ConstantesPieces DEF T!Dispatcher
        <3>2. /\ ticSorti'[t] = Montant[t]
              /\ \A p \in Transferts : p # t => ticSorti'[p] = ticSorti[p]
            BY <1>1, <2>2, <3>1, PremierMouvement DEF TypeTic
        <3>3. Parti'[t] = Montant[t] /\ \A p \in Pieces : p # t => Parti'[p] = Parti[p]
            BY <1>1, <3>2, Tables DEF Pieces
        <3> QED BY <2>1, <3>3, Tables, UneSeulePiece
    <2>4. Arrive' = Arrive
        BY <1>1, <1>2 DEF T!Dispatcher, Arrive
    <2>5. Route!Depart(t, Montant[t])
        BY <1>2, <2>1, <2>2, <2>3, <2>4 DEF T!Dispatcher, T!SoldeCouvre, Route!Depart, Parti
    <2> QED BY <2>1, <2>5 DEF Route!Next
<1>3. ASSUME NEW q \in TicRequetes, NEW m \in MontantsRecus, NEW conforme \in BOOLEAN,
             T!Recevoir(q, m, conforme)
      PROVE  Route!Next
    <2> DEFINE t == ticDemandes[q].t
    <2>1. t \in Transferts /\ m \in Nat /\ Destination[t] \in Coffres
        BY <1>1, <1>3, ConstantesPieces DEF T!Recevoir, InvTic, DemandeTic
    <2>2. t \in Pieces /\ m \in Montants
        BY <2>1 DEF Pieces, Montants
    <2>3. ticSorti[t] > 0 /\ ticEntre[t] = 0
        BY <1>1, <1>3, <2>1 DEF T!Recevoir, InvTic, LigneTic
    <2>4. Arrive' = [Arrive EXCEPT ![t] = m]
        <3>1. ticEntre' = [ticEntre EXCEPT ![t] = @ + m]
            BY <1>3 DEF T!Recevoir
        <3>2. /\ ticEntre'[t] = m
              /\ \A p \in Transferts : p # t => ticEntre'[p] = ticEntre[p]
            BY <1>1, <2>1, <2>3, <3>1, PremierMouvement DEF TypeTic
        <3>3. Arrive'[t] = m /\ \A p \in Pieces : p # t => Arrive'[p] = Arrive[p]
            BY <1>1, <2>1, <3>2, Tables DEF Pieces
        <3> QED BY <2>2, <3>3, Tables, UneSeulePiece
    <2>5. Parti' = Parti
        BY <1>1, <1>3 DEF T!Recevoir, Parti
    <2>6. Parti[t] > 0 /\ Arrive[t] = 0
        BY <2>1, <2>2, <2>3 DEF Parti, Arrive
    <2>7. solde' = [solde EXCEPT ![Destination[t]] = @ + m]
        BY <1>3 DEF T!Recevoir
    <2> HIDE DEF t
    <2>8. Route!Arrivee(t, m)
        BY <2>1, <2>4, <2>5, <2>6, <2>7 DEF Route!Arrivee
    <2> QED BY <2>2, <2>8 DEF Route!Next
<1>4. CASE \/ \E t \in Transferts, u \in Utilisateurs : T!Creer(t, u)
           \/ \E q \in TicRequetes, t \in Transferts, u \in Utilisateurs : T!Lire(q, t, u)
           \/ \E q \in TicRequetes : \/ T!SoumettreValider(q)
                                     \/ T!Ecrire(q)
                                     \/ T!SupprimerEcrire(q)
                                     \/ T!Abandonner(q)
    <2>2. ASSUME NEW t \in Transferts, NEW u \in Utilisateurs, T!Creer(t, u)
          PROVE  UNCHANGED <<solde, ticSorti, ticEntre>>
        BY ONLY <2>2 DEF T!Creer
    <2>3. ASSUME NEW q \in TicRequetes, NEW t \in Transferts, NEW u \in Utilisateurs, T!Lire(q, t, u)
          PROVE  UNCHANGED <<solde, ticSorti, ticEntre>>
        BY ONLY <2>3 DEF T!Lire, T!SoumettreLire, T!ApprouverLire, T!ReceptionLire,
               T!AnnulerLire, T!SupprimerLire, T!Prendre
    <2>4. ASSUME NEW q \in TicRequetes,
                 T!SoumettreValider(q) \/ T!Ecrire(q) \/ T!SupprimerEcrire(q) \/ T!Abandonner(q)
          PROVE  UNCHANGED <<solde, ticSorti, ticEntre>>
        BY ONLY <2>4 DEF T!SoumettreValider, T!Ecrire, T!SupprimerEcrire, T!Abandonner, T!Prendre
    <2>1. UNCHANGED <<solde, ticSorti, ticEntre>>
        BY <1>4, <2>2, <2>3, <2>4
    <2> QED BY <1>1, <2>1, RouteInerte
<1> QED BY <1>2, <1>3, <1>4 DEF T!Next, T!Suite

(* A step of the evacuations is a step of the road, or none.               *)
LEMMA RouteEvc ==
    ASSUME IInv, E!Next, UNCHANGED varsT
    PROVE  [Route!Next]_(Route!varsRoute)
<1>1. UNCHANGED <<ticSorti, ticEntre>> /\ TypeEvc /\ InvEvc
    BY TypeParService DEF varsT, IInv
<1>2. ASSUME NEW e \in Evacuations, E!Dispatcher(e)
      PROVE  Route!Next
    <2> DEFINE m == evc[e].montantCompte
    <2>1. e \in Pieces /\ e \notin Transferts
        BY PiecesDistinctes DEF Pieces
    <2>2. m \in MontantsRecus /\ m \in Montants /\ m \in Nat
        BY <1>1, <1>2, ConstantesPieces DEF E!Dispatcher, InvEvc, LigneEvc, Montants
    <2>3. evcSorti[e] = 0
        BY <1>1, <1>2 DEF E!Dispatcher, E!MouvementExiste, TypeEvc
    <2>4. Parti' = [Parti EXCEPT ![e] = m] /\ Parti[e] = 0
        <3>1. evcSorti' = [evcSorti EXCEPT ![e] = @ + m]
            BY <1>2 DEF E!Dispatcher
        <3> HIDE DEF m
        <3>2. /\ evcSorti'[e] = m
              /\ \A p \in Evacuations : p # e => evcSorti'[p] = evcSorti[p]
            BY <1>1, <2>2, <2>3, <3>1, PremierMouvement DEF TypeEvc
        <3>3. Parti'[e] = m /\ \A p \in Pieces : p # e => Parti'[p] = Parti[p]
            BY <1>1, <3>2, Tables DEF Pieces
        <3>4. Parti[e] = 0
            BY <2>3, Tables
        <3> QED BY <2>1, <3>3, <3>4, Tables, UneSeulePiece
    <2>5. Arrive' = Arrive
        BY <1>1, <1>2 DEF E!Dispatcher, Arrive
    <2>6. solde[Source[e]] >= m /\ solde' = [solde EXCEPT ![Source[e]] = @ - m]
        BY <1>2 DEF E!Dispatcher
    <2> HIDE DEF m
    <2>7. Route!Depart(e, m)
        BY <2>4, <2>5, <2>6 DEF Route!Depart
    <2> QED BY <2>1, <2>2, <2>7 DEF Route!Next
<1>3. ASSUME NEW e \in Evacuations, NEW m \in MontantsRecus, E!Deposer(e, m)
      PROVE  Route!Next
    <2>1. e \in Pieces /\ e \notin Transferts /\ m \in Montants /\ m \in Nat
        BY PiecesDistinctes, ConstantesPieces DEF Pieces, Montants
    <2>2. evcSorti[e] > 0 /\ evcEntre[e] = 0
        BY <1>1, <1>3 DEF E!Deposer, E!MouvementExiste, InvEvc, LigneEvc, E!Parties, TypeEvc
    <2>3. Arrive' = [Arrive EXCEPT ![e] = m] /\ Arrive[e] = 0 /\ Parti[e] > 0
        <3>1. evcEntre' = [evcEntre EXCEPT ![e] = @ + m]
            BY <1>3 DEF E!Deposer
        <3>2. /\ evcEntre'[e] = m
              /\ \A p \in Evacuations : p # e => evcEntre'[p] = evcEntre[p]
            BY <1>1, <2>1, <2>2, <3>1, PremierMouvement DEF TypeEvc
        <3>3. Arrive'[e] = m /\ \A p \in Pieces : p # e => Arrive'[p] = Arrive[p]
            BY <1>1, <3>2, Tables DEF Pieces
        <3>4. Arrive[e] = 0 /\ Parti[e] > 0
            BY <2>2, Tables
        <3> QED BY <2>1, <3>3, <3>4, Tables, UneSeulePiece
    <2>4. Parti' = Parti
        BY <1>1, <1>3 DEF E!Deposer, Parti
    <2>5. Route!Arrivee(e, m)
        BY <1>3, <2>3, <2>4 DEF E!Deposer, Route!Arrivee
    <2> QED BY <2>1, <2>5 DEF Route!Next
<1>4. CASE \/ \E e \in Evacuations : \/ E!Soumettre(e)
                                     \/ E!Rejeter(e)
                                     \/ \E u \in Utilisateurs :
                                           E!Creer(e, u) \/ E!Approuver(e, u) \/ E!Annuler(e, u)
           \/ \E e \in Evacuations, q \in EvcRequetes :
                 E!RapprocherLire(q, e) \/ \E u \in Utilisateurs : E!PreparerLire(q, e, u)
           \/ \E q \in EvcRequetes : \/ \E m \in MontantsRecus : E!Preparer(q, m)
                                     \/ \E conforme \in BOOLEAN : E!Rapprocher(q, conforme)
                                     \/ E!Abandonner(q)
    <2>1. UNCHANGED <<solde, evcSorti, evcEntre>>
        BY <1>4 DEF E!Creer, E!Soumettre, E!Rejeter, E!Approuver, E!Annuler, E!Transition,
               E!RapprocherLire, E!PreparerLire, E!Prendre, E!Preparer, E!Rapprocher,
               E!Abandonner
    <2> QED BY <1>1, <2>1, RouteInerte
<1> QED BY <1>2, <1>3, <1>4 DEF E!Next

(* The two services, on the vaults they share, implement ArgentEnRoute:    *)
(* the cash of a document leaves once at most, covered, and arrives once   *)
(* at most, after it left, whatever its row was rewritten to meanwhile.    *)
THEOREM Raffinement == Spec => ArgentSuivi
<1>1. IInv /\ [Next]_vars => [Route!Next]_(Route!varsRoute)
    <2> SUFFICES ASSUME IInv, [Next]_vars PROVE [Route!Next]_(Route!varsRoute)
        OBVIOUS
    <2>1. CASE T!Next /\ UNCHANGED varsE
        BY <2>1, RouteTic
    <2>2. CASE E!Next /\ UNCHANGED varsT
        BY <2>2, RouteEvc
    <2>3. CASE UNCHANGED vars
        BY <2>3, RouteInerte DEF vars, varsT, varsE
    <2> QED BY <2>1, <2>2, <2>3 DEF Next
<1> QED BY <1>1, RouteInit, Invariance, PTL DEF Spec, ArgentSuivi, Route!Spec
=============================================================================
