----------------------- MODULE TransfertCoffreProofs -----------------------
(***************************************************************************)
(* Theorems about TransfertCoffre, for any number of handlers, transfers,  *)
(* tills and sessions, and any caps.                                       *)
(***************************************************************************)
EXTENDS TransfertCoffre, TLAPS

(***************************************************************************)
(* The inductive invariant.  Reads made without a lock (the transfer, the  *)
(* rule of separation) stay true because what they rest on never changes;  *)
(* what is checked under the lock of the vault stays true while the lock   *)
(* is held.                                                                *)
(***************************************************************************)

(* A handler works on a row that exists, and on a session when it needs one.*)
ReferencesOK ==
    /\ \A q \in Requetes :
          etape[q] \in {"validerLu", "annulerLu"} \cup EtapesExec =>
              /\ req[q].transfert \in Transferts
              /\ statut[req[q].transfert] # "ABSENT"
    /\ \A q \in Requetes :
          etape[q] \in EtapesOp \cup {"execPartage", "execSession"} => req[q].session \in Sessions
    /\ \A t \in Transferts : statut[t] # "ABSENT" => fiche[t] \in Fiches

(* Whoever is about to decide, or has decided, is not the requester.       *)
DecideurOK(t, a) == a \in Agents /\ (SeparationInitiateurValideur => a # fiche[t].demandeur)

DecisionOK ==
    /\ \A q \in Requetes : etape[q] = "validerLu" => DecideurOK(req[q].transfert, req[q].agent)
    /\ \A t \in Transferts : valideur[t] # AUCUN => statut[t] # "ABSENT" /\ DecideurOK(t, valideur[t])
    /\ \A t \in Transferts : statut[t] = "VALIDATED" => valideur[t] # AUCUN
    /\ \A q \in Requetes : etape[q] \in EtapesExec => valideur[req[q].transfert] # AUCUN
    /\ \A t \in mouvements : valideur[t] # AUCUN

(* The vault is locked by the one execution that has passed its check, and *)
(* the check and the freshness of the key hold until it ends.              *)
CoffreGarde ==
    /\ \A q \in Requetes : etape[q] \in EtapesCoffre <=> verrouCoffre = q
    /\ \A q \in Requetes : etape[q] \in EtapesCoffre =>
          MouvementCoffrePermis(fiche[req[q].transfert])
    /\ \A q \in Requetes : etape[q] \in EtapesCaisse => req[q].transfert \notin mouvements

IInv == TypeOK /\ ReferencesOK /\ DecisionOK /\ CoffreGarde
-----------------------------------------------------------------------------
(***************************************************************************)
(* Facts about the helpers.                                                *)
(***************************************************************************)

(* A handler that asks for the vault gets it only when no other has it.    *)
LEMMA CoffreLibre ==
    ASSUME NEW q \in Requetes, etape[q] = "execLu", Bloquants(q) = {}
    PROVE  verrouCoffre \in {AUCUN, q}
BY DEF Bloquants

(* What a well formed row carries.                                         *)
LEMMA FicheType ==
    ASSUME NEW f \in Fiches
    PROVE  /\ f.montant \in Nat \ {0} /\ DeltaCaisse(f) \in Int
           /\ f.caisse \in Caisses /\ f.sens \in Sens
<1>1. f.montant \in Montants /\ f.caisse \in Caisses /\ f.sens \in Sens
    BY DEF Fiches
<1>2. f.montant \in Nat \ {0}
    BY <1>1, ConstantesOK
<1> QED BY <1>1, <1>2 DEF DeltaCaisse

(* Adding to one entry of a table of balances.                             *)
LEMMA AjoutType ==
    ASSUME NEW S, NEW f \in [S -> Int], NEW x \in S, NEW d \in Int
    PROVE  [f EXCEPT ![x] = @ + d] \in [S -> Int]
OBVIOUS

(* A handler that is not in flight has a well-typed context.               *)
LEMMA ContexteVideType == ContexteVide \in Contextes
BY DEF ContexteVide, Contexte, Contextes

(* A handler that has found the session of its transfer.                   *)
LEMMA ContexteSessionType ==
    ASSUME NEW c \in Contextes, NEW s \in Sessions \cup {AUCUN}
    PROVE  [c EXCEPT !.session = s] \in Contextes
BY DEF Contextes

(* Moving a handler to a step with a context keeps both well typed.        *)
LEMMA AttendreType ==
    ASSUME etape \in [Requetes -> Etapes], req \in [Requetes -> Contextes],
           NEW q \in Requetes, NEW e \in Etapes, NEW ctx \in Contextes, Attendre(q, e, ctx)
    PROVE  etape' \in [Requetes -> Etapes] /\ req' \in [Requetes -> Contextes]
BY DEF Attendre

(* Releasing the locks of a handler keeps the locks well typed.            *)
LEMMA TerminerType ==
    ASSUME TypeOK, NEW q \in Requetes, Terminer(q)
    PROVE  /\ etape' \in [Requetes -> Etapes] /\ req' \in [Requetes -> Contextes]
           /\ verrouCoffre' \in Requetes \cup {AUCUN}
           /\ verrouCaisse' \in [Caisses -> Requetes \cup {AUCUN}]
           /\ verrouSession' \in [Sessions -> Requetes \cup {AUCUN}]
           /\ partage' \in [Sessions -> SUBSET Requetes]
<1>1. etape' \in [Requetes -> Etapes] /\ req' \in [Requetes -> Contextes]
    BY AttendreType, ContexteVideType DEF TypeOK, Terminer, Etapes
<1>2. QED BY <1>1 DEF TypeOK, Terminer

(***************************************************************************)
(* The invariant holds at the start, and every action preserves it.        *)
(***************************************************************************)
THEOREM InitIInv == Init => IInv
<1> SUFFICES ASSUME Init PROVE IInv
    OBVIOUS
<1> USE ConstantesOK DEF Init
<1>1. TypeOK
    BY ContexteVideType DEF TypeOK, Statuts, StatutsSession, Etapes
<1>2. ReferencesOK /\ DecisionOK /\ CoffreGarde
    BY DEF ReferencesOK, DecisionOK, CoffreGarde, EtapesExec, EtapesCoffre, EtapesCaisse, EtapesOp
<1> QED BY <1>1, <1>2 DEF IInv

(* A rollback: a refusal, a crash, a deadlock.                             *)
LEMMA AnnulationIInv ==
    ASSUME IInv, NEW q \in Requetes, Annulation(q)
    PROVE  IInv'
<1> USE ConstantesOK DEF IInv, Annulation, Terminer, Attendre
<1> USE DEF varsTransfert, varsArgent, varsSession, varsVerrou, varsRequete
<1>1. TypeOK'
    BY TerminerType DEF TypeOK
<1>2. ReferencesOK'
    BY DEF TypeOK, ReferencesOK, Contextes, ContexteVide, Contexte, EtapesExec, EtapesCoffre, EtapesCaisse, EtapesOp
<1>3. DecisionOK'
    BY DEF TypeOK, ReferencesOK, DecisionOK, DecideurOK, Contextes, ContexteVide, Contexte, EtapesExec, EtapesCoffre, EtapesCaisse, EtapesOp
<1>4. CoffreGarde'
    BY DEF TypeOK, ReferencesOK, CoffreGarde, Contextes, ContexteVide, Contexte, EtapesExec, EtapesCoffre, EtapesCaisse, EtapesOp,
           MouvementCoffrePermis, DebitCoffrePermis, CreditCoffrePermis, SousPlafond
<1> QED BY <1>1, <1>2, <1>3, <1>4

(* A new row: no handler and no decision refers to it yet.                 *)
LEMMA CreerTransfertIInv ==
    ASSUME IInv, NEW t \in Transferts, NEW f \in Fiches, CreerTransfert(t, f)
    PROVE  IInv'
<1> USE ConstantesOK DEF IInv, CreerTransfert
<1> USE DEF varsTransfert, varsArgent, varsSession, varsVerrou, varsRequete
<1>1. TypeOK'
    BY DEF TypeOK, Statuts
<1>2. ReferencesOK'
    BY DEF TypeOK, ReferencesOK, Contextes, ContexteVide, Contexte, EtapesExec, EtapesCoffre, EtapesCaisse, EtapesOp
<1>3. DecisionOK'
    BY DEF TypeOK, ReferencesOK, DecisionOK, DecideurOK, Contextes, ContexteVide, Contexte, EtapesExec, EtapesCoffre, EtapesCaisse, EtapesOp
<1>4. CoffreGarde'
    BY DEF TypeOK, ReferencesOK, CoffreGarde, Contextes, ContexteVide, Contexte, EtapesExec, EtapesCoffre, EtapesCaisse, EtapesOp,
           MouvementCoffrePermis, DebitCoffrePermis, CreditCoffrePermis, SousPlafond
<1> QED BY <1>1, <1>2, <1>3, <1>4

(* What the validation has read.                                           *)
LEMMA ValiderLireIInv ==
    ASSUME IInv, NEW q \in Requetes, NEW t \in Transferts, NEW a \in Agents,
           NEW ok \in BOOLEAN, ValiderLire(q, t, a, ok)
    PROVE  IInv'
<1> USE ConstantesOK DEF IInv, ValiderLire, Attendre
<1> USE DEF varsTransfert, varsArgent, varsSession, varsVerrou, varsRequete
<1>1. TypeOK'
    <2>1. Contexte(t, AUCUN, a, ok, 0) \in Contextes
        BY DEF TypeOK, Contextes, Contexte
    <2>2. etape' \in [Requetes -> Etapes] /\ req' \in [Requetes -> Contextes]
        BY <2>1, AttendreType DEF TypeOK, Etapes, EtapesExec, EtapesCoffre, EtapesCaisse, EtapesOp
    <2> QED BY <2>2 DEF TypeOK
<1>2. ReferencesOK'
    BY DEF TypeOK, ReferencesOK, Contextes, ContexteVide, Contexte, EtapesExec, EtapesCoffre, EtapesCaisse, EtapesOp
<1>3. DecisionOK'
    BY DEF TypeOK, ReferencesOK, DecisionOK, DecideurOK, Contextes, ContexteVide, Contexte, EtapesExec, EtapesCoffre, EtapesCaisse, EtapesOp
<1>4. CoffreGarde'
    BY DEF TypeOK, ReferencesOK, CoffreGarde, Contextes, ContexteVide, Contexte, EtapesExec, EtapesCoffre, EtapesCaisse, EtapesOp,
           MouvementCoffrePermis, DebitCoffrePermis, CreditCoffrePermis, SousPlafond
<1> QED BY <1>1, <1>2, <1>3, <1>4

(* The decision is written by whoever made the check, even late.           *)
LEMMA ValiderEcrireIInv ==
    ASSUME IInv, NEW q \in Requetes, ValiderEcrire(q)
    PROVE  IInv'
<1> USE ConstantesOK DEF IInv, ValiderEcrire, Attendre
<1> USE DEF varsTransfert, varsArgent, varsSession, varsVerrou, varsRequete
<1>1. TypeOK'
    <2>1. etape' \in [Requetes -> Etapes] /\ req' \in [Requetes -> Contextes]
        BY ContexteVideType, AttendreType DEF TypeOK, Etapes
    <2>2. statut' \in [Transferts -> Statuts \cup {"ABSENT"}]
        BY DEF TypeOK, Statuts
    <2>3. valideur' \in [Transferts -> Agents \cup {AUCUN}]
        BY DEF TypeOK, Contextes
    <2> QED BY <2>1, <2>2, <2>3 DEF TypeOK
<1>2. ReferencesOK'
    BY DEF TypeOK, ReferencesOK, Contextes, ContexteVide, Contexte, EtapesExec, EtapesCoffre, EtapesCaisse, EtapesOp
<1>3. DecisionOK'
    BY DEF TypeOK, ReferencesOK, DecisionOK, DecideurOK, Contextes, ContexteVide, Contexte, EtapesExec, EtapesCoffre, EtapesCaisse, EtapesOp
<1>4. CoffreGarde'
    BY DEF TypeOK, ReferencesOK, CoffreGarde, Contextes, ContexteVide, Contexte, EtapesExec, EtapesCoffre, EtapesCaisse, EtapesOp,
           MouvementCoffrePermis, DebitCoffrePermis, CreditCoffrePermis, SousPlafond
<1> QED BY <1>1, <1>2, <1>3, <1>4

(* What the cancellation has read.                                         *)
LEMMA AnnulerLireIInv ==
    ASSUME IInv, NEW q \in Requetes, NEW t \in Transferts, NEW a \in Agents, AnnulerLire(q, t, a)
    PROVE  IInv'
<1> USE ConstantesOK DEF IInv, AnnulerLire, Attendre
<1> USE DEF varsTransfert, varsArgent, varsSession, varsVerrou, varsRequete
<1>1. TypeOK'
    <2>1. Contexte(t, AUCUN, a, FALSE, 0) \in Contextes
        BY DEF TypeOK, Contextes, Contexte
    <2>2. etape' \in [Requetes -> Etapes] /\ req' \in [Requetes -> Contextes]
        BY <2>1, AttendreType DEF TypeOK, Etapes, EtapesExec, EtapesCoffre, EtapesCaisse, EtapesOp
    <2> QED BY <2>2 DEF TypeOK
<1>2. ReferencesOK'
    BY DEF TypeOK, ReferencesOK, Contextes, ContexteVide, Contexte, EtapesExec, EtapesCoffre, EtapesCaisse, EtapesOp
<1>3. DecisionOK'
    BY DEF TypeOK, ReferencesOK, DecisionOK, DecideurOK, Contextes, ContexteVide, Contexte, EtapesExec, EtapesCoffre, EtapesCaisse, EtapesOp
<1>4. CoffreGarde'
    BY DEF TypeOK, ReferencesOK, CoffreGarde, Contextes, ContexteVide, Contexte, EtapesExec, EtapesCoffre, EtapesCaisse, EtapesOp,
           MouvementCoffrePermis, DebitCoffrePermis, CreditCoffrePermis, SousPlafond
<1> QED BY <1>1, <1>2, <1>3, <1>4

(* The cancellation is written, even late.                                 *)
LEMMA AnnulerEcrireIInv ==
    ASSUME IInv, NEW q \in Requetes, AnnulerEcrire(q)
    PROVE  IInv'
<1> USE ConstantesOK DEF IInv, AnnulerEcrire, Attendre
<1> USE DEF varsTransfert, varsArgent, varsSession, varsVerrou, varsRequete
<1>1. TypeOK'
    <2>1. etape' \in [Requetes -> Etapes] /\ req' \in [Requetes -> Contextes]
        BY ContexteVideType, AttendreType DEF TypeOK, Etapes
    <2>2. statut' \in [Transferts -> Statuts \cup {"ABSENT"}]
        BY DEF TypeOK, Statuts
    <2> QED BY <2>1, <2>2 DEF TypeOK
<1>2. ReferencesOK'
    BY DEF TypeOK, ReferencesOK, Contextes, ContexteVide, Contexte, EtapesExec, EtapesCoffre, EtapesCaisse, EtapesOp
<1>3. DecisionOK'
    BY DEF TypeOK, ReferencesOK, DecisionOK, DecideurOK, Contextes, ContexteVide, Contexte, EtapesExec, EtapesCoffre, EtapesCaisse, EtapesOp
<1>4. CoffreGarde'
    BY DEF TypeOK, ReferencesOK, CoffreGarde, Contextes, ContexteVide, Contexte, EtapesExec, EtapesCoffre, EtapesCaisse, EtapesOp,
           MouvementCoffrePermis, DebitCoffrePermis, CreditCoffrePermis, SousPlafond
<1> QED BY <1>1, <1>2, <1>3, <1>4

(* An execution starts from a validated row.                               *)
LEMMA ExecLireIInv ==
    ASSUME IInv, NEW q \in Requetes, NEW t \in Transferts,
           NEW s \in Sessions \cup {AUCUN}, ExecLire(q, t, s)
    PROVE  IInv'
<1> USE ConstantesOK DEF IInv, ExecLire, Attendre
<1> USE DEF varsTransfert, varsArgent, varsSession, varsVerrou, varsRequete
<1>1. TypeOK'
    <2>1. Contexte(t, s, AUCUN, FALSE, 0) \in Contextes
        BY DEF TypeOK, Contextes, Contexte
    <2>2. etape' \in [Requetes -> Etapes] /\ req' \in [Requetes -> Contextes]
        BY <2>1, AttendreType DEF TypeOK, Etapes, EtapesExec, EtapesCoffre, EtapesCaisse, EtapesOp
    <2> QED BY <2>2 DEF TypeOK
<1>2. ReferencesOK'
    BY DEF TypeOK, ReferencesOK, Contextes, ContexteVide, Contexte, EtapesExec, EtapesCoffre, EtapesCaisse, EtapesOp
<1>3. DecisionOK'
    BY DEF TypeOK, ReferencesOK, DecisionOK, DecideurOK, Contextes, ContexteVide, Contexte, EtapesExec, EtapesCoffre, EtapesCaisse, EtapesOp
<1>4. CoffreGarde'
    BY DEF TypeOK, ReferencesOK, CoffreGarde, Contextes, ContexteVide, Contexte, EtapesExec, EtapesCoffre, EtapesCaisse, EtapesOp,
           MouvementCoffrePermis, DebitCoffrePermis, CreditCoffrePermis, SousPlafond
<1> QED BY <1>1, <1>2, <1>3, <1>4

(* The vault is locked and checked.                                        *)
LEMMA ExecVerrouCoffreIInv ==
    ASSUME IInv, NEW q \in Requetes, ExecVerrouCoffre(q)
    PROVE  IInv'
<1> USE ConstantesOK DEF IInv, ExecVerrouCoffre, Attendre
<1> USE DEF varsTransfert, varsArgent, varsSession, varsVerrou, varsRequete
<1>1. TypeOK'
    <2>1. req[q] \in Contextes
        BY DEF TypeOK, Contextes, Contexte
    <2>2. etape' \in [Requetes -> Etapes] /\ req' \in [Requetes -> Contextes]
        BY <2>1, AttendreType DEF TypeOK, Etapes, EtapesExec, EtapesCoffre, EtapesCaisse, EtapesOp
    <2> QED BY <2>2 DEF TypeOK
<1>2. ReferencesOK'
    BY DEF TypeOK, ReferencesOK, Contextes, ContexteVide, Contexte, EtapesExec, EtapesCoffre, EtapesCaisse, EtapesOp
<1>3. DecisionOK'
    BY DEF TypeOK, ReferencesOK, DecisionOK, DecideurOK, Contextes, ContexteVide, Contexte, EtapesExec, EtapesCoffre, EtapesCaisse, EtapesOp
<1>4. CoffreGarde'
    BY CoffreLibre DEF TypeOK, ReferencesOK, CoffreGarde, Contextes, ContexteVide, Contexte, EtapesExec, EtapesCoffre, EtapesCaisse, EtapesOp,
           MouvementCoffrePermis, DebitCoffrePermis, CreditCoffrePermis, SousPlafond
<1> QED BY <1>1, <1>2, <1>3, <1>4

(* The till is locked, the key checked, the session found.                 *)
LEMMA ExecVerrouCaisseIInv ==
    ASSUME IInv, NEW q \in Requetes, ExecVerrouCaisse(q)
    PROVE  IInv'
<1> USE ConstantesOK DEF IInv, ExecVerrouCaisse, Attendre
<1> USE DEF varsTransfert, varsArgent, varsSession, varsVerrou, varsRequete
<1>1. TypeOK'
    <2>1. PICK s \in SessionsPossibles(q) :
              Attendre(q, "execCaisse", [req[q] EXCEPT !.session = s])
        OBVIOUS
    <2>2. s \in Sessions \cup {AUCUN}
        BY DEF TypeOK, SessionsPossibles, SessionsOuvertes, Contextes
    <2>5. req[q] \in Contextes
        BY DEF TypeOK
    <2>3. [req[q] EXCEPT !.session = s] \in Contextes
        BY ONLY <2>2, <2>5, ContexteSessionType
    <2>4. etape' \in [Requetes -> Etapes] /\ req' \in [Requetes -> Contextes]
        BY <2>1, <2>3, AttendreType DEF TypeOK, Etapes, EtapesExec, EtapesCoffre, EtapesCaisse, EtapesOp
    <2> QED BY <2>4 DEF TypeOK
<1>2. ReferencesOK'
    BY DEF TypeOK, ReferencesOK, Contextes, ContexteVide, Contexte, EtapesExec, EtapesCoffre, EtapesCaisse, EtapesOp
<1>3. DecisionOK'
    BY DEF TypeOK, ReferencesOK, DecisionOK, DecideurOK, Contextes, ContexteVide, Contexte, EtapesExec, EtapesCoffre, EtapesCaisse, EtapesOp
<1>4. CoffreGarde'
    BY DEF TypeOK, ReferencesOK, CoffreGarde, Contextes, ContexteVide, Contexte, EtapesExec, EtapesCoffre, EtapesCaisse, EtapesOp, CleLibre,
           MouvementCoffrePermis, DebitCoffrePermis, CreditCoffrePermis, SousPlafond
<1> QED BY <1>1, <1>2, <1>3, <1>4

(* The operation is inserted, with its reference to the session.           *)
LEMMA ExecPartageIInv ==
    ASSUME IInv, NEW q \in Requetes, ExecPartage(q)
    PROVE  IInv'
<1> USE ConstantesOK DEF IInv, ExecPartage, Partager, Attendre
<1> USE DEF varsTransfert, varsArgent, varsSession, varsVerrou, varsRequete
<1>1. TypeOK'
    <2>1. req[q] \in Contextes
        BY DEF TypeOK, Contextes, Contexte
    <2>2. etape' \in [Requetes -> Etapes] /\ req' \in [Requetes -> Contextes]
        BY <2>1, AttendreType DEF TypeOK, Etapes, EtapesExec, EtapesCoffre, EtapesCaisse, EtapesOp
    <2>3. partage' \in [Sessions -> SUBSET Requetes]
        BY DEF TypeOK
    <2> QED BY <2>2, <2>3 DEF TypeOK
<1>2. ReferencesOK'
    BY DEF TypeOK, ReferencesOK, Contextes, ContexteVide, Contexte, EtapesExec, EtapesCoffre, EtapesCaisse, EtapesOp
<1>3. DecisionOK'
    BY DEF TypeOK, ReferencesOK, DecisionOK, DecideurOK, Contextes, ContexteVide, Contexte, EtapesExec, EtapesCoffre, EtapesCaisse, EtapesOp
<1>4. CoffreGarde'
    BY DEF TypeOK, ReferencesOK, CoffreGarde, Contextes, ContexteVide, Contexte, EtapesExec, EtapesCoffre, EtapesCaisse, EtapesOp,
           MouvementCoffrePermis, DebitCoffrePermis, CreditCoffrePermis, SousPlafond
<1> QED BY <1>1, <1>2, <1>3, <1>4

(* The session is locked and checked.                                      *)
LEMMA ExecVerrouSessionIInv ==
    ASSUME IInv, NEW q \in Requetes, ExecVerrouSession(q)
    PROVE  IInv'
<1> USE ConstantesOK DEF IInv, ExecVerrouSession, Attendre
<1> USE DEF varsTransfert, varsArgent, varsSession, varsVerrou, varsRequete
<1>1. TypeOK'
    <2>1. req[q] \in Contextes
        BY DEF TypeOK, Contextes, Contexte
    <2>2. etape' \in [Requetes -> Etapes] /\ req' \in [Requetes -> Contextes]
        BY <2>1, AttendreType DEF TypeOK, Etapes, EtapesExec, EtapesCoffre, EtapesCaisse, EtapesOp
    <2> QED BY <2>2 DEF TypeOK
<1>2. ReferencesOK'
    BY DEF TypeOK, ReferencesOK, Contextes, ContexteVide, Contexte, EtapesExec, EtapesCoffre, EtapesCaisse, EtapesOp
<1>3. DecisionOK'
    BY DEF TypeOK, ReferencesOK, DecisionOK, DecideurOK, Contextes, ContexteVide, Contexte, EtapesExec, EtapesCoffre, EtapesCaisse, EtapesOp
<1>4. CoffreGarde'
    BY DEF TypeOK, ReferencesOK, CoffreGarde, Contextes, ContexteVide, Contexte, EtapesExec, EtapesCoffre, EtapesCaisse, EtapesOp,
           MouvementCoffrePermis, DebitCoffrePermis, CreditCoffrePermis, SousPlafond
<1> QED BY <1>1, <1>2, <1>3, <1>4

(* The commit: the lock of the vault goes with the money that moved.       *)
LEMMA ExecCommitIInv ==
    ASSUME IInv, NEW q \in Requetes, ExecCommit(q)
    PROVE  IInv'
<1> USE ConstantesOK DEF IInv, ExecCommit, Terminer, Attendre
<1> USE DEF varsTransfert, varsArgent, varsSession, varsVerrou, varsRequete
<1>0. fiche[req[q].transfert] \in Fiches /\ req[q].session \in Sessions \cup {AUCUN}
    BY DEF TypeOK, ReferencesOK, Contextes, EtapesExec, EtapesCoffre, EtapesCaisse, EtapesOp
<1>1. TypeOK'
    <2>1. DeltaCaisse(fiche[req[q].transfert]) \in Int /\ fiche[req[q].transfert].montant \in Nat
        BY <1>0, FicheType
    <2>2. theorique' \in [Sessions -> Int]
        BY <1>0, <2>1, AjoutType DEF TypeOK, EcrireCaisse
    <2>5. CaisseTouchee(req[q].session, fiche[req[q].transfert]) \in Caisses
        BY <1>0, FicheType, ConstantesOK DEF CaisseTouchee
    <2>6. soldeCaisse' \in [Caisses -> Int]
        BY <2>1, <2>5, AjoutType DEF TypeOK, EcrireCaisse
    <2>3. soldeCoffre' \in Int /\ sortant' \in Nat /\ entrant' \in Nat
        BY <2>1 DEF TypeOK, EcrireCoffre
    <2>4. /\ statut' \in [Transferts -> Statuts \cup {"ABSENT"}]
          /\ verrouille' \in [Transferts -> BOOLEAN]
          /\ mouvements' \subseteq Transferts
        BY DEF TypeOK, EcrireTransfert, Statuts, ReferencesOK, EtapesExec, EtapesCoffre, EtapesCaisse, EtapesOp
    <2> QED BY <2>2, <2>3, <2>4, <2>6, TerminerType DEF TypeOK
<1>2. ReferencesOK'
    BY DEF TypeOK, ReferencesOK, Contextes, ContexteVide, Contexte, EtapesExec, EtapesCoffre, EtapesCaisse, EtapesOp, EcrireTransfert
<1>3. DecisionOK'
    BY DEF TypeOK, ReferencesOK, DecisionOK, DecideurOK, Contextes, ContexteVide, Contexte, EtapesExec, EtapesCoffre, EtapesCaisse, EtapesOp, EcrireTransfert
<1>4. CoffreGarde'
    BY DEF TypeOK, ReferencesOK, CoffreGarde, Contextes, ContexteVide, Contexte, EtapesExec, EtapesCoffre, EtapesCaisse, EtapesOp, EcrireTransfert,
           MouvementCoffrePermis, DebitCoffrePermis, CreditCoffrePermis, SousPlafond
<1> QED BY <1>1, <1>2, <1>3, <1>4

(* A cash operation has read its session.                                  *)
LEMMA OpLireIInv ==
    ASSUME IInv, NEW q \in Requetes, NEW s \in Sessions, NEW d \in Int, OpLire(q, s, d)
    PROVE  IInv'
<1> USE ConstantesOK DEF IInv, OpLire, Attendre
<1> USE DEF varsTransfert, varsArgent, varsSession, varsVerrou, varsRequete
<1>1. TypeOK'
    <2>1. Contexte(AUCUN, s, AUCUN, FALSE, d) \in Contextes
        BY DEF TypeOK, Contextes, Contexte
    <2>2. etape' \in [Requetes -> Etapes] /\ req' \in [Requetes -> Contextes]
        BY <2>1, AttendreType DEF TypeOK, Etapes, EtapesExec, EtapesCoffre, EtapesCaisse, EtapesOp
    <2> QED BY <2>2 DEF TypeOK
<1>2. ReferencesOK'
    BY DEF TypeOK, ReferencesOK, Contextes, ContexteVide, Contexte, EtapesExec, EtapesCoffre, EtapesCaisse, EtapesOp
<1>3. DecisionOK'
    BY DEF TypeOK, ReferencesOK, DecisionOK, DecideurOK, Contextes, ContexteVide, Contexte, EtapesExec, EtapesCoffre, EtapesCaisse, EtapesOp
<1>4. CoffreGarde'
    BY DEF TypeOK, ReferencesOK, CoffreGarde, Contextes, ContexteVide, Contexte, EtapesExec, EtapesCoffre, EtapesCaisse, EtapesOp,
           MouvementCoffrePermis, DebitCoffrePermis, CreditCoffrePermis, SousPlafond
<1> QED BY <1>1, <1>2, <1>3, <1>4

(* Its movement is inserted.                                               *)
LEMMA OpPartageIInv ==
    ASSUME IInv, NEW q \in Requetes, OpPartage(q)
    PROVE  IInv'
<1> USE ConstantesOK DEF IInv, OpPartage, Partager, Attendre
<1> USE DEF varsTransfert, varsArgent, varsSession, varsVerrou, varsRequete
<1>1. TypeOK'
    <2>1. req[q] \in Contextes
        BY DEF TypeOK, Contextes, Contexte
    <2>2. etape' \in [Requetes -> Etapes] /\ req' \in [Requetes -> Contextes]
        BY <2>1, AttendreType DEF TypeOK, Etapes, EtapesExec, EtapesCoffre, EtapesCaisse, EtapesOp
    <2>3. partage' \in [Sessions -> SUBSET Requetes]
        BY DEF TypeOK
    <2> QED BY <2>2, <2>3 DEF TypeOK
<1>2. ReferencesOK'
    BY DEF TypeOK, ReferencesOK, Contextes, ContexteVide, Contexte, EtapesExec, EtapesCoffre, EtapesCaisse, EtapesOp
<1>3. DecisionOK'
    BY DEF TypeOK, ReferencesOK, DecisionOK, DecideurOK, Contextes, ContexteVide, Contexte, EtapesExec, EtapesCoffre, EtapesCaisse, EtapesOp
<1>4. CoffreGarde'
    BY DEF TypeOK, ReferencesOK, CoffreGarde, Contextes, ContexteVide, Contexte, EtapesExec, EtapesCoffre, EtapesCaisse, EtapesOp,
           MouvementCoffrePermis, DebitCoffrePermis, CreditCoffrePermis, SousPlafond
<1> QED BY <1>1, <1>2, <1>3, <1>4

(* Its session is locked.                                                  *)
LEMMA OpVerrouSessionIInv ==
    ASSUME IInv, NEW q \in Requetes, OpVerrouSession(q)
    PROVE  IInv'
<1> USE ConstantesOK DEF IInv, OpVerrouSession, Attendre
<1> USE DEF varsTransfert, varsArgent, varsSession, varsVerrou, varsRequete
<1>1. TypeOK'
    <2>1. req[q] \in Contextes
        BY DEF TypeOK, Contextes, Contexte
    <2>2. etape' \in [Requetes -> Etapes] /\ req' \in [Requetes -> Contextes]
        BY <2>1, AttendreType DEF TypeOK, Etapes, EtapesExec, EtapesCoffre, EtapesCaisse, EtapesOp
    <2> QED BY <2>2 DEF TypeOK
<1>2. ReferencesOK'
    BY DEF TypeOK, ReferencesOK, Contextes, ContexteVide, Contexte, EtapesExec, EtapesCoffre, EtapesCaisse, EtapesOp
<1>3. DecisionOK'
    BY DEF TypeOK, ReferencesOK, DecisionOK, DecideurOK, Contextes, ContexteVide, Contexte, EtapesExec, EtapesCoffre, EtapesCaisse, EtapesOp
<1>4. CoffreGarde'
    BY DEF TypeOK, ReferencesOK, CoffreGarde, Contextes, ContexteVide, Contexte, EtapesExec, EtapesCoffre, EtapesCaisse, EtapesOp,
           MouvementCoffrePermis, DebitCoffrePermis, CreditCoffrePermis, SousPlafond
<1> QED BY <1>1, <1>2, <1>3, <1>4

(* Its commit.                                                             *)
LEMMA OpCommitIInv ==
    ASSUME IInv, NEW q \in Requetes, OpCommit(q)
    PROVE  IInv'
<1> USE ConstantesOK DEF IInv, OpCommit, Terminer, Attendre
<1> USE DEF varsTransfert, varsArgent, varsSession, varsVerrou, varsRequete
<1>1. TypeOK'
    <2>1. req[q].delta \in Int /\ req[q].session \in Sessions
        BY DEF TypeOK, ReferencesOK, Contextes, EtapesExec, EtapesCoffre, EtapesCaisse, EtapesOp
    <2>2. CaisseDe[req[q].session] \in Caisses
        BY <2>1, ConstantesOK
    <2>3. theorique' \in [Sessions -> Int]
        BY <2>1, AjoutType DEF TypeOK
    <2>4. soldeCaisse' \in [Caisses -> Int]
        BY <2>1, <2>2, AjoutType DEF TypeOK
    <2>5. flux' \in Int
        BY <2>1 DEF TypeOK
    <2> QED BY <2>3, <2>4, <2>5, TerminerType DEF TypeOK
<1>2. ReferencesOK'
    BY DEF TypeOK, ReferencesOK, Contextes, ContexteVide, Contexte, EtapesExec, EtapesCoffre, EtapesCaisse, EtapesOp
<1>3. DecisionOK'
    BY DEF TypeOK, ReferencesOK, DecisionOK, DecideurOK, Contextes, ContexteVide, Contexte, EtapesExec, EtapesCoffre, EtapesCaisse, EtapesOp
<1>4. CoffreGarde'
    BY DEF TypeOK, ReferencesOK, CoffreGarde, Contextes, ContexteVide, Contexte, EtapesExec, EtapesCoffre, EtapesCaisse, EtapesOp,
           MouvementCoffrePermis, DebitCoffrePermis, CreditCoffrePermis, SousPlafond
<1> QED BY <1>1, <1>2, <1>3, <1>4

(* A supply: only while the vault is not locked.                           *)
LEMMA ApportIInv ==
    ASSUME IInv, NEW m \in Montants, Apport(m)
    PROVE  IInv'
<1> USE ConstantesOK DEF IInv, Apport
<1> USE DEF varsTransfert, varsArgent, varsSession, varsVerrou, varsRequete
<1>1. TypeOK'
    BY DEF TypeOK
<1>2. ReferencesOK'
    BY DEF TypeOK, ReferencesOK, Contextes, ContexteVide, Contexte, EtapesExec, EtapesCoffre, EtapesCaisse, EtapesOp
<1>3. DecisionOK'
    BY DEF TypeOK, ReferencesOK, DecisionOK, DecideurOK, Contextes, ContexteVide, Contexte, EtapesExec, EtapesCoffre, EtapesCaisse, EtapesOp
<1>4. CoffreGarde'
    BY DEF TypeOK, ReferencesOK, CoffreGarde, Contextes, ContexteVide, Contexte, EtapesExec, EtapesCoffre, EtapesCaisse, EtapesOp,
           MouvementCoffrePermis, DebitCoffrePermis, CreditCoffrePermis, SousPlafond
<1> QED BY <1>1, <1>2, <1>3, <1>4

(* Midnight: smaller totals stay under the caps.                           *)
LEMMA NouveauJourIInv ==
    ASSUME IInv, NouveauJour
    PROVE  IInv'
<1> USE ConstantesOK DEF IInv, NouveauJour
<1> USE DEF varsTransfert, varsArgent, varsSession, varsVerrou, varsRequete
<1>1. TypeOK'
    BY DEF TypeOK
<1>2. ReferencesOK'
    BY DEF TypeOK, ReferencesOK, Contextes, ContexteVide, Contexte, EtapesExec, EtapesCoffre, EtapesCaisse, EtapesOp
<1>3. DecisionOK'
    BY DEF TypeOK, ReferencesOK, DecisionOK, DecideurOK, Contextes, ContexteVide, Contexte, EtapesExec, EtapesCoffre, EtapesCaisse, EtapesOp
<1>4. CoffreGarde'
    BY FicheType DEF TypeOK, ReferencesOK, CoffreGarde, Contextes, ContexteVide, Contexte, EtapesExec, EtapesCoffre, EtapesCaisse, EtapesOp, Fiches,
           MouvementCoffrePermis, DebitCoffrePermis, CreditCoffrePermis, SousPlafond
<1> QED BY <1>1, <1>2, <1>3, <1>4

-----------------------------------------------------------------------------
(* Every step preserves the invariant.                                     *)
THEOREM PasIInv == IInv /\ [Next]_vars => IInv'
<1> SUFFICES ASSUME IInv, [Next]_vars PROVE IInv'
    OBVIOUS
<1>1. CASE UNCHANGED vars
    BY <1>1 DEF IInv, TypeOK, ReferencesOK, DecisionOK, DecideurOK, CoffreGarde,
           MouvementCoffrePermis, DebitCoffrePermis, CreditCoffrePermis, SousPlafond,
           vars, varsTransfert, varsArgent, varsSession, varsVerrou, varsRequete
<1>2. ASSUME NEW t \in Transferts, NEW f \in Fiches, CreerTransfert(t, f) PROVE IInv'
    BY <1>2, CreerTransfertIInv
<1>3. ASSUME NEW q \in Requetes, Appel(q) PROVE IInv'
    <2>1. \A m \in Montants : m \in Int /\ -m \in Int
        BY ConstantesOK
    <2> QED BY <1>3, <2>1, ValiderLireIInv, AnnulerLireIInv, ExecLireIInv, OpLireIInv DEF Appel
<1>4. ASSUME NEW q \in Requetes, Progression(q) PROVE IInv'
    <2>1. ExecRefusCoffre(q) \/ ExecRefusCaisse(q) \/ ExecRefusSession(q) \/ OpRefus(q) => Annulation(q)
        BY DEF ExecRefusCoffre, ExecRefusCaisse, ExecRefusSession, OpRefus
    <2> QED BY <1>4, <2>1, AnnulationIInv, ValiderEcrireIInv, AnnulerEcrireIInv,
              ExecVerrouCoffreIInv, ExecVerrouCaisseIInv, ExecPartageIInv, ExecVerrouSessionIInv,
              ExecCommitIInv, OpPartageIInv, OpVerrouSessionIInv, OpCommitIInv DEF Progression
<1>5. ASSUME NEW q \in Requetes, Panne(q) \/ Interblocage(q) PROVE IInv'
    BY <1>5, AnnulationIInv DEF Panne, Interblocage
<1>6. ASSUME NEW m \in Montants, Apport(m) PROVE IInv'
    BY <1>6, ApportIInv
<1>7. CASE NouveauJour
    BY <1>7, NouveauJourIInv
<1> QED BY <1>1, <1>2, <1>3, <1>4, <1>5, <1>6, <1>7 DEF Next

(* The inductive invariant holds in every reachable state.                 *)
THEOREM InvarianceIInv == Spec => []IInv
<1> QED BY InitIInv, PasIInv, PTL DEF Spec

(* Every variable keeps its type, however many handlers interleave.        *)
THEOREM TypeCorrect == Spec => []TypeOK
<1>1. IInv => TypeOK
    BY DEF IInv
<1> QED BY <1>1, InvarianceIInv, PTL

(* With the rule of separation, money moves only once a user other than    *)
(* the requester has decided, whatever validations, cancellations and      *)
(* executions of the same transfer overlap.                                *)
THEOREM SeparationToujours == Spec => []SeparationRespectee
<1>1. IInv => SeparationRespectee
    BY ConstantesOK DEF IInv, TypeOK, DecisionOK, DecideurOK, SeparationRespectee
<1> QED BY <1>1, InvarianceIInv, PTL
-----------------------------------------------------------------------------
(***************************************************************************)
(* The transactions implement the vault.                                   *)
(***************************************************************************)
THEOREM InitCoffre == Init => CoffreTenu!Init
BY DEF Init, CoffreTenu!Init

(* A commit is a debit or a credit of the vault, still permitted since the *)
(* check because the lock was held, and the first one of the transfer.     *)
LEMMA CommitCoffre ==
    ASSUME IInv, NEW q \in Requetes, ExecCommit(q)
    PROVE  CoffreTenu!Next
<1> DEFINE t == req[q].transfert
           f == fiche[t]
<1>1. t \in Transferts /\ f \in Fiches /\ t \notin mouvements /\ MouvementCoffrePermis(f)
    BY DEF IInv, ReferencesOK, CoffreGarde, ExecCommit, EtapesExec, EtapesCoffre, EtapesCaisse
<1>2. f.montant \in Montants /\ f.montant \in Nat /\ f.sens \in Sens
    BY <1>1, FicheType DEF Fiches
<1>3. EcrireCoffre(f) /\ mouvements' = mouvements \cup {t}
    BY DEF ExecCommit, EcrireTransfert
<1>4. soldeCoffre \in Int
    BY DEF IInv, TypeOK
<1>5. CASE f.sens = "COFFRE_VERS_CAISSE"
    <2>1. CoffreTenu!Sortie(t, f.montant)
        BY <1>1, <1>2, <1>3, <1>4, <1>5
           DEF MouvementCoffrePermis, DebitCoffrePermis, EcrireCoffre, DeltaCaisse, SousPlafond,
               CoffreTenu!Sortie, CoffreTenu!SousPlafond
    <2> QED BY <1>1, <1>2, <2>1 DEF CoffreTenu!Next
<1>6. CASE f.sens # "COFFRE_VERS_CAISSE"
    <2>1. CoffreTenu!Entree(t, f.montant)
        BY <1>1, <1>2, <1>3, <1>4, <1>6
           DEF MouvementCoffrePermis, CreditCoffrePermis, EcrireCoffre, DeltaCaisse, SousPlafond,
               CoffreTenu!Entree, CoffreTenu!SousPlafond
    <2> QED BY <1>1, <1>2, <2>1 DEF CoffreTenu!Next
<1> QED BY <1>5, <1>6

(* A supply accepted by the code is one the abstract vault accepts: the    *)
(* check that counts it twice is the stronger one.                         *)
LEMMA ApportCoffre ==
    ASSUME IInv, NEW m \in Montants, Apport(m)
    PROVE  CoffreTenu!Next
<1>1. m \in Nat \ {0} /\ entrant \in Nat /\ PlafondEntrant \in Nat
    BY ConstantesOK DEF IInv, TypeOK
<1>2. CoffreTenu!Apport(m)
    BY <1>1 DEF Apport, ApportPermis, CreditCoffrePermis, SousPlafond,
           CoffreTenu!Apport, CoffreTenu!SousPlafond
<1> QED BY <1>2 DEF CoffreTenu!Next

(* Every step is a step of the abstract vault or leaves it unchanged.      *)
THEOREM PasCoffre == IInv /\ [Next]_vars => [CoffreTenu!Next]_(CoffreTenu!varsCoffre)
<1> SUFFICES ASSUME IInv, [Next]_vars
             PROVE  CoffreTenu!Next \/ UNCHANGED CoffreTenu!varsCoffre
    OBVIOUS
<1> USE DEF CoffreTenu!varsCoffre, varsArgent
<1>1. CASE UNCHANGED vars
    BY <1>1 DEF vars
<1>2. ASSUME NEW t \in Transferts, NEW f \in Fiches, CreerTransfert(t, f)
      PROVE  UNCHANGED CoffreTenu!varsCoffre
    BY <1>2 DEF CreerTransfert
<1>3. ASSUME NEW q \in Requetes, Appel(q) PROVE UNCHANGED CoffreTenu!varsCoffre
    BY <1>3 DEF Appel, ValiderLire, AnnulerLire, ExecLire, OpLire
<1>4. ASSUME NEW q \in Requetes, Progression(q)
      PROVE  CoffreTenu!Next \/ UNCHANGED CoffreTenu!varsCoffre
    <2>1. CASE ExecCommit(q)
        BY <2>1, CommitCoffre
    <2>2. CASE ~ExecCommit(q)
        BY <1>4, <2>2
           DEF Progression, ValiderEcrire, AnnulerEcrire, ExecVerrouCoffre, ExecRefusCoffre,
               ExecVerrouCaisse, ExecRefusCaisse, ExecPartage, ExecVerrouSession,
               ExecRefusSession, OpPartage, OpVerrouSession, OpRefus, OpCommit, Annulation
    <2> QED BY <2>1, <2>2
<1>5. ASSUME NEW q \in Requetes, Panne(q) \/ Interblocage(q) PROVE UNCHANGED CoffreTenu!varsCoffre
    BY <1>5 DEF Panne, Interblocage, Annulation
<1>6. ASSUME NEW m \in Montants, Apport(m) PROVE CoffreTenu!Next
    BY <1>6, ApportCoffre
<1>7. CASE NouveauJour
    BY <1>7 DEF NouveauJour, CoffreTenu!Next, CoffreTenu!NouveauJour
<1> QED BY <1>1, <1>2, <1>3, <1>4, <1>5, <1>6, <1>7 DEF Next

(* Each transfer moves its money at most once, the minimum balance and the *)
(* daily caps of the vault are kept, for any number of concurrent          *)
(* executions, retries, crashes and supplies.                              *)
THEOREM ImplementeCoffre == Spec => CoffreRespecte
<1> QED BY InitCoffre, PasCoffre, InvarianceIInv, PTL DEF Spec, CoffreRespecte, CoffreTenu!Spec
=============================================================================
