---------------------------- MODULE CaisseProofs ----------------------------
(***************************************************************************)
(* Theorems of TransfertCoffre about the tills, while sessions stay open   *)
(* and no transfer is a closing transfer (SessionCaisse shows what becomes *)
(* of them otherwise): a till and its session agree, and neither goes      *)
(* below zero.                                                             *)
(***************************************************************************)
EXTENDS TransfertCoffreProofs, Sommes

(* A handler only refers to sessions that are open.                        *)
SessionsOuvertesSeules ==
    /\ sessionStatut = [s \in Sessions |-> IF s \in OuvertesAuDepart THEN "OPEN" ELSE "CLOSED"]
    /\ \A q \in Requetes :
          etape[q] \in EtapesExec \cup EtapesOp /\ req[q].session # AUCUN =>
              req[q].session \in OuvertesAuDepart
    /\ \A q \in Requetes : etape[q] = "execCaisse" /\ req[q].session = AUCUN =>
          \A s \in OuvertesAuDepart : CaisseDe[s] # fiche[req[q].transfert].caisse

(* Tills and sessions are locked by the handlers that have passed.         *)
LignesVerrouillees ==
    /\ \A q \in Requetes : etape[q] \in EtapesCaisse => verrouCaisse[fiche[req[q].transfert].caisse] = q
    /\ \A q \in Requetes : etape[q] \in {"execSession", "opSession"} => verrouSession[req[q].session] = q

(* What was checked under those locks is still true.                       *)
DebitsCouverts ==
    /\ \A q \in Requetes : etape[q] = "execSession" =>
          DebitSessionPermis(req[q].session, DeltaCaisse(fiche[req[q].transfert]))
    /\ \A q \in Requetes : etape[q] = "opSession" =>
          DebitSessionPermis(req[q].session, req[q].delta)
    /\ \A q \in Requetes : etape[q] = "execCaisse" /\ req[q].session = AUCUN =>
          MouvementCaissePermis(fiche[req[q].transfert])

JInv ==
    /\ IInv
    /\ SessionsOuvertesSeules
    /\ LignesVerrouillees
    /\ DebitsCouverts
    /\ SessionRefleteCaisse
    /\ CaisseJamaisNegative
-----------------------------------------------------------------------------
(* Locks are granted only when no other handler holds the row.             *)
LEMMA LignesLibres ==
    ASSUME NEW q \in Requetes, Bloquants(q) = {}
    PROVE  /\ etape[q] = "execCoffre" => verrouCaisse[fiche[req[q].transfert].caisse] \in {AUCUN, q}
           /\ etape[q] \in {"execPartage", "opPartage"} => verrouSession[req[q].session] \in {AUCUN, q}
           /\ etape[q] = "opSession" => verrouCaisse[CaisseDe[req[q].session]] \in {AUCUN, q}
           /\ etape[q] = "execSession" /\ ~SansEffetCaisse(fiche[req[q].transfert]) =>
                 verrouCaisse[CaisseDe[req[q].session]] \in {AUCUN, q}
BY DEF Bloquants

(* The row of a handler that works on one.                                 *)
LEMMA FicheDe ==
    ASSUME IInv, NEW q \in Requetes, etape[q] \in EtapesExec
    PROVE  /\ req[q].transfert \in Transferts
           /\ fiche[req[q].transfert] \in Fiches
           /\ fiche[req[q].transfert].caisse \in Caisses
           /\ DeltaCaisse(fiche[req[q].transfert]) \in Int
           /\ req[q].session \in Sessions \cup {AUCUN}
<1>1. req[q].transfert \in Transferts /\ fiche[req[q].transfert] \in Fiches
    BY DEF IInv, ReferencesOK
<1>2. req[q].session \in Sessions \cup {AUCUN}
    BY DEF IInv, TypeOK, Contextes
<1> QED BY <1>1, <1>2, FicheType

(* When a transaction ends, the others keep their rows.                    *)
LEMMA TerminerLignes ==
    ASSUME IInv, LignesVerrouillees, NEW q \in Requetes, Terminer(q), UNCHANGED fiche
    PROVE  LignesVerrouillees'
<1>1. ASSUME NEW r \in Requetes, r # q
      PROVE  etape'[r] = etape[r] /\ req'[r] = req[r]
    BY <1>1 DEF Terminer, Attendre, IInv, TypeOK
<1>2. etape'[q] = "libre"
    BY DEF Terminer, Attendre, IInv, TypeOK
<1>3. ASSUME NEW r \in Requetes, etape'[r] \in EtapesCaisse
      PROVE  verrouCaisse'[fiche'[req'[r].transfert].caisse] = r
    <2>1. r # q
        BY <1>2, <1>3 DEF EtapesCaisse
    <2>2. fiche[req[r].transfert].caisse \in Caisses
        BY <2>1, <1>1, <1>3, FicheDe DEF EtapesExec, EtapesCoffre
    <2> QED BY <2>1, <2>2, <1>1, <1>3 DEF Terminer, LignesVerrouillees
<1>4. ASSUME NEW r \in Requetes, etape'[r] \in {"execSession", "opSession"}
      PROVE  verrouSession'[req'[r].session] = r
    <2>1. r # q
        BY <1>2, <1>4
    <2>2. req[r].session \in Sessions
        BY <2>1, <1>1, <1>4 DEF IInv, ReferencesOK, EtapesOp
    <2> QED BY <2>1, <2>2, <1>1, <1>4 DEF Terminer, LignesVerrouillees
<1> QED BY <1>3, <1>4 DEF LignesVerrouillees

(* The tills and their sessions agree at the start, and nothing is locked. *)
THEOREM InitJInv == Init => JInv
<1> SUFFICES ASSUME Init PROVE JInv
    OBVIOUS
<1>1. IInv
    BY InitIInv
<1>2. SessionsOuvertesSeules /\ LignesVerrouillees /\ DebitsCouverts
    BY DEF Init, SessionsOuvertesSeules, LignesVerrouillees, DebitsCouverts, EtapesExec, EtapesCoffre,
           EtapesCaisse, EtapesOp
<1>3. SessionRefleteCaisse /\ CaisseJamaisNegative
    BY ConstantesOK DEF Init, SessionRefleteCaisse, CaisseJamaisNegative
<1> QED BY <1>1, <1>2, <1>3 DEF JInv

(* Rollbacks.                                                              *)
LEMMA AnnulationJInv ==
    ASSUME JInv, NEW q \in Requetes, Annulation(q), Clotures = {FALSE}
    PROVE  /\ SessionsOuvertesSeules' /\ LignesVerrouillees' /\ DebitsCouverts'
           /\ SessionRefleteCaisse' /\ CaisseJamaisNegative'
<1> USE ConstantesOK DEF JInv, IInv, Annulation, Terminer, Attendre
<1> USE DEF varsTransfert, varsArgent, varsSession, varsVerrou, varsRequete
<1>1. SessionsOuvertesSeules'
    BY DEF TypeOK, ReferencesOK, SessionsOuvertesSeules, Contextes, ContexteVide, Contexte, EtapesExec, EtapesCoffre, EtapesCaisse, EtapesOp
<1>2. LignesVerrouillees'
    BY TerminerLignes DEF Annulation
<1>5. /\ \A r \in Requetes \ {q} : etape'[r] = etape[r] /\ req'[r] = req[r]
      /\ etape'[q] = "libre"
      /\ UNCHANGED <<fiche, theorique, soldeCaisse>>
    BY DEF TypeOK
<1>3. DebitsCouverts'
    BY <1>5 DEF DebitsCouverts, DebitSessionPermis, MouvementCaissePermis
<1>4. SessionRefleteCaisse' /\ CaisseJamaisNegative'
    BY DEF SessionRefleteCaisse, CaisseJamaisNegative
<1> QED BY <1>1, <1>2, <1>3, <1>4

(* Creation, decision and cancellation of a transfer.                      *)
LEMMA CreerTransfertJInv ==
    ASSUME JInv, NEW t \in Transferts, NEW f \in Fiches, CreerTransfert(t, f), Clotures = {FALSE}
    PROVE  /\ SessionsOuvertesSeules' /\ LignesVerrouillees' /\ DebitsCouverts'
           /\ SessionRefleteCaisse' /\ CaisseJamaisNegative'
<1> USE ConstantesOK DEF JInv, IInv, CreerTransfert
<1> USE DEF varsTransfert, varsArgent, varsSession, varsVerrou, varsRequete
<1>1. SessionsOuvertesSeules'
    BY DEF TypeOK, ReferencesOK, SessionsOuvertesSeules, Contextes, ContexteVide, Contexte, EtapesExec, EtapesCoffre, EtapesCaisse, EtapesOp
<1>2. LignesVerrouillees'
    BY DEF TypeOK, ReferencesOK, LignesVerrouillees, Contextes, ContexteVide, Contexte, EtapesExec, EtapesCoffre, EtapesCaisse, EtapesOp
<1>3. DebitsCouverts'
    <2>1. \A q \in Requetes : etape[q] \in EtapesExec =>
              fiche'[req[q].transfert] = fiche[req[q].transfert]
        BY DEF TypeOK, ReferencesOK
    <2> QED BY <2>1 DEF DebitsCouverts, DebitSessionPermis, MouvementCaissePermis, EtapesExec,
                     EtapesCoffre, EtapesCaisse
<1>4. SessionRefleteCaisse' /\ CaisseJamaisNegative'
    BY DEF SessionRefleteCaisse, CaisseJamaisNegative
<1> QED BY <1>1, <1>2, <1>3, <1>4

(* The read of a validation disturbs no money and no lock.                 *)
LEMMA ValiderLireJInv ==
    ASSUME JInv, NEW q \in Requetes, NEW t \in Transferts, NEW a \in Agents,
           NEW ok \in BOOLEAN, ValiderLire(q, t, a, ok), Clotures = {FALSE}
    PROVE  /\ SessionsOuvertesSeules' /\ LignesVerrouillees' /\ DebitsCouverts'
           /\ SessionRefleteCaisse' /\ CaisseJamaisNegative'
<1> USE ConstantesOK DEF JInv, IInv, ValiderLire, Attendre
<1> USE DEF varsTransfert, varsArgent, varsSession, varsVerrou, varsRequete
<1>1. SessionsOuvertesSeules'
    BY DEF TypeOK, ReferencesOK, SessionsOuvertesSeules, Contextes, ContexteVide, Contexte, EtapesExec, EtapesCoffre, EtapesCaisse, EtapesOp
<1>2. LignesVerrouillees'
    BY DEF TypeOK, ReferencesOK, LignesVerrouillees, Contextes, ContexteVide, Contexte, EtapesExec, EtapesCoffre, EtapesCaisse, EtapesOp
<1>3. DebitsCouverts'
    BY DEF TypeOK, ReferencesOK, DebitsCouverts, LignesVerrouillees, DebitSessionPermis, MouvementCaissePermis, Contextes,
           ContexteVide, Contexte, EtapesExec, EtapesCoffre, EtapesCaisse, EtapesOp
<1>4. SessionRefleteCaisse' /\ CaisseJamaisNegative'
    BY DEF SessionRefleteCaisse, CaisseJamaisNegative
<1> QED BY <1>1, <1>2, <1>3, <1>4

(* A validation writes the statut of a transfer only.                      *)
LEMMA ValiderEcrireJInv ==
    ASSUME JInv, NEW q \in Requetes, ValiderEcrire(q), Clotures = {FALSE}
    PROVE  /\ SessionsOuvertesSeules' /\ LignesVerrouillees' /\ DebitsCouverts'
           /\ SessionRefleteCaisse' /\ CaisseJamaisNegative'
<1> USE ConstantesOK DEF JInv, IInv, ValiderEcrire, Attendre
<1> USE DEF varsTransfert, varsArgent, varsSession, varsVerrou, varsRequete
<1>1. SessionsOuvertesSeules'
    BY DEF TypeOK, ReferencesOK, SessionsOuvertesSeules, Contextes, ContexteVide, Contexte, EtapesExec, EtapesCoffre, EtapesCaisse, EtapesOp
<1>2. LignesVerrouillees'
    BY DEF TypeOK, ReferencesOK, LignesVerrouillees, Contextes, ContexteVide, Contexte, EtapesExec, EtapesCoffre, EtapesCaisse, EtapesOp
<1>3. DebitsCouverts'
    BY DEF TypeOK, ReferencesOK, DebitsCouverts, LignesVerrouillees, DebitSessionPermis, MouvementCaissePermis, Contextes,
           ContexteVide, Contexte, EtapesExec, EtapesCoffre, EtapesCaisse, EtapesOp
<1>4. SessionRefleteCaisse' /\ CaisseJamaisNegative'
    BY DEF SessionRefleteCaisse, CaisseJamaisNegative
<1> QED BY <1>1, <1>2, <1>3, <1>4

(* The read of a cancellation disturbs no money and no lock.               *)
LEMMA AnnulerLireJInv ==
    ASSUME JInv, NEW q \in Requetes, NEW t \in Transferts, NEW a \in Agents, AnnulerLire(q, t, a), Clotures = {FALSE}
    PROVE  /\ SessionsOuvertesSeules' /\ LignesVerrouillees' /\ DebitsCouverts'
           /\ SessionRefleteCaisse' /\ CaisseJamaisNegative'
<1> USE ConstantesOK DEF JInv, IInv, AnnulerLire, Attendre
<1> USE DEF varsTransfert, varsArgent, varsSession, varsVerrou, varsRequete
<1>1. SessionsOuvertesSeules'
    BY DEF TypeOK, ReferencesOK, SessionsOuvertesSeules, Contextes, ContexteVide, Contexte, EtapesExec, EtapesCoffre, EtapesCaisse, EtapesOp
<1>2. LignesVerrouillees'
    BY DEF TypeOK, ReferencesOK, LignesVerrouillees, Contextes, ContexteVide, Contexte, EtapesExec, EtapesCoffre, EtapesCaisse, EtapesOp
<1>3. DebitsCouverts'
    BY DEF TypeOK, ReferencesOK, DebitsCouverts, LignesVerrouillees, DebitSessionPermis, MouvementCaissePermis, Contextes,
           ContexteVide, Contexte, EtapesExec, EtapesCoffre, EtapesCaisse, EtapesOp
<1>4. SessionRefleteCaisse' /\ CaisseJamaisNegative'
    BY DEF SessionRefleteCaisse, CaisseJamaisNegative
<1> QED BY <1>1, <1>2, <1>3, <1>4

(* A cancellation writes the statut of a transfer only.                    *)
LEMMA AnnulerEcrireJInv ==
    ASSUME JInv, NEW q \in Requetes, AnnulerEcrire(q), Clotures = {FALSE}
    PROVE  /\ SessionsOuvertesSeules' /\ LignesVerrouillees' /\ DebitsCouverts'
           /\ SessionRefleteCaisse' /\ CaisseJamaisNegative'
<1> USE ConstantesOK DEF JInv, IInv, AnnulerEcrire, Attendre
<1> USE DEF varsTransfert, varsArgent, varsSession, varsVerrou, varsRequete
<1>1. SessionsOuvertesSeules'
    BY DEF TypeOK, ReferencesOK, SessionsOuvertesSeules, Contextes, ContexteVide, Contexte, EtapesExec, EtapesCoffre, EtapesCaisse, EtapesOp
<1>2. LignesVerrouillees'
    BY DEF TypeOK, ReferencesOK, LignesVerrouillees, Contextes, ContexteVide, Contexte, EtapesExec, EtapesCoffre, EtapesCaisse, EtapesOp
<1>3. DebitsCouverts'
    BY DEF TypeOK, ReferencesOK, DebitsCouverts, LignesVerrouillees, DebitSessionPermis, MouvementCaissePermis, Contextes,
           ContexteVide, Contexte, EtapesExec, EtapesCoffre, EtapesCaisse, EtapesOp
<1>4. SessionRefleteCaisse' /\ CaisseJamaisNegative'
    BY DEF SessionRefleteCaisse, CaisseJamaisNegative
<1> QED BY <1>1, <1>2, <1>3, <1>4

(* Steps of an execution.                                                  *)
LEMMA ExecLireJInv ==
    ASSUME JInv, NEW q \in Requetes, NEW t \in Transferts,
           NEW s \in Sessions \cup {AUCUN}, ExecLire(q, t, s), Clotures = {FALSE}
    PROVE  /\ SessionsOuvertesSeules' /\ LignesVerrouillees' /\ DebitsCouverts'
           /\ SessionRefleteCaisse' /\ CaisseJamaisNegative'
<1> USE ConstantesOK DEF JInv, IInv, ExecLire, Attendre
<1> USE DEF varsTransfert, varsArgent, varsSession, varsVerrou, varsRequete
<1>1. SessionsOuvertesSeules'
    BY DEF TypeOK, ReferencesOK, SessionsOuvertesSeules, Contextes, ContexteVide, Contexte, EtapesExec, EtapesCoffre, EtapesCaisse, EtapesOp
<1>2. LignesVerrouillees'
    BY DEF TypeOK, ReferencesOK, LignesVerrouillees, Contextes, ContexteVide, Contexte, EtapesExec, EtapesCoffre, EtapesCaisse, EtapesOp
<1>3. DebitsCouverts'
    BY DEF TypeOK, ReferencesOK, DebitsCouverts, LignesVerrouillees, DebitSessionPermis, MouvementCaissePermis, Contextes,
           ContexteVide, Contexte, EtapesExec, EtapesCoffre, EtapesCaisse, EtapesOp
<1>4. SessionRefleteCaisse' /\ CaisseJamaisNegative'
    BY DEF SessionRefleteCaisse, CaisseJamaisNegative
<1> QED BY <1>1, <1>2, <1>3, <1>4

(* Locking the vault says nothing of the tills.                            *)
LEMMA ExecVerrouCoffreJInv ==
    ASSUME JInv, NEW q \in Requetes, ExecVerrouCoffre(q), Clotures = {FALSE}
    PROVE  /\ SessionsOuvertesSeules' /\ LignesVerrouillees' /\ DebitsCouverts'
           /\ SessionRefleteCaisse' /\ CaisseJamaisNegative'
<1> USE ConstantesOK DEF JInv, IInv, ExecVerrouCoffre, Attendre
<1> USE DEF varsTransfert, varsArgent, varsSession, varsVerrou, varsRequete
<1>1. SessionsOuvertesSeules'
    BY DEF TypeOK, ReferencesOK, SessionsOuvertesSeules, Contextes, ContexteVide, Contexte, EtapesExec, EtapesCoffre, EtapesCaisse, EtapesOp
<1>2. LignesVerrouillees'
    BY DEF TypeOK, ReferencesOK, LignesVerrouillees, Contextes, ContexteVide, Contexte, EtapesExec, EtapesCoffre, EtapesCaisse, EtapesOp
<1>3. DebitsCouverts'
    BY DEF TypeOK, ReferencesOK, DebitsCouverts, LignesVerrouillees, DebitSessionPermis, MouvementCaissePermis, Contextes,
           ContexteVide, Contexte, EtapesExec, EtapesCoffre, EtapesCaisse, EtapesOp
<1>4. SessionRefleteCaisse' /\ CaisseJamaisNegative'
    BY DEF SessionRefleteCaisse, CaisseJamaisNegative
<1> QED BY <1>1, <1>2, <1>3, <1>4

(* The execution that locks the till finds the open session of the till,   *)
(* so that a transfer without session meets a till without one.            *)
LEMMA ExecVerrouCaisseJInv ==
    ASSUME JInv, NEW q \in Requetes, ExecVerrouCaisse(q), Clotures = {FALSE}
    PROVE  /\ SessionsOuvertesSeules' /\ LignesVerrouillees' /\ DebitsCouverts'
           /\ SessionRefleteCaisse' /\ CaisseJamaisNegative'
<1> USE ConstantesOK DEF JInv, IInv, ExecVerrouCaisse
<1> USE DEF varsTransfert, varsArgent, varsSession, varsVerrou, varsRequete
<1>0. PICK s \in SessionsPossibles(q) : Attendre(q, "execCaisse", [req[q] EXCEPT !.session = s])
    OBVIOUS
<1>5. /\ etape[q] = "execCoffre" /\ req[q] \in Contextes
      /\ etape' = [etape EXCEPT ![q] = "execCaisse"]
      /\ req' = [req EXCEPT ![q] = [req[q] EXCEPT !.session = s]]
      /\ req'[q].transfert = req[q].transfert /\ req'[q].session = s
    <2>1. etape[q] = "execCoffre" /\ req[q] \in Contextes
        BY DEF TypeOK
    <2>2. /\ etape' = [etape EXCEPT ![q] = "execCaisse"]
          /\ req' = [req EXCEPT ![q] = [req[q] EXCEPT !.session = s]]
        BY <1>0 DEF Attendre
    <2>3. req'[q] = [req[q] EXCEPT !.session = s]
        BY <2>2 DEF TypeOK
    <2>4. req'[q].transfert = req[q].transfert /\ req'[q].session = s
        BY <2>1, <2>3 DEF Contextes
    <2> QED BY <2>1, <2>2, <2>4
<1>6. s # AUCUN => s \in OuvertesAuDepart
    BY <1>5 DEF SessionsPossibles, SessionsOuvertes, SessionsOuvertesSeules, EtapesExec, EtapesCoffre
<1>7. s = AUCUN => \A r \in OuvertesAuDepart : CaisseDe[r] # fiche[req[q].transfert].caisse
    BY DEF SessionsPossibles, SessionsOuvertes, SessionsOuvertesSeules
<1>8. fiche[req[q].transfert].caisse \in Caisses
    BY <1>5, FicheDe DEF EtapesExec, EtapesCoffre
<1>1. SessionsOuvertesSeules'
    BY <1>5, <1>6, <1>7 DEF TypeOK, SessionsOuvertesSeules, EtapesExec, EtapesCoffre, EtapesCaisse, EtapesOp
<1>2. LignesVerrouillees'
    <2>1. verrouCaisse[fiche[req[q].transfert].caisse] \in {AUCUN, q}
        BY <1>5, LignesLibres
    <2> QED BY <1>5, <1>8, <2>1 DEF TypeOK, LignesVerrouillees, EtapesCaisse
<1>3. DebitsCouverts'
    BY <1>5 DEF TypeOK, DebitsCouverts, DebitSessionPermis, MouvementCaissePermis
<1>4. SessionRefleteCaisse' /\ CaisseJamaisNegative'
    BY DEF SessionRefleteCaisse, CaisseJamaisNegative
<1> QED BY <1>1, <1>2, <1>3, <1>4

(* The shared lock of the foreign key is no check of a balance.            *)
LEMMA ExecPartageJInv ==
    ASSUME JInv, NEW q \in Requetes, ExecPartage(q), Clotures = {FALSE}
    PROVE  /\ SessionsOuvertesSeules' /\ LignesVerrouillees' /\ DebitsCouverts'
           /\ SessionRefleteCaisse' /\ CaisseJamaisNegative'
<1> USE ConstantesOK DEF JInv, IInv, ExecPartage, Partager, Attendre
<1> USE DEF varsTransfert, varsArgent, varsSession, varsVerrou, varsRequete
<1>1. SessionsOuvertesSeules'
    BY DEF TypeOK, ReferencesOK, SessionsOuvertesSeules, Contextes, ContexteVide, Contexte, EtapesExec, EtapesCoffre, EtapesCaisse, EtapesOp
<1>2. LignesVerrouillees'
    BY DEF TypeOK, ReferencesOK, LignesVerrouillees, Contextes, ContexteVide, Contexte, EtapesExec, EtapesCoffre, EtapesCaisse, EtapesOp
<1>3. DebitsCouverts'
    BY DEF TypeOK, ReferencesOK, DebitsCouverts, LignesVerrouillees, DebitSessionPermis, MouvementCaissePermis, Contextes,
           ContexteVide, Contexte, EtapesExec, EtapesCoffre, EtapesCaisse, EtapesOp
<1>4. SessionRefleteCaisse' /\ CaisseJamaisNegative'
    BY DEF SessionRefleteCaisse, CaisseJamaisNegative
<1> QED BY <1>1, <1>2, <1>3, <1>4

(* The balance of the session is checked under its lock.                   *)
LEMMA ExecVerrouSessionJInv ==
    ASSUME JInv, NEW q \in Requetes, ExecVerrouSession(q), Clotures = {FALSE}
    PROVE  /\ SessionsOuvertesSeules' /\ LignesVerrouillees' /\ DebitsCouverts'
           /\ SessionRefleteCaisse' /\ CaisseJamaisNegative'
<1> USE ConstantesOK DEF JInv, IInv, ExecVerrouSession, Attendre
<1> USE DEF varsTransfert, varsArgent, varsSession, varsVerrou, varsRequete
<1>1. SessionsOuvertesSeules'
    BY DEF TypeOK, ReferencesOK, SessionsOuvertesSeules, Contextes, ContexteVide, Contexte, EtapesExec, EtapesCoffre, EtapesCaisse, EtapesOp
<1>5. /\ etape[q] = "execPartage" /\ req' = req /\ req[q].session \in Sessions
      /\ DebitSessionPermis(req[q].session, DeltaCaisse(fiche[req[q].transfert]))
      /\ verrouSession[req[q].session] \in {AUCUN, q}
    BY LignesLibres DEF TypeOK, ReferencesOK, EtapesOp
<1>6. /\ etape' = [etape EXCEPT ![q] = "execSession"]
      /\ verrouSession' = [verrouSession EXCEPT ![req[q].session] = q]
    OBVIOUS
<1>2. LignesVerrouillees'
    BY <1>5, <1>6 DEF TypeOK, LignesVerrouillees, EtapesCaisse
<1>3. DebitsCouverts'
    BY <1>5, <1>6 DEF TypeOK, DebitsCouverts, DebitSessionPermis, MouvementCaissePermis
<1>4. SessionRefleteCaisse' /\ CaisseJamaisNegative'
    BY DEF SessionRefleteCaisse, CaisseJamaisNegative
<1> QED BY <1>1, <1>2, <1>3, <1>4

(* The commit moves the money of the till and of its session together,     *)
(* and what it takes out was checked under the locks it still holds.       *)
LEMMA ExecCommitJInv ==
    ASSUME JInv, NEW q \in Requetes, ExecCommit(q), Clotures = {FALSE}
    PROVE  /\ SessionsOuvertesSeules' /\ LignesVerrouillees' /\ DebitsCouverts'
           /\ SessionRefleteCaisse' /\ CaisseJamaisNegative'
<1> USE ConstantesOK DEF JInv, IInv, ExecCommit
<1> USE DEF varsTransfert, varsArgent, varsSession, varsVerrou, varsRequete
<1> DEFINE f == fiche[req[q].transfert]
           s == req[q].session
<1>5. /\ Terminer(q) /\ EcrireCaisse(s, f) /\ etape[q] \in {"execCaisse", "execSession"}
      /\ etape[q] = "execCaisse" => s = AUCUN
    OBVIOUS
<1>6. f \in Fiches /\ f.caisse \in Caisses /\ DeltaCaisse(f) \in Int /\ s \in Sessions \cup {AUCUN}
    BY <1>5, FicheDe DEF EtapesExec, EtapesCoffre, EtapesCaisse
<1>7. ~SansEffetCaisse(f)
    BY <1>6 DEF SansEffetCaisse, Fiches
<1>8. CaisseTouchee(s, f) \in Caisses /\ verrouCaisse[CaisseTouchee(s, f)] \in {AUCUN, q}
    BY <1>5, <1>6, <1>7, LignesLibres DEF CaisseTouchee, LignesVerrouillees, EtapesCaisse, ReferencesOK
<1>9. \A r \in Requetes \ {q} : etape'[r] = etape[r] /\ req'[r] = req[r]
    BY <1>5 DEF Terminer, Attendre, TypeOK
<1>10. etape'[q] = "libre"
    BY <1>5 DEF Terminer, Attendre, TypeOK
<1>11. soldeCaisse' = [soldeCaisse EXCEPT ![CaisseTouchee(s, f)] = @ + DeltaCaisse(f)]
    BY <1>5, <1>7 DEF EcrireCaisse
<1>12. theorique' = IF s = AUCUN THEN theorique ELSE [theorique EXCEPT ![s] = @ + DeltaCaisse(f)]
    BY <1>5 DEF EcrireCaisse
<1>1. SessionsOuvertesSeules'
    BY <1>9, <1>10 DEF SessionsOuvertesSeules, EtapesExec, EtapesCoffre, EtapesCaisse, EtapesOp
<1>2. LignesVerrouillees'
    BY <1>5, TerminerLignes
<1>3. DebitsCouverts'
    <2>1. ASSUME NEW r \in Requetes, etape'[r] \in {"execSession", "opSession"}
          PROVE  theorique'[req'[r].session] = theorique[req[r].session] /\ r # q
        <3>1. r # q /\ verrouSession[req[r].session] = r
            BY <2>1, <1>9, <1>10 DEF LignesVerrouillees
        <3>2. s # AUCUN => verrouSession[s] = q
            BY <1>5 DEF LignesVerrouillees
        <3> QED BY <3>1, <3>2, <1>6, <1>9, <1>12 DEF TypeOK
    <2>2. ASSUME NEW r \in Requetes, etape'[r] = "execCaisse"
          PROVE  r # q /\ soldeCaisse'[fiche[req[r].transfert].caisse] = soldeCaisse[fiche[req[r].transfert].caisse]
        <3>1. r # q
            BY <2>2, <1>10
        <3>2. etape[r] = "execCaisse" /\ verrouCaisse[fiche[req[r].transfert].caisse] = r
            BY <2>2, <3>1, <1>9 DEF LignesVerrouillees, EtapesCaisse
        <3>3. fiche[req[r].transfert].caisse # CaisseTouchee(s, f)
            BY <3>1, <3>2, <1>8, ConstantesOK
        <3> QED BY <3>1, <3>3, <1>8, <1>11 DEF TypeOK
    <2>3. UNCHANGED fiche
        OBVIOUS
    <2> QED BY <2>1, <2>2, <2>3, <1>9 DEF DebitsCouverts, DebitSessionPermis, MouvementCaissePermis
<1>4. SessionRefleteCaisse' /\ CaisseJamaisNegative'
    <2>1. UNCHANGED sessionStatut /\ \A r \in Sessions : sessionStatut[r] = "OPEN" <=> r \in OuvertesAuDepart
        BY DEF SessionsOuvertesSeules
    <2>2. CASE s = AUCUN
        <3>1. etape[q] = "execCaisse" /\ MouvementCaissePermis(f)
            BY <1>5, <2>2, ConstantesOK DEF ReferencesOK, DebitsCouverts
        <3>2. \A r \in OuvertesAuDepart : CaisseDe[r] # f.caisse
            BY <3>1, <2>2 DEF SessionsOuvertesSeules
        <3>3. soldeCaisse[f.caisse] + DeltaCaisse(f) >= 0
            BY <3>1, <1>6, <1>7, FicheType DEF MouvementCaissePermis, DeltaCaisse, Sens, CaisseJamaisNegative, TypeOK
        <3> QED BY <2>1, <2>2, <3>2, <3>3, <1>6, <1>11, <1>12, ConstantesOK
               DEF CaisseTouchee, TypeOK, SessionRefleteCaisse, CaisseJamaisNegative
    <2>3. CASE s # AUCUN
        <3>1. etape[q] = "execSession" /\ s \in OuvertesAuDepart /\ s \in Sessions
            BY <1>5, <1>6, <2>3 DEF SessionsOuvertesSeules, EtapesExec, EtapesCoffre, EtapesCaisse
        <3>2. theorique[s] = soldeCaisse[CaisseDe[s]] /\ theorique[s] + DeltaCaisse(f) >= 0
            BY <3>1, <2>1, <1>6, ConstantesOK DEF DebitsCouverts, DebitSessionPermis, SessionRefleteCaisse, CaisseJamaisNegative, TypeOK
        <3>3. CaisseTouchee(s, f) = CaisseDe[s]
            BY <2>3 DEF CaisseTouchee
        <3> QED BY <2>1, <2>3, <3>1, <3>2, <3>3, <1>6, <1>11, <1>12, ConstantesOK, UneSessionParCaisse
               DEF TypeOK, SessionRefleteCaisse, CaisseJamaisNegative
    <2> QED BY <2>2, <2>3
<1> QED BY <1>1, <1>2, <1>3, <1>4

(* The read of a cash operation finds an open session.                     *)
LEMMA OpLireJInv ==
    ASSUME JInv, NEW q \in Requetes, NEW s \in Sessions, NEW d \in Int, OpLire(q, s, d), Clotures = {FALSE}
    PROVE  /\ SessionsOuvertesSeules' /\ LignesVerrouillees' /\ DebitsCouverts'
           /\ SessionRefleteCaisse' /\ CaisseJamaisNegative'
<1> USE ConstantesOK DEF JInv, IInv, OpLire, Attendre
<1> USE DEF varsTransfert, varsArgent, varsSession, varsVerrou, varsRequete
<1>1. SessionsOuvertesSeules'
    BY DEF TypeOK, ReferencesOK, SessionsOuvertesSeules, Contextes, ContexteVide, Contexte, EtapesExec, EtapesCoffre, EtapesCaisse, EtapesOp
<1>2. LignesVerrouillees'
    BY DEF TypeOK, ReferencesOK, LignesVerrouillees, Contextes, ContexteVide, Contexte, EtapesExec, EtapesCoffre, EtapesCaisse, EtapesOp
<1>3. DebitsCouverts'
    BY DEF TypeOK, ReferencesOK, DebitsCouverts, LignesVerrouillees, DebitSessionPermis, MouvementCaissePermis, Contextes,
           ContexteVide, Contexte, EtapesExec, EtapesCoffre, EtapesCaisse, EtapesOp
<1>4. SessionRefleteCaisse' /\ CaisseJamaisNegative'
    BY DEF SessionRefleteCaisse, CaisseJamaisNegative
<1> QED BY <1>1, <1>2, <1>3, <1>4

(* The shared lock of the foreign key is no check of a balance.            *)
LEMMA OpPartageJInv ==
    ASSUME JInv, NEW q \in Requetes, OpPartage(q), Clotures = {FALSE}
    PROVE  /\ SessionsOuvertesSeules' /\ LignesVerrouillees' /\ DebitsCouverts'
           /\ SessionRefleteCaisse' /\ CaisseJamaisNegative'
<1> USE ConstantesOK DEF JInv, IInv, OpPartage, Partager, Attendre
<1> USE DEF varsTransfert, varsArgent, varsSession, varsVerrou, varsRequete
<1>1. SessionsOuvertesSeules'
    BY DEF TypeOK, ReferencesOK, SessionsOuvertesSeules, Contextes, ContexteVide, Contexte, EtapesExec, EtapesCoffre, EtapesCaisse, EtapesOp
<1>2. LignesVerrouillees'
    BY DEF TypeOK, ReferencesOK, LignesVerrouillees, Contextes, ContexteVide, Contexte, EtapesExec, EtapesCoffre, EtapesCaisse, EtapesOp
<1>3. DebitsCouverts'
    BY DEF TypeOK, ReferencesOK, DebitsCouverts, LignesVerrouillees, DebitSessionPermis, MouvementCaissePermis, Contextes,
           ContexteVide, Contexte, EtapesExec, EtapesCoffre, EtapesCaisse, EtapesOp
<1>4. SessionRefleteCaisse' /\ CaisseJamaisNegative'
    BY DEF SessionRefleteCaisse, CaisseJamaisNegative
<1> QED BY <1>1, <1>2, <1>3, <1>4

(* A cash operation checks the balance of the session under its lock.      *)
LEMMA OpVerrouSessionJInv ==
    ASSUME JInv, NEW q \in Requetes, OpVerrouSession(q), Clotures = {FALSE}
    PROVE  /\ SessionsOuvertesSeules' /\ LignesVerrouillees' /\ DebitsCouverts'
           /\ SessionRefleteCaisse' /\ CaisseJamaisNegative'
<1> USE ConstantesOK DEF JInv, IInv, OpVerrouSession, Attendre
<1> USE DEF varsTransfert, varsArgent, varsSession, varsVerrou, varsRequete
<1>1. SessionsOuvertesSeules'
    BY DEF TypeOK, ReferencesOK, SessionsOuvertesSeules, Contextes, ContexteVide, Contexte, EtapesExec, EtapesCoffre, EtapesCaisse, EtapesOp
<1>5. /\ etape[q] = "opPartage" /\ req' = req /\ req[q].session \in Sessions
      /\ DebitSessionPermis(req[q].session, req[q].delta)
      /\ verrouSession[req[q].session] \in {AUCUN, q}
    BY LignesLibres DEF TypeOK, ReferencesOK, EtapesOp
<1>6. /\ etape' = [etape EXCEPT ![q] = "opSession"]
      /\ verrouSession' = [verrouSession EXCEPT ![req[q].session] = q]
    OBVIOUS
<1>2. LignesVerrouillees'
    BY <1>5, <1>6 DEF TypeOK, LignesVerrouillees, EtapesCaisse
<1>3. DebitsCouverts'
    BY <1>5, <1>6 DEF TypeOK, DebitsCouverts, DebitSessionPermis, MouvementCaissePermis
<1>4. SessionRefleteCaisse' /\ CaisseJamaisNegative'
    BY DEF SessionRefleteCaisse, CaisseJamaisNegative
<1> QED BY <1>1, <1>2, <1>3, <1>4

(* A cash operation changes a session and its till by the same amount.     *)
LEMMA OpCommitJInv ==
    ASSUME JInv, NEW q \in Requetes, OpCommit(q), Clotures = {FALSE}
    PROVE  /\ SessionsOuvertesSeules' /\ LignesVerrouillees' /\ DebitsCouverts'
           /\ SessionRefleteCaisse' /\ CaisseJamaisNegative'
<1> USE ConstantesOK DEF JInv, IInv, OpCommit
<1> USE DEF varsTransfert, varsArgent, varsSession, varsVerrou, varsRequete
<1> DEFINE s == req[q].session
           d == req[q].delta
<1>6. Terminer(q) /\ etape[q] = "opSession"
    OBVIOUS
<1>7. req[q] \in Contextes /\ s # AUCUN
    BY <1>6 DEF TypeOK, ReferencesOK, EtapesOp
<1>12. s \in Sessions /\ d \in Int
    BY ONLY <1>7 DEF Contextes
<1>13. s \in OuvertesAuDepart
    BY <1>6, <1>7 DEF SessionsOuvertesSeules, EtapesOp
<1>5. /\ Terminer(q) /\ etape[q] = "opSession" /\ s \in Sessions /\ d \in Int
      /\ s \in OuvertesAuDepart /\ CaisseDe[s] \in Caisses
    BY <1>6, <1>12, <1>13
<1>8. verrouCaisse[CaisseDe[s]] \in {AUCUN, q}
    BY <1>5, LignesLibres
<1>9. \A r \in Requetes \ {q} : etape'[r] = etape[r] /\ req'[r] = req[r]
    BY <1>5 DEF Terminer, Attendre, TypeOK
<1>10. etape'[q] = "libre"
    BY <1>5 DEF Terminer, Attendre, TypeOK
<1>11. /\ soldeCaisse' = [soldeCaisse EXCEPT ![CaisseDe[s]] = @ + d]
       /\ theorique' = [theorique EXCEPT ![s] = @ + d]
    OBVIOUS
<1>1. SessionsOuvertesSeules'
    BY <1>9, <1>10 DEF SessionsOuvertesSeules, EtapesExec, EtapesCoffre, EtapesCaisse, EtapesOp
<1>2. LignesVerrouillees'
    BY <1>5, TerminerLignes
<1>3. DebitsCouverts'
    <2>1. ASSUME NEW r \in Requetes, etape'[r] \in {"execSession", "opSession"}
          PROVE  theorique'[req'[r].session] = theorique[req[r].session] /\ r # q
        <3>1. r # q /\ verrouSession[req[r].session] = r
            BY <2>1, <1>9, <1>10 DEF LignesVerrouillees
        <3>2. verrouSession[s] = q
            BY <1>5 DEF LignesVerrouillees
        <3> QED BY <3>1, <3>2, <1>5, <1>9, <1>11 DEF TypeOK
    <2>2. ASSUME NEW r \in Requetes, etape'[r] = "execCaisse"
          PROVE  r # q /\ soldeCaisse'[fiche[req[r].transfert].caisse] = soldeCaisse[fiche[req[r].transfert].caisse]
        <3>1. r # q
            BY <2>2, <1>10
        <3>2. etape[r] = "execCaisse" /\ verrouCaisse[fiche[req[r].transfert].caisse] = r
            BY <2>2, <3>1, <1>9 DEF LignesVerrouillees, EtapesCaisse
        <3>3. fiche[req[r].transfert].caisse # CaisseDe[s]
            BY <3>1, <3>2, <1>8, ConstantesOK
        <3> QED BY <3>1, <3>3, <1>5, <1>11 DEF TypeOK
    <2>3. UNCHANGED fiche
        OBVIOUS
    <2> QED BY <2>1, <2>2, <2>3, <1>9 DEF DebitsCouverts, DebitSessionPermis, MouvementCaissePermis
<1>4. SessionRefleteCaisse' /\ CaisseJamaisNegative'
    <2>1. UNCHANGED sessionStatut /\ \A r \in Sessions : sessionStatut[r] = "OPEN" <=> r \in OuvertesAuDepart
        BY DEF SessionsOuvertesSeules
    <2>2. theorique[s] = soldeCaisse[CaisseDe[s]] /\ theorique[s] + d >= 0
        BY <2>1, <1>5, ConstantesOK
           DEF DebitsCouverts, DebitSessionPermis, SessionRefleteCaisse, CaisseJamaisNegative, TypeOK
    <2> QED BY <2>1, <2>2, <1>5, <1>11, ConstantesOK, UneSessionParCaisse
           DEF TypeOK, SessionRefleteCaisse, CaisseJamaisNegative
<1> QED BY <1>1, <1>2, <1>3, <1>4

(* A supply of the vault leaves the tills alone.                           *)
LEMMA ApportJInv ==
    ASSUME JInv, NEW m \in Montants, Apport(m), Clotures = {FALSE}
    PROVE  /\ SessionsOuvertesSeules' /\ LignesVerrouillees' /\ DebitsCouverts'
           /\ SessionRefleteCaisse' /\ CaisseJamaisNegative'
<1> USE ConstantesOK DEF JInv, IInv, Apport
<1> USE DEF varsTransfert, varsArgent, varsSession, varsVerrou, varsRequete
<1>1. SessionsOuvertesSeules'
    BY DEF TypeOK, ReferencesOK, SessionsOuvertesSeules, Contextes, ContexteVide, Contexte, EtapesExec, EtapesCoffre, EtapesCaisse, EtapesOp
<1>2. LignesVerrouillees'
    BY DEF TypeOK, ReferencesOK, LignesVerrouillees, Contextes, ContexteVide, Contexte, EtapesExec, EtapesCoffre, EtapesCaisse, EtapesOp
<1>3. DebitsCouverts'
    BY DEF TypeOK, ReferencesOK, DebitsCouverts, LignesVerrouillees, DebitSessionPermis, MouvementCaissePermis, Contextes,
           ContexteVide, Contexte, EtapesExec, EtapesCoffre, EtapesCaisse, EtapesOp
<1>4. SessionRefleteCaisse' /\ CaisseJamaisNegative'
    BY DEF SessionRefleteCaisse, CaisseJamaisNegative
<1> QED BY <1>1, <1>2, <1>3, <1>4

(* Midnight only resets the sums of the day.                               *)
LEMMA NouveauJourJInv ==
    ASSUME JInv, NouveauJour, Clotures = {FALSE}
    PROVE  /\ SessionsOuvertesSeules' /\ LignesVerrouillees' /\ DebitsCouverts'
           /\ SessionRefleteCaisse' /\ CaisseJamaisNegative'
<1> USE ConstantesOK DEF JInv, IInv, NouveauJour
<1> USE DEF varsTransfert, varsArgent, varsSession, varsVerrou, varsRequete
<1>1. SessionsOuvertesSeules'
    BY DEF TypeOK, ReferencesOK, SessionsOuvertesSeules, Contextes, ContexteVide, Contexte, EtapesExec, EtapesCoffre, EtapesCaisse, EtapesOp
<1>2. LignesVerrouillees'
    BY DEF TypeOK, ReferencesOK, LignesVerrouillees, Contextes, ContexteVide, Contexte, EtapesExec, EtapesCoffre, EtapesCaisse, EtapesOp
<1>3. DebitsCouverts'
    BY DEF TypeOK, ReferencesOK, DebitsCouverts, LignesVerrouillees, DebitSessionPermis, MouvementCaissePermis, Contextes,
           ContexteVide, Contexte, EtapesExec, EtapesCoffre, EtapesCaisse, EtapesOp
<1>4. SessionRefleteCaisse' /\ CaisseJamaisNegative'
    BY DEF SessionRefleteCaisse, CaisseJamaisNegative
<1> QED BY <1>1, <1>2, <1>3, <1>4

-----------------------------------------------------------------------------
(* Every step keeps the invariant when no transfer is a closing transfer.  *)
THEOREM PasJInv == Clotures = {FALSE} /\ JInv /\ [Next]_vars => JInv'
<1> SUFFICES ASSUME Clotures = {FALSE}, JInv, [Next]_vars PROVE JInv'
    OBVIOUS
<1> USE DEF JInv
<1>1. IInv'
    BY PasIInv
<1>2. CASE UNCHANGED vars
    BY <1>1, <1>2 DEF SessionsOuvertesSeules, LignesVerrouillees, DebitsCouverts, DebitSessionPermis,
           MouvementCaissePermis, SessionRefleteCaisse, CaisseJamaisNegative,
           vars, varsTransfert, varsArgent, varsSession, varsVerrou, varsRequete
<1>3. ASSUME NEW t \in Transferts, NEW f \in Fiches, CreerTransfert(t, f) PROVE JInv'
    BY <1>1, <1>3, CreerTransfertJInv
<1>4. ASSUME NEW q \in Requetes, Appel(q) PROVE JInv'
    <2>1. \A m \in Montants : m \in Int /\ -m \in Int
        BY ConstantesOK
    <2> QED BY <1>1, <1>4, <2>1, ValiderLireJInv, AnnulerLireJInv, ExecLireJInv, OpLireJInv DEF Appel
<1>5. ASSUME NEW q \in Requetes, Progression(q) PROVE JInv'
    <2>1. ExecRefusCoffre(q) \/ ExecRefusCaisse(q) \/ ExecRefusSession(q) \/ OpRefus(q) => Annulation(q)
        BY DEF ExecRefusCoffre, ExecRefusCaisse, ExecRefusSession, OpRefus
    <2> QED BY <1>1, <1>5, <2>1, AnnulationJInv, ValiderEcrireJInv, AnnulerEcrireJInv,
              ExecVerrouCoffreJInv, ExecVerrouCaisseJInv, ExecPartageJInv, ExecVerrouSessionJInv,
              ExecCommitJInv, OpPartageJInv, OpVerrouSessionJInv, OpCommitJInv DEF Progression
<1>6. ASSUME NEW q \in Requetes, Panne(q) \/ Interblocage(q) PROVE JInv'
    BY <1>1, <1>6, AnnulationJInv DEF Panne, Interblocage
<1>7. ASSUME NEW m \in Montants, Apport(m) PROVE JInv'
    BY <1>1, <1>7, ApportJInv
<1>8. CASE NouveauJour
    BY <1>1, <1>8, NouveauJourJInv
<1> QED BY <1>2, <1>3, <1>4, <1>5, <1>6, <1>7, <1>8 DEF Next

(* The invariant of the tills holds in every reachable state.              *)
THEOREM InvarianceJInv == ASSUME Clotures = {FALSE} PROVE Spec => []JInv
<1>1. JInv /\ [Next]_vars => JInv'
    BY PasJInv
<1> QED BY <1>1, InitJInv, PTL DEF Spec

(* Without closing transfers, an open session and its till show the same   *)
(* balance at every commit, also when transfers of one till are booked on  *)
(* the session of another.                                                 *)
THEOREM SessionFidele == ASSUME Clotures = {FALSE} PROVE Spec => []SessionRefleteCaisse
<1>1. JInv => SessionRefleteCaisse
    BY DEF JInv
<1> QED BY <1>1, InvarianceJInv, PTL

(* Without closing transfers no till goes below zero, although a           *)
(* withdrawal is checked against its session and never against the till.   *)
THEOREM CaisseCouverte == ASSUME Clotures = {FALSE} PROVE Spec => []CaisseJamaisNegative
<1>1. JInv => CaisseJamaisNegative
    BY DEF JInv
<1> QED BY <1>1, InvarianceJInv, PTL
-----------------------------------------------------------------------------
(***************************************************************************)
(* The money of vault and tills together.                                  *)
(***************************************************************************)
Liquidites == soldeCoffre + SumFunctionOnSet(soldeCaisse, Caisses)

(* d is added to a till.                                                   *)
LEMMA CaisseCreditee ==
    ASSUME TypeOK, NEW c \in Caisses, NEW d \in Int,
           soldeCaisse' = [soldeCaisse EXCEPT ![c] = @ + d]
    PROVE  SumFunctionOnSet(soldeCaisse', Caisses) = SumFunctionOnSet(soldeCaisse, Caisses) + d
<1>1. IsFiniteSet(Caisses) /\ soldeCaisse \in [Caisses -> Int]
    BY ConstantesOK DEF TypeOK
<1>2. SumFunctionOnSet([soldeCaisse EXCEPT ![c] = @ + d], Caisses)
        = SumFunctionOnSet(soldeCaisse, Caisses) + d
    BY <1>1, SommeAugmentee
<1> QED BY <1>2

(* The money of the tills adds up to an integer.                           *)
LEMMA LiquiditeType == ASSUME TypeOK PROVE SumFunctionOnSet(soldeCaisse, Caisses) \in Int
BY ConstantesOK, SommeType DEF TypeOK

(* An execution moves from one to the other what it takes from the first.  *)
LEMMA ExecCommitLiquidite ==
    ASSUME Clotures = {FALSE}, IInv, NEW q \in Requetes, ExecCommit(q)
    PROVE  Liquidites' - flux' = Liquidites - flux
<1> DEFINE t == req[q].transfert
           s == req[q].session
           f == fiche[t]
           c == CaisseTouchee(s, f)
<1>1. /\ etape[q] = "execSession" \/ (etape[q] = "execCaisse" /\ s = AUCUN)
      /\ EcrireCaisse(s, f) /\ EcrireCoffre(f) /\ flux' = flux
    BY DEF ExecCommit
<1>2. f \in Fiches /\ f.caisse \in Caisses /\ DeltaCaisse(f) \in Int
    BY <1>1, FicheDe DEF EtapesExec, EtapesCoffre, EtapesCaisse
<1>3. c \in Caisses
    BY <1>1, <1>2, ConstantesOK DEF CaisseTouchee, IInv, ReferencesOK
<1>4. ~SansEffetCaisse(f)
    BY <1>2 DEF SansEffetCaisse, Fiches
<1>5. soldeCaisse' = [soldeCaisse EXCEPT ![c] = @ + DeltaCaisse(f)]
    BY <1>1, <1>4 DEF EcrireCaisse
<1>6. soldeCoffre' = soldeCoffre - DeltaCaisse(f) /\ soldeCoffre \in Int /\ flux \in Int
    BY <1>1 DEF EcrireCoffre, IInv, TypeOK
<1>7. SumFunctionOnSet(soldeCaisse', Caisses) = SumFunctionOnSet(soldeCaisse, Caisses) + DeltaCaisse(f)
    <2> HIDE DEF c, f
    <2> QED BY <1>2, <1>3, <1>5, CaisseCreditee DEF IInv
<1> HIDE DEF f
<1> QED BY <1>1, <1>2, <1>6, <1>7, LiquiditeType DEF Liquidites, IInv

(* A cash operation adds to the tills what the client brings.              *)
LEMMA OpCommitLiquidite ==
    ASSUME IInv, NEW q \in Requetes, OpCommit(q)
    PROVE  Liquidites' - flux' = Liquidites - flux
<1> DEFINE c == CaisseDe[req[q].session]
           d == req[q].delta
<1>1. /\ soldeCaisse' = [soldeCaisse EXCEPT ![c] = @ + d]
      /\ flux' = flux + d
      /\ soldeCoffre' = soldeCoffre
    BY DEF OpCommit
<1>2. c \in Caisses /\ d \in Int
    BY ConstantesOK DEF OpCommit, IInv, ReferencesOK, EtapesOp, TypeOK, Contextes
<1>3. SumFunctionOnSet(soldeCaisse', Caisses) = SumFunctionOnSet(soldeCaisse, Caisses) + d
    <2> HIDE DEF c, d
    <2> QED BY <1>1, <1>2, CaisseCreditee DEF IInv
<1> HIDE DEF d
<1> QED BY <1>1, <1>2, <1>3, LiquiditeType DEF Liquidites, IInv, TypeOK

(* No other step moves money, except a supply, which brings it.            *)
LEMMA PasLiquidite ==
    ASSUME Clotures = {FALSE}, IInv, [Next]_vars
    PROVE  Liquidites' - flux' = Liquidites - flux
<1> USE DEF vars, varsTransfert, varsArgent, varsSession, varsVerrou, varsRequete
<1>1. CASE UNCHANGED <<soldeCoffre, soldeCaisse, flux>>
    BY <1>1 DEF Liquidites
<1>2. ASSUME NEW m \in Montants, Apport(m) PROVE Liquidites' - flux' = Liquidites - flux
    BY <1>2, ConstantesOK, LiquiditeType DEF Apport, Liquidites, IInv, TypeOK
<1>3. ASSUME NEW q \in Requetes, Annulation(q) PROVE UNCHANGED <<soldeCoffre, soldeCaisse, flux>>
    BY <1>3 DEF Annulation
<1>4. ASSUME NEW q \in Requetes, Appel(q) PROVE UNCHANGED <<soldeCoffre, soldeCaisse, flux>>
    BY <1>4 DEF Appel, ValiderLire, AnnulerLire, ExecLire, OpLire
<1>5. ASSUME NEW q \in Requetes, Progression(q)
      PROVE  Liquidites' - flux' = Liquidites - flux
    <2>1. CASE ExecCommit(q) \/ OpCommit(q)
        BY <2>1, ExecCommitLiquidite, OpCommitLiquidite
    <2>2. CASE ~(ExecCommit(q) \/ OpCommit(q))
        BY <1>1, <1>3, <1>5, <2>2 DEF Progression, ValiderEcrire, AnnulerEcrire, ExecVerrouCoffre, ExecRefusCoffre,
           ExecVerrouCaisse, ExecRefusCaisse, ExecPartage, ExecVerrouSession, ExecRefusSession,
           OpPartage, OpVerrouSession, OpRefus
    <2> QED BY <2>1, <2>2
<1> QED BY <1>1, <1>2, <1>3, <1>4, <1>5 DEF Next, CreerTransfert, NouveauJour, Panne, Interblocage

(* Whatever handlers overlap, fail or are rolled back, vault and tills     *)
(* together hold what they held at the start and what came from outside.   *)
THEOREM LiquiditeToujours == ASSUME Clotures = {FALSE} PROVE Spec => []LiquiditeConservee
<1> DEFINE Compte == /\ Liquidites - flux = SoldeCoffreInitial + Cardinality(Caisses) * SoldeCaisseInitial
                     /\ Liquidites \in Int
<1>1. Init => Compte
    <2> SUFFICES ASSUME Init PROVE Compte
        OBVIOUS
    <2>1. SumFunctionOnSet(soldeCaisse, Caisses) = Cardinality(Caisses) * SoldeCaisseInitial
        BY ConstantesOK, SommeConstante DEF Init
    <2>2. IInv /\ SumFunctionOnSet(soldeCaisse, Caisses) \in Int
        BY InitIInv, LiquiditeType DEF IInv
    <2> QED BY <2>1, <2>2 DEF Init, Liquidites, IInv, TypeOK
<1>2. Compte /\ IInv /\ IInv' /\ [Next]_vars => Compte'
    <2> SUFFICES ASSUME Compte, IInv, IInv', [Next]_vars PROVE Compte'
        OBVIOUS
    <2>1. Liquidites' \in Int
        <3>1. TypeOK'
            BY DEF IInv
        <3>2. SumFunctionOnSet(soldeCaisse', Caisses) \in Int
            BY <3>1, ConstantesOK, SommeType DEF TypeOK
        <3> QED BY <3>1, <3>2 DEF Liquidites, TypeOK
    <2> QED BY <2>1, PasLiquidite
<1>3. Compte /\ IInv => LiquiditeConservee
    <2> SUFFICES ASSUME Compte, IInv PROVE LiquiditeConservee
        OBVIOUS
    <2>1. SumFunction(soldeCaisse) = SumFunctionOnSet(soldeCaisse, Caisses)
        BY DEF SumFunction, IInv, TypeOK
    <2>2. Cardinality(Caisses) * SoldeCaisseInitial \in Int
        BY ConstantesOK, FS_CardinalityType
    <2> QED BY <2>1, <2>2, ConstantesOK DEF Liquidites, LiquiditeConservee, IInv, TypeOK
<1> HIDE DEF Compte
<1> QED BY <1>1, <1>2, <1>3, InvarianceIInv, PTL DEF Spec
=============================================================================
