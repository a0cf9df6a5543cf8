------------------------ MODULE PaiementMobileProofs ------------------------
(***************************************************************************)
(* Theorems about PaiementMobile, for any number of payments, events and   *)
(* handlers.  A handler acts on what it read before it awaited something,  *)
(* and nothing stops another from rewriting the row meanwhile: the         *)
(* invariant is what a waiting handler may still rely on.                  *)
(***************************************************************************)
EXTENDS PaiementMobile, Sommes

Existe(i) == statut[i] # "ABSENT"

(* pawaPay, or an administrator, says that the payment was made.           *)
Paye(i) == operateur[i] = "COMPLETED" \/ i \in decides

TypeEvenement == [i : Intentions, brut : {"ACCEPTED", "COMPLETED", "FAILED"}, traite : BOOLEAN]

(* What a handler that has reached step e with the context c relies on.    *)
EtatOK(e, c) ==
    /\ e \notin {"libre", "liste"} => c.i \in Intentions /\ Existe(c.i)
    /\ e = "appel" => operateur[c.i] = "INCONNU"
    /\ e = "ecrire" => c.cible \in Statuts \ {"SUCCESS"}
    /\ e = "regler" => Paye(c.i)
    /\ e = "regle" => Cle(c.i) \in ecritures
    /\ c.ev # AUCUN => c.ev \in Evenements /\ evenements[c.ev] \in TypeEvenement
    /\ e = "marquer" => c.ev # AUCUN

(* What the columns of a row and its movements tell of each other.         *)
LigneOK(i) ==
    /\ Existe(i) => fiche[i] \in Fiches
    /\ ~Existe(i) => operateur[i] = "INCONNU" /\ decaissement[i] = "WAITING"
    /\ \A t \in Types : <<t, i>> \in ecritures => Existe(i) /\ t = fiche[i].type /\ Paye(i)
    /\ statut[i] = "SUCCESS" \/ decaissement[i] = "COMPLETED" => Cle(i) \in ecritures

(* The call of pawaPay for a row is made by one handler.                   *)
AppelSeul ==
    \A a, b \in Acteurs :
        etape[a] = "appel" /\ etape[b] = "appel" /\ req[a].i = req[b].i => a = b

IInv ==
    /\ TypeOK
    /\ \A i \in Intentions : LigneOK(i)
    /\ \A a \in Acteurs : EtatOK(etape[a], req[a])
    /\ AppelSeul
    /\ \A e \in Evenements : evenements[e] \in TypeEvenement => Existe(evenements[e].i)
    /\ \A a \in {Recon, Expi} : \A i \in reste[a] : Existe(i)
-----------------------------------------------------------------------------
(***************************************************************************)
(* Helpers.                                                                *)
(***************************************************************************)
LEMMA FicheType ==
    ASSUME NEW f \in Fiches
    PROVE  /\ f.type \in Types /\ f.montant \in Nat
           /\ DeltaCompte(f) \in Int /\ DeltaCaisse(f) \in Int
           /\ f.type = "COLLECTION" => DeltaCaisse(f) >= 0
<1>1. f.type \in Types /\ f.montant \in Montants
    BY DEF Fiches
<1>2. f.montant \in Nat /\ Frais \in Nat
    BY <1>1, ConstantesPaiement
<1>3. Brut(f) \in Nat /\ Net(f) \in Int
    BY <1>2 DEF Brut, Net
<1> QED BY <1>1, <1>2, <1>3 DEF DeltaCompte, DeltaCaisse

(* What a handler remembers is typed.                                      *)
LEMMA ContexteType ==
    ASSUME NEW i \in Intentions \cup {AUCUN}, NEW c \in Statuts \cup {AUCUN},
           NEW e \in Evenements \cup {AUCUN}
    PROVE  /\ Contexte(i, c, e) \in Contextes
           /\ Contexte(i, c, e).i = i /\ Contexte(i, c, e).cible = c /\ Contexte(i, c, e).ev = e
BY DEF Contexte, Contextes

(* So is what a handler at rest remembers.                                 *)
LEMMA ContexteVideType == ContexteVide \in Contextes /\ ContexteVide.ev = AUCUN
BY DEF Contexte, Contextes, ContexteVide

(* The statuses in their words and in ours.                                *)
LEMMA Normalises ==
    ASSUME NEW s
    PROVE  /\ Normaliser(s) \in {"SUCCESS", "FAILED", "PENDING"}
           /\ Normaliser(s) = "SUCCESS" => s = "COMPLETED"
           /\ StatutWebhook(s) # "SUCCESS"
BY DEF Normaliser, StatutWebhook

(* What handlers have read stays true: rows stay, with their columns; a    *)
(* movement stays; a payment that was made has been made.                  *)
Stable ==
    /\ \A i \in Intentions : Existe(i) => Existe(i)' /\ fiche'[i] = fiche[i]
    /\ ecritures \subseteq ecritures'
    /\ \A i \in Intentions : Existe(i) /\ Paye(i) => Paye(i)'
    /\ \A e \in Evenements : evenements[e] \in TypeEvenement => evenements'[e] \in TypeEvenement

(* A handler that does nothing while another changes the rows.             *)
LEMMA AutreActeur ==
    ASSUME IInv, Stable, NEW e, NEW c, EtatOK(e, c),
           e = "appel" => operateur'[c.i] = operateur[c.i]
    PROVE  EtatOK(e, c)'
BY DEF Stable, EtatOK, Existe, Cle

(* A handler moves on, and no row changes.                                 *)
LEMMA Avancer ==
    ASSUME IInv, NEW a \in Acteurs, NEW e \in Etapes \ {"appel"}, NEW c \in Contextes,
           Attendre(a, e, c),
           UNCHANGED <<varsIntention, varsArgent, operateur, decides>>,
           EtatOK(e, c)',
           evenements' \in [Evenements -> TypeEvenement \cup {AUCUN}],
           \A x \in Evenements :
               /\ evenements[x] \in TypeEvenement => evenements'[x] \in TypeEvenement
               /\ evenements'[x] \in TypeEvenement => Existe(evenements'[x].i),
           reste' \in [{Recon, Expi} -> SUBSET Intentions],
           \A x \in {Recon, Expi} : \A i \in reste'[x] : Existe(i)
    PROVE  IInv'
<1> USE DEF varsIntention, varsArgent
<1>1. TypeOK'
    BY DEF IInv, TypeOK, Attendre, TypeEvenement
<1>2. \A i \in Intentions : LigneOK(i)'
    BY DEF IInv, LigneOK, Existe, Paye, Cle
<1>3. Stable
    BY DEF Stable, Existe, Paye
<1>4. ASSUME NEW b \in Acteurs PROVE EtatOK(etape[b], req[b])'
    <2>1. CASE b = a
        BY <2>1 DEF Attendre, IInv, TypeOK
    <2>2. CASE b # a
        <3>1. etape'[b] = etape[b] /\ req'[b] = req[b]
            BY <2>2 DEF Attendre, IInv, TypeOK
        <3>2. EtatOK(etape[b], req[b])
            BY DEF IInv
        <3> QED BY <3>1, <3>2, <1>3, AutreActeur DEF EtatOK, Existe, Paye, Cle, Stable
    <2> QED BY <2>1, <2>2
<1>5. AppelSeul'
    BY DEF IInv, AppelSeul, Attendre, TypeOK
<1>6. (\A x \in Evenements : evenements[x] \in TypeEvenement => Existe(evenements[x].i))'
    BY DEF Existe
<1>7. (\A x \in {Recon, Expi} : \A i \in reste[x] : Existe(i))'
    BY DEF Existe
<1> QED BY <1>1, <1>2, <1>4, <1>5, <1>6, <1>7 DEF IInv

(* An actor goes to another step and writes nothing.                       *)
LEMMA AvancerSeul ==
    ASSUME IInv, NEW a \in Acteurs, NEW e \in Etapes \ {"appel"}, NEW c \in Contextes,
           Attendre(a, e, c),
           UNCHANGED <<varsIntention, varsArgent, operateur, evenements, reste>>,
           UNCHANGED decides, EtatOK(e, c)
    PROVE  IInv'
<1>1. EtatOK(e, c)'
    BY DEF EtatOK, Existe, Paye, Cle, varsIntention, varsArgent
<1>2. /\ evenements' \in [Evenements -> TypeEvenement \cup {AUCUN}]
      /\ reste' \in [{Recon, Expi} -> SUBSET Intentions]
    BY DEF IInv, TypeOK, TypeEvenement
<1> QED BY <1>1, <1>2, Avancer DEF IInv

(* After an intention an actor is free, or goes on with its list.          *)
LEMMA SuiteEtat ==
    ASSUME NEW a \in Acteurs, Suite(a)
    PROVE  \E e \in {"libre", "liste"} : Attendre(a, e, ContexteVide) /\ EtatOK(e, ContexteVide)
BY ContexteVideType DEF Suite, EtatOK

-----------------------------------------------------------------------------
(***************************************************************************)
(* Reads, answers and refusals: only the handler moves.                    *)
(***************************************************************************)
Donnees == <<varsIntention, varsArgent, operateur, evenements, reste, decides>>

(* An actor moves while the data stay.                                     *)
LEMMA Deplacer ==
    ASSUME IInv, NEW a \in Acteurs, UNCHANGED Donnees,
           NEW e \in Etapes \ {"appel"}, NEW c \in Contextes, Attendre(a, e, c), EtatOK(e, c)
    PROVE  IInv'
BY AvancerSeul DEF Donnees

(* An actor has done with an intention while the data stay.                *)
LEMMA DeplacerSuite ==
    ASSUME IInv, NEW a \in Acteurs, UNCHANGED Donnees, Suite(a)
    PROVE  IInv'
<1>1. PICK e \in {"libre", "liste"} : Attendre(a, e, ContexteVide) /\ EtatOK(e, ContexteVide)
    BY SuiteEtat
<1> QED BY <1>1, Deplacer, ContexteVideType DEF Etapes

(* An actor stops while the data stay.                                     *)
LEMMA DeplacerLibre ==
    ASSUME IInv, NEW a \in Acteurs, UNCHANGED Donnees, Attendre(a, "libre", ContexteVide)
    PROVE  IInv'
<1>1. EtatOK("libre", ContexteVide)
    BY ContexteVideType DEF EtatOK
<1> QED BY <1>1, Deplacer, ContexteVideType DEF Etapes

(* A handler starts on a row that exists, or goes on with it.              *)
LEMMA DeplacerVers ==
    ASSUME IInv, NEW a \in Acteurs, UNCHANGED Donnees, NEW i \in Intentions, Existe(i),
           NEW e \in {"sonder", "enFile", "regler", "ecrire"}, NEW s \in Statuts \cup {AUCUN},
           e = "ecrire" => s \in Statuts \ {"SUCCESS"}, e = "regler" => Paye(i),
           Attendre(a, e, Contexte(i, s, AUCUN))
    PROVE  IInv'
<1>1. EtatOK(e, Contexte(i, s, AUCUN)) /\ Contexte(i, s, AUCUN) \in Contextes
    BY ContexteType DEF EtatOK
<1> QED BY <1>1, Deplacer DEF Etapes

(* The answer to a status request.                                         *)
LEMMA RepondreOK ==
    ASSUME IInv, NEW a \in Acteurs, UNCHANGED Donnees, NEW i \in Intentions, Existe(i), Repondre(a, i)
    PROVE  IInv'
<1>1. CASE StatutLu(i) = "SUCCESS"
    <2>1. Attendre(a, "regler", Contexte(i, AUCUN, AUCUN)) /\ Paye(i)
        BY <1>1, Normalises DEF Repondre, Paye, StatutLu
    <2> QED BY <2>1, DeplacerVers
<1>2. CASE StatutLu(i) = "FAILED"
    <2>1. Attendre(a, "ecrire", Contexte(i, "FAILED", AUCUN))
        BY <1>2 DEF Repondre
    <2> QED BY <2>1, DeplacerVers DEF Statuts, Terminaux
<1>3. CASE StatutLu(i) \notin {"SUCCESS", "FAILED"}
    <2>1. Suite(a)
        BY <1>3 DEF Repondre
    <2> QED BY <2>1, DeplacerSuite
<1> QED BY <1>1, <1>2, <1>3

(* A request reads an intention.                                           *)
LEMMA LecturesOK ==
    ASSUME IInv, NEW q \in Requetes, NEW i \in Intentions,
           Sonder(q, i) \/ AnnulerLire(q, i) \/ EnFileLire(q, i)
    PROVE  IInv'
<1>0. q \in Acteurs /\ AUCUN \in Statuts \cup {AUCUN} /\ "CANCELLED" \in Statuts \ {"SUCCESS"}
    BY DEF Acteurs, Statuts, Terminaux
<1>1. CASE Sonder(q, i)
    BY <1>0, <1>1, DeplacerVers DEF Sonder, Donnees, Existe
<1>2. CASE AnnulerLire(q, i)
    BY <1>0, <1>2, DeplacerVers DEF AnnulerLire, Donnees, Existe
<1>3. CASE EnFileLire(q, i)
    BY <1>0, <1>3, DeplacerVers DEF EnFileLire, Donnees, Existe
<1> QED BY <1>1, <1>2, <1>3

(* The answer to the polling, or a cancellation that comes too late,       *)
(* writes nothing.                                                         *)
LEMMA SondageOK ==
    ASSUME IInv, NEW q \in Requetes, SondageRepondu(q) \/ AnnulationRefusee(q)
    PROVE  IInv'
<1>0. q \in Acteurs
    BY DEF Acteurs
<1>1. CASE SondageRepondu(q)
    <2>1. req[q].i \in Intentions /\ Existe(req[q].i)
        BY <1>0, <1>1 DEF SondageRepondu, IInv, EtatOK
    <2> QED BY <1>0, <1>1, <2>1, RepondreOK DEF SondageRepondu, Donnees
<1>2. CASE AnnulationRefusee(q)
    BY <1>0, <1>2, DeplacerLibre DEF AnnulationRefusee, Donnees
<1> QED BY <1>1, <1>2

(* The settlement is refused, and the row keeps its status.                *)
LEMMA ReglementRefuseOK ==
    ASSUME IInv, NEW a \in Acteurs, ReglementRefuse(a)
    PROVE  IInv'
BY DeplacerSuite DEF ReglementRefuse, Donnees
-----------------------------------------------------------------------------
(***************************************************************************)
(* Webhooks: a new event, and the step its status leads to.                *)
(***************************************************************************)
(* An event is added, or marked, and row i answers for it.                 *)
LEMMA EvenementAjoute ==
    ASSUME IInv, NEW e \in Evenements, NEW v \in TypeEvenement, Existe(v.i),
           evenements' = [evenements EXCEPT ![e] = v]
    PROVE  /\ evenements' \in [Evenements -> TypeEvenement \cup {AUCUN}]
           /\ evenements'[e] = v
           /\ \A x \in Evenements :
                 /\ evenements[x] \in TypeEvenement => evenements'[x] \in TypeEvenement
                 /\ evenements'[x] \in TypeEvenement => Existe(evenements'[x].i)
<1>1. evenements \in [Evenements -> TypeEvenement \cup {AUCUN}]
    BY DEF IInv, TypeOK, TypeEvenement
<1>2. evenements' \in [Evenements -> TypeEvenement \cup {AUCUN}] /\ evenements'[e] = v
    BY <1>1
<1>4. ASSUME NEW x \in Evenements
      PROVE  /\ evenements[x] \in TypeEvenement => evenements'[x] \in TypeEvenement
             /\ evenements'[x] \in TypeEvenement => Existe(evenements'[x].i)
    <2>1. CASE x = e
        BY <2>1, <1>2
    <2>2. CASE x # e
        <3>1. evenements'[x] = evenements[x]
            BY <2>2, <1>1
        <3> QED BY <3>1 DEF IInv
    <2> QED BY <2>1, <2>2
<1> QED BY <1>2, <1>4

(* A callback is recorded and handled.                                     *)
LEMMA SuiteWebhookOK ==
    ASSUME IInv, NEW q \in Requetes, NEW i \in Intentions, Existe(i),
           NEW e \in Evenements, NEW v \in TypeEvenement, v.i = i,
           evenements' = [evenements EXCEPT ![e] = v],
           UNCHANGED <<varsIntention, varsArgent, operateur, decides, reste>>,
           SuiteWebhook(q, i, e)
    PROVE  IInv'
<1>0. q \in Acteurs
    BY DEF Acteurs
<1>1. /\ evenements' \in [Evenements -> TypeEvenement \cup {AUCUN}]
      /\ evenements'[e] \in TypeEvenement
      /\ \A x \in Evenements :
            /\ evenements[x] \in TypeEvenement => evenements'[x] \in TypeEvenement
            /\ evenements'[x] \in TypeEvenement => Existe(evenements'[x].i)
    BY EvenementAjoute
<1>2. /\ reste' \in [{Recon, Expi} -> SUBSET Intentions]
      /\ \A x \in {Recon, Expi} : \A j \in reste'[x] : Existe(j)
    BY DEF IInv, TypeOK
<1>3. SUFFICES ASSUME NEW et \in {"marquer", "ecrire", "libre"}, NEW c \in Contextes,
                      Attendre(q, et, c), EtatOK(et, c)'
               PROVE  IInv'
    <2>1. Existe(i)'
        BY DEF Existe, varsIntention
    <2>2. CASE Attendre(q, "marquer", Contexte(i, AUCUN, e))
        <3>1. Contexte(i, AUCUN, e) \in Contextes /\ Contexte(i, AUCUN, e).i = i /\ Contexte(i, AUCUN, e).ev = e
            BY ContexteType
        <3>2. EtatOK("marquer", Contexte(i, AUCUN, e))'
            BY <1>1, <2>1, <3>1, ConstantesPaiement DEF EtatOK
        <3> QED BY <2>2, <3>1, <3>2, <1>3
    <2>3. CASE Attendre(q, "ecrire", Contexte(i, "FAILED", e))
        <3>1. EtatOK("ecrire", Contexte(i, "FAILED", e))' /\ Contexte(i, "FAILED", e) \in Contextes
            BY <1>1, <2>1, ContexteType DEF EtatOK, Statuts, Terminaux
        <3> QED BY <2>3, <3>1, <1>3
    <2>4. CASE Attendre(q, "libre", ContexteVide)
        <3>1. EtatOK("libre", ContexteVide)'
            BY ContexteVideType DEF EtatOK
        <3> QED BY <2>4, <3>1, <1>3, ContexteVideType
    <2>5. StatutWebhook(evenements'[e].brut) # "SUCCESS"
        BY Normalises
    <2> QED BY <2>2, <2>3, <2>4, <2>5 DEF SuiteWebhook
<1>4. et \in Etapes \ {"appel"}
    BY <1>3 DEF Etapes
<1> QED BY <1>0, <1>1, <1>2, <1>3, <1>4, Avancer DEF TypeEvenement

(* A callback of the operator comes in.                                    *)
LEMMA RecevoirWebhookOK ==
    ASSUME IInv, NEW q \in Requetes, NEW e \in Evenements, NEW i \in Intentions,
           NEW brut \in {"ACCEPTED", "COMPLETED", "FAILED"}, RecevoirWebhook(q, e, i, brut)
    PROVE  IInv'
<1>1. Existe(i)
    BY DEF RecevoirWebhook, IInv, LigneOK
<1>2. [i |-> i, brut |-> brut, traite |-> FALSE] \in TypeEvenement
    BY DEF TypeEvenement
<1> QED BY <1>1, <1>2, SuiteWebhookOK DEF RecevoirWebhook

(* The event comes or changes, and every handler stays where it was.       *)
LEMMA EvenementSeul ==
    ASSUME IInv, NEW e \in Evenements, NEW v \in TypeEvenement, Existe(v.i),
           evenements' = [evenements EXCEPT ![e] = v],
           UNCHANGED <<varsIntention, varsArgent, operateur, decides, varsActeur>>
    PROVE  IInv'
<1> USE DEF varsIntention, varsArgent, varsActeur
<1>1. /\ evenements' \in [Evenements -> TypeEvenement \cup {AUCUN}]
      /\ \A x \in Evenements :
            /\ evenements[x] \in TypeEvenement => evenements'[x] \in TypeEvenement
            /\ evenements'[x] \in TypeEvenement => Existe(evenements'[x].i)
    BY EvenementAjoute
<1>2. TypeOK'
    BY <1>1 DEF IInv, TypeOK, TypeEvenement
<1>3. (\A i \in Intentions : LigneOK(i))'
    BY DEF IInv, LigneOK, Existe, Paye, Cle
<1>4. Stable
    BY <1>1 DEF Stable, Existe, Paye
<1>5. ASSUME NEW b \in Acteurs PROVE EtatOK(etape[b], req[b])'
    <2>1. EtatOK(etape[b], req[b])
        BY DEF IInv
    <2> QED BY <2>1, <1>4, AutreActeur DEF EtatOK, Existe, Paye, Cle, Stable
<1>6. AppelSeul'
    BY DEF IInv, AppelSeul
<1>7. (\A x \in Evenements : evenements[x] \in TypeEvenement => Existe(evenements[x].i))'
    BY <1>1 DEF Existe
<1>8. (\A x \in {Recon, Expi} : \A i \in reste[x] : Existe(i))'
    BY DEF IInv, Existe
<1> QED BY <1>2, <1>3, <1>5, <1>6, <1>7, <1>8 DEF IInv

(* A callback that has come in is typed and names an intention.            *)
LEMMA EvenementType ==
    ASSUME IInv, NEW e \in Evenements, evenements[e] # AUCUN, NEW b \in BOOLEAN
    PROVE  /\ evenements[e] \in TypeEvenement /\ Existe(evenements[e].i)
           /\ [evenements[e] EXCEPT !.traite = b] \in TypeEvenement
           /\ [evenements[e] EXCEPT !.traite = b].i = evenements[e].i
<1>1. evenements[e] \in TypeEvenement /\ Existe(evenements[e].i)
    BY DEF IInv, TypeOK, TypeEvenement
<1> QED BY <1>1 DEF TypeEvenement

(* A recorded callback is played again.                                    *)
LEMMA RejouerOK ==
    ASSUME IInv, NEW q \in Requetes, NEW e \in Evenements, NEW n \in Evenements, Rejouer(q, e, n)
    PROVE  IInv'
<1> DEFINE v == [evenements[e] EXCEPT !.traite = ~Sandbox]
<1>1. /\ evenements[e] \in TypeEvenement /\ Existe(evenements[e].i)
      /\ v \in TypeEvenement /\ v.i = evenements[e].i
    BY EvenementType, ConstantesPaiement DEF Rejouer
<1>2. evenements' = [evenements EXCEPT ![n] = v]
    BY DEF Rejouer
<1>3. evenements[e].i \in Intentions
    BY <1>1 DEF TypeEvenement
<1> HIDE DEF v
<1>4. CASE Sandbox
    BY <1>1, <1>2, <1>3, <1>4, SuiteWebhookOK DEF Rejouer
<1>5. CASE ~Sandbox
    BY <1>1, <1>2, <1>3, <1>5, EvenementSeul DEF Rejouer, varsActeur
<1> QED BY <1>4, <1>5

(* A callback that was never processed is closed.                          *)
LEMMA PerimerOK ==
    ASSUME IInv, NEW e \in Evenements, Perimer(e)
    PROVE  IInv'
<1> DEFINE v == [evenements[e] EXCEPT !.traite = TRUE]
<1>1. v \in TypeEvenement /\ Existe(v.i)
    BY EvenementType DEF Perimer
<1>2. evenements' = [evenements EXCEPT ![e] = v]
    BY DEF Perimer, IInv, TypeOK
<1> HIDE DEF v
<1> QED BY <1>1, <1>2, EvenementSeul DEF Perimer
-----------------------------------------------------------------------------
(***************************************************************************)
(* Steps that change a row: one handler moves, the others keep what they   *)
(* rely on.                                                                *)
(***************************************************************************)
LEMMA UnPas ==
    ASSUME IInv, NEW a \in Acteurs, NEW e \in Etapes, NEW c \in Contextes,
           Attendre(a, e, c), TypeOK', Stable, (\A i \in Intentions : LigneOK(i))', EtatOK(e, c)',
           \A b \in Acteurs \ {a} : etape[b] = "appel" =>
               /\ operateur'[req[b].i] = operateur[req[b].i]
               /\ e = "appel" => req[b].i # c.i,
           (\A x \in Evenements : evenements[x] \in TypeEvenement => Existe(evenements[x].i))',
           (\A x \in {Recon, Expi} : \A i \in reste[x] : Existe(i))'
    PROVE  IInv'
<1>1. etape'[a] = e /\ req'[a] = c
    BY DEF Attendre, IInv, TypeOK
<1>2. \A b \in Acteurs \ {a} : etape'[b] = etape[b] /\ req'[b] = req[b]
    BY DEF Attendre, IInv, TypeOK
<1>3. ASSUME NEW b \in Acteurs PROVE EtatOK(etape[b], req[b])'
    <2>1. CASE b = a
        BY <2>1, <1>1 DEF EtatOK
    <2>2. CASE b # a
        <3>1. EtatOK(etape[b], req[b])
            BY DEF IInv
        <3>2. EtatOK(etape[b], req[b]) => (etape[b] = "appel" =>
                                              operateur'[req[b].i] = operateur[req[b].i])
            BY <2>2
        <3>3. PICK e1 \in Etapes, c1 \in Contextes : etape[b] = e1 /\ req[b] = c1
            BY DEF IInv, TypeOK
        <3>4. EtatOK(e1, c1)'
            BY <3>1, <3>2, <3>3, AutreActeur
        <3>5. etape'[b] = e1 /\ req'[b] = c1
            BY <3>3, <1>2, <2>2
        <3> QED BY <3>4, <3>5 DEF EtatOK
    <2> QED BY <2>1, <2>2
<1>4. AppelSeul'
    BY <1>1, <1>2 DEF IInv, AppelSeul
<1> QED BY <1>3, <1>4 DEF IInv

(* Every row but i is as it was.                                           *)
LEMMA LignesOK ==
    ASSUME IInv, NEW i \in Intentions, LigneOK(i)',
           \A j \in Intentions \ {i} :
               /\ statut'[j] = statut[j] /\ fiche'[j] = fiche[j]
               /\ operateur'[j] = operateur[j] /\ decaissement'[j] = decaissement[j]
               /\ j \in decides => j \in decides'
               /\ \A t \in Types : <<t, j>> \in ecritures' <=> <<t, j>> \in ecritures
    PROVE  (\A j \in Intentions : LigneOK(j))'
<1>1. ASSUME NEW j \in Intentions \ {i} PROVE LigneOK(j)'
    <2>1. LigneOK(j)
        BY DEF IInv
    <2>2. (statut[j] = "SUCCESS" \/ decaissement[j] = "COMPLETED" => Cle(j) \in ecritures)'
        <3>1. statut[j] = "SUCCESS" \/ decaissement[j] = "COMPLETED" => Cle(j) \in ecritures
            BY <2>1 DEF LigneOK
        <3>2. Cle(j) \in ecritures => \E t \in Types : Cle(j) = <<t, j>>
            BY DEF IInv, TypeOK, Cle
        <3> QED BY <3>1, <3>2 DEF Cle
    <2> QED BY <2>1, <2>2 DEF LigneOK, Existe, Paye
<1> QED BY <1>1
(* After its write a handler marks its event or goes on.                   *)
LEMMA SuiteOuMarquer ==
    ASSUME IInv, Stable, NEW a \in Acteurs, etape[a] \notin {"libre", "liste"},
           IF req[a].ev # AUCUN THEN Attendre(a, "marquer", req[a]) ELSE Suite(a)
    PROVE  \E e \in {"marquer", "libre", "liste"}, c \in Contextes :
               Attendre(a, e, c) /\ EtatOK(e, c)'
<1>1. EtatOK(etape[a], req[a]) /\ req[a] \in Contextes
    BY DEF IInv, TypeOK
<1>2. CASE req[a].ev # AUCUN
    <2>1. PICK c \in Contextes : c = req[a]
        BY <1>1
    <2>2. c.i \in Intentions /\ Existe(c.i) /\ c.ev \in Evenements
        BY <1>1, <1>2, <2>1 DEF EtatOK, Contextes
    <2>3. Existe(c.i)' /\ evenements'[c.ev] \in TypeEvenement
        BY <1>1, <1>2, <2>1, <2>2 DEF Stable, EtatOK
    <2>4. EtatOK("marquer", c)'
        BY <1>2, <2>1, <2>2, <2>3 DEF EtatOK
    <2> QED BY <1>2, <2>1, <2>4
<1>3. CASE req[a].ev = AUCUN
    <2>1. PICK e \in {"libre", "liste"} : Attendre(a, e, ContexteVide)
        BY <1>3 DEF Suite
    <2>2. EtatOK(e, ContexteVide)'
        BY <2>1, ContexteVideType DEF EtatOK
    <2> QED BY <2>1, <2>2, ContexteVideType
<1> QED BY <1>2, <1>3

(* An actor writes the status it decided on, if the row still allows it.   *)
LEMMA EcrireStatutOK ==
    ASSUME IInv, NEW a \in Acteurs, EcrireStatut(a)
    PROVE  IInv'
<1>1. PICK i \in Intentions :
      /\ i = req[a].i /\ Existe(i) /\ LigneOK(i)
      /\ req[a].cible \in Statuts \ {"SUCCESS"}
    BY DEF EcrireStatut, IInv, EtatOK
<1>2. statut' = [statut EXCEPT ![i] = req[a].cible] /\ etape[a] = "ecrire"
    BY <1>1 DEF EcrireStatut
<1>3. UNCHANGED <<fiche, age, decaissement, varsArgent, operateur, evenements, decides, reste>>
    BY DEF EcrireStatut
<1>4. \A j \in Intentions : statut'[j] = IF j = i THEN req[a].cible ELSE statut[j]
    BY <1>2 DEF IInv, TypeOK
<1>5. \A j \in Intentions : Existe(j) => Existe(j)'
    BY <1>1, <1>4 DEF Existe, Statuts, Terminaux
<1>6. Stable
    BY <1>3, <1>5 DEF Stable, Paye, varsArgent
<1>7. PICK e \in {"marquer", "libre", "liste"}, c \in Contextes : Attendre(a, e, c) /\ EtatOK(e, c)'
    BY <1>2, <1>6, SuiteOuMarquer DEF EcrireStatut
<1>8. TypeOK'
    BY <1>1, <1>2, <1>3, <1>7 DEF IInv, TypeOK, Attendre, varsArgent, Etapes
<1>9. LigneOK(i)'
    BY <1>1, <1>3, <1>4, <1>5 DEF LigneOK, Existe, Paye, Cle, varsArgent
<1>10. (\A j \in Intentions : LigneOK(j))'
    BY <1>1, <1>3, <1>4, <1>9, LignesOK DEF varsArgent
<1>11. (\A x \in Evenements : evenements[x] \in TypeEvenement => Existe(evenements[x].i))'
    BY <1>3, <1>5 DEF IInv, TypeEvenement
<1>12. (\A x \in {Recon, Expi} : \A j \in reste[x] : Existe(j))'
    BY <1>3, <1>5 DEF IInv, TypeOK
<1>13. e \in Etapes /\ e # "appel"
    BY DEF Etapes
<1> QED BY <1>3, <1>6, <1>7, <1>8, <1>10, <1>11, <1>12, <1>13, UnPas

(* The ledger and the till are written for a payment that succeeded.       *)
LEMMA ReglerOK ==
    ASSUME IInv, NEW a \in Acteurs, Regler(a)
    PROVE  IInv'
<1>1. PICK i \in Intentions :
          i = req[a].i /\ Existe(i) /\ LigneOK(i) /\ Paye(i) /\ EtatOK("regler", req[a])
    BY DEF Regler, IInv, EtatOK
<1>2. /\ statut' = [statut EXCEPT ![i] = "SUCCESS"] /\ ecritures' = ecritures \cup {Cle(i)}
      /\ solde' = solde + DeltaCompte(fiche[i]) /\ caisse' = CaisseApres(fiche[i])
      /\ Attendre(a, "regle", req[a])
    BY <1>1 DEF Regler
<1>3. UNCHANGED <<fiche, age, decaissement, operateur, evenements, decides, reste>>
    BY DEF Regler
<1>4. \A j \in Intentions : statut'[j] = IF j = i THEN "SUCCESS" ELSE statut[j]
    BY <1>2 DEF IInv, TypeOK
<1>5. \A j \in Intentions : Existe(j) => Existe(j)'
    BY <1>4 DEF Existe
<1>6. Stable
    BY <1>2, <1>3, <1>5 DEF Stable, Paye
<1>7. fiche[i] \in Fiches
    BY <1>1 DEF LigneOK
<1>8. /\ fiche[i].type \in Types /\ DeltaCompte(fiche[i]) \in Int /\ DeltaCaisse(fiche[i]) \in Int
    BY <1>7, FicheType
<1>9. TypeOK'
    <2>1. solde' \in Int /\ caisse' \in Int
        BY <1>2, <1>8 DEF CaisseApres, IInv, TypeOK
    <2>2. ecritures' \subseteq Types \X Intentions
        BY <1>1, <1>2, <1>8 DEF Cle, IInv, TypeOK
    <2> QED BY <1>2, <1>3, <2>1, <2>2 DEF IInv, TypeOK, Attendre, Etapes, Statuts, Terminaux
<1>10. Cle(i)' = Cle(i) /\ Cle(i) = <<fiche[i].type, i>>
    BY <1>3 DEF Cle
<1>11. \A t \in Types, j \in Intentions :
          <<t, j>> \in ecritures' <=> <<t, j>> \in ecritures \/ (j = i /\ t = fiche[i].type)
    BY <1>2, <1>10
<1>12. LigneOK(i)'
    BY <1>1, <1>2, <1>3, <1>5, <1>7, <1>10, <1>11 DEF LigneOK, Existe, Paye
<1>13. (\A j \in Intentions : LigneOK(j))'
    BY <1>1, <1>3, <1>4, <1>11, <1>12, LignesOK
<1>14. EtatOK("regle", req[a])'
    <2>1. PICK c \in Contextes : c = req[a]
        BY DEF IInv, TypeOK
    <2>2. EtatOK("regle", c)'
        BY <1>1, <1>2, <1>3, <1>5, <1>10, <2>1 DEF EtatOK, Cle
    <2>3. req'[a] = c
        BY <1>2, <2>1 DEF Attendre, IInv, TypeOK
    <2> QED BY <2>2, <2>3
<1>15. (\A x \in Evenements : evenements[x] \in TypeEvenement => Existe(evenements[x].i))'
    BY <1>3, <1>5 DEF IInv, TypeEvenement
<1>16. (\A x \in {Recon, Expi} : \A j \in reste[x] : Existe(j))'
    BY <1>3, <1>5 DEF IInv, TypeOK
<1>17. PICK c \in Contextes : c = req[a]
    BY DEF IInv, TypeOK
<1>18. EtatOK("regle", c)' /\ Attendre(a, "regle", c)
    <2>1. req'[a] = c
        BY <1>2, <1>17 DEF Attendre, IInv, TypeOK
    <2> QED BY <1>2, <1>14, <1>17, <2>1
<1>19. "regle" \in Etapes
    BY DEF Etapes
<1> QED BY <1>3, <1>6, <1>9, <1>13, <1>15, <1>16, <1>17, <1>18, <1>19, UnPas

(* The hook of a credit runs.                                              *)
LEMMA ActiverCreditOK ==
    ASSUME IInv, NEW a \in Acteurs, ActiverCredit(a)
    PROVE  IInv'
<1>1. PICK i \in Intentions :
          i = req[a].i /\ Existe(i) /\ LigneOK(i) /\ Cle(i) \in ecritures
    BY DEF ActiverCredit, IInv, EtatOK
<1>2. UNCHANGED <<statut, fiche, age, varsArgent, operateur, evenements, decides, reste>>
    BY DEF ActiverCredit
<1>3. \/ decaissement' = decaissement
      \/ \E d \in {"COMPLETED", "FAILED"} : decaissement' = [decaissement EXCEPT ![i] = d]
    BY <1>1 DEF ActiverCredit
<1>4. Stable
    BY <1>2 DEF Stable, Existe, Paye, varsArgent
<1>5. PICK e \in {"marquer", "libre", "liste"}, c \in Contextes : Attendre(a, e, c) /\ EtatOK(e, c)'
    BY <1>4, SuiteOuMarquer DEF ActiverCredit
<1>6. TypeOK'
    BY <1>2, <1>3, <1>5 DEF IInv, TypeOK, Attendre, varsArgent, Etapes
<1>7. LigneOK(i)'
    BY <1>1, <1>2 DEF LigneOK, Existe, Paye, Cle, varsArgent
<1>8. \A j \in Intentions \ {i} : decaissement'[j] = decaissement[j]
    BY <1>3 DEF IInv, TypeOK
<1>9. (\A j \in Intentions : LigneOK(j))'
    BY <1>2, <1>7, <1>8, LignesOK DEF varsArgent
<1>10. (\A x \in Evenements : evenements[x] \in TypeEvenement => Existe(evenements[x].i))'
    BY <1>2 DEF IInv, Existe
<1>11. (\A x \in {Recon, Expi} : \A j \in reste[x] : Existe(j))'
    BY <1>2 DEF IInv, Existe
<1>12. e \in Etapes /\ e # "appel"
    BY DEF Etapes
<1> QED BY <1>2, <1>4, <1>5, <1>6, <1>9, <1>10, <1>11, <1>12, UnPas

(* A callback is marked as handled.                                        *)
LEMMA MarquerOK ==
    ASSUME IInv, NEW q \in Requetes, Marquer(q)
    PROVE  IInv'
<1>0. q \in Acteurs
    BY DEF Acteurs
<1>1. PICK i \in Intentions : i = req[q].i /\ Existe(i) /\ LigneOK(i)
    BY <1>0 DEF Marquer, IInv, EtatOK
<1>2. PICK x \in Evenements : x = req[q].ev /\ evenements[x] \in TypeEvenement
    BY <1>0 DEF Marquer, IInv, EtatOK
<1>3. UNCHANGED <<statut, fiche, age, varsArgent, operateur, decides, reste>>
    BY DEF Marquer
<1>4. decaissement' = decaissement \/ decaissement' = [decaissement EXCEPT ![i] = "FAILED"]
    BY <1>1 DEF Marquer
<1> DEFINE v == [evenements[x] EXCEPT !.traite = TRUE]
<1>5. v \in TypeEvenement /\ v.i = evenements[x].i
    BY <1>2 DEF TypeEvenement
<1>6. evenements' = [evenements EXCEPT ![x] = v]
    BY <1>2 DEF Marquer, IInv, TypeOK
<1> HIDE DEF v
<1>7. /\ evenements' \in [Evenements -> TypeEvenement \cup {AUCUN}]
      /\ \A y \in Evenements :
            /\ evenements[y] \in TypeEvenement => evenements'[y] \in TypeEvenement
            /\ evenements'[y] \in TypeEvenement => Existe(evenements'[y].i)
    <2>1. Existe(v.i)
        BY <1>2, <1>5 DEF IInv
    <2> QED BY <1>5, <1>6, <2>1, EvenementAjoute
<1>8. Stable
    BY <1>3, <1>7 DEF Stable, Existe, Paye, varsArgent
<1>9. PICK e \in {"libre", "liste"} : Attendre(q, e, ContexteVide) /\ e \in Etapes
    BY DEF Marquer, Suite, Etapes
<1>10. TypeOK'
    BY <1>0, <1>3, <1>4, <1>7, <1>9, ContexteVideType DEF IInv, TypeOK, Attendre, varsArgent, TypeEvenement
<1>11. \A j \in Intentions : decaissement'[j] = "COMPLETED" => decaissement[j] = "COMPLETED"
    BY <1>4 DEF IInv, TypeOK
<1>12. LigneOK(i)'
    BY <1>1, <1>3, <1>11 DEF LigneOK, Existe, Paye, Cle, varsArgent
<1>13. \A j \in Intentions \ {i} : decaissement'[j] = decaissement[j]
    BY <1>4 DEF IInv, TypeOK
<1>14. (\A j \in Intentions : LigneOK(j))'
    BY <1>3, <1>12, <1>13, LignesOK DEF varsArgent
<1>15. EtatOK(e, ContexteVide)'
    BY <1>9, ContexteVideType DEF EtatOK
<1>16. (\A y \in Evenements : evenements[y] \in TypeEvenement => Existe(evenements[y].i))'
    BY <1>3, <1>7 DEF Existe
<1>17. (\A y \in {Recon, Expi} : \A j \in reste[y] : Existe(j))'
    BY <1>3 DEF IInv, Existe
<1> QED BY <1>0, <1>3, <1>8, <1>9, <1>10, <1>14, <1>15, <1>16, <1>17, ContexteVideType, UnPas

-----------------------------------------------------------------------------
(***************************************************************************)
(* The request that creates the row, and what pawaPay and the              *)
(* administrator decide.                                                   *)
(***************************************************************************)
LEMMA CreerOK ==
    ASSUME IInv, NEW q \in Requetes, NEW i \in Intentions, NEW f \in Fiches, Creer(q, i, f)
    PROVE  IInv'
<1> DEFINE c == Contexte(i, AUCUN, AUCUN)
<1>0. q \in Acteurs
    BY DEF Acteurs
<1>1. /\ ~Existe(i) /\ LigneOK(i) /\ operateur[i] = "INCONNU"
      /\ statut' = [statut EXCEPT ![i] = "CREATED"] /\ fiche' = [fiche EXCEPT ![i] = f]
      /\ Attendre(q, "appel", c)
      /\ UNCHANGED <<age, decaissement, varsArgent, operateur, evenements, decides, reste>>
    BY DEF Creer, IInv, LigneOK, Existe
<1>2. \A j \in Intentions :
          /\ statut'[j] = IF j = i THEN "CREATED" ELSE statut[j]
          /\ fiche'[j] = IF j = i THEN f ELSE fiche[j]
    BY <1>1 DEF IInv, TypeOK
<1>3. \A j \in Intentions : Existe(j) => Existe(j)'
    BY <1>2 DEF Existe
<1>4. Existe(i)'
    BY <1>2 DEF Existe
<1>5. c \in Contextes /\ c.i = i /\ c.ev = AUCUN
    BY ContexteType
<1> HIDE DEF c
<1>6. Stable
    BY <1>1, <1>2, <1>3 DEF Stable, Paye, varsArgent
<1>7. TypeOK'
    BY <1>0, <1>1, <1>5 DEF IInv, TypeOK, Attendre, varsArgent, Etapes, Statuts
<1>8. LigneOK(i)'
    BY <1>1, <1>2, <1>4 DEF LigneOK, Existe, varsArgent
<1>9. (\A j \in Intentions : LigneOK(j))'
    BY <1>1, <1>2, <1>8, LignesOK DEF varsArgent
<1>10. EtatOK("appel", c)'
    BY <1>1, <1>4, <1>5 DEF EtatOK
<1>11. \A b \in Acteurs : etape[b] = "appel" => req[b].i # i
    BY <1>1 DEF IInv, EtatOK
<1>12. (\A y \in Evenements : evenements[y] \in TypeEvenement => Existe(evenements[y].i))'
    BY <1>1, <1>3 DEF IInv, TypeEvenement
<1>13. (\A y \in {Recon, Expi} : \A j \in reste[y] : Existe(j))'
    BY <1>1, <1>3 DEF IInv, TypeOK
<1> QED BY <1>0, <1>1, <1>5, <1>6, <1>7, <1>9, <1>10, <1>11, <1>12, <1>13, UnPas DEF Etapes

(* A payment is initiated.                                                 *)
LEMMA InitierOK ==
    ASSUME IInv, NEW q \in Requetes, NEW i \in Intentions, NEW t \in Types, NEW m \in Montants,
           NEW o \in Options, NEW c \in AvecCredit, NEW g \in AvecAgence, Initier(q, i, t, m, o, c, g)
    PROVE  IInv'
<1>1. [type |-> t, montant |-> m, option |-> o, credit |-> c, agence |-> g, origine |-> AUCUN] \in Fiches
    BY ConstantesPaiement DEF Fiches
<1> QED BY <1>1, CreerOK DEF Initier

(* A refund is created.                                                    *)
LEMMA RembourserOK ==
    ASSUME IInv, NEW q \in Requetes, NEW i \in Intentions, NEW o \in Intentions,
           NEW m \in Montants, Rembourser(q, i, o, m)
    PROVE  IInv'
<1>1. fiche[o] \in Fiches
    BY DEF Rembourser, IInv, LigneOK, Existe
<1>2. [type |-> "PAYOUT", montant |-> m, option |-> "SANS",
       credit |-> fiche[o].credit, agence |-> fiche[o].agence, origine |-> o] \in Fiches
    BY <1>1 DEF Fiches, Types
<1> QED BY <1>2, CreerOK DEF Rembourser

(* pawaPay learns of row i, or changes its mind, and one handler moves.    *)
LEMMA OperateurChange ==
    ASSUME IInv, NEW a \in Acteurs, NEW e \in Etapes \ {"appel"}, NEW c \in Contextes,
           Attendre(a, e, c), EtatOK(e, c)', NEW i \in Intentions, Existe(i),
           operateur[i] # "COMPLETED", NEW s \in {"ACCEPTED", "FAILED"},
           operateur' = operateur \/ operateur' = [operateur EXCEPT ![i] = s],
           \A b \in Acteurs \ {a} : etape[b] = "appel" => req[b].i # i,
           UNCHANGED <<varsIntention, varsArgent, evenements, decides, reste>>
    PROVE  IInv'
<1> USE DEF varsIntention, varsArgent
<1>1. \A j \in Intentions : j # i => operateur'[j] = operateur[j]
    BY DEF IInv, TypeOK
<1>2. Stable
    BY <1>1 DEF Stable, Existe, Paye
<1>3. TypeOK'
    BY DEF IInv, TypeOK, Attendre
<1>4. LigneOK(i)'
    <2>1. LigneOK(i)
        BY DEF IInv
    <2> QED BY <2>1 DEF LigneOK, Existe, Paye, Cle
<1>5. (\A j \in Intentions : LigneOK(j))'
    BY <1>1, <1>4, LignesOK
<1>6. \A b \in Acteurs \ {a} : etape[b] = "appel" => operateur'[req[b].i] = operateur[req[b].i]
    BY <1>1 DEF IInv, EtatOK
<1>7. (\A y \in Evenements : evenements[y] \in TypeEvenement => Existe(evenements[y].i))'
    BY DEF IInv, Existe
<1>8. (\A y \in {Recon, Expi} : \A j \in reste[y] : Existe(j))'
    BY DEF IInv, Existe
<1> QED BY <1>2, <1>3, <1>5, <1>6, <1>7, <1>8, UnPas

(* The call to the operator returns or fails.                              *)
LEMMA AppelOK ==
    ASSUME IInv, NEW q \in Requetes,
           AppelAccepte(q) \/ \E recu, mm \in BOOLEAN : AppelEchoue(q, recu, mm)
    PROVE  IInv'
<1>0. q \in Acteurs
    BY DEF Acteurs
<1>1. PICK i \in Intentions : i = req[q].i /\ Existe(i) /\ operateur[i] = "INCONNU" /\ etape[q] = "appel"
    BY <1>0 DEF AppelAccepte, AppelEchoue, IInv, EtatOK
<1>2. \A b \in Acteurs \ {q} : etape[b] = "appel" => req[b].i # i
    BY <1>0, <1>1 DEF IInv, AppelSeul
<1>3. /\ operateur' = operateur \/ operateur' = [operateur EXCEPT ![i] = "ACCEPTED"]
      /\ UNCHANGED <<varsIntention, varsArgent, evenements, decides, reste>>
    BY <1>1 DEF AppelAccepte, AppelEchoue
<1>4. Existe(i)'
    BY <1>1, <1>3 DEF Existe, varsIntention
<1>5. \E e \in {"ecrire", "libre"}, c \in Contextes : Attendre(q, e, c) /\ EtatOK(e, c)'
    <2>1. ASSUME NEW s \in {"PENDING", "FAILED"}, Attendre(q, "ecrire", Contexte(i, s, AUCUN))
          PROVE  \E e \in {"ecrire", "libre"}, c \in Contextes : Attendre(q, e, c) /\ EtatOK(e, c)'
        <3>1. s \in Statuts \ {"SUCCESS"}
            BY DEF Statuts, Terminaux
        <3>2. EtatOK("ecrire", Contexte(i, s, AUCUN))' /\ Contexte(i, s, AUCUN) \in Contextes
            BY <1>4, <3>1, ContexteType DEF EtatOK
        <3> QED BY <2>1, <3>2
    <2>2. ASSUME Attendre(q, "libre", ContexteVide)
          PROVE  \E e \in {"ecrire", "libre"}, c \in Contextes : Attendre(q, e, c) /\ EtatOK(e, c)'
        <3>1. EtatOK("libre", ContexteVide)'
            BY ContexteVideType DEF EtatOK
        <3> QED BY <2>2, <3>1, ContexteVideType
    <2>3. CASE AppelAccepte(q)
        BY <1>1, <2>1, <2>3 DEF AppelAccepte
    <2>4. CASE \E recu, mm \in BOOLEAN : AppelEchoue(q, recu, mm)
        BY <1>1, <2>1, <2>2, <2>4 DEF AppelEchoue
    <2> QED BY <2>3, <2>4
<1>6. PICK e \in {"ecrire", "libre"}, c \in Contextes : Attendre(q, e, c) /\ EtatOK(e, c)'
    BY <1>5
<1>7. e \in Etapes \ {"appel"}
    BY DEF Etapes
<1> QED BY <1>0, <1>1, <1>2, <1>3, <1>6, <1>7, OperateurChange

(* The operator fails a payout that waits in its queue.                    *)
LEMMA EnFileEchouerOK ==
    ASSUME IInv, NEW q \in Requetes, EnFileEchouer(q)
    PROVE  IInv'
<1>0. q \in Acteurs
    BY DEF Acteurs
<1>1. PICK c \in Contextes : c = req[q] /\ EtatOK("enFile", c)
    BY <1>0 DEF EnFileEchouer, IInv, TypeOK
<1>2. c.i \in Intentions /\ Existe(c.i) /\ operateur[c.i] = "ACCEPTED"
    BY <1>1 DEF EtatOK, EnFileEchouer
<1>3. \A b \in Acteurs : etape[b] = "appel" => req[b].i # c.i
    BY <1>2 DEF IInv, EtatOK
<1>4. /\ operateur' = [operateur EXCEPT ![c.i] = "FAILED"]
      /\ UNCHANGED <<varsIntention, varsArgent, evenements, decides, reste>>
      /\ Attendre(q, "annuler", c)
    BY <1>1 DEF EnFileEchouer
<1>5. EtatOK("annuler", c)'
    BY <1>1, <1>2, <1>4 DEF EtatOK, Existe, varsIntention
<1>6. "annuler" \in Etapes \ {"appel"}
    BY DEF Etapes
<1> QED BY <1>0, <1>2, <1>3, <1>4, <1>5, <1>6, OperateurChange

(* An administrator reconciles a payment by hand.                          *)
LEMMA ReconcilierOK ==
    ASSUME IInv, NEW q \in Requetes, NEW i \in Intentions, NEW ok \in BOOLEAN, Reconcilier(q, i, ok)
    PROVE  IInv'
<1>0. q \in Acteurs
    BY DEF Acteurs
<1>1. /\ Existe(i) /\ decides' = (IF ok THEN decides \cup {i} ELSE decides)
      /\ UNCHANGED <<varsIntention, varsArgent, operateur, evenements, reste>>
    BY DEF Reconcilier, Existe
<1> USE DEF varsIntention, varsArgent
<1>2. Stable
    BY <1>1 DEF Stable, Existe, Paye
<1>3. \E e \in {"regler", "ecrire"}, s \in (Statuts \ {"SUCCESS"}) \cup {AUCUN} :
          /\ Attendre(q, e, Contexte(i, s, AUCUN))
          /\ e = "ecrire" => s \in Statuts \ {"SUCCESS"}
          /\ e = "regler" => ok
    <2>1. "FAILED" \in Statuts \ {"SUCCESS"}
        BY DEF Statuts, Terminaux
    <2> QED BY <2>1 DEF Reconcilier
<1>4. PICK e \in {"regler", "ecrire"}, s \in (Statuts \ {"SUCCESS"}) \cup {AUCUN} :
          /\ Attendre(q, e, Contexte(i, s, AUCUN))
          /\ e = "ecrire" => s \in Statuts \ {"SUCCESS"}
          /\ e = "regler" => ok
    BY <1>3
<1> DEFINE c == Contexte(i, s, AUCUN)
<1>5. c \in Contextes /\ c.i = i /\ c.cible = s /\ c.ev = AUCUN
    BY ContexteType
<1>6. Attendre(q, e, c)
    BY <1>4
<1> HIDE DEF c
<1>7. EtatOK(e, c)'
    BY <1>1, <1>4, <1>5 DEF EtatOK, Existe, Paye
<1>8. TypeOK'
    BY <1>0, <1>1, <1>5, <1>6 DEF IInv, TypeOK, Attendre, Etapes
<1>9. (\A j \in Intentions : LigneOK(j))'
    BY <1>1 DEF IInv, LigneOK, Existe, Paye, Cle
<1>10. (\A y \in Evenements : evenements[y] \in TypeEvenement => Existe(evenements[y].i))'
    BY <1>1 DEF IInv, Existe
<1>11. (\A y \in {Recon, Expi} : \A j \in reste[y] : Existe(j))'
    BY <1>1 DEF IInv, Existe
<1>12. e \in Etapes /\ e # "appel"
    BY DEF Etapes
<1> QED BY <1>0, <1>1, <1>2, <1>5, <1>6, <1>7, <1>8, <1>9, <1>10, <1>11, <1>12, UnPas
-----------------------------------------------------------------------------
(***************************************************************************)
(* Crons, crashes and the outside.                                         *)
(***************************************************************************)
(* The list of a cron changes, no row does.                                *)
LEMMA ListeChange ==
    ASSUME IInv, NEW a \in Acteurs, NEW e \in Etapes \ {"appel"}, NEW c \in Contextes,
           Attendre(a, e, c), EtatOK(e, c),
           reste' \in [{Recon, Expi} -> SUBSET Intentions],
           \A x \in {Recon, Expi} : \A i \in reste'[x] : Existe(i),
           UNCHANGED <<varsIntention, varsArgent, operateur, evenements, decides>>
    PROVE  IInv'
<1>1. EtatOK(e, c)'
    BY DEF EtatOK, Existe, Paye, Cle, varsIntention, varsArgent
<1>2. evenements' \in [Evenements -> TypeEvenement \cup {AUCUN}]
    BY DEF IInv, TypeOK, TypeEvenement
<1> QED BY <1>1, <1>2, Avancer DEF IInv

(* A periodic task lists the payments it will visit.                       *)
LEMMA ListerOK ==
    ASSUME IInv, ReconLister \/ ExpiLister
    PROVE  IInv'
<1>1. PICK a \in {Recon, Expi}, liste \in SUBSET {i \in Intentions : statut[i] = "PENDING"} :
          /\ reste' = [reste EXCEPT ![a] = liste]
          /\ Attendre(a, "liste", ContexteVide)
          /\ UNCHANGED <<varsIntention, varsArgent, operateur, evenements, decides>>
    <2>1. CASE ReconLister
        <3>1. {i \in Intentions : statut[i] = "PENDING" /\ age[i] >= 1}
                 \in SUBSET {i \in Intentions : statut[i] = "PENDING"}
            OBVIOUS
        <3> QED BY <2>1, <3>1 DEF ReconLister
    <2>2. CASE ExpiLister
        <3>1. {i \in Intentions : statut[i] = "PENDING" /\ age[i] = 2}
                 \in SUBSET {i \in Intentions : statut[i] = "PENDING"}
            OBVIOUS
        <3> QED BY <2>2, <3>1 DEF ExpiLister
    <2> QED BY <2>1, <2>2
<1>2. \A i \in liste : i \in Intentions /\ Existe(i)
    BY <1>1 DEF Existe
<1>3. reste' \in [{Recon, Expi} -> SUBSET Intentions]
    BY <1>1, <1>2 DEF IInv, TypeOK
<1>4. \A x \in {Recon, Expi} : \A i \in reste'[x] : Existe(i)
    BY <1>1, <1>2 DEF IInv, TypeOK
<1>5. EtatOK("liste", ContexteVide) /\ "liste" \in Etapes \ {"appel"} /\ a \in Acteurs
    BY ContexteVideType DEF EtatOK, Etapes, Acteurs
<1> QED BY <1>1, <1>3, <1>4, <1>5, ContexteVideType, ListeChange

(* The reconciliation visits one payment.                                  *)
LEMMA ReconVisiterOK ==
    ASSUME IInv, NEW i \in Intentions, NEW ok \in BOOLEAN, ReconVisiter(i, ok)
    PROVE  IInv'
<1>1. /\ Existe(i) /\ Recon \in Acteurs
      /\ reste' = [reste EXCEPT ![Recon] = reste[Recon] \ {i}]
      /\ UNCHANGED <<varsIntention, varsArgent, operateur, evenements, decides>>
    BY DEF ReconVisiter, IInv, Acteurs
<1>2. reste' \in [{Recon, Expi} -> SUBSET Intentions]
    BY <1>1 DEF IInv, TypeOK
<1>3. \A x \in {Recon, Expi} : \A j \in reste'[x] : Existe(j)
    BY <1>1 DEF IInv, TypeOK
<1>4. ASSUME NEW e \in {"regler", "ecrire"}, NEW s \in Statuts \cup {AUCUN},
             Attendre(Recon, e, Contexte(i, s, AUCUN)),
             e = "ecrire" => s \in Statuts \ {"SUCCESS"}, e = "regler" => Paye(i)
      PROVE  IInv'
    <2>1. EtatOK(e, Contexte(i, s, AUCUN)) /\ Contexte(i, s, AUCUN) \in Contextes
        BY <1>1, <1>4, ContexteType DEF EtatOK
    <2>2. e \in Etapes \ {"appel"}
        BY DEF Etapes
    <2> QED BY <1>1, <1>2, <1>3, <1>4, <2>1, <2>2, ListeChange
<1>5. ASSUME NEW e \in {"libre", "liste"}, Attendre(Recon, e, ContexteVide)
      PROVE  IInv'
    <2>1. EtatOK(e, ContexteVide) /\ e \in Etapes \ {"appel"}
        BY ContexteVideType DEF EtatOK, Etapes
    <2> QED BY <1>1, <1>2, <1>3, <1>5, <2>1, ContexteVideType, ListeChange
<1>6. StatutLu(i) = "SUCCESS" => Paye(i)
    BY Normalises DEF Paye, StatutLu
<1>7. {"FAILED", "EXPIRED"} \subseteq Statuts \ {"SUCCESS"}
    BY DEF Statuts, Terminaux
<1> DEFINE autres == reste[Recon] \ {i}
<1>8. \/ Attendre(Recon, "regler", Contexte(i, AUCUN, AUCUN)) /\ StatutLu(i) = "SUCCESS"
      \/ Attendre(Recon, "ecrire", Contexte(i, "FAILED", AUCUN))
      \/ Attendre(Recon, "ecrire", Contexte(i, "EXPIRED", AUCUN))
      \/ Attendre(Recon, IF autres = {} THEN "libre" ELSE "liste", ContexteVide)
    BY DEF ReconVisiter
<1> QED BY <1>4, <1>5, <1>6, <1>7, <1>8

(* The expiration visits one payment.                                      *)
LEMMA ExpiEcrireOK ==
    ASSUME IInv, NEW i \in Intentions, ExpiEcrire(i)
    PROVE  IInv'
<1>1. /\ Existe(i) /\ LigneOK(i) /\ Expi \in Acteurs
      /\ statut' = [statut EXCEPT ![i] = "EXPIRED"]
      /\ reste' = [reste EXCEPT ![Expi] = reste[Expi] \ {i}]
      /\ UNCHANGED <<fiche, age, decaissement, varsArgent, operateur, evenements, decides>>
    BY DEF ExpiEcrire, IInv, Acteurs
<1>2. PICK e \in {"libre", "liste"} : Attendre(Expi, e, ContexteVide)
    BY DEF ExpiEcrire
<1>3. \A j \in Intentions : statut'[j] = IF j = i THEN "EXPIRED" ELSE statut[j]
    BY <1>1 DEF IInv, TypeOK
<1>4. \A j \in Intentions : Existe(j) => Existe(j)'
    BY <1>3 DEF Existe
<1>5. Stable
    BY <1>1, <1>4 DEF Stable, Paye, varsArgent
<1>6. TypeOK'
    BY <1>1, <1>2, ContexteVideType DEF IInv, TypeOK, Attendre, varsArgent, Etapes, Statuts, Terminaux
<1>7. LigneOK(i)'
    BY <1>1, <1>3, <1>4 DEF LigneOK, Existe, Paye, Cle, varsArgent
<1>8. (\A j \in Intentions : LigneOK(j))'
    BY <1>1, <1>3, <1>7, LignesOK DEF varsArgent
<1>9. EtatOK(e, ContexteVide)' /\ e \in Etapes /\ e # "appel"
    BY ContexteVideType DEF EtatOK, Etapes
<1>10. (\A y \in Evenements : evenements[y] \in TypeEvenement => Existe(evenements[y].i))'
    BY <1>1, <1>4 DEF IInv, TypeEvenement
<1>11. (\A y \in {Recon, Expi} : \A j \in reste[y] : Existe(j))'
    BY <1>1, <1>4 DEF IInv, TypeOK
<1> QED BY <1>1, <1>2, <1>5, <1>6, <1>8, <1>9, <1>10, <1>11, ContexteVideType, UnPas

(* An actor crashes.                                                       *)
LEMMA PanneOK ==
    ASSUME IInv, NEW a \in Acteurs, Panne(a)
    PROVE  IInv'
<1>1. /\ Attendre(a, "libre", ContexteVide)
      /\ UNCHANGED <<varsIntention, varsArgent, operateur, evenements, decides>>
    BY DEF Panne
<1>2. reste' \in [{Recon, Expi} -> SUBSET Intentions]
    BY DEF Panne, IInv, TypeOK
<1>3. \A x \in {Recon, Expi} : \A j \in reste'[x] : Existe(j)
    BY DEF Panne, IInv, TypeOK
<1>4. EtatOK("libre", ContexteVide) /\ "libre" \in Etapes \ {"appel"}
    BY ContexteVideType DEF EtatOK, Etapes
<1> QED BY <1>1, <1>2, <1>3, <1>4, ContexteVideType, ListeChange

(* No handler moves: time passes, pawaPay concludes.                       *)
LEMMA ExterieurOK ==
    ASSUME IInv, NEW i \in Intentions, NEW v \in {"COMPLETED", "FAILED"},
           Conclure(i, v) \/ Vieillir(i)
    PROVE  IInv'
<1>1. /\ UNCHANGED <<statut, fiche, decaissement, varsArgent, evenements, decides, varsActeur>>
      /\ \A j \in Intentions : operateur'[j] = operateur[j] \/ operateur[j] = "ACCEPTED"
    BY DEF Conclure, Vieillir, varsIntention, IInv, TypeOK
<1> USE DEF varsArgent, varsActeur
<1>2. TypeOK'
    BY DEF Conclure, Vieillir, varsIntention, IInv, TypeOK
<1>3. Stable
    BY <1>1 DEF Stable, Existe, Paye
<1>4. (\A j \in Intentions : LigneOK(j))'
    BY <1>1 DEF IInv, LigneOK, Existe, Paye, Cle
<1>5. ASSUME NEW b \in Acteurs PROVE EtatOK(etape[b], req[b])'
    <2>1. PICK e \in Etapes, c \in Contextes : etape[b] = e /\ req[b] = c
        BY DEF IInv, TypeOK
    <2>2. EtatOK(e, c)
        BY <2>1 DEF IInv
    <2>3. EtatOK(e, c)'
        <3>1. e = "appel" => operateur'[c.i] = operateur[c.i]
            BY <1>1, <2>2 DEF EtatOK
        <3> QED BY <1>3, <2>2, <3>1, AutreActeur
    <2>4. etape'[b] = e /\ req'[b] = c
        BY <1>1, <2>1
    <2> QED BY <2>3, <2>4
<1>6. AppelSeul'
    BY <1>1 DEF IInv, AppelSeul
<1>7. (\A y \in Evenements : evenements[y] \in TypeEvenement => Existe(evenements[y].i))'
    BY <1>1 DEF IInv, Existe
<1>8. (\A y \in {Recon, Expi} : \A j \in reste[y] : Existe(j))'
    BY <1>1 DEF IInv, Existe
<1> QED BY <1>2, <1>4, <1>5, <1>6, <1>7, <1>8 DEF IInv
-----------------------------------------------------------------------------
(***************************************************************************)
(* The invariant holds of every reachable state.                           *)
(***************************************************************************)
LEMMA InitIInv == Init => IInv
<1> SUFFICES ASSUME Init PROVE IInv
    OBVIOUS
<1>1. TypeOK
    BY ConstantesPaiement, ContexteVideType DEF Init, TypeOK, Etapes
<1>2. \A i \in Intentions : LigneOK(i)
    BY DEF Init, LigneOK, Existe
<1>3. \A a \in Acteurs : EtatOK(etape[a], req[a])
    BY ContexteVideType DEF Init, EtatOK
<1>4. AppelSeul
    BY DEF Init, AppelSeul
<1>5. \A e \in Evenements : evenements[e] \in TypeEvenement => Existe(evenements[e].i)
    BY ConstantesPaiement DEF Init, TypeEvenement
<1>6. \A a \in {Recon, Expi} : \A i \in reste[a] : Existe(i)
    BY DEF Init
<1> QED BY <1>1, <1>2, <1>3, <1>4, <1>5, <1>6 DEF IInv

(* Every step of the payments keeps the inductive invariant.               *)
THEOREM PasIInv == IInv /\ [Next]_vars => IInv'
<1> SUFFICES ASSUME IInv, [Next]_vars PROVE IInv'
    OBVIOUS
<1>1. CASE UNCHANGED vars
    <2>1. UNCHANGED <<statut, fiche, age, decaissement, ecritures, solde, caisse, operateur,
                      evenements, decides, etape, req, reste>>
        BY <1>1 DEF vars, varsIntention, varsArgent, varsActeur
    <2> QED BY <2>1 DEF IInv, TypeOK, LigneOK, EtatOK, AppelSeul, Existe, Paye, Cle, Acteurs
<1>2. ASSUME NEW q \in Requetes, NextRequete(q) PROVE IInv'
    BY <1>2, InitierOK, RembourserOK, AppelOK, RecevoirWebhookOK, MarquerOK, RejouerOK,
       LecturesOK, SondageOK, EnFileEchouerOK, ReconcilierOK DEF NextRequete
<1>3. CASE NextCron
    BY <1>3, ListerOK, ReconVisiterOK, ExpiEcrireOK DEF NextCron
<1>4. ASSUME NEW a \in Acteurs, NextActeur(a) PROVE IInv'
    BY <1>4, EcrireStatutOK, ReglerOK, ReglementRefuseOK, ActiverCreditOK, PanneOK DEF NextActeur
<1>5. CASE NextExterieur
    BY <1>5, ExterieurOK, PerimerOK DEF NextExterieur
<1> QED BY <1>1, <1>2, <1>3, <1>4, <1>5 DEF Next

(* The inductive invariant holds in every state: what each actor decided   *)
(* is still allowed by the row, and the rows of the ledger are those of    *)
(* the payments that succeeded.                                            *)
THEOREM Invariance == Spec => []IInv
BY InitIInv, PasIInv, PTL DEF Spec

(* Statuses, amounts, balances and what handlers remember keep their types.*)
THEOREM TypeCorrect == Spec => []TypeOK
<1>1. IInv => TypeOK
    BY DEF IInv
<1> QED BY <1>1, Invariance, PTL

(* No handler, on whatever stale status it decided, settles a payment that *)
(* neither pawaPay nor an administrator declared paid.                     *)
THEOREM ReglementToujoursJustifie == Spec => []ReglementJustifie
<1>1. IInv => ReglementJustifie
    BY DEF IInv, LigneOK, ReglementJustifie, Paye
<1> QED BY <1>1, Invariance, PTL

(* A SUCCESS is in the ledger and stays there; so is the payout of every   *)
(* credit that was activated.                                              *)
THEOREM SuccesToujoursComptabilise == Spec => []SuccesComptabilise
<1>1. IInv => SuccesComptabilise
    BY DEF IInv, LigneOK, SuccesComptabilise
<1> QED BY <1>1, Invariance, PTL
-----------------------------------------------------------------------------
(***************************************************************************)
(* The money.  A settled row keeps its columns, and a settlement adds one  *)
(* row to those already settled.                                           *)
(***************************************************************************)
SommeComptes == SumFunction([i \in Reglees |-> DeltaCompte(fiche[i])])
SommeCaisses == SumFunction([i \in Reglees |-> DeltaCaisse(fiche[i])])

(* The payments with a row of the ledger are finitely many.                *)
LEMMA RegleesFinies ==
    ASSUME IInv
    PROVE  /\ IsFiniteSet(Reglees)
           /\ \A i \in Intentions : i \in Reglees <=> \E t \in Types : <<t, i>> \in ecritures
           /\ \A i \in Reglees : i \in Intentions /\ Existe(i) /\ fiche[i] \in Fiches
<1>1. Reglees \subseteq Intentions
    BY DEF Reglees
<1>2. IsFiniteSet(Reglees)
    BY <1>1, FS_Subset, ConstantesPaiement
<1>3. ASSUME NEW i \in Intentions
      PROVE  i \in Reglees <=> \E t \in Types : <<t, i>> \in ecritures
    <2>1. LigneOK(i)
        BY DEF IInv
    <2>2. Existe(i) => fiche[i].type \in Types
        BY <2>1, FicheType DEF LigneOK
    <2> QED BY <2>1, <2>2 DEF LigneOK, Reglees, Cle, Existe
<1>4. \A i \in Reglees : i \in Intentions /\ Existe(i) /\ fiche[i] \in Fiches
    BY DEF Reglees, IInv, LigneOK, Existe
<1> QED BY <1>2, <1>3, <1>4

(* The money of the ledger and of the tills adds up to integers.           *)
LEMMA SommesType ==
    ASSUME IInv
    PROVE  SommeComptes \in Int /\ SommeCaisses \in Int
<1>1. IsFiniteSet(Reglees)
    BY RegleesFinies
<1>2. \A i \in Reglees : DeltaCompte(fiche[i]) \in Int /\ DeltaCaisse(fiche[i]) \in Int
    BY RegleesFinies, FicheType
<1> QED BY <1>1, <1>2, SommeType DEF SommeComptes, SommeCaisses, SumFunction

(* After a step the payments with a row are again those of the ledger.     *)
LEMMA RegleesPrimees ==
    ASSUME IInv'
    PROVE  (\A i \in Intentions : i \in Reglees <=> \E t \in Types : <<t, i>> \in ecritures)'
<1> SUFFICES ASSUME NEW i \in Intentions
             PROVE  (i \in Reglees <=> \E t \in Types : <<t, i>> \in ecritures)'
    OBVIOUS
<1>1. LigneOK(i)'
    BY DEF IInv
<1>2. (Existe(i) => fiche[i].type \in Types)'
    BY <1>1, FicheType DEF LigneOK
<1> QED BY <1>1, <1>2 DEF LigneOK, Reglees, Cle, Existe

(* A step that is not a settlement.                                        *)
LEMMA SommesGardees ==
    ASSUME IInv, IInv', UNCHANGED varsArgent,
           \A i \in Intentions : Existe(i) => fiche'[i] = fiche[i]
    PROVE  SommeComptes' = SommeComptes /\ SommeCaisses' = SommeCaisses
<1>1. /\ IsFiniteSet(Reglees)
      /\ \A i \in Intentions : i \in Reglees <=> \E t \in Types : <<t, i>> \in ecritures
      /\ \A i \in Reglees : i \in Intentions /\ Existe(i) /\ fiche[i] \in Fiches
    BY RegleesFinies
<1>2. (\A i \in Intentions : i \in Reglees <=> \E t \in Types : <<t, i>> \in ecritures)'
    BY RegleesPrimees
<1>3. Reglees' = Reglees
    <2>1. Reglees \subseteq Intentions /\ Reglees' \subseteq Intentions
        BY DEF Reglees
    <2>2. \A i \in Intentions : i \in Reglees' <=> i \in Reglees
        BY <1>1, <1>2 DEF varsArgent
    <2> QED BY <2>1, <2>2
<1>4. \A i \in Reglees : fiche'[i] = fiche[i]
    BY <1>1
<1>5. [i \in Reglees |-> DeltaCompte(fiche[i])]' = [i \in Reglees |-> DeltaCompte(fiche[i])]
    BY <1>3, <1>4 DEF DeltaCompte, Brut, Net
<1>6. [i \in Reglees |-> DeltaCaisse(fiche[i])]' = [i \in Reglees |-> DeltaCaisse(fiche[i])]
    BY <1>3, <1>4 DEF DeltaCaisse, Brut, Net
<1> QED BY <1>5, <1>6 DEF SommeComptes, SommeCaisses

(* A settlement.                                                           *)
LEMMA SommesReglees ==
    ASSUME IInv, IInv', NEW a \in Acteurs, Regler(a)
    PROVE  \E i \in Intentions :
              /\ fiche[i] \in Fiches /\ i = req[a].i
              /\ SommeComptes' = SommeComptes + DeltaCompte(fiche[i])
              /\ SommeCaisses' = SommeCaisses + DeltaCaisse(fiche[i])
<1>1. PICK i \in Intentions : i = req[a].i /\ Existe(i) /\ fiche[i] \in Fiches
    BY DEF Regler, IInv, EtatOK, LigneOK
<1>2. /\ ecritures' = ecritures \cup {<<fiche[i].type, i>>} /\ <<fiche[i].type, i>> \notin ecritures
      /\ fiche' = fiche
    BY <1>1 DEF Regler, ReglementPermis, CleLibre, Cle
<1>3. i \notin Reglees
    BY <1>2 DEF Reglees, Cle
<1>4. /\ IsFiniteSet(Reglees)
      /\ \A j \in Intentions : j \in Reglees <=> \E t \in Types : <<t, j>> \in ecritures
      /\ \A j \in Reglees : j \in Intentions /\ Existe(j) /\ fiche[j] \in Fiches
    BY RegleesFinies
<1>5. (\A j \in Intentions : j \in Reglees <=> \E t \in Types : <<t, j>> \in ecritures)'
    BY RegleesPrimees
<1>6. Reglees' = Reglees \cup {i}
    <2>1. Reglees \subseteq Intentions /\ Reglees' \subseteq Intentions
        BY DEF Reglees
    <2>2. fiche[i].type \in Types
        BY <1>1, FicheType
    <2>3. \A j \in Intentions : j \in Reglees' <=> j \in Reglees \/ j = i
        BY <1>2, <1>4, <1>5, <2>2
    <2> QED BY <2>1, <2>3
<1>7. \A j \in Reglees \cup {i} : DeltaCompte(fiche[j]) \in Int /\ DeltaCaisse(fiche[j]) \in Int
    BY <1>1, <1>4, FicheType
<1>8. SommeComptes' = SommeComptes + DeltaCompte(fiche[i])
    <2> DEFINE F == [j \in Reglees \cup {i} |-> DeltaCompte(fiche[j])]
               G == [j \in Reglees |-> DeltaCompte(fiche[j])]
    <2>1. /\ DOMAIN F = Reglees \cup {i} /\ DOMAIN G = Reglees
          /\ \A j \in Reglees : F[j] = G[j]
          /\ \A j \in Reglees \cup {i} : F[j] \in Int
          /\ F[i] = DeltaCompte(fiche[i])
        BY <1>7
    <2>2. SommeComptes' = SumFunction(F)
        BY <1>2, <1>6 DEF SommeComptes, DeltaCompte, Brut, Net
    <2>3. SommeComptes = SumFunction(G)
        BY DEF SommeComptes
    <2> HIDE DEF F, G
    <2> QED BY <1>3, <1>4, <2>1, <2>2, <2>3, SommeEtendue
<1>9. SommeCaisses' = SommeCaisses + DeltaCaisse(fiche[i])
    <2> DEFINE F == [j \in Reglees \cup {i} |-> DeltaCaisse(fiche[j])]
               G == [j \in Reglees |-> DeltaCaisse(fiche[j])]
    <2>1. /\ DOMAIN F = Reglees \cup {i} /\ DOMAIN G = Reglees
          /\ \A j \in Reglees : F[j] = G[j]
          /\ \A j \in Reglees \cup {i} : F[j] \in Int
          /\ F[i] = DeltaCaisse(fiche[i])
        BY <1>7
    <2>2. SommeCaisses' = SumFunction(F)
        BY <1>2, <1>6 DEF SommeCaisses, DeltaCaisse, Brut, Net
    <2>3. SommeCaisses = SumFunction(G)
        BY DEF SommeCaisses
    <2> HIDE DEF F, G
    <2> QED BY <1>3, <1>4, <2>1, <2>2, <2>3, SommeEtendue
<1> QED BY <1>1, <1>8, <1>9

(* Every other step leaves the money and the columns of the rows alone.    *)
LEMMA SansReglement ==
    ASSUME IInv, [Next]_vars, ~\E a \in Acteurs : Regler(a)
    PROVE  /\ UNCHANGED varsArgent
           /\ \A i \in Intentions : Existe(i) => fiche'[i] = fiche[i]
<1>1. CASE UNCHANGED vars
    BY <1>1 DEF vars, varsIntention
<1>2. ASSUME NEW q \in Requetes, NEW i \in Intentions, NEW f, Creer(q, i, f)
      PROVE  /\ UNCHANGED varsArgent
             /\ \A j \in Intentions : Existe(j) => fiche'[j] = fiche[j]
    BY <1>2 DEF Creer, Existe, IInv, TypeOK
<1>3. ASSUME NEW q \in Requetes, NextRequete(q)
      PROVE  /\ UNCHANGED varsArgent
             /\ \A j \in Intentions : Existe(j) => fiche'[j] = fiche[j]
    BY <1>2, <1>3 DEF NextRequete, Initier, Rembourser, AppelAccepte, AppelEchoue, RecevoirWebhook,
       Marquer, Rejouer, Sonder, SondageRepondu, AnnulerLire, AnnulationRefusee, EnFileLire,
       EnFileEchouer, Reconcilier, varsIntention
<1>4. CASE NextCron
    BY <1>4 DEF NextCron, ReconLister, ReconVisiter, ExpiLister, ExpiEcrire, varsIntention
<1>5. ASSUME NEW a \in Acteurs, NextActeur(a)
      PROVE  /\ UNCHANGED varsArgent
             /\ \A j \in Intentions : Existe(j) => fiche'[j] = fiche[j]
    BY <1>5 DEF NextActeur, EcrireStatut, ReglementRefuse, ActiverCredit, Panne, varsIntention
<1>6. CASE NextExterieur
    BY <1>6 DEF NextExterieur, Conclure, Vieillir, Perimer, varsIntention
<1> QED BY <1>1, <1>3, <1>4, <1>5, <1>6 DEF Next

(* What the money is: the opening balances and the settled rows.           *)
Argent ==
    /\ solde = SoldeInitial + SommeComptes
    /\ caisse \in Nat
    /\ caisse >= CaisseInitiale + SommeCaisses

(* After every step the balance of the account is what the settled         *)
(* payments add up to, and the till holds at least as much as they do.     *)
LEMMA PasArgent ==
    ASSUME IInv, IInv', Argent, [Next]_vars
    PROVE  Argent'
<1>1. SommeComptes \in Int /\ SommeCaisses \in Int
    BY SommesType
<1>2. SoldeInitial \in Nat /\ CaisseInitiale \in Nat
    BY ConstantesPaiement
<1>3. CASE \E a \in Acteurs : Regler(a)
    <2>1. PICK a \in Acteurs : Regler(a)
        BY <1>3
    <2>2. PICK i \in Intentions :
              /\ fiche[i] \in Fiches /\ i = req[a].i
              /\ SommeComptes' = SommeComptes + DeltaCompte(fiche[i])
              /\ SommeCaisses' = SommeCaisses + DeltaCaisse(fiche[i])
        BY <2>1, SommesReglees
    <2>3. DeltaCompte(fiche[i]) \in Int /\ DeltaCaisse(fiche[i]) \in Int
        BY <2>2, FicheType
    <2>4. solde' = solde + DeltaCompte(fiche[i]) /\ caisse' = CaisseApres(fiche[i])
        BY <2>1, <2>2 DEF Regler
    <2>5. caisse' \in Nat /\ caisse' >= caisse + DeltaCaisse(fiche[i])
        BY <2>3, <2>4 DEF CaisseApres, Argent
    <2> QED BY <1>1, <1>2, <2>2, <2>3, <2>4, <2>5 DEF Argent
<1>4. CASE ~\E a \in Acteurs : Regler(a)
    <2>1. /\ UNCHANGED varsArgent
          /\ \A i \in Intentions : Existe(i) => fiche'[i] = fiche[i]
        BY <1>4, SansReglement
    <2>2. SommeComptes' = SommeComptes /\ SommeCaisses' = SommeCaisses
        BY <2>1, SommesGardees
    <2> QED BY <2>1, <2>2 DEF Argent, varsArgent
<1> QED BY <1>3, <1>4

(* Nothing is settled at the start.                                        *)
LEMMA InitArgent == Init => Argent
<1> SUFFICES ASSUME Init PROVE Argent
    OBVIOUS
<1>1. Reglees = {}
    BY DEF Init, Reglees
<1>2. SommeComptes = 0 /\ SommeCaisses = 0
    BY <1>1, SommeVide DEF SommeComptes, SommeCaisses, SumFunction
<1> QED BY <1>2, ConstantesPaiement DEF Init, Argent

(* The sums hold in every state.                                           *)
LEMMA ArgentInvariant == Spec => []Argent
<1>1. IInv /\ IInv' /\ Argent /\ [Next]_vars => Argent'
    BY PasArgent
<1> QED BY <1>1, InitArgent, Invariance, PTL DEF Spec

(* For any number of payments and of handlers deciding on stale reads, the *)
(* account moves once for each settled payment.                            *)
THEOREM CompteToujoursUneFois == Spec => []CompteUneFois
<1>1. Argent => CompteUneFois
    BY DEF Argent, CompteUneFois, SommeComptes
<1> QED BY <1>1, ArgentInvariant, PTL

(* The digital till never shows less than what the settled rows left.      *)
THEOREM CaisseToujoursSuffisante == Spec => []CaisseJamaisSousEstimee
<1>1. Argent => CaisseJamaisSousEstimee
    BY DEF Argent, CaisseJamaisSousEstimee, SommeCaisses
<1> QED BY <1>1, ArgentInvariant, PTL
=============================================================================
