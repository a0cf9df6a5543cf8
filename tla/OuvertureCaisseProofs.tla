------------------------ MODULE OuvertureCaisseProofs ------------------------
(***************************************************************************)
(* Theorems about OuvertureCaisse, for any number of tills, cashiers,      *)
(* sessions and connections.  The invariant says what a transaction may    *)
(* rely on at the step it has reached, and that no two hold the same row:  *)
(* that is what keeps what it has read true until its commit.              *)
(***************************************************************************)
EXTENDS OuvertureCaisse, Sommes

Executant   == {"execLu", "execCoffre", "execCaisse", "execSession"}
SousCoffre  == {"execCoffre", "execCaisse", "execSession"}
Reception   == {"recu", "recuAttend", "recuOuvre"}
Annulation  == {"annule", "annuleTransfert"}
SurUnTransfert == {"valide", "validerTransfert", "annulerTransfert"} \cup Executant

Existe(s) == statut[s] # "ABSENTE"

(* What the rows of a session and of its transfer tell of each other.      *)
LigneOK(s) ==
    /\ Existe(s) => titulaire[s] \in Titulaires
    /\ transfert[s] # "ABSENT" => Existe(s) /\ montant[s] \in Montants
    /\ statut[s] \in Attente => transfert[s] # "ABSENT"
    /\ execute[s] => transfert[s] # "ABSENT"
    /\ transfert[s] = "EXECUTED" => execute[s]
    /\ imputation[s] # AUCUN => Existe(imputation[s])

(* One active session per till.                                            *)
UneActive ==
    \A r, s \in Sessions :
        statut[r] \in Actifs /\ statut[s] \in Actifs /\ CaisseDe(r) = CaisseDe(s) => r = s

(* What a transaction that has reached step e with the reads l relies on.  *)
EtatOK(e, l) ==
    /\ e \in {"demande", "direct"} => l.titulaire \in Titulaires
    /\ e = "demande" => l.montant \in Montants
    /\ e = "direct" /\ l.session # AUCUN => Existe(l.session)
    /\ e \in SurUnTransfert => l.transfert \in Sessions /\ transfert[l.transfert] # "ABSENT"
    /\ e \in Executant /\ l.session # AUCUN => Existe(l.session)
    /\ e \in SousCoffre => DebitPermis(l.transfert)
    /\ e \in {"execCaisse", "execSession"} => ~execute[l.transfert]
    /\ e = "execCaisse" /\ l.session = AUCUN => Ouvertes(CaisseDe(l.transfert)) = {}
    /\ e = "execSession" => l.session # AUCUN
    /\ e \in Reception => l.session \in Sessions /\ statut[l.session] = "FUNDS_DISPATCHED"
    /\ e = "recuOuvre" => execute[l.session]
    /\ e \in Annulation => l.session \in Sessions /\ statut[l.session] \in Attente
    /\ l.execution # AUCUN <=> e = "recuAttend"

(* The rows of Tient, of a step and reads.                                 *)
Rangs(e, l) ==
    CASE e = "valide" -> {Transfert(l.transfert)}
      [] e = "execCoffre" -> {Coffre}
      [] e = "execCaisse" -> {Coffre, Caisse(CaisseDe(l.transfert))}
      [] e = "execSession" -> {Coffre, Caisse(CaisseDe(l.transfert)), Session(l.session)}
      [] e \in Reception \cup {"annule"} -> {Session(l.session)}
      [] e = "annuleTransfert" -> {Session(l.session), Transfert(l.session)}
      [] e = "direct" -> {Caisse(l.titulaire.caisse)}
      [] OTHER -> {}

(* No row is locked twice.                                                 *)
Exclusion == \A p, q \in Requetes : p # q => Tient(p) \cap Tient(q) = {}

(* A reception waits for the execution of its own transfer.                *)
AttenteOK ==
    \A p \in Requetes : etape[p] = "recuAttend" =>
        /\ etape[lu[p].execution] \in Executant
        /\ lu[lu[p].execution].transfert = lu[p].session

IInv ==
    /\ TypeOK
    /\ \A s \in Sessions : LigneOK(s)
    /\ UneActive
    /\ \A q \in Requetes : EtatOK(etape[q], lu[q])
    /\ Exclusion
    /\ AttenteOK
    /\ SessionRefleteCaisse

(* The part of IInv about the connections.                                 *)
RequetesOK ==
    /\ \A q \in Requetes : EtatOK(etape[q], lu[q])
    /\ Exclusion
    /\ AttenteOK
-----------------------------------------------------------------------------
(***************************************************************************)
(* What others do while a transaction waits.                               *)
(***************************************************************************)
Donnees == <<varsSession, varsTransfert, varsArgent>>

(* Rows stay, with their till and their amount; a transfer is not undone.  *)
Stable ==
    /\ \A s \in Sessions : Existe(s) => Existe(s)' /\ titulaire'[s] = titulaire[s]
    /\ \A s \in Sessions : transfert[s] # "ABSENT" => transfert'[s] # "ABSENT" /\ montant'[s] = montant[s]
    /\ \A s \in Sessions : execute[s] => execute'[s]

(* What p holds does not change under it.                                  *)
Epargne(e, l) ==
    /\ e \in Reception \cup Annulation => statut'[l.session] = statut[l.session]
    /\ e \in SousCoffre => soldeCoffre' = soldeCoffre
    /\ e \in {"execCaisse", "execSession"} => execute'[l.transfert] = execute[l.transfert]
    /\ e = "execCaisse" /\ l.session = AUCUN =>
          \A s \in Sessions : statut'[s] = "OPEN" => titulaire'[s].caisse # titulaire'[l.transfert].caisse

EpargneAutres(q) == \A p \in Requetes \ {q} : Epargne(etape[p], lu[p])

(* A handler at rest has read nothing and holds no row.                    *)
LEMMA LectureVideType ==
    /\ LectureVide \in Lectures /\ EtatOK("libre", LectureVide) /\ Rangs("libre", LectureVide) = {}
BY DEF LectureVide, Lectures, EtatOK, Rangs, SurUnTransfert, Executant, SousCoffre, Reception, Annulation

(* The rows a handler holds are those of its step.                         *)
LEMMA TientRangs ==
    ASSUME NEW q \in Requetes
    PROVE  Tient(q) = Rangs(etape[q], lu[q])
BY DEF Tient, Rangs, Reception

(* What a handler knows stays true when others write rows it does not      *)
(* hold.                                                                   *)
LEMMA AutreRequete ==
    ASSUME IInv, Stable, NEW e, NEW l \in Lectures, EtatOK(e, l), Epargne(e, l)
    PROVE  EtatOK(e, l)' /\ Rangs(e, l)' = Rangs(e, l)
<1>1. EtatOK(e, l)'
    <2>1. l.transfert \in Sessions /\ transfert[l.transfert] # "ABSENT"
              => /\ transfert'[l.transfert] # "ABSENT" /\ montant'[l.transfert] = montant[l.transfert]
        BY DEF Stable
    <2>2. l.session # AUCUN => l.session \in Sessions
        BY DEF Lectures
    <2>3. l.session \in Sessions /\ Existe(l.session) => Existe(l.session)'
        BY DEF Stable
    <2>4. e \in SousCoffre => DebitPermis(l.transfert)'
        BY <2>1 DEF EtatOK, Epargne, DebitPermis, SousCoffre, SurUnTransfert, Executant
    <2>5. e = "recuOuvre" => execute'[l.session]
        BY DEF EtatOK, Stable, Reception
    <2>6. e = "execCaisse" /\ l.session = AUCUN => Ouvertes(CaisseDe(l.transfert))' = {}
        BY DEF Epargne, Ouvertes, CaisseDe
    <2> QED BY <2>1, <2>2, <2>3, <2>4, <2>5, <2>6 DEF EtatOK, Epargne, Existe
<1>2. e \in SurUnTransfert => CaisseDe(l.transfert)' = CaisseDe(l.transfert)
    <2>1. e \in SurUnTransfert => l.transfert \in Sessions /\ Existe(l.transfert)
        BY DEF EtatOK, IInv, LigneOK
    <2> QED BY <2>1 DEF Stable, CaisseDe
<1>3. Rangs(e, l)' = Rangs(e, l)
    BY <1>2 DEF Rangs, SurUnTransfert, Executant
<1> QED BY <1>1, <1>3

(* Each connection stays where it is, is freed, or is a reception whose    *)
(* transfer has been executed.                                             *)
Demeure(p) == etape'[p] = etape[p] /\ lu'[p] = lu[p]
Libere(p) == etape'[p] = "libre" /\ lu'[p] = LectureVide
Reprend(p) ==
    /\ etape[p] = "recuAttend" /\ etape'[p] = "recuOuvre"
    /\ lu'[p] = [lu[p] EXCEPT !.execution = AUCUN]
    /\ execute'[lu[p].session]

(* A handler that stays where it is, ends or goes on keeps what it knows.  *)
LEMMA UneAutre ==
    ASSUME IInv, TypeOK', Stable, NEW p \in Requetes, Epargne(etape[p], lu[p]),
           Demeure(p) \/ Libere(p) \/ Reprend(p)
    PROVE  EtatOK(etape[p], lu[p])' /\ Tient(p)' \subseteq Tient(p)
<1>1. PICK e \in Etapes, l \in Lectures : etape[p] = e /\ lu[p] = l
    BY DEF IInv, TypeOK
<1>2. EtatOK(e, l) /\ Epargne(e, l) /\ Tient(p) = Rangs(e, l)
    BY <1>1, TientRangs DEF IInv
<1>3. EtatOK(e, l)' /\ Rangs(e, l)' = Rangs(e, l)
    BY <1>2, AutreRequete
<1>4. CASE Demeure(p)
    <2>1. etape'[p] = e /\ lu'[p] = l
        BY <1>1, <1>4 DEF Demeure
    <2>2. Tient(p)' = Rangs(e, l)'
        BY <2>1 DEF Tient, Rangs, Reception
    <2> QED BY <1>2, <1>3, <2>1, <2>2
<1>5. CASE Libere(p)
    <2>1. Tient(p)' = {}
        BY <1>5 DEF Libere, Tient
    <2>2. EtatOK(etape[p], lu[p])'
        BY <1>5, LectureVideType DEF Libere, EtatOK, LectureVide, SurUnTransfert, Executant, SousCoffre,
           Reception, Annulation
    <2> QED BY <2>1, <2>2
<1>6. CASE Reprend(p)
    <2>1. PICK m \in Lectures : m = [l EXCEPT !.execution = AUCUN]
        BY DEF Lectures
    <2>2. e = "recuAttend" /\ etape'[p] = "recuOuvre" /\ lu'[p] = m /\ execute'[l.session]
        BY <1>1, <1>6, <2>1 DEF Reprend
    <2>3. m.session = l.session /\ m.execution = AUCUN
        BY <2>1 DEF Lectures
    <2>4. l.session \in Sessions /\ statut'[l.session] = "FUNDS_DISPATCHED"
        BY <1>3, <2>2 DEF EtatOK, Reception
    <2>5. EtatOK("recuOuvre", m)'
        BY <2>2, <2>3, <2>4 DEF EtatOK, SurUnTransfert, Executant, SousCoffre, Reception, Annulation
    <2>6. Tient(p)' = {Session(l.session)}
        BY <2>2, <2>3 DEF Tient
    <2>7. Tient(p) = {Session(l.session)}
        BY <1>1, <2>2 DEF Tient
    <2> QED BY <2>2, <2>5, <2>6, <2>7
<1> QED BY <1>4, <1>5, <1>6
(* A step of connection q: it may take rows that nobody holds.             *)
LEMMA PasRequetes ==
    ASSUME IInv, TypeOK', Stable, NEW q \in Requetes, EpargneAutres(q),
           \A p \in Requetes \ {q} : Demeure(p) \/ Libere(p) \/ Reprend(p),
           EtatOK(etape[q], lu[q])',
           \A p \in Requetes \ {q} : Tient(p) \cap Tient(q)' = {}
    PROVE  (\A p \in Requetes : EtatOK(etape[p], lu[p]))' /\ Exclusion'
<1>1. ASSUME NEW p \in Requetes \ {q}
      PROVE  EtatOK(etape[p], lu[p])' /\ Tient(p)' \subseteq Tient(p)
    BY UneAutre DEF EpargneAutres
<1>2. (\A p \in Requetes : EtatOK(etape[p], lu[p]))'
    BY <1>1
<1>3. ASSUME NEW p \in Requetes, NEW r \in Requetes, p # r
      PROVE  Tient(p)' \cap Tient(r)' = {}
    <2>1. CASE p = q
        BY <1>1, <1>3, <2>1
    <2>2. CASE r = q
        BY <1>1, <1>3, <2>2
    <2>3. CASE p # q /\ r # q
        BY <1>1, <1>3, <2>3 DEF IInv, Exclusion
    <2> QED BY <2>1, <2>2, <2>3
<1> QED BY <1>2, <1>3 DEF Exclusion

(* The transaction of q ends.                                              *)
LEMMA PasFinir ==
    ASSUME IInv, TypeOK', Stable, NEW q \in Requetes, EpargneAutres(q),
           NEW suite \in {"libre", "recuOuvre"}, Finir(q, suite),
           suite = "recuOuvre" => etape[q] \in Executant /\ execute'[lu[q].transfert]
    PROVE  RequetesOK'
<1>1. \A p \in Requetes : lu[p].execution = q => etape[p] = "recuAttend"
    <2> SUFFICES ASSUME NEW p \in Requetes, lu[p].execution = q PROVE etape[p] = "recuAttend"
        OBVIOUS
    <2>1. q # AUCUN /\ EtatOK(etape[p], lu[p])
        BY ConstantesOK DEF IInv
    <2> QED BY <2>1 DEF EtatOK
<1>2. ASSUME NEW p \in Requetes \ {q}
      PROVE  \/ Demeure(p) /\ lu[p].execution # q
             \/ Libere(p)
             \/ Reprend(p)
    <2>1. CASE lu[p].execution # q
        BY <2>1 DEF Finir, Demeure
    <2>2. CASE lu[p].execution = q /\ suite = "libre"
        BY <2>2 DEF Finir, Libere
    <2>3. CASE lu[p].execution = q /\ suite = "recuOuvre"
        <3>1. etape[p] = "recuAttend" /\ lu[q].transfert = lu[p].session
            BY <1>1, <2>3 DEF IInv, AttenteOK
        <3>2. etape'[p] = "recuOuvre" /\ lu'[p] = [lu[p] EXCEPT !.execution = AUCUN]
            BY <2>3 DEF Finir
        <3> QED BY <2>3, <3>1, <3>2 DEF Reprend
    <2> QED BY <2>1, <2>2, <2>3
<1>3. Libere(q)
    BY DEF Finir, Libere
<1>4. EtatOK(etape[q], lu[q])' /\ Tient(q)' = {}
    BY <1>3, LectureVideType DEF Libere, EtatOK, LectureVide, SurUnTransfert, Executant, SousCoffre,
       Reception, Annulation, Tient
<1>5. (\A p \in Requetes : EtatOK(etape[p], lu[p]))' /\ Exclusion'
    BY <1>2, <1>4, PasRequetes
<1>6. ASSUME NEW p \in Requetes, etape'[p] = "recuAttend"
      PROVE  /\ etape'[lu'[p].execution] \in Executant
             /\ lu'[lu'[p].execution].transfert = lu'[p].session
    <2>1. p # q /\ Demeure(p) /\ lu[p].execution # q
        BY <1>2, <1>3, <1>6 DEF Libere, Reprend
    <2>2. PICK e \in Requetes : e = lu[p].execution
        BY <1>6, <2>1 DEF Demeure, IInv, EtatOK, TypeOK, Lectures
    <2>3. etape[e] \in Executant /\ lu[e].transfert = lu[p].session
        BY <1>6, <2>1, <2>2 DEF Demeure, IInv, AttenteOK
    <2>4. lu[e].execution # q
        BY <1>1, <2>3 DEF Executant
    <2>5. etape'[e] = etape[e] /\ lu'[e] = lu[e]
        BY <2>1, <2>2, <2>4 DEF Finir
    <2> QED BY <2>1, <2>2, <2>3, <2>5 DEF Demeure
<1> QED BY <1>5, <1>6 DEF RequetesOK, AttenteOK

(* The rows, and what is read of them.                                     *)
LEMMA SansEcriture ==
    ASSUME IInv, UNCHANGED Donnees
    PROVE  /\ Stable /\ \A q \in Requetes : EpargneAutres(q)
           /\ (\A s \in Sessions : LigneOK(s))' /\ UneActive' /\ SessionRefleteCaisse'
<1> USE DEF Donnees, varsSession, varsTransfert, varsArgent
<1>1. Stable
    BY DEF Stable, Existe
<1>2. ASSUME NEW q \in Requetes PROVE EpargneAutres(q)
    <2> SUFFICES ASSUME NEW p \in Requetes PROVE Epargne(etape[p], lu[p])
        BY DEF EpargneAutres
    <2>1. EtatOK(etape[p], lu[p])
        BY DEF IInv
    <2> QED BY <2>1 DEF Epargne, EtatOK, Ouvertes, CaisseDe
<1>3. (\A s \in Sessions : LigneOK(s))'
    BY DEF IInv, LigneOK, Existe
<1>4. UneActive'
    BY DEF IInv, UneActive, CaisseDe
<1>5. SessionRefleteCaisse'
    BY DEF IInv, SessionRefleteCaisse, ImputesAilleurs, CaisseDe
<1> QED BY <1>1, <1>2, <1>3, <1>4, <1>5

(* A handler ends without writing anything.                                *)
LEMMA TerminerSeul ==
    ASSUME IInv, NEW q \in Requetes, Terminer(q), UNCHANGED Donnees
    PROVE  IInv'
<1>1. TypeOK'
    <2>1. etape' \in [Requetes -> Etapes] /\ lu' \in [Requetes -> Lectures]
        BY LectureVideType DEF Terminer, Finir, IInv, TypeOK, Etapes
    <2> QED BY <2>1 DEF IInv, TypeOK, Donnees, varsSession, varsTransfert, varsArgent
<1>2. RequetesOK'
    BY <1>1, SansEcriture, PasFinir DEF Terminer
<1> QED BY <1>1, <1>2, SansEcriture DEF IInv, RequetesOK

(* A transaction goes one step further and has written nothing yet.        *)
LEMMA AvancerSeul ==
    ASSUME IInv, NEW q \in Requetes, NEW e \in Etapes \ {"recuAttend"}, NEW l \in Lectures,
           Attendre(q, e, l), UNCHANGED Donnees, EtatOK(e, l),
           etape[q] \in Executant => e \in Executant /\ l.transfert = lu[q].transfert,
           NEW lignes, Bloquants(q, lignes) = {}, Rangs(e, l) \subseteq Tient(q) \cup lignes
    PROVE  IInv'
<1>1. TypeOK'
    BY DEF IInv, TypeOK, Donnees, varsSession, varsTransfert, varsArgent, Attendre
<1>2. etape'[q] = e /\ lu'[q] = l /\ \A p \in Requetes \ {q} : Demeure(p)
    BY DEF Attendre, Demeure, IInv, TypeOK
<1>3. Epargne(e, l)
    BY DEF Epargne, EtatOK, Donnees, varsSession, varsTransfert, varsArgent, Ouvertes, CaisseDe
<1>4. EtatOK(e, l)' /\ Rangs(e, l)' = Rangs(e, l)
    BY <1>3, SansEcriture, AutreRequete
<1>5. EtatOK(etape[q], lu[q])'
    BY <1>2, <1>4
<1>6. Tient(q)' = Rangs(e, l)
    <2>1. Tient(q)' = Rangs(e, l)'
        BY <1>2 DEF Tient, Rangs, Reception
    <2> QED BY <1>4, <2>1
<1>7. \A p \in Requetes \ {q} : Tient(p) \cap Tient(q)' = {}
    BY <1>6 DEF Bloquants, IInv, Exclusion
<1>8. (\A p \in Requetes : EtatOK(etape[p], lu[p]))' /\ Exclusion'
    BY <1>1, <1>2, <1>5, <1>7, SansEcriture, PasRequetes
<1>9. ASSUME NEW p \in Requetes, etape'[p] = "recuAttend"
      PROVE  /\ etape'[lu'[p].execution] \in Executant
             /\ lu'[lu'[p].execution].transfert = lu'[p].session
    <2>1. p # q /\ Demeure(p) /\ etape[p] = "recuAttend"
        BY <1>2, <1>9 DEF Demeure
    <2>2. PICK x \in Requetes : x = lu[p].execution
        BY <2>1 DEF IInv, EtatOK, TypeOK, Lectures
    <2>3. etape[x] \in Executant /\ lu[x].transfert = lu[p].session
        BY <2>1, <2>2 DEF IInv, AttenteOK
    <2>4. etape'[x] \in Executant /\ lu'[x].transfert = lu[x].transfert
        BY <1>2, <2>3 DEF Demeure
    <2> QED BY <2>1, <2>2, <2>3, <2>4 DEF Demeure
<1> QED BY <1>1, <1>8, <1>9, SansEcriture DEF IInv, AttenteOK
-----------------------------------------------------------------------------
(***************************************************************************)
(* Steps that only read and lock.                                          *)
(***************************************************************************)
LEMMA CommencerOK ==
    ASSUME IInv, NEW q \in Requetes, NEW e \in Etapes \ {"recuAttend"}, NEW l \in Lectures,
           Commencer(q, e, l), EtatOK(e, l),
           NEW lignes, Bloquants(q, lignes) = {}, Rangs(e, l) \subseteq lignes
    PROVE  IInv'
BY AvancerSeul DEF Commencer, Donnees, Executant

(* Nobody stands in the way of a handler that asks for no row.             *)
LEMMA PasDeLigne == ASSUME NEW q PROVE Bloquants(q, {}) = {}
BY DEF Bloquants

(* What a handler called on a session starts from.                         *)
LEMMA SurSessionType ==
    ASSUME NEW s \in Sessions
    PROVE  SurSession(s) \in Lectures /\ SurSession(s).session = s /\ SurSession(s).execution = AUCUN
<1>1. SurSession(s) \in Lectures
    BY LectureVideType DEF SurSession, Lectures
<1> QED BY <1>1 DEF SurSession, LectureVide

(* The same with an amount.                                                *)
LEMMA SurSessionMontant ==
    ASSUME NEW s \in Sessions, NEW m \in Nat
    PROVE  \E l \in Lectures :
               l = [SurSession(s) EXCEPT !.montant = m] /\ l.session = s /\ l.execution = AUCUN
<1>1. [SurSession(s) EXCEPT !.montant = m] \in Lectures
    BY SurSessionType DEF Lectures
<1>2. /\ [SurSession(s) EXCEPT !.montant = m].session = s
      /\ [SurSession(s) EXCEPT !.montant = m].execution = AUCUN
    BY DEF SurSession, LectureVide
<1> QED BY <1>1, <1>2

(* What a handler called on a transfer starts from.                        *)
LEMMA SurTransfertType ==
    ASSUME NEW t \in Sessions
    PROVE  \E l \in Lectures : l = SurTransfert(t) /\ l.transfert = t /\ l.execution = AUCUN
<1>1. SurTransfert(t) \in Lectures /\ SurTransfert(t).transfert = t /\ SurTransfert(t).execution = AUCUN
    <2>1. SurTransfert(t) \in Lectures
        BY LectureVideType DEF SurTransfert, Lectures
    <2> QED BY <2>1 DEF SurTransfert, LectureVide
<1> QED BY <1>1

(* The same with the answer of the vault.                                  *)
LEMMA SurTransfertApprouve ==
    ASSUME NEW t \in Sessions, NEW b \in BOOLEAN
    PROVE  \E l \in Lectures :
               l = [SurTransfert(t) EXCEPT !.approuve = b] /\ l.transfert = t /\ l.execution = AUCUN
<1>1. [SurTransfert(t) EXCEPT !.approuve = b] \in Lectures
    BY SurTransfertType DEF Lectures
<1>2. /\ [SurTransfert(t) EXCEPT !.approuve = b].transfert = t
      /\ [SurTransfert(t) EXCEPT !.approuve = b].execution = AUCUN
    BY DEF SurTransfert, LectureVide
<1> QED BY <1>1, <1>2

(* The same with a session to book the transfer on.                        *)
LEMMA SurTransfertSession ==
    ASSUME NEW t \in Sessions, NEW r \in Sessions \cup {AUCUN}
    PROVE  \E l \in Lectures : /\ l = [SurTransfert(t) EXCEPT !.session = r]
                               /\ l.transfert = t /\ l.session = r /\ l.execution = AUCUN
<1>1. [SurTransfert(t) EXCEPT !.session = r] \in Lectures
    BY SurTransfertType DEF Lectures
<1>2. /\ [SurTransfert(t) EXCEPT !.session = r].transfert = t
      /\ [SurTransfert(t) EXCEPT !.session = r].session = r
      /\ [SurTransfert(t) EXCEPT !.session = r].execution = AUCUN
    BY DEF SurTransfert, LectureVide
<1> QED BY <1>1, <1>2

(* What an opening starts from: a till, a cashier and perhaps a session.   *)
LEMMA TitulaireSession ==
    ASSUME NEW h \in Titulaires, NEW r \in Sessions \cup {AUCUN}
    PROVE  \E l \in Lectures : /\ l = [LectureVide EXCEPT !.titulaire = h, !.session = r]
                               /\ l.titulaire = h /\ l.session = r /\ l.execution = AUCUN
<1>1. [LectureVide EXCEPT !.titulaire = h, !.session = r] \in Lectures
    BY LectureVideType DEF Lectures
<1>2. /\ [LectureVide EXCEPT !.titulaire = h, !.session = r].titulaire = h
      /\ [LectureVide EXCEPT !.titulaire = h, !.session = r].session = r
      /\ [LectureVide EXCEPT !.titulaire = h, !.session = r].execution = AUCUN
    BY DEF LectureVide
<1> QED BY <1>1, <1>2

(* A transaction begins with the row of a session.                         *)
LEMMA VerrouSessionOK ==
    ASSUME IInv, NEW q \in Requetes, NEW s \in Sessions,
           AnnulerVerrou(q, s) \/ \E c \in Comptes : RecevoirVerrou(q, s, c)
    PROVE  IInv'
<1>1. CASE AnnulerVerrou(q, s)
    <2>1. PICK l \in Lectures : l = SurSession(s) /\ l.session = s /\ l.execution = AUCUN
        BY SurSessionType
    <2>2. EtatOK("annule", l) /\ Rangs("annule", l) = {Session(s)} /\ "annule" \in Etapes \ {"recuAttend"}
        BY <1>1, <2>1 DEF AnnulerVerrou, EtatOK, Rangs, Annulation, Reception, SurUnTransfert, Executant,
           SousCoffre, Etapes
    <2> QED BY <1>1, <2>1, <2>2, CommencerOK DEF AnnulerVerrou
<1>2. CASE \E c \in Comptes : RecevoirVerrou(q, s, c)
    <2>0. PICK c \in Nat : RecevoirVerrou(q, s, c)
        BY <1>2, ConstantesOK
    <2>1. PICK l \in Lectures :
              l = [SurSession(s) EXCEPT !.montant = c] /\ l.session = s /\ l.execution = AUCUN
        BY SurSessionMontant
    <2>2. EtatOK("recu", l) /\ Rangs("recu", l) = {Session(s)} /\ "recu" \in Etapes \ {"recuAttend"}
        BY <2>0, <2>1 DEF RecevoirVerrou, EtatOK, Rangs, Annulation, Reception, SurUnTransfert, Executant,
           SousCoffre, Etapes
    <2> QED BY <2>0, <2>1, <2>2, CommencerOK DEF RecevoirVerrou
<1> QED BY <1>1, <1>2

(* A transaction begins with a transfer.                                   *)
LEMMA SurTransfertOK ==
    ASSUME IInv, NEW q \in Requetes, NEW t \in Sessions, NEW ok \in BOOLEAN,
           NEW r \in Envoyees \cup {AUCUN},
           \/ ValiderVerrou(q, t, ok) \/ ValiderTransfertLire(q, t, ok)
           \/ AnnulerTransfertLire(q, t) \/ ExecuterLire(q, t, r)
    PROVE  IInv'
<1>0. transfert[t] # "ABSENT"
    BY DEF ValiderVerrou, ValiderTransfertLire, AnnulerTransfertLire, ExecuterLire, Executable
<1>1. ASSUME NEW e \in {"valide", "validerTransfert", "annulerTransfert"}, NEW l \in Lectures,
             l.transfert = t, l.execution = AUCUN
      PROVE  /\ EtatOK(e, l) /\ Rangs(e, l) = (IF e = "valide" THEN {Transfert(t)} ELSE {})
             /\ e \in Etapes \ {"recuAttend"}
    BY <1>0, <1>1 DEF EtatOK, Rangs, Annulation, Reception, SurUnTransfert, Executant, SousCoffre, Etapes
<1>2. CASE ValiderVerrou(q, t, ok)
    <2>1. PICK l \in Lectures : l = [SurTransfert(t) EXCEPT !.approuve = ok]
                                 /\ l.transfert = t /\ l.execution = AUCUN
        BY SurTransfertApprouve
    <2> QED BY <1>1, <1>2, <2>1, CommencerOK DEF ValiderVerrou
<1>3. CASE ValiderTransfertLire(q, t, ok)
    <2>1. PICK l \in Lectures : l = [SurTransfert(t) EXCEPT !.approuve = ok]
                                 /\ l.transfert = t /\ l.execution = AUCUN
        BY SurTransfertApprouve
    <2>2. EtatOK("validerTransfert", l) /\ Rangs("validerTransfert", l) = {}
        BY <1>1, <2>1
    <2>3. "validerTransfert" \in Etapes \ {"recuAttend"}
        BY DEF Etapes
    <2> QED BY <1>3, <2>1, <2>2, <2>3, CommencerOK, PasDeLigne DEF ValiderTransfertLire
<1>4. CASE AnnulerTransfertLire(q, t)
    <2>1. PICK l \in Lectures : l = SurTransfert(t) /\ l.transfert = t /\ l.execution = AUCUN
        BY SurTransfertType
    <2> QED BY <1>1, <1>4, <2>1, CommencerOK, PasDeLigne DEF AnnulerTransfertLire
<1>5. CASE ExecuterLire(q, t, r)
    <2>1. PICK l \in Lectures : l = [SurTransfert(t) EXCEPT !.session = r]
                                 /\ l.transfert = t /\ l.session = r /\ l.execution = AUCUN
        BY SurTransfertSession, ConstantesOK
    <2>2. EtatOK("execLu", l) /\ Rangs("execLu", l) = {} /\ "execLu" \in Etapes \ {"recuAttend"}
        BY <1>0, <1>5, <2>1 DEF ExecuterLire, EtatOK, Existe, Rangs, Annulation, Reception, SurUnTransfert,
           Executant, SousCoffre, Etapes
    <2> QED BY <1>5, <2>1, <2>2, CommencerOK, PasDeLigne DEF ExecuterLire
<1> QED BY <1>2, <1>3, <1>4, <1>5

(* A transaction begins with a till.                                       *)
LEMMA SurCaisseOK ==
    ASSUME IInv, NEW q \in Requetes, NEW h \in Titulaires,
           DirectVerrou(q, h) \/ \E m \in Montants : DemanderLire(q, h, m)
    PROVE  IInv'
<1>1. CASE \E m \in Montants : DemanderLire(q, h, m)
    <2>0. PICK n \in Nat, d \in Int :
              n \in Montants /\ d = soldeCaisse[h.caisse] /\ DemanderLire(q, h, n)
        BY <1>1, ConstantesOK DEF IInv, TypeOK, Titulaires
    <2> DEFINE l == [LectureVide EXCEPT !.titulaire = h, !.montant = n, !.solde = d]
    <2>1. l \in Lectures /\ l.titulaire = h /\ l.montant = n /\ l.execution = AUCUN
        <3>1. l \in Lectures
            BY LectureVideType DEF Lectures
        <3>2. l.titulaire = h /\ l.montant = n /\ l.execution = AUCUN
            BY DEF LectureVide
        <3> QED BY <3>1, <3>2
    <2>2. EtatOK("demande", l) /\ Rangs("demande", l) = {} /\ "demande" \in Etapes \ {"recuAttend"}
        BY <2>0, <2>1 DEF EtatOK, Rangs, Annulation, Reception, SurUnTransfert, Executant, SousCoffre, Etapes
    <2>3. Commencer(q, "demande", l)
        BY <2>0 DEF DemanderLire
    <2> HIDE DEF l
    <2> QED BY <2>1, <2>2, <2>3, CommencerOK, PasDeLigne
<1>2. CASE DirectVerrou(q, h)
    <2>1. PICK r \in Sessions \cup {AUCUN} :
              /\ r # AUCUN => Existe(r)
              /\ Commencer(q, "direct", [LectureVide EXCEPT !.titulaire = h, !.session = r])
        BY <1>2 DEF DirectVerrou, Existe, Actifs, Attente
    <2>2. PICK l \in Lectures :
              /\ l = [LectureVide EXCEPT !.titulaire = h, !.session = r]
              /\ l.titulaire = h /\ l.session = r /\ l.execution = AUCUN
        BY TitulaireSession
    <2>3. EtatOK("direct", l) /\ Rangs("direct", l) = {Caisse(h.caisse)} /\ "direct" \in Etapes \ {"recuAttend"}
        BY <2>1, <2>2 DEF EtatOK, Rangs, Annulation, Reception, SurUnTransfert, Executant, SousCoffre, Etapes
    <2> QED BY <1>2, <2>1, <2>2, <2>3, CommencerOK DEF DirectVerrou
<1> QED BY <1>1, <1>2
(* Rollbacks.                                                              *)
LEMMA AbandonOK ==
    ASSUME IInv, NEW q \in Requetes,
           Refus(q) \/ Panne(q) \/ Interblocage(q) \/ RecevoirEchec(q)
    PROVE  IInv'
BY TerminerSeul DEF Refus, Panne, Interblocage, RecevoirEchec, Donnees

(* What the transaction of q has read, as constants.                       *)
LEMMA LuDe ==
    ASSUME IInv, NEW q \in Requetes
    PROVE  \E e \in Etapes, l \in Lectures :
               etape[q] = e /\ lu[q] = l /\ EtatOK(e, l) /\ Tient(q) = Rangs(e, l)
BY TientRangs DEF IInv, TypeOK

(* An execution locks the vault, the till, then the session.               *)
LEMMA ExecuterCoffreOK ==
    ASSUME IInv, NEW q \in Requetes, ExecuterCoffre(q)
    PROVE  IInv'
<1>1. PICK l \in Lectures : etape[q] = "execLu" /\ lu[q] = l /\ EtatOK("execLu", l)
    BY LuDe DEF ExecuterCoffre, Reussit, Avance
<1>2. DebitPermis(l.transfert) /\ Bloquants(q, {Coffre}) = {}
    BY <1>1 DEF ExecuterCoffre, Reussit, Avance, Accepte, Demande
<1>3. EtatOK("execCoffre", l)
    BY <1>1, <1>2 DEF EtatOK, SurUnTransfert, Executant, SousCoffre, Reception, Annulation
<1>4. Rangs("execCoffre", l) \subseteq Tient(q) \cup {Coffre}
    BY DEF Rangs, Reception
<1>5. "execCoffre" \in Etapes \ {"recuAttend"} /\ "execCoffre" \in Executant
    BY DEF Etapes, Executant
<1> QED BY <1>1, <1>2, <1>3, <1>4, <1>5, AvancerSeul DEF ExecuterCoffre, Donnees

(* The execution goes on to the row of the till, with the session it will  *)
(* be booked on.                                                           *)
LEMMA ExecuterCaisseOK ==
    ASSUME IInv, NEW q \in Requetes, ExecuterCaisse(q)
    PROVE  IInv'
<1>1. PICK l \in Lectures : /\ etape[q] = "execCoffre" /\ lu[q] = l /\ EtatOK("execCoffre", l)
                           /\ Tient(q) = Rangs("execCoffre", l)
    BY LuDe DEF ExecuterCaisse, Reussit, Avance
<1> DEFINE t == l.transfert
<1>2. ~execute[t] /\ Bloquants(q, {Caisse(CaisseDe(t))}) = {}
    BY <1>1 DEF ExecuterCaisse, Reussit, Avance, Accepte, Demande, CleLibre
<1>3. PICK s : s \in SessionsPossibles(q) /\ Attendre(q, "execCaisse", [l EXCEPT !.session = s])
    BY <1>1 DEF ExecuterCaisse
<1>4. /\ s \in Sessions \cup {AUCUN}
      /\ s # AUCUN => Existe(s)
      /\ s = AUCUN => Ouvertes(CaisseDe(t)) = {}
    <2>1. l.session \in Sessions \cup {AUCUN} /\ (l.session # AUCUN => Existe(l.session))
        BY <1>1 DEF EtatOK, Executant, Lectures
    <2>2. AUCUN \notin Sessions
        BY ConstantesOK
    <2> QED BY <1>1, <1>3, <2>1, <2>2 DEF SessionsPossibles, Ouvertes, Existe
<1> DEFINE m == [l EXCEPT !.session = s]
<1>5. m \in Lectures /\ m.session = s /\ m.transfert = t /\ m.execution = l.execution
    <2>1. m \in Lectures
        <3>1. PICK r \in Sessions \cup {AUCUN} : r = s
            BY <1>4
        <3> QED BY <3>1 DEF Lectures
    <2> QED BY <2>1 DEF Lectures
<1>6. Attendre(q, "execCaisse", m)
    BY <1>3
<1> HIDE DEF m, t
<1>7. EtatOK("execCaisse", m)
    <2>1. /\ m.transfert \in Sessions /\ transfert[m.transfert] # "ABSENT" /\ DebitPermis(m.transfert)
          /\ m.execution = AUCUN /\ ~execute[m.transfert]
        BY <1>1, <1>2, <1>5 DEF t, EtatOK, SurUnTransfert, Executant, SousCoffre
    <2>2. m.session = AUCUN => Ouvertes(CaisseDe(m.transfert)) = {}
        BY <1>4, <1>5
    <2>3. m.session # AUCUN => Existe(m.session)
        BY <1>4, <1>5
    <2> QED BY <2>1, <2>2, <2>3 DEF EtatOK, SurUnTransfert, Executant, SousCoffre, Reception, Annulation
<1>8. Rangs("execCaisse", m) \subseteq Tient(q) \cup {Caisse(CaisseDe(t))}
    BY <1>1, <1>5 DEF Rangs, Reception
<1>9. "execCaisse" \in Etapes \ {"recuAttend"} /\ "execCaisse" \in Executant
    BY DEF Etapes, Executant
<1>10. m.transfert = lu[q].transfert
    BY <1>1, <1>5 DEF t
<1> QED BY <1>2, <1>5, <1>6, <1>7, <1>8, <1>9, <1>10, AvancerSeul DEF ExecuterCaisse, Donnees

(* The execution goes on to the row of its session.                        *)
LEMMA ExecuterSessionOK ==
    ASSUME IInv, NEW q \in Requetes, ExecuterSession(q)
    PROVE  IInv'
<1>1. PICK l \in Lectures : /\ etape[q] = "execCaisse" /\ lu[q] = l /\ EtatOK("execCaisse", l)
                           /\ Tient(q) = Rangs("execCaisse", l)
    BY LuDe DEF ExecuterSession, Avance
<1>2. l.session # AUCUN /\ Bloquants(q, {Session(l.session)}) = {}
    BY <1>1 DEF ExecuterSession, Avance, Demande
<1>3. EtatOK("execSession", l)
    BY <1>1, <1>2 DEF EtatOK, SurUnTransfert, Executant, SousCoffre, Reception, Annulation
<1>4. Rangs("execSession", l) \subseteq Tient(q) \cup {Session(l.session)}
    BY <1>1 DEF Rangs, Reception
<1>5. "execSession" \in Etapes \ {"recuAttend"} /\ "execSession" \in Executant
    BY DEF Etapes, Executant
<1> QED BY <1>1, <1>2, <1>3, <1>4, <1>5, AvancerSeul DEF ExecuterSession, Donnees

(* The reception finds the transfer executed; the cancellation locks it.   *)
LEMMA SuiteSessionOK ==
    ASSUME IInv, NEW q \in Requetes, RecevoirDejaExecute(q) \/ AnnulerVerrouTransfert(q)
    PROVE  IInv'
<1>1. CASE RecevoirDejaExecute(q)
    <2>1. PICK l \in Lectures : /\ etape[q] = "recu" /\ lu[q] = l /\ EtatOK("recu", l)
                               /\ Tient(q) = Rangs("recu", l)
        BY <1>1, LuDe DEF RecevoirDejaExecute
    <2>2. l.session \in Sessions
        BY <2>1 DEF EtatOK, Reception
    <2>3. execute[l.session]
        BY <1>1, <2>1, <2>2 DEF RecevoirDejaExecute, IInv, LigneOK
    <2>4. EtatOK("recuOuvre", l)
        BY <2>1, <2>3 DEF EtatOK, SurUnTransfert, Executant, SousCoffre, Reception, Annulation
    <2>5. Rangs("recuOuvre", l) \subseteq Tient(q) \cup {}
        BY <2>1 DEF Rangs, Reception
    <2>6. "recuOuvre" \in Etapes \ {"recuAttend"} /\ "recu" \notin Executant
        BY DEF Etapes, Executant
    <2> QED BY <1>1, <2>1, <2>4, <2>5, <2>6, PasDeLigne, AvancerSeul DEF RecevoirDejaExecute, Donnees
<1>2. CASE AnnulerVerrouTransfert(q)
    <2>1. PICK l \in Lectures : /\ etape[q] = "annule" /\ lu[q] = l /\ EtatOK("annule", l)
                               /\ Tient(q) = Rangs("annule", l)
        BY <1>2, LuDe DEF AnnulerVerrouTransfert, Avance
    <2>2. Bloquants(q, {Transfert(l.session)}) = {}
        BY <1>2, <2>1 DEF AnnulerVerrouTransfert, Avance, Demande
    <2>3. EtatOK("annuleTransfert", l)
        BY <2>1 DEF EtatOK, SurUnTransfert, Executant, SousCoffre, Reception, Annulation
    <2>4. Rangs("annuleTransfert", l) \subseteq Tient(q) \cup {Transfert(l.session)}
        BY <2>1 DEF Rangs, Reception
    <2>5. "annuleTransfert" \in Etapes \ {"recuAttend"} /\ "annule" \notin Executant
        BY DEF Etapes, Executant
    <2> QED BY <1>2, <2>1, <2>2, <2>3, <2>4, <2>5, AvancerSeul DEF AnnulerVerrouTransfert, Donnees
<1> QED BY <1>1, <1>2

(* The reception calls the execution.                                      *)
LEMMA RecevoirExecuterOK ==
    ASSUME IInv, NEW q \in Requetes, NEW x \in Requetes, RecevoirExecuter(q, x)
    PROVE  IInv'
<1>1. PICK l \in Lectures : /\ etape[q] = "recu" /\ lu[q] = l /\ EtatOK("recu", l)
                           /\ Tient(q) = Rangs("recu", l)
    BY LuDe DEF RecevoirExecuter
<1>2. PICK s \in Sessions : s = l.session /\ Existe(s)
    BY <1>1 DEF EtatOK, Reception, Existe
<1>3. transfert[s] # "ABSENT" /\ x # q /\ etape[x] = "libre" /\ UNCHANGED Donnees
    BY <1>1, <1>2 DEF RecevoirExecuter, Executable, Donnees
<1>4. PICK m \in Lectures : /\ m = [SurTransfert(s) EXCEPT !.session = s]
                           /\ m.transfert = s /\ m.session = s /\ m.execution = AUCUN
    BY SurTransfertSession
<1>5. PICK n \in Lectures : n = [l EXCEPT !.execution = x]
    BY DEF Lectures
<1>6. n.execution = x /\ n.session = s /\ x # AUCUN
    BY <1>2, <1>5, ConstantesOK DEF Lectures
<1>7. /\ etape' = [etape EXCEPT ![q] = "recuAttend", ![x] = "execLu"]
      /\ lu' = [lu EXCEPT ![q] = n, ![x] = m]
    <2>1. lu' = [lu EXCEPT ![q].execution = x, ![x] = m]
        BY <1>1, <1>2, <1>4 DEF RecevoirExecuter
    <2>2. lu \in [Requetes -> Lectures]
        BY DEF IInv, TypeOK
    <2> QED BY <1>1, <1>2, <1>5, <2>1, <2>2 DEF RecevoirExecuter
<1>8. /\ etape'[q] = "recuAttend" /\ lu'[q] = n /\ etape'[x] = "execLu" /\ lu'[x] = m
      /\ \A p \in Requetes \ {q, x} : Demeure(p)
    BY <1>3, <1>7 DEF IInv, TypeOK, Demeure
<1>9. TypeOK'
    <2>1. etape' \in [Requetes -> Etapes] /\ lu' \in [Requetes -> Lectures]
        BY <1>7 DEF IInv, TypeOK, Etapes
    <2> QED BY <1>3, <2>1 DEF IInv, TypeOK, Donnees, varsSession, varsTransfert, varsArgent
<1>10. /\ Stable /\ EpargneAutres(q)
       /\ (\A r \in Sessions : LigneOK(r))' /\ UneActive' /\ SessionRefleteCaisse'
    BY <1>3, SansEcriture
<1>11. EtatOK(etape[x], lu[x])' /\ Tient(x)' = {}
    <2>1. EtatOK("execLu", m)'
        BY <1>2, <1>3, <1>4, <1>10
           DEF Stable, EtatOK, SurUnTransfert, Executant, SousCoffre, Reception, Annulation
    <2>2. Tient(x)' = {}
        BY <1>8 DEF Tient
    <2> QED BY <1>8, <2>1, <2>2
<1>12. EtatOK(etape[q], lu[q])' /\ Tient(q)' = Tient(q)
    <2>1. EtatOK("recuAttend", n)'
        BY <1>1, <1>2, <1>3, <1>6 DEF EtatOK, SurUnTransfert, Executant, SousCoffre, Reception, Annulation,
           Donnees, varsSession
    <2>2. Tient(q)' = {Session(s)} /\ Tient(q) = {Session(s)}
        BY <1>1, <1>2, <1>6, <1>8 DEF Tient
    <2> QED BY <1>8, <2>1, <2>2
<1>13. ASSUME NEW p \in Requetes \ {q, x}
       PROVE  EtatOK(etape[p], lu[p])' /\ Tient(p)' \subseteq Tient(p)
    BY <1>8, <1>9, <1>10, UneAutre DEF EpargneAutres
<1>14. Exclusion'
    <2> SUFFICES ASSUME NEW p \in Requetes, NEW r \in Requetes, p # r
                 PROVE  Tient(p)' \cap Tient(r)' = {}
        BY DEF Exclusion
    <2>1. Tient(p)' \subseteq Tient(p) /\ Tient(r)' \subseteq Tient(r)
        BY <1>11, <1>12, <1>13
    <2> QED BY <2>1 DEF IInv, Exclusion
<1>15. ASSUME NEW p \in Requetes, etape'[p] = "recuAttend"
       PROVE  /\ etape'[lu'[p].execution] \in Executant
              /\ lu'[lu'[p].execution].transfert = lu'[p].session
    <2>1. CASE p = q
        BY <1>4, <1>6, <1>8, <2>1 DEF Executant
    <2>2. CASE p # q
        <3>1. Demeure(p) /\ etape[p] = "recuAttend"
            BY <1>8, <1>15, <2>2 DEF Demeure
        <3>2. PICK y \in Requetes : y = lu[p].execution
            BY <3>1 DEF IInv, EtatOK, TypeOK, Lectures
        <3>3. etape[y] \in Executant /\ lu[y].transfert = lu[p].session
            BY <3>1, <3>2 DEF IInv, AttenteOK
        <3>4. Demeure(y)
            BY <1>1, <1>3, <1>8, <3>3 DEF Executant
        <3> QED BY <3>1, <3>2, <3>3, <3>4 DEF Demeure
    <2> QED BY <2>1, <2>2
<1> QED BY <1>9, <1>10, <1>11, <1>12, <1>13, <1>14, <1>15 DEF IInv, AttenteOK
-----------------------------------------------------------------------------
(***************************************************************************)
(* Steps that write: what they owe to the others and to the balances.      *)
(***************************************************************************)

(* No connection moves.                                                    *)
LEMMA PasSansRequete ==
    ASSUME IInv, TypeOK', Stable, UNCHANGED varsRequete,
           \A p \in Requetes : Epargne(etape[p], lu[p])
    PROVE  RequetesOK'
<1>1. \A p \in Requetes : Demeure(p)
    BY DEF varsRequete, Demeure
<1>2. \A p \in Requetes : EtatOK(etape[p], lu[p])' /\ Tient(p)' \subseteq Tient(p)
    BY <1>1, UneAutre
<1>3. Exclusion'
    BY <1>2 DEF IInv, Exclusion
<1>4. AttenteOK'
    BY DEF IInv, AttenteOK, varsRequete
<1>5. (\A p \in Requetes : EtatOK(etape[p], lu[p]))'
    BY <1>2
<1> QED BY <1>3, <1>4, <1>5 DEF RequetesOK

(* Who works on a session holds its row.                                   *)
LEMMA SessionTenue ==
    ASSUME IInv, NEW p \in Requetes, etape[p] \in Reception \cup Annulation
    PROVE  /\ Session(lu[p].session) \in Tient(p)
           /\ lu[p].session \in Sessions /\ Existe(lu[p].session)
<1>1. lu[p].session \in Sessions /\ statut[lu[p].session] \in Attente
    BY DEF IInv, EtatOK, Attente
<1>2. Session(lu[p].session) \in Tient(p)
    BY DEF Tient, Reception, Annulation
<1> QED BY <1>1, <1>2 DEF Existe, Attente

(* Only statuses change, of sessions that others do not hold.              *)
LEMMA EpargneSi ==
    ASSUME IInv, Stable, NEW p \in Requetes, UNCHANGED <<soldeCoffre, execute>>,
           etape[p] \in Reception \cup Annulation => statut'[lu[p].session] = statut[lu[p].session],
           \A s \in Sessions : statut'[s] = "OPEN" =>
               \/ statut[s] = "OPEN"
               \/ etape[p] = "execCaisse" => titulaire'[s].caisse # CaisseDe(lu[p].transfert)
    PROVE  Epargne(etape[p], lu[p])
<1>1. EtatOK(etape[p], lu[p])
    BY DEF IInv
<1>2. ASSUME etape[p] = "execCaisse", lu[p].session = AUCUN, NEW s \in Sessions, statut'[s] = "OPEN"
      PROVE  titulaire'[s].caisse # titulaire'[lu[p].transfert].caisse
    <2>1. lu[p].transfert \in Sessions /\ Existe(lu[p].transfert)
        BY <1>1, <1>2 DEF EtatOK, SurUnTransfert, Executant, IInv, LigneOK
    <2>2. titulaire'[lu[p].transfert] = titulaire[lu[p].transfert]
        BY <2>1 DEF Stable
    <2>3. CASE statut[s] = "OPEN"
        <3>1. Existe(s) /\ titulaire'[s] = titulaire[s]
            BY <2>3 DEF Existe, Stable
        <3>2. s \notin Ouvertes(CaisseDe(lu[p].transfert))
            BY <1>1, <1>2 DEF EtatOK
        <3> QED BY <2>2, <2>3, <3>1, <3>2 DEF Ouvertes, CaisseDe
    <2>4. CASE titulaire'[s].caisse # CaisseDe(lu[p].transfert)
        BY <2>2, <2>4 DEF CaisseDe
    <2> QED BY <1>2, <2>3, <2>4
<1> QED BY <1>2 DEF Epargne

(* Sums of amounts.                                                        *)
LEMMA SommeMontants ==
    ASSUME NEW f \in [Sessions -> Nat], NEW T \in SUBSET Sessions
    PROVE  IsFiniteSet(T) /\ SumFunctionOnSet(f, T) \in Nat
<1>1. IsFiniteSet(T)
    BY FS_Subset, ConstantesOK
<1> QED BY <1>1, SommeNaturelle

(* The supplies booked on sessions of a till from elsewhere do not change  *)
(* when nothing is executed.                                               *)
LEMMA AilleursGarde ==
    ASSUME IInv, Stable, UNCHANGED <<execute, imputation>>, NEW s \in Sessions, Existe(s)
    PROVE  /\ ImputesAilleurs(s)' = ImputesAilleurs(s)
           /\ SumFunctionOnSet(montant, ImputesAilleurs(s))' = SumFunctionOnSet(montant, ImputesAilleurs(s))
<1>1. titulaire'[s] = titulaire[s]
    BY DEF Stable
<1>2. ASSUME NEW t \in Sessions, imputation[t] # AUCUN
      PROVE  titulaire'[imputation[t]] = titulaire[imputation[t]]
    <2>1. imputation[t] \in Sessions /\ Existe(imputation[t])
        BY <1>2 DEF IInv, TypeOK, LigneOK
    <2> QED BY <2>1 DEF Stable
<1>3. ImputesAilleurs(s)' = ImputesAilleurs(s)
    BY <1>1, <1>2 DEF ImputesAilleurs, CaisseDe
<1>4. \A t \in ImputesAilleurs(s) : montant'[t] = montant[t]
    BY DEF ImputesAilleurs, IInv, LigneOK, Stable
<1>5. IsFiniteSet(ImputesAilleurs(s))
    BY SommeMontants DEF ImputesAilleurs, IInv, TypeOK
<1>6. SumFunctionOnSet(montant', ImputesAilleurs(s)) = SumFunctionOnSet(montant, ImputesAilleurs(s))
    BY <1>4, <1>5, SommePareille
<1> QED BY <1>3, <1>6

(* A step leaves the difference between till and session as it was, or     *)
(* makes it zero.                                                          *)
LEMMA EcartGarde ==
    ASSUME IInv, Stable, TypeOK', UNCHANGED <<execute, imputation>>,
           \A s \in Sessions : statut'[s] = "OPEN" =>
               \/ /\ statut[s] = "OPEN"
                  /\ soldeCaisse'[CaisseDe(s)] - theorique'[s] = soldeCaisse[CaisseDe(s)] - theorique[s]
               \/ soldeCaisse'[titulaire'[s].caisse] = theorique'[s]
    PROVE  SessionRefleteCaisse'
<1> SUFFICES ASSUME NEW s \in Sessions, statut'[s] = "OPEN"
             PROVE  (soldeCaisse[CaisseDe(s)] - theorique[s]
                        \in 0..SumFunctionOnSet(montant, ImputesAilleurs(s)))'
    BY DEF SessionRefleteCaisse
<1>1. CASE /\ statut[s] = "OPEN"
           /\ soldeCaisse'[CaisseDe(s)] - theorique'[s] = soldeCaisse[CaisseDe(s)] - theorique[s]
    <2>1. Existe(s) /\ CaisseDe(s)' = CaisseDe(s)
        BY <1>1 DEF Existe, Stable, CaisseDe
    <2>2. soldeCaisse[CaisseDe(s)] - theorique[s] \in 0..SumFunctionOnSet(montant, ImputesAilleurs(s))
        BY <1>1 DEF IInv, SessionRefleteCaisse
    <2>3. SumFunctionOnSet(montant, ImputesAilleurs(s))' = SumFunctionOnSet(montant, ImputesAilleurs(s))
        BY <2>1, AilleursGarde
    <2> QED BY <1>1, <2>1, <2>2, <2>3
<1>2. CASE soldeCaisse'[titulaire'[s].caisse] = theorique'[s]
    <2>1. theorique'[s] \in Int
        BY DEF TypeOK
    <2>2. SumFunctionOnSet(montant', ImputesAilleurs(s)') \in Nat
        BY SommeMontants DEF TypeOK, ImputesAilleurs
    <2> QED BY <1>2, <2>1, <2>2 DEF CaisseDe
<1> QED BY <1>1, <1>2
-----------------------------------------------------------------------------
(***************************************************************************)
(* Steps that write.                                                       *)
(***************************************************************************)
LEMMA TerminerType ==
    ASSUME IInv, NEW q \in Requetes, NEW suite \in {"libre", "recuOuvre"}, Finir(q, suite)
    PROVE  etape' \in [Requetes -> Etapes] /\ lu' \in [Requetes -> Lectures]
<1>1. \A p \in Requetes : [lu[p] EXCEPT !.execution = AUCUN] \in Lectures
    BY DEF IInv, TypeOK, Lectures
<1> QED BY <1>1, LectureVideType DEF Finir, IInv, TypeOK, Etapes

(* The cashier asks for funds.                                             *)
LEMMA DemanderOK ==
    ASSUME IInv, NEW q \in Requetes, Demander(q)
    PROVE  IInv'
<1>1. PICK l \in Lectures : etape[q] = "demande" /\ lu[q] = l /\ EtatOK("demande", l)
    BY LuDe DEF Demander, Reussit, Avance
<1>2. l.titulaire \in Titulaires /\ l.montant \in Montants /\ l.montant \in Nat /\ l.solde \in Int
    BY <1>1, ConstantesOK DEF EtatOK, Lectures
<1>3. CreneauLibre({}, l.titulaire)
    BY <1>1 DEF Demander, Reussit, Accepte
<1>4. PICK s \in Sessions :
          /\ ~Existe(s)
          /\ statut' = [statut EXCEPT ![s] = "REQUESTING_FUNDS"]
          /\ titulaire' = [titulaire EXCEPT ![s] = l.titulaire]
          /\ veille' = [veille EXCEPT ![s] = l.solde]
          /\ transfert' = [transfert EXCEPT ![s] = "REQUESTED"]
          /\ montant' = [montant EXCEPT ![s] = l.montant]
    BY <1>1 DEF Demander, Existe
<1>5. /\ UNCHANGED <<ouverture, theorique, execute, imputation, soldeCoffre, soldeCaisse, flux>>
      /\ Terminer(q)
    BY DEF Demander, varsArgent
<1>6. \A x \in Sessions :
          /\ statut'[x] = IF x = s THEN "REQUESTING_FUNDS" ELSE statut[x]
          /\ titulaire'[x] = IF x = s THEN l.titulaire ELSE titulaire[x]
          /\ transfert'[x] = IF x = s THEN "REQUESTED" ELSE transfert[x]
          /\ montant'[x] = IF x = s THEN l.montant ELSE montant[x]
    BY <1>4 DEF IInv, TypeOK
<1>7. ~execute[s] /\ transfert[s] = "ABSENT"
    BY <1>4 DEF IInv, LigneOK
<1>8. Stable
    BY <1>4, <1>5, <1>6, <1>7 DEF Stable, Existe
<1>9. TypeOK'
    BY <1>2, <1>4, <1>5, TerminerType DEF Terminer, IInv, TypeOK, Actifs, Attente, StatutsTransfert
<1>10. EpargneAutres(q)
    <2> SUFFICES ASSUME NEW p \in Requetes \ {q} PROVE Epargne(etape[p], lu[p])
        BY DEF EpargneAutres
    <2>1. etape[p] \in Reception \cup Annulation => statut'[lu[p].session] = statut[lu[p].session]
        BY <1>4, <1>6, SessionTenue
    <2>2. \A x \in Sessions : statut'[x] = "OPEN" => statut[x] = "OPEN"
        BY <1>6
    <2> QED BY <1>5, <1>8, <2>1, <2>2, EpargneSi
<1>11. RequetesOK'
    BY <1>5, <1>8, <1>9, <1>10, PasFinir DEF Terminer
<1>12. (\A x \in Sessions : LigneOK(x))'
    <2> SUFFICES ASSUME NEW x \in Sessions PROVE LigneOK(x)'
        OBVIOUS
    <2>1. LigneOK(x)
        BY DEF IInv
    <2>2. (imputation[x] # AUCUN => Existe(imputation[x]))'
        BY <1>5, <1>8, <2>1 DEF LigneOK, Stable, IInv, TypeOK
    <2> QED BY <1>2, <1>5, <1>6, <1>7, <2>1, <2>2 DEF LigneOK, Existe, Attente
<1>13. UneActive'
    BY <1>3, <1>6 DEF IInv, UneActive, CreneauLibre, CaisseDe
<1>14. SessionRefleteCaisse'
    BY <1>5, <1>6, <1>8, <1>9, EcartGarde
<1> QED BY <1>9, <1>11, <1>12, <1>13, <1>14 DEF IInv, RequetesOK

(* A row of transferts_coffre_caisse changes, and no other.                *)
LEMMA TransfertSeulOK ==
    ASSUME IInv, NEW q \in Requetes, ValiderTransfert(q) \/ AnnulerTransfert(q)
    PROVE  IInv'
<1>1. PICK l \in Lectures : /\ etape[q] \in {"validerTransfert", "annulerTransfert"} /\ lu[q] = l
                           /\ l.transfert \in Sessions /\ transfert[l.transfert] # "ABSENT"
    BY LuDe DEF ValiderTransfert, AnnulerTransfert, Avance, EtatOK, SurUnTransfert
<1>2. PICK t \in Sessions, v \in {"VALIDATED", "REJECTED", "CANCELLED"} :
          /\ t = l.transfert /\ transfert' = [transfert EXCEPT ![t] = v]
          /\ Terminer(q) /\ UNCHANGED <<varsSession, montant, execute, imputation, varsArgent>>
    BY <1>1 DEF ValiderTransfert, AnnulerTransfert
<1> USE DEF varsSession, varsArgent
<1>3. \A x \in Sessions : transfert'[x] = IF x = t THEN v ELSE transfert[x]
    BY <1>2 DEF IInv, TypeOK
<1>4. Stable
    BY <1>2, <1>3 DEF Stable, Existe
<1>5. TypeOK'
    BY <1>2, TerminerType DEF Terminer, IInv, TypeOK, StatutsTransfert
<1>6. EpargneAutres(q)
    BY <1>2, <1>4, EpargneSi DEF EpargneAutres
<1>7. RequetesOK'
    BY <1>2, <1>4, <1>5, <1>6, PasFinir DEF Terminer
<1>8. (\A x \in Sessions : LigneOK(x))'
    BY <1>1, <1>2, <1>3 DEF IInv, LigneOK, Existe
<1>9. UneActive'
    BY <1>2 DEF IInv, UneActive, CaisseDe
<1>10. SessionRefleteCaisse'
    BY <1>2, <1>4, <1>5, EcartGarde
<1> QED BY <1>5, <1>7, <1>8, <1>9, <1>10 DEF IInv, RequetesOK

(* The vault approves or rejects: no other transaction holds the session.  *)
LEMMA ValiderOK ==
    ASSUME IInv, NEW q \in Requetes, Valider(q)
    PROVE  IInv'
<1>1. PICK l \in Lectures : /\ etape[q] = "valide" /\ lu[q] = l
                           /\ l.transfert \in Sessions /\ transfert[l.transfert] # "ABSENT"
    BY LuDe DEF Valider, Reussit, Avance, EtatOK, SurUnTransfert
<1>2. PICK t \in Sessions : t = l.transfert /\ transfert[t] # "ABSENT" /\ Existe(t)
    BY <1>1 DEF IInv, LigneOK
<1>3. /\ transfert' = [transfert EXCEPT ![t] = IF l.approuve THEN "VALIDATED" ELSE "REJECTED"]
      /\ statut' = [statut EXCEPT ![t] = IF l.approuve THEN "FUNDS_DISPATCHED" ELSE "CLOSED"]
      /\ Terminer(q)
      /\ UNCHANGED <<titulaire, veille, ouverture, theorique, montant, execute, imputation, varsArgent>>
    BY <1>1, <1>2 DEF Valider
<1> USE DEF varsArgent
<1>4. l.approuve => CreneauLibre({t}, titulaire[t])
    BY <1>1, <1>2 DEF Valider, Reussit, Accepte
<1>5. \A x \in Sessions :
          /\ transfert'[x] = IF x = t THEN (IF l.approuve THEN "VALIDATED" ELSE "REJECTED") ELSE transfert[x]
          /\ statut'[x] = IF x = t THEN (IF l.approuve THEN "FUNDS_DISPATCHED" ELSE "CLOSED") ELSE statut[x]
    BY <1>3 DEF IInv, TypeOK
<1>6. Stable
    BY <1>3, <1>5 DEF Stable, Existe
<1>7. TypeOK'
    BY <1>3, TerminerType DEF Terminer, IInv, TypeOK, StatutsTransfert, Actifs, Attente
<1>8. EpargneAutres(q)
    <2> SUFFICES ASSUME NEW p \in Requetes \ {q} PROVE Epargne(etape[p], lu[p])
        BY DEF EpargneAutres
    <2>1. etape[p] \in Reception \cup Annulation => lu[p].session # t
        <3>1. Tient(p) \cap {Session(t)} = {}
            BY <1>1, <1>2 DEF Valider, Reussit, Avance, Demande, Bloquants
        <3> QED BY <3>1, SessionTenue
    <2>2. etape[p] \in Reception \cup Annulation => statut'[lu[p].session] = statut[lu[p].session]
        BY <1>5, <2>1, SessionTenue
    <2>3. \A x \in Sessions : statut'[x] = "OPEN" => statut[x] = "OPEN"
        BY <1>5
    <2> QED BY <1>3, <1>6, <2>2, <2>3, EpargneSi
<1>9. RequetesOK'
    BY <1>3, <1>6, <1>7, <1>8, PasFinir DEF Terminer
<1>10. (\A x \in Sessions : LigneOK(x))'
    <2> SUFFICES ASSUME NEW x \in Sessions PROVE LigneOK(x)'
        OBVIOUS
    <2>1. LigneOK(x)
        BY DEF IInv
    <2>2. (imputation[x] # AUCUN => Existe(imputation[x]))'
        BY <1>3, <1>6, <2>1 DEF LigneOK, Stable, IInv, TypeOK
    <2> QED BY <1>2, <1>3, <1>5, <2>1, <2>2 DEF LigneOK, Existe, Attente
<1>11. UneActive'
    <2>1. \A x \in Sessions : statut'[x] \in Actifs => (x = t /\ l.approuve) \/ statut[x] \in Actifs
        BY <1>5 DEF Actifs, Attente
    <2>2. \A x \in Sessions \ {t} : l.approuve /\ statut[x] \in Actifs => CaisseDe(x) # CaisseDe(t)
        BY <1>4 DEF CreneauLibre, CaisseDe
    <2> QED BY <1>3, <1>5, <2>1, <2>2 DEF IInv, UneActive, CaisseDe, Actifs, Attente
<1>12. SessionRefleteCaisse'
    BY <1>3, <1>5, <1>6, <1>7, EcartGarde
<1> QED BY <1>7, <1>9, <1>10, <1>11, <1>12 DEF IInv, RequetesOK
(* The session opens: the till, which nobody else holds, keeps its balance.*)
LEMMA RecevoirOK ==
    ASSUME IInv, NEW q \in Requetes, Recevoir(q)
    PROVE  IInv' /\ soldeCaisse' = soldeCaisse
<1>1. PICK l \in Lectures : /\ etape[q] = "recuOuvre" /\ lu[q] = l /\ EtatOK("recuOuvre", l)
                           /\ Tient(q) = Rangs("recuOuvre", l)
    BY LuDe DEF Recevoir, Reussit, Avance
<1>2. PICK s \in Sessions : s = l.session /\ statut[s] = "FUNDS_DISPATCHED" /\ Session(s) \in Tient(q)
    BY <1>1 DEF EtatOK, Reception, Rangs
<1>3. titulaire[s] \in Titulaires /\ CaisseDe(s) \in Caisses /\ Existe(s)
    BY <1>2 DEF IInv, LigneOK, Existe, CaisseDe, Titulaires
<1> DEFINE solde == SoldeOuverture(q)
<1>4. soldeCaisse[CaisseDe(s)] = solde
    BY <1>1, <1>2 DEF Recevoir, Reussit, Accepte, GardeDeSolde
<1>5. /\ statut' = [statut EXCEPT ![s] = "OPEN"]
      /\ ouverture' = [ouverture EXCEPT ![s] = solde]
      /\ theorique' = [theorique EXCEPT ![s] = solde]
      /\ soldeCaisse' = [soldeCaisse EXCEPT ![CaisseDe(s)] = solde]
      /\ Terminer(q) /\ UNCHANGED <<titulaire, veille, varsTransfert, soldeCoffre, flux>>
    BY <1>1, <1>2 DEF Recevoir
<1> HIDE DEF solde
<1> USE DEF varsTransfert
<1>6. soldeCaisse' = soldeCaisse /\ solde \in Int
    BY <1>3, <1>4, <1>5 DEF IInv, TypeOK
<1>7. \A x \in Sessions :
          /\ statut'[x] = IF x = s THEN "OPEN" ELSE statut[x]
          /\ theorique'[x] = IF x = s THEN solde ELSE theorique[x]
    BY <1>5 DEF IInv, TypeOK
<1>8. Stable
    BY <1>5, <1>7 DEF Stable, Existe
<1>9. TypeOK'
    BY <1>5, <1>6, TerminerType DEF Terminer, IInv, TypeOK, Actifs
<1>10. EpargneAutres(q)
    <2> SUFFICES ASSUME NEW p \in Requetes \ {q} PROVE Epargne(etape[p], lu[p])
        BY DEF EpargneAutres
    <2>1. etape[p] \in Reception \cup Annulation => lu[p].session # s
        BY <1>2, SessionTenue DEF IInv, Exclusion
    <2>2. etape[p] \in Reception \cup Annulation => statut'[lu[p].session] = statut[lu[p].session]
        BY <1>7, <2>1, SessionTenue
    <2>3. etape[p] = "execCaisse" => CaisseDe(s) # CaisseDe(lu[p].transfert)
        <3>1. Tient(p) \cap {Caisse(CaisseDe(s))} = {}
            BY <1>1, <1>2 DEF Recevoir, Reussit, Avance, Demande, Bloquants
        <3>2. etape[p] = "execCaisse" => Caisse(CaisseDe(lu[p].transfert)) \in Tient(p)
            BY DEF Tient
        <3> QED BY <3>1, <3>2
    <2>4. titulaire'[s].caisse = CaisseDe(s)
        BY <1>5 DEF CaisseDe
    <2> QED BY <1>5, <1>7, <1>8, <2>2, <2>3, <2>4, EpargneSi
<1>11. RequetesOK'
    BY <1>5, <1>8, <1>9, <1>10, PasFinir DEF Terminer
<1>12. (\A x \in Sessions : LigneOK(x))'
    <2> SUFFICES ASSUME NEW x \in Sessions PROVE LigneOK(x)'
        OBVIOUS
    <2>1. LigneOK(x)
        BY DEF IInv
    <2>2. (imputation[x] # AUCUN => Existe(imputation[x]))'
        BY <1>5, <1>8, <2>1 DEF LigneOK, Stable, IInv, TypeOK
    <2> QED BY <1>3, <1>5, <1>7, <2>1, <2>2 DEF LigneOK, Existe, Attente
<1>13. UneActive'
    BY <1>2, <1>5, <1>7 DEF IInv, UneActive, CaisseDe, Actifs, Attente
<1>14. SessionRefleteCaisse'
    <2>1. CaisseDe(s) = titulaire'[s].caisse
        BY <1>5 DEF CaisseDe
    <2> QED BY <1>4, <1>5, <1>6, <1>7, <1>8, <1>9, <2>1, EcartGarde
<1> QED BY <1>6, <1>9, <1>11, <1>12, <1>13, <1>14 DEF IInv, RequetesOK

(* The cancellation gives nothing back: BALANCE_GUARD.                     *)
LEMMA AnnulerSansRestitution ==
    ASSUME IInv, NEW q \in Requetes, Annuler(q)
    PROVE  UNCHANGED <<soldeCoffre, soldeCaisse>>
<1>1. PICK l \in Lectures : /\ etape[q] = "annuleTransfert" /\ lu[q] = l /\ EtatOK("annuleTransfert", l)
    BY LuDe DEF Annuler, Reussit, Avance
<1>2. PICK s \in Sessions : s = l.session /\ statut[s] \in Attente
    BY <1>1 DEF EtatOK, Annulation
<1>3. CaisseDe(s) \in Caisses
    BY <1>2 DEF IInv, LigneOK, Existe, CaisseDe, Titulaires, Attente
<1>4. Restitue(s) \in Nat
    BY DEF Restitue, IInv, TypeOK
<1>5. Restitue(s) = 0
    BY <1>1, <1>2, <1>4 DEF Annuler, Reussit, Accepte, GardeDeSolde, IInv, TypeOK
<1>6. /\ soldeCoffre' = soldeCoffre + 0
      /\ soldeCaisse' = [soldeCaisse EXCEPT ![CaisseDe(s)] = @ - 0]
    BY <1>1, <1>2, <1>5 DEF Annuler
<1> QED BY <1>3, <1>6 DEF IInv, TypeOK

(* The opening is cancelled.                                               *)
LEMMA AnnulerOK ==
    ASSUME IInv, NEW q \in Requetes, Annuler(q)
    PROVE  IInv'
<1>1. PICK l \in Lectures : /\ etape[q] = "annuleTransfert" /\ lu[q] = l /\ EtatOK("annuleTransfert", l)
                           /\ Tient(q) = Rangs("annuleTransfert", l)
    BY LuDe DEF Annuler, Reussit, Avance
<1>2. PICK s \in Sessions : s = l.session /\ statut[s] \in Attente /\ Session(s) \in Tient(q)
    BY <1>1 DEF EtatOK, Annulation, Rangs, Reception
<1>3. Existe(s)
    BY <1>2 DEF Existe, Attente
<1>4. /\ transfert' = [transfert EXCEPT ![s] = "CANCELLED"]
      /\ statut' = [statut EXCEPT ![s] = "CLOSED"]
      /\ ouverture' = [ouverture EXCEPT ![s] = 0]
      /\ theorique' = [theorique EXCEPT ![s] = 0]
      /\ Terminer(q) /\ UNCHANGED <<titulaire, veille, montant, execute, imputation, flux>>
    BY <1>1, <1>2 DEF Annuler, Vider
<1>5. UNCHANGED <<soldeCoffre, soldeCaisse>>
    BY AnnulerSansRestitution
<1>6. \A x \in Sessions :
          /\ transfert'[x] = IF x = s THEN "CANCELLED" ELSE transfert[x]
          /\ statut'[x] = IF x = s THEN "CLOSED" ELSE statut[x]
          /\ theorique'[x] = IF x = s THEN 0 ELSE theorique[x]
    BY <1>4 DEF IInv, TypeOK
<1>7. Stable
    BY <1>4, <1>6 DEF Stable, Existe
<1>8. TypeOK'
    BY <1>4, <1>5, TerminerType DEF Terminer, IInv, TypeOK, StatutsTransfert
<1>9. EpargneAutres(q)
    <2> SUFFICES ASSUME NEW p \in Requetes \ {q} PROVE Epargne(etape[p], lu[p])
        BY DEF EpargneAutres
    <2>1. etape[p] \in Reception \cup Annulation => lu[p].session # s
        BY <1>2, SessionTenue DEF IInv, Exclusion
    <2>2. etape[p] \in Reception \cup Annulation => statut'[lu[p].session] = statut[lu[p].session]
        BY <1>6, <2>1, SessionTenue
    <2>3. \A x \in Sessions : statut'[x] = "OPEN" => statut[x] = "OPEN"
        BY <1>6
    <2> QED BY <1>4, <1>5, <1>7, <2>2, <2>3, EpargneSi
<1>10. RequetesOK'
    BY <1>4, <1>7, <1>8, <1>9, PasFinir DEF Terminer
<1>11. (\A x \in Sessions : LigneOK(x))'
    <2> SUFFICES ASSUME NEW x \in Sessions PROVE LigneOK(x)'
        OBVIOUS
    <2>1. LigneOK(x)
        BY DEF IInv
    <2>2. (imputation[x] # AUCUN => Existe(imputation[x]))'
        BY <1>4, <1>7, <2>1 DEF LigneOK, Stable, IInv, TypeOK
    <2> QED BY <1>2, <1>3, <1>4, <1>6, <2>1, <2>2 DEF LigneOK, Existe, Attente
<1>12. UneActive'
    BY <1>4, <1>6 DEF IInv, UneActive, CaisseDe, Actifs, Attente
<1>13. SessionRefleteCaisse'
    <2>1. \A x \in Sessions : statut'[x] = "OPEN" => statut[x] = "OPEN" /\ theorique'[x] = theorique[x]
        BY <1>6
    <2> QED BY <1>4, <1>5, <1>7, <1>8, <2>1, EcartGarde
<1> QED BY <1>8, <1>10, <1>11, <1>12, <1>13 DEF IInv, RequetesOK
(* A direct opening: the cashier holds the till, whose balance is counted. *)
LEMMA DirectOK ==
    ASSUME IInv, NEW q \in Requetes, Direct(q)
    PROVE  IInv'
<1>1. PICK l \in Lectures : /\ etape[q] = "direct" /\ lu[q] = l /\ EtatOK("direct", l)
                           /\ Tient(q) = Rangs("direct", l)
    BY LuDe DEF Direct, Reussit, Avance
<1>2. PICK h \in Titulaires, s \in Sessions \cup {AUCUN} :
          /\ h = l.titulaire /\ s = l.session /\ (s # AUCUN => Existe(s))
          /\ h.caisse \in Caisses /\ Caisse(h.caisse) \in Tient(q)
    BY <1>1 DEF EtatOK, Lectures, Rangs, Reception, Titulaires
<1>3. PICK solde \in Nat : solde = soldeCaisse[h.caisse]
    BY <1>2 DEF IInv, TypeOK
<1>4. CreneauLibre({s}, h) /\ (s # AUCUN => Bloquants(q, {Session(s)}) = {})
    BY <1>1, <1>2 DEF Direct, Reussit, Accepte, Avance, Demande
<1>5. PICK r \in Sessions :
          /\ statut[r] = "ABSENTE"
          /\ statut' = [x \in Sessions |-> IF x = r THEN "OPEN" ELSE IF x = s THEN "CLOSED" ELSE statut[x]]
          /\ titulaire' = [titulaire EXCEPT ![r] = h]
          /\ veille' = [veille EXCEPT ![r] = solde]
          /\ ouverture' = [x \in Sessions |-> IF x = r THEN solde ELSE IF x = s THEN 0 ELSE ouverture[x]]
          /\ theorique' = [x \in Sessions |-> IF x = r THEN solde ELSE IF x = s THEN 0 ELSE theorique[x]]
    <2>1. PICK r \in Sessions :
              /\ statut[r] = "ABSENTE"
              /\ statut' = [x \in Sessions |-> IF x = r THEN "OPEN"
                                   ELSE IF x = lu[q].session THEN "CLOSED" ELSE statut[x]]
              /\ titulaire' = [titulaire EXCEPT ![r] = lu[q].titulaire]
              /\ veille' = [veille EXCEPT ![r] = soldeCaisse[lu[q].titulaire.caisse]]
              /\ ouverture' = [x \in Sessions |-> IF x = r THEN soldeCaisse[lu[q].titulaire.caisse]
                                      ELSE IF x = lu[q].session THEN 0 ELSE ouverture[x]]
              /\ theorique' = [x \in Sessions |-> IF x = r THEN soldeCaisse[lu[q].titulaire.caisse]
                                      ELSE IF x = lu[q].session THEN 0 ELSE theorique[x]]
        BY Zenon DEF Direct
    <2>2. lu[q].session = s /\ lu[q].titulaire = h /\ soldeCaisse[lu[q].titulaire.caisse] = solde
        BY <1>1, <1>2, <1>3
    <2> QED BY <2>1, <2>2
<1>6. Terminer(q) /\ UNCHANGED <<varsTransfert, varsArgent>>
    BY DEF Direct
<1> USE DEF varsTransfert, varsArgent
<1>7. r # s /\ ~Existe(r)
    BY <1>2, <1>5, ConstantesOK DEF Existe
<1>8. titulaire'[r] = h /\ \A x \in Sessions \ {r} : titulaire'[x] = titulaire[x]
    BY <1>5 DEF IInv, TypeOK
<1>9. Stable
    BY <1>5, <1>6, <1>7, <1>8 DEF Stable, Existe
<1>10. TypeOK'
    <2>1. statut' \in [Sessions -> Actifs \cup {"ABSENTE", "CLOSED"}]
        BY <1>5 DEF IInv, TypeOK, Actifs
    <2>2. titulaire' \in [Sessions -> Titulaires \cup {AUCUN}] /\ veille' \in [Sessions -> Int]
        BY <1>5 DEF IInv, TypeOK
    <2>3. ouverture' \in [Sessions -> Int] /\ theorique' \in [Sessions -> Int]
        BY <1>5 DEF IInv, TypeOK
    <2> QED BY <1>6, <2>1, <2>2, <2>3, TerminerType DEF Terminer, IInv, TypeOK
<1>11. EpargneAutres(q)
    <2> SUFFICES ASSUME NEW p \in Requetes \ {q} PROVE Epargne(etape[p], lu[p])
        BY DEF EpargneAutres
    <2>1. ASSUME etape[p] \in Reception \cup Annulation
          PROVE  statut'[lu[p].session] = statut[lu[p].session]
        <3>1. PICK x \in Sessions : x = lu[p].session /\ Existe(x) /\ Session(x) \in Tient(p)
            BY <2>1, SessionTenue
        <3>2. x # s /\ x # r
            BY <1>4, <1>7, <3>1, ConstantesOK DEF Bloquants
        <3> QED BY <1>5, <3>1, <3>2
    <2>2. etape[p] = "execCaisse" => h.caisse # CaisseDe(lu[p].transfert)
        <3>1. etape[p] = "execCaisse" => Caisse(CaisseDe(lu[p].transfert)) \in Tient(p)
            BY DEF Tient
        <3> QED BY <1>2, <3>1 DEF IInv, Exclusion
    <2>3. \A x \in Sessions : statut'[x] = "OPEN" => x = r \/ statut[x] = "OPEN"
        BY <1>5
    <2> QED BY <1>6, <1>8, <1>9, <2>1, <2>2, <2>3, EpargneSi
<1>12. RequetesOK'
    BY <1>6, <1>9, <1>10, <1>11, PasFinir DEF Terminer
<1>13. (\A x \in Sessions : LigneOK(x))'
    <2> SUFFICES ASSUME NEW x \in Sessions PROVE LigneOK(x)'
        OBVIOUS
    <2>1. LigneOK(x)
        BY DEF IInv
    <2>2. (imputation[x] # AUCUN => Existe(imputation[x]))'
        BY <1>6, <1>9, <2>1 DEF LigneOK, Stable, IInv, TypeOK
    <2>3. statut'[x] \in Attente => statut[x] \in Attente
        BY <1>5 DEF Attente
    <2>4. Existe(x)' => titulaire'[x] \in Titulaires
        BY <1>2, <1>5, <1>8, <2>1, ConstantesOK DEF LigneOK, Existe
    <2>5. Existe(x) => Existe(x)'
        BY <1>9 DEF Stable
    <2> QED BY <1>6, <2>1, <2>2, <2>3, <2>4, <2>5 DEF LigneOK
<1>14. UneActive'
    <2>1. \A x \in Sessions : statut'[x] \in Actifs => x = r \/ (x # s /\ statut[x] \in Actifs)
        BY <1>5 DEF Actifs, Attente
    <2>2. \A x \in Sessions \ {s} : statut[x] \in Actifs => titulaire[x].caisse # h.caisse
        BY <1>4 DEF CreneauLibre
    <2> QED BY <1>8, <2>1, <2>2 DEF IInv, UneActive, CaisseDe
<1>15. SessionRefleteCaisse'
    <2>1. \A x \in Sessions : statut'[x] = "OPEN" =>
              \/ x = r
              \/ statut[x] = "OPEN" /\ theorique'[x] = theorique[x]
        BY <1>5
    <2>2. soldeCaisse'[titulaire'[r].caisse] = theorique'[r]
        BY <1>3, <1>5, <1>6, <1>8
    <2> QED BY <1>6, <1>9, <1>10, <2>1, <2>2, EcartGarde
<1> QED BY <1>10, <1>12, <1>13, <1>14, <1>15 DEF IInv, RequetesOK

(* What the last step of an execution finds, and what it writes.           *)
LEMMA ExecuterFait ==
    ASSUME IInv, NEW q \in Requetes, Executer(q)
    PROVE  \E t \in Sessions, s \in Sessions \cup {AUCUN}, v \in Sessions, m \in Nat :
               /\ lu[q].transfert = t /\ v = (IF s = AUCUN THEN t ELSE s) /\ m = montant[t] /\ m \in Montants
               /\ Coffre \in Tient(q) /\ etape[q] \in Executant
               /\ transfert[t] # "ABSENT" /\ ~execute[t] /\ soldeCoffre - m >= SoldeMinimum
               /\ Existe(v) /\ CaisseDe(v) \in Caisses
               /\ s = AUCUN => Ouvertes(CaisseDe(v)) = {}
               /\ soldeCoffre' = soldeCoffre - m
               /\ soldeCaisse' = [soldeCaisse EXCEPT ![CaisseDe(v)] = @ + m]
               /\ theorique' = IF s = AUCUN THEN theorique ELSE [theorique EXCEPT ![s] = @ + m]
               /\ transfert' = [transfert EXCEPT ![t] = "EXECUTED"]
               /\ execute' = [execute EXCEPT ![t] = TRUE]
               /\ imputation' = [imputation EXCEPT ![t] = s]
               /\ Finir(q, "recuOuvre")
               /\ UNCHANGED <<statut, titulaire, veille, ouverture, montant, flux>>
<1>1. PICK e \in {"execCaisse", "execSession"}, l \in Lectures :
          /\ etape[q] = e /\ lu[q] = l /\ EtatOK(e, l) /\ Tient(q) = Rangs(e, l)
          /\ e = (IF l.session = AUCUN THEN "execCaisse" ELSE "execSession")
    BY LuDe DEF Executer, Avance
<1>2. PICK t \in Sessions, s \in Sessions \cup {AUCUN} :
          /\ t = l.transfert /\ s = l.session
          /\ transfert[t] # "ABSENT" /\ ~execute[t] /\ DebitPermis(t)
          /\ s # AUCUN => Existe(s)
          /\ s = AUCUN => Ouvertes(CaisseDe(t)) = {}
    BY <1>1 DEF EtatOK, Lectures, SurUnTransfert, Executant, SousCoffre
<1>3. Existe(t) /\ montant[t] \in Montants /\ montant[t] \in Nat
    BY <1>2, ConstantesOK DEF IInv, LigneOK
<1>4. PICK v \in Sessions : v = (IF s = AUCUN THEN t ELSE s)
    BY <1>2, ConstantesOK
<1>5. Existe(v) /\ CaisseDe(v) \in Caisses /\ (s = AUCUN => Ouvertes(CaisseDe(v)) = {})
    <2>1. Existe(v) /\ titulaire[v] \in Titulaires
        BY <1>2, <1>3, <1>4 DEF IInv, LigneOK
    <2> QED BY <1>2, <1>4, <2>1 DEF CaisseDe, Titulaires
<1>6. Coffre \in Tient(q) /\ etape[q] \in Executant
    BY <1>1 DEF Rangs, Executant, Reception
<1>7. /\ soldeCoffre' = soldeCoffre - montant[t]
      /\ soldeCaisse' = [soldeCaisse EXCEPT ![CaisseDe(v)] = @ + montant[t]]
      /\ theorique' = IF s = AUCUN THEN theorique ELSE [theorique EXCEPT ![s] = @ + montant[t]]
      /\ transfert' = [transfert EXCEPT ![t] = "EXECUTED"]
      /\ execute' = [execute EXCEPT ![t] = TRUE]
      /\ imputation' = [imputation EXCEPT ![t] = s]
      /\ Finir(q, "recuOuvre")
      /\ UNCHANGED <<statut, titulaire, veille, ouverture, montant, flux>>
    BY <1>1, <1>2, <1>4 DEF Executer
<1>8. soldeCoffre - montant[t] >= SoldeMinimum
    BY <1>2 DEF DebitPermis
<1>9. lu[q].transfert = t /\ transfert[t] # "ABSENT" /\ ~execute[t]
    BY <1>1, <1>2
<1> QED BY <1>3, <1>4, <1>5, <1>6, <1>7, <1>8, <1>9

(* An execution: till and session get the same amount, unless the session  *)
(* named is not open.                                                      *)
LEMMA ExecuterReflete ==
    ASSUME IInv, NEW t \in Sessions, NEW s \in Sessions \cup {AUCUN}, NEW v \in Sessions, NEW m \in Nat,
           v = (IF s = AUCUN THEN t ELSE s), m = montant[t], ~execute[t],
           CaisseDe(v) \in Caisses,
           s = AUCUN => Ouvertes(CaisseDe(v)) = {},
           soldeCaisse' = [soldeCaisse EXCEPT ![CaisseDe(v)] = @ + m],
           theorique' = IF s = AUCUN THEN theorique ELSE [theorique EXCEPT ![s] = @ + m],
           execute' = [execute EXCEPT ![t] = TRUE],
           imputation' = [imputation EXCEPT ![t] = s],
           UNCHANGED <<statut, titulaire, montant>>
    PROVE  SessionRefleteCaisse'
<1> SUFFICES ASSUME NEW x \in Sessions, statut[x] = "OPEN"
             PROVE  (soldeCaisse[CaisseDe(x)] - theorique[x]
                        \in 0..SumFunctionOnSet(montant, ImputesAilleurs(x)))'
    BY DEF SessionRefleteCaisse
<1> DEFINE A == ImputesAilleurs(x)
<1>1. /\ CaisseDe(x) \in Caisses /\ CaisseDe(x)' = CaisseDe(x)
      /\ soldeCaisse[CaisseDe(x)] \in Nat /\ theorique[x] \in Int
    BY DEF IInv, LigneOK, Existe, CaisseDe, Titulaires, TypeOK
<1>2. soldeCaisse[CaisseDe(x)] - theorique[x] \in 0..SumFunctionOnSet(montant, A)
    BY DEF IInv, SessionRefleteCaisse
<1>3. t \notin A /\ IsFiniteSet(A) /\ SumFunctionOnSet(montant, A) \in Nat /\ A \in SUBSET Sessions
    BY SommeMontants DEF ImputesAilleurs, IInv, TypeOK
<1>4. A' = IF s \notin {x, AUCUN} /\ CaisseDe(s) = CaisseDe(x) THEN A \cup {t} ELSE A
    BY <1>3 DEF ImputesAilleurs, CaisseDe, IInv, TypeOK
<1>5. \A y \in Sessions : /\ theorique'[y] = IF y = s THEN theorique[y] + m ELSE theorique[y]
                          /\ montant'[y] = montant[y]
    BY ConstantesOK DEF IInv, TypeOK
<1>6. \A c \in Caisses : soldeCaisse'[c] = IF c = CaisseDe(v) THEN soldeCaisse[c] + m ELSE soldeCaisse[c]
    BY DEF IInv, TypeOK
<1>7. CASE CaisseDe(x) # CaisseDe(v)
    <2>1. x # s /\ A' = A
        BY <1>4, <1>7, ConstantesOK
    <2> QED BY <1>1, <1>2, <1>5, <1>6, <1>7, <2>1
<1>8. CASE CaisseDe(x) = CaisseDe(v)
    <2>1. s # AUCUN
        BY <1>8 DEF Ouvertes
    <2>2. CASE x = s
        BY <1>1, <1>2, <1>3, <1>4, <1>5, <1>6, <1>8, <2>2
    <2>3. CASE x # s
        <3>1. A' = A \cup {t}
            BY <1>4, <1>8, <2>1, <2>3
        <3>2. SumFunctionOnSet(montant, A \cup {t}) = SumFunctionOnSet(montant, A) + m
            BY <1>3, SommeAjout DEF IInv, TypeOK
        <3> QED BY <1>1, <1>2, <1>3, <1>5, <1>6, <1>8, <2>3, <3>1, <3>2
    <2> QED BY <2>2, <2>3
<1> QED BY <1>7, <1>8

(* The transfer is executed.                                               *)
LEMMA ExecuterOK ==
    ASSUME IInv, NEW q \in Requetes, Executer(q)
    PROVE  IInv'
<1>1. PICK t \in Sessions, s \in Sessions \cup {AUCUN}, v \in Sessions, m \in Nat :
          /\ lu[q].transfert = t /\ v = (IF s = AUCUN THEN t ELSE s) /\ m = montant[t] /\ m \in Montants
          /\ Coffre \in Tient(q) /\ etape[q] \in Executant
          /\ transfert[t] # "ABSENT" /\ ~execute[t] /\ soldeCoffre - m >= SoldeMinimum
          /\ Existe(v) /\ CaisseDe(v) \in Caisses
          /\ s = AUCUN => Ouvertes(CaisseDe(v)) = {}
          /\ soldeCoffre' = soldeCoffre - m
          /\ soldeCaisse' = [soldeCaisse EXCEPT ![CaisseDe(v)] = @ + m]
          /\ theorique' = IF s = AUCUN THEN theorique ELSE [theorique EXCEPT ![s] = @ + m]
          /\ transfert' = [transfert EXCEPT ![t] = "EXECUTED"]
          /\ execute' = [execute EXCEPT ![t] = TRUE]
          /\ imputation' = [imputation EXCEPT ![t] = s]
          /\ Finir(q, "recuOuvre")
          /\ UNCHANGED <<statut, titulaire, veille, ouverture, montant, flux>>
    BY ExecuterFait
<1>2. \A x \in Sessions :
          /\ transfert'[x] = IF x = t THEN "EXECUTED" ELSE transfert[x]
          /\ execute'[x] = IF x = t THEN TRUE ELSE execute[x]
          /\ imputation'[x] = IF x = t THEN s ELSE imputation[x]
    BY <1>1 DEF IInv, TypeOK
<1>3. Stable
    BY <1>1, <1>2 DEF Stable, Existe
<1>4. TypeOK'
    <2>1. soldeCoffre' \in Nat
        BY <1>1, ConstantesOK DEF IInv, TypeOK
    <2>2. soldeCaisse' \in [Caisses -> Nat]
        BY <1>1 DEF IInv, TypeOK
    <2>3. theorique' \in [Sessions -> Int]
        BY <1>1 DEF IInv, TypeOK
    <2>4. transfert' \in [Sessions -> StatutsTransfert]
        BY <1>1 DEF IInv, TypeOK, StatutsTransfert
    <2>5. execute' \in [Sessions -> BOOLEAN] /\ imputation' \in [Sessions -> Sessions \cup {AUCUN}]
        BY <1>1 DEF IInv, TypeOK
    <2>6. etape' \in [Requetes -> Etapes] /\ lu' \in [Requetes -> Lectures]
        BY <1>1, TerminerType
    <2> QED BY <1>1, <2>1, <2>2, <2>3, <2>4, <2>5, <2>6 DEF IInv, TypeOK
<1>5. EpargneAutres(q)
    <2> SUFFICES ASSUME NEW p \in Requetes \ {q} PROVE Epargne(etape[p], lu[p])
        BY DEF EpargneAutres
    <2>1. etape[p] \in SousCoffre => Coffre \in Tient(p)
        BY DEF Tient, SousCoffre
    <2>2. etape[p] \notin SousCoffre
        BY <1>1, <2>1 DEF IInv, Exclusion
    <2> QED BY <1>1, <2>2 DEF Epargne, SousCoffre
<1>6. RequetesOK'
    BY <1>1, <1>2, <1>3, <1>4, <1>5, PasFinir
<1>7. (\A x \in Sessions : LigneOK(x))'
    <2> SUFFICES ASSUME NEW x \in Sessions PROVE LigneOK(x)'
        OBVIOUS
    <2>1. LigneOK(x) /\ (x = t => Existe(x) /\ montant[x] \in Montants)
        BY <1>1 DEF IInv, LigneOK
    <2>2. (imputation[x] # AUCUN => Existe(imputation[x]))'
        BY <1>1, <1>2, <2>1 DEF LigneOK, Existe
    <2>3. transfert'[x] # "ABSENT" <=> transfert[x] # "ABSENT"
        BY <1>1, <1>2
    <2>4. execute'[x] => transfert'[x] # "ABSENT"
        BY <1>1, <1>2, <2>1, <2>3 DEF LigneOK
    <2>5. transfert'[x] = "EXECUTED" => execute'[x]
        BY <1>1, <1>2, <2>1 DEF LigneOK
    <2> QED BY <1>1, <2>1, <2>2, <2>3, <2>4, <2>5 DEF LigneOK, Existe
<1>8. UneActive'
    BY <1>1 DEF IInv, UneActive, CaisseDe
<1>9. SessionRefleteCaisse'
    BY <1>1, ExecuterReflete
<1> QED BY <1>4, <1>6, <1>7, <1>8, <1>9 DEF IInv, RequetesOK

(* A cash operation: the open session follows its till.                    *)
LEMMA OpererOK ==
    ASSUME IInv, NEW s \in Sessions, NEW delta \in Int, Operer(s, delta)
    PROVE  IInv'
<1>1. PICK c \in Caisses : c = CaisseDe(s)
    BY DEF Operer, IInv, LigneOK, Existe, CaisseDe, Titulaires
<1>2. /\ statut[s] = "OPEN" /\ theorique[s] + delta \in 0..SoldeMax
      /\ theorique' = [theorique EXCEPT ![s] = @ + delta]
      /\ soldeCaisse' = [soldeCaisse EXCEPT ![c] = @ + delta]
      /\ flux' = flux + delta
      /\ UNCHANGED <<statut, titulaire, veille, ouverture, varsTransfert, soldeCoffre, varsRequete>>
    BY <1>1 DEF Operer
<1> USE DEF varsTransfert
<1>3. soldeCaisse[c] - theorique[s] \in Nat /\ theorique[s] \in Int /\ soldeCaisse[c] \in Nat
    <2>1. soldeCaisse[c] - theorique[s] \in 0..SumFunctionOnSet(montant, ImputesAilleurs(s))
        BY <1>1, <1>2 DEF IInv, SessionRefleteCaisse
    <2>2. SumFunctionOnSet(montant, ImputesAilleurs(s)) \in Nat
        BY SommeMontants DEF IInv, TypeOK, ImputesAilleurs
    <2> QED BY <2>1, <2>2 DEF IInv, TypeOK
<1>4. soldeCaisse[c] + delta \in Nat
    BY <1>2, <1>3, ConstantesOK
<1>5. \A x \in Sessions : theorique'[x] = IF x = s THEN theorique[x] + delta ELSE theorique[x]
    BY <1>2 DEF IInv, TypeOK
<1>6. \A x \in Caisses : soldeCaisse'[x] = IF x = c THEN soldeCaisse[x] + delta ELSE soldeCaisse[x]
    BY <1>2 DEF IInv, TypeOK
<1>7. Stable
    BY <1>2 DEF Stable, Existe
<1>8. TypeOK'
    <2>1. soldeCaisse' \in [Caisses -> Nat]
        BY <1>2, <1>4 DEF IInv, TypeOK
    <2>2. theorique' \in [Sessions -> Int] /\ flux' \in Int
        BY <1>2 DEF IInv, TypeOK
    <2> QED BY <1>2, <2>1, <2>2 DEF IInv, TypeOK, varsRequete
<1>9. \A p \in Requetes : Epargne(etape[p], lu[p])
    BY <1>2, <1>7, EpargneSi
<1>10. RequetesOK'
    BY <1>2, <1>7, <1>8, <1>9, PasSansRequete
<1>11. (\A x \in Sessions : LigneOK(x))'
    BY <1>2 DEF IInv, LigneOK, Existe
<1>12. UneActive'
    BY <1>2 DEF IInv, UneActive, CaisseDe
<1>13. SessionRefleteCaisse'
    <2>1. ASSUME NEW x \in Sessions, statut[x] = "OPEN"
          PROVE  soldeCaisse'[CaisseDe(x)] - theorique'[x] = soldeCaisse[CaisseDe(x)] - theorique[x]
        <3>1. CaisseDe(x) \in Caisses
            BY <2>1 DEF IInv, LigneOK, Existe, CaisseDe, Titulaires
        <3>2. x # s => CaisseDe(x) # c
            BY <1>1, <1>2, <2>1 DEF IInv, UneActive, Actifs
        <3> QED BY <1>1, <1>3, <1>5, <1>6, <3>1, <3>2 DEF IInv, TypeOK
    <2> QED BY <1>2, <1>7, <1>8, <2>1, EcartGarde
<1> QED BY <1>8, <1>10, <1>11, <1>12, <1>13 DEF IInv, RequetesOK

(* A logout: nobody works on the session, and the till keeps its balance.  *)
LEMMA DeconnecterOK ==
    ASSUME IInv, NEW s \in Sessions, Deconnecter(s)
    PROVE  IInv' /\ soldeCaisse' = soldeCaisse
<1>1. PICK c \in Caisses : c = CaisseDe(s)
    BY DEF Deconnecter, Actifs, Attente, IInv, LigneOK, Existe, CaisseDe, Titulaires
<1>2. soldeCaisse' = soldeCaisse
    BY <1>1 DEF Deconnecter, GardeDeSolde, IInv, TypeOK
<1>3. /\ statut[s] \in Actifs /\ statut' = [statut EXCEPT ![s] = "CLOSED"]
      /\ UNCHANGED <<titulaire, veille, ouverture, theorique, varsTransfert, soldeCoffre, flux, varsRequete>>
    BY DEF Deconnecter
<1> USE DEF varsTransfert
<1>4. \A x \in Sessions : statut'[x] = IF x = s THEN "CLOSED" ELSE statut[x]
    BY <1>3 DEF IInv, TypeOK
<1>5. Stable
    BY <1>3, <1>4 DEF Stable, Existe
<1>6. TypeOK'
    BY <1>2, <1>3 DEF IInv, TypeOK, varsRequete
<1>7. \A p \in Requetes : Epargne(etape[p], lu[p])
    <2> SUFFICES ASSUME NEW p \in Requetes PROVE Epargne(etape[p], lu[p])
        OBVIOUS
    <2>1. etape[p] \in Reception \cup Annulation => lu[p].session # s
        BY SessionTenue DEF Deconnecter, LignesLibres
    <2>2. etape[p] \in Reception \cup Annulation => statut'[lu[p].session] = statut[lu[p].session]
        BY <1>4, <2>1, SessionTenue
    <2>3. \A x \in Sessions : statut'[x] = "OPEN" => statut[x] = "OPEN"
        BY <1>4
    <2> QED BY <1>3, <1>5, <2>2, <2>3, EpargneSi
<1>8. RequetesOK'
    BY <1>3, <1>5, <1>6, <1>7, PasSansRequete
<1>9. (\A x \in Sessions : LigneOK(x))'
    <2> SUFFICES ASSUME NEW x \in Sessions PROVE LigneOK(x)'
        OBVIOUS
    <2>1. LigneOK(x) /\ (x = s => Existe(x))
        BY <1>3 DEF IInv, Existe, Actifs, Attente
    <2>2. (imputation[x] # AUCUN => Existe(imputation[x]))'
        BY <1>3, <1>5, <2>1 DEF LigneOK, Stable, IInv, TypeOK
    <2> QED BY <1>3, <1>4, <2>1, <2>2 DEF LigneOK, Existe, Attente
<1>10. UneActive'
    BY <1>3, <1>4 DEF IInv, UneActive, CaisseDe, Actifs, Attente
<1>11. SessionRefleteCaisse'
    BY <1>2, <1>3, <1>4, <1>5, <1>6, EcartGarde
<1> QED BY <1>2, <1>6, <1>8, <1>9, <1>10, <1>11 DEF IInv, RequetesOK
-----------------------------------------------------------------------------
(***************************************************************************)
(* The invariant.                                                          *)
(***************************************************************************)
LEMMA InitIInv == Init => IInv
<1> SUFFICES ASSUME Init PROVE IInv
    OBVIOUS
<1>1. TypeOK
    BY ConstantesOK, LectureVideType DEF Init, TypeOK, Actifs, Etapes, StatutsTransfert
<1>2. ASSUME NEW q \in Requetes PROVE EtatOK(etape[q], lu[q]) /\ Tient(q) = {}
    BY LectureVideType DEF Init, Tient
<1>3. Exclusion
    BY <1>2 DEF Exclusion
<1>4. AttenteOK
    BY DEF Init, AttenteOK
<1>5. (\A s \in Sessions : LigneOK(s)) /\ UneActive /\ SessionRefleteCaisse
    BY DEF Init, LigneOK, Existe, UneActive, Actifs, Attente, SessionRefleteCaisse
<1> QED BY <1>1, <1>2, <1>3, <1>4, <1>5 DEF IInv

(* The beginnings of the handlers.                                         *)
LEMMA AppelOK == ASSUME IInv, NEW q \in Requetes, Appel(q) PROVE IInv'
<1>1. CASE \E h \in Titulaires : DirectVerrou(q, h) \/ \E m \in Montants : DemanderLire(q, h, m)
    BY <1>1, SurCaisseOK
<1>2. ASSUME NEW s \in Sessions, AnnulerVerrou(q, s) \/ \E c \in Comptes : RecevoirVerrou(q, s, c)
      PROVE  IInv'
    BY <1>2, VerrouSessionOK
<1>3. ASSUME NEW s \in Sessions, NEW ok \in BOOLEAN, ValiderVerrou(q, s, ok) \/ ValiderTransfertLire(q, s, ok)
      PROVE  IInv'
    BY <1>3, SurTransfertOK
<1>4. ASSUME NEW s \in Sessions, NEW r \in Envoyees \cup {AUCUN},
             AnnulerTransfertLire(q, s) \/ ExecuterLire(q, s, r)
      PROVE  IInv'
    BY <1>4, SurTransfertOK
<1> QED BY <1>1, <1>2, <1>3, <1>4 DEF Appel

(* The later steps of the handlers.                                        *)
LEMMA ProgressionOK == ASSUME IInv, NEW q \in Requetes, Progression(q) PROVE IInv'
<1>1. CASE Demander(q) \/ Valider(q) \/ ValiderTransfert(q) \/ AnnulerTransfert(q)
    BY <1>1, DemanderOK, ValiderOK, TransfertSeulOK
<1>2. CASE ExecuterCoffre(q) \/ ExecuterCaisse(q) \/ ExecuterSession(q) \/ Executer(q)
    BY <1>2, ExecuterCoffreOK, ExecuterCaisseOK, ExecuterSessionOK, ExecuterOK
<1>3. CASE RecevoirDejaExecute(q) \/ AnnulerVerrouTransfert(q) \/ Recevoir(q) \/ Annuler(q) \/ Direct(q)
    BY <1>3, SuiteSessionOK, RecevoirOK, AnnulerOK, DirectOK
<1>4. CASE \E x \in Requetes : RecevoirExecuter(q, x)
    BY <1>4, RecevoirExecuterOK
<1>5. CASE RecevoirEchec(q) \/ Refus(q)
    BY <1>5, AbandonOK
<1> QED BY <1>1, <1>2, <1>3, <1>4, <1>5 DEF Progression

(* A step that changes nothing.                                            *)
LEMMA Inchange == ASSUME IInv, UNCHANGED vars PROVE IInv'
<1>1. /\ (\A s \in Sessions : LigneOK(s))' /\ UneActive' /\ SessionRefleteCaisse'
    BY SansEcriture DEF vars, Donnees
<1>2. TypeOK'
    BY DEF IInv, TypeOK, vars, varsRequete, varsSession, varsTransfert, varsArgent
<1>3. Stable
    BY SansEcriture DEF vars, Donnees
<1>4. \A p \in Requetes : Epargne(etape[p], lu[p])
    BY <1>3, EpargneSi DEF vars, varsSession, varsTransfert, varsArgent
<1>5. RequetesOK'
    BY <1>2, <1>3, <1>4, PasSansRequete DEF vars
<1> QED BY <1>1, <1>2, <1>5 DEF IInv, RequetesOK

(* Every step keeps the invariant.                                         *)
LEMMA PasIInv == IInv /\ [Next]_vars => IInv'
<1> SUFFICES ASSUME IInv, [Next]_vars PROVE IInv'
    OBVIOUS
<1>1. ASSUME NEW q \in Requetes, Appel(q) \/ Progression(q) PROVE IInv'
    BY <1>1, AppelOK, ProgressionOK
<1>2. ASSUME NEW q \in Requetes, Panne(q) \/ Interblocage(q) PROVE IInv'
    BY <1>2, AbandonOK
<1>3. ASSUME NEW s \in Sessions, NEW m \in Montants, Operer(s, m) \/ Operer(s, -m) PROVE IInv'
    BY <1>3, OpererOK, ConstantesOK
<1> QED BY <1>1, <1>2, <1>3, DeconnecterOK, Inchange DEF Next

(* The inductive invariant holds in every state: types, the rows that each *)
(* handler holds, what it knows of them, and the balance of every open     *)
(* session.                                                                *)
THEOREM Invariance == Spec => []IInv
<1> QED BY InitIInv, PasIInv, PTL DEF Spec

(* TypeOK: every variable stays in its type; in particular neither the     *)
(* vault nor a till goes below zero, although an execution debits a        *)
(* balance checked steps before and operations are refused by none.        *)
THEOREM TypeCorrect == Spec => []TypeOK
<1>1. IInv => TypeOK
    BY DEF IInv
<1> QED BY <1>1, Invariance, PTL

(* SessionRefleteCaisse: whoever opened the session and executed the       *)
(* transfers, the till holds what its open session accounts for, and at    *)
(* most what was booked on a closed session beyond it.                     *)
THEOREM SessionRefleteToujoursCaisse == Spec => []SessionRefleteCaisse
<1>1. IInv => SessionRefleteCaisse
    BY DEF IInv
<1> QED BY <1>1, Invariance, PTL
-----------------------------------------------------------------------------
(***************************************************************************)
(* Where money moves.                                                      *)
(***************************************************************************)
LEMMA PasArgent ==
    ASSUME IInv, [Next]_vars
    PROVE  \/ \E q \in Requetes : Executer(q)
           \/ /\ UNCHANGED <<soldeCoffre, execute>>
              /\ \A t \in Sessions : execute[t] => montant'[t] = montant[t]
              /\ \/ UNCHANGED <<soldeCaisse, flux>>
                 \/ \E s \in Sessions, delta \in Int : Operer(s, delta)
<1> USE DEF vars, varsTransfert, varsArgent
<1> DEFINE Immobile == UNCHANGED <<soldeCoffre, execute, montant, soldeCaisse, flux>>
<1>1. ASSUME NEW q \in Requetes, Appel(q) PROVE Immobile
    BY <1>1 DEF Appel, DirectVerrou, DemanderLire, AnnulerTransfertLire, AnnulerVerrou, ValiderVerrou,
       ValiderTransfertLire, ExecuterLire, RecevoirVerrou, Commencer
<1>2. ASSUME NEW q \in Requetes, Panne(q) \/ Interblocage(q) PROVE Immobile
    BY <1>2 DEF Panne, Interblocage
<1>3. ASSUME NEW q \in Requetes, Demander(q)
      PROVE  /\ UNCHANGED <<soldeCoffre, execute, soldeCaisse, flux>>
             /\ \A t \in Sessions : execute[t] => montant'[t] = montant[t]
    <2>1. PICK s \in Sessions : statut[s] = "ABSENTE" /\ montant' = [montant EXCEPT ![s] = lu[q].montant]
        BY <1>3 DEF Demander
    <2>2. ~execute[s]
        BY <2>1 DEF IInv, LigneOK, Existe
    <2>3. \A t \in Sessions \ {s} : montant'[t] = montant[t]
        BY <2>1 DEF IInv, TypeOK
    <2> QED BY <1>3, <2>2, <2>3 DEF Demander
<1>4. ASSUME NEW q \in Requetes, Recevoir(q) PROVE Immobile
    BY <1>4, RecevoirOK DEF Recevoir
<1>5. ASSUME NEW q \in Requetes, Annuler(q) PROVE Immobile
    BY <1>5, AnnulerSansRestitution DEF Annuler
<1>6. ASSUME NEW q \in Requetes, Progression(q), ~Demander(q), ~Recevoir(q), ~Annuler(q), ~Executer(q)
      PROVE  Immobile
    BY <1>6 DEF Progression, Valider, ValiderTransfert, AnnulerTransfert, ExecuterCoffre, ExecuterCaisse,
       ExecuterSession, RecevoirDejaExecute, RecevoirEchec, RecevoirExecuter, AnnulerVerrouTransfert,
       Direct, Refus
<1>7. ASSUME NEW s \in Sessions, Deconnecter(s) PROVE Immobile
    BY <1>7, DeconnecterOK DEF Deconnecter
<1>8. ASSUME NEW s \in Sessions, NEW m \in Montants, Operer(s, m) \/ Operer(s, -m)
      PROVE  /\ UNCHANGED <<soldeCoffre, execute, montant>>
             /\ \E delta \in Int : Operer(s, delta)
    <2>1. m \in Int /\ -m \in Int
        BY ConstantesOK
    <2> QED BY <1>8, <2>1 DEF Operer
<1>9. Immobile => /\ UNCHANGED <<soldeCoffre, execute>>
                  /\ \A t \in Sessions : execute[t] => montant'[t] = montant[t]
                  /\ UNCHANGED <<soldeCaisse, flux>>
    OBVIOUS
<1>10. UNCHANGED vars => Immobile
    OBVIOUS
<1> HIDE DEF Immobile
<1> QED BY <1>1, <1>2, <1>3, <1>4, <1>5, <1>6, <1>7, <1>8, <1>9, <1>10 DEF Next

Liquidites == soldeCoffre + SumFunctionOnSet(soldeCaisse, Caisses)

(* One till is credited: the sum over the tills grows as much.             *)
LEMMA CaisseCreditee ==
    ASSUME TypeOK, NEW c \in Caisses, NEW d \in Int, soldeCaisse' = [soldeCaisse EXCEPT ![c] = @ + d]
    PROVE  /\ SumFunctionOnSet(soldeCaisse', Caisses) = SumFunctionOnSet(soldeCaisse, Caisses) + d
           /\ SumFunctionOnSet(soldeCaisse, Caisses) \in Int
<1>1. PICK f \in [Caisses -> Int] : f = soldeCaisse
    BY DEF TypeOK
<1>2. SumFunctionOnSet([f EXCEPT ![c] = @ + d], Caisses) = SumFunctionOnSet(f, Caisses) + d
    BY ConstantesOK, SommeAugmentee
<1>3. SumFunctionOnSet(f, Caisses) \in Int
    BY ConstantesOK, SommeType
<1> QED BY <1>1, <1>2, <1>3

(* The cash an execution takes out of the vault is in a till.              *)
LEMMA PasLiquidite ==
    ASSUME IInv, [Next]_vars
    PROVE  Liquidites' - flux' = Liquidites - flux
<1> USE DEF Liquidites
<1>1. ASSUME NEW q \in Requetes, Executer(q) PROVE Liquidites' - flux' = Liquidites - flux
    <2>1. PICK c \in Caisses, m \in Int :
              /\ soldeCoffre' = soldeCoffre - m /\ flux' = flux
              /\ soldeCaisse' = [soldeCaisse EXCEPT ![c] = @ + m]
        BY <1>1, ExecuterFait
    <2>2. /\ SumFunctionOnSet(soldeCaisse', Caisses) = SumFunctionOnSet(soldeCaisse, Caisses) + m
          /\ SumFunctionOnSet(soldeCaisse, Caisses) \in Int
        BY <2>1, CaisseCreditee DEF IInv
    <2> QED BY <2>1, <2>2 DEF IInv, TypeOK
<1>2. ASSUME NEW s \in Sessions, NEW delta \in Int, Operer(s, delta)
      PROVE  Liquidites' - flux' = Liquidites - flux
    <2>1. CaisseDe(s) \in Caisses
        BY <1>2 DEF Operer, IInv, LigneOK, Existe, CaisseDe, Titulaires
    <2>2. /\ SumFunctionOnSet(soldeCaisse', Caisses) = SumFunctionOnSet(soldeCaisse, Caisses) + delta
          /\ SumFunctionOnSet(soldeCaisse, Caisses) \in Int
        BY <1>2, <2>1, CaisseCreditee DEF IInv, Operer
    <2> QED BY <1>2, <2>2 DEF IInv, TypeOK, Operer
<1>3. CASE UNCHANGED <<soldeCoffre, soldeCaisse, flux>>
    BY <1>3
<1> QED BY <1>1, <1>2, <1>3, PasArgent

(* LiquiditeConservee: whatever executions, openings, cancellations and    *)
(* logouts overlap, vault and tills together hold what they held at the    *)
(* start and what clients brought.                                         *)
THEOREM LiquiditeToujours == Spec => []LiquiditeConservee
<1> DEFINE Initiales == SumFunctionOnSet([c \in Caisses |-> SoldeCaisseInitial], Caisses)
           Compte == Liquidites - flux = SoldeCoffreInitial + Initiales
<1>1. Init => Compte
    <2> SUFFICES ASSUME Init PROVE Compte
        OBVIOUS
    <2>1. soldeCoffre = SoldeCoffreInitial /\ flux = 0 /\ soldeCaisse = [c \in Caisses |-> SoldeCaisseInitial]
        BY DEF Init
    <2>2. \A c \in Caisses : [x \in Caisses |-> SoldeCaisseInitial][c] \in Int
        BY ConstantesOK
    <2>3. Initiales \in Int
        BY <2>2, ConstantesOK, SommeType
    <2> HIDE DEF Initiales
    <2>4. SumFunctionOnSet(soldeCaisse, Caisses) = Initiales
        BY <2>1 DEF Initiales
    <2> QED BY <2>1, <2>3, <2>4, ConstantesOK DEF Liquidites
<1>2. Compte /\ IInv /\ [Next]_vars => Compte'
    BY PasLiquidite
<1>3. Compte /\ IInv => LiquiditeConservee
    <2> SUFFICES ASSUME Compte, IInv PROVE LiquiditeConservee
        OBVIOUS
    <2>1. SumFunction(soldeCaisse) = SumFunctionOnSet(soldeCaisse, Caisses)
        BY DEF SumFunction, IInv, TypeOK
    <2>2. SumFunction([c \in Caisses |-> SoldeCaisseInitial]) = Initiales
        BY DEF SumFunction
    <2>3. /\ SumFunctionOnSet(soldeCaisse, Caisses) \in Int
          /\ soldeCoffre \in Int /\ flux \in Int
        BY ConstantesOK, SommeType DEF IInv, TypeOK
    <2>4. Initiales \in Int
        <3>1. \A c \in Caisses : [x \in Caisses |-> SoldeCaisseInitial][c] \in Int
            BY ConstantesOK
        <3> QED BY <3>1, ConstantesOK, SommeType
    <2> HIDE DEF Initiales
    <2> QED BY <2>1, <2>2, <2>3, <2>4, ConstantesOK DEF Liquidites, LiquiditeConservee
<1> HIDE DEF Compte
<1> QED BY <1>1, <1>2, <1>3, Invariance, PTL DEF Spec
-----------------------------------------------------------------------------
(***************************************************************************)
(* Which step opens a session that waited for funds.                       *)
(***************************************************************************)
LEMMA RecevoirFinance ==
    ASSUME IInv, NEW q \in Requetes, Recevoir(q),
           NEW s \in Sessions, statut[s] # "OPEN", statut'[s] = "OPEN"
    PROVE  execute[s] /\ ouverture'[s] = soldeCaisse[CaisseDe(s)]
<1>1. PICK l \in Lectures : etape[q] = "recuOuvre" /\ lu[q] = l /\ EtatOK("recuOuvre", l)
    BY LuDe DEF Recevoir, Reussit, Avance
<1>2. statut' = [statut EXCEPT ![l.session] = "OPEN"] /\ l.session \in Sessions /\ execute[l.session]
    BY <1>1 DEF Recevoir, EtatOK, Reception
<1>3. s = l.session
    BY <1>2 DEF IInv, TypeOK
<1>4. /\ soldeCaisse[CaisseDe(s)] = SoldeOuverture(q)
      /\ ouverture' = [ouverture EXCEPT ![s] = SoldeOuverture(q)]
    BY <1>1, <1>3 DEF Recevoir, Reussit, Accepte, GardeDeSolde
<1> QED BY <1>2, <1>3, <1>4 DEF IInv, TypeOK

(* A session that becomes OPEN after a dispatch has its transfer executed  *)
(* and the balance of its till as its opening amount.                      *)
LEMMA PasOuverture ==
    ASSUME IInv, [Next]_vars, NEW s \in Sessions, statut[s] = "FUNDS_DISPATCHED", statut'[s] = "OPEN"
    PROVE  execute[s] /\ ouverture'[s] = soldeCaisse[CaisseDe(s)]
<1> USE DEF vars, varsSession
<1>1. ASSUME UNCHANGED statut PROVE FALSE
    BY <1>1
<1>2. ASSUME NEW q \in Requetes, Appel(q) PROVE UNCHANGED statut
    BY <1>2 DEF Appel, DirectVerrou, DemanderLire, AnnulerTransfertLire, AnnulerVerrou, ValiderVerrou,
       ValiderTransfertLire, ExecuterLire, RecevoirVerrou, Commencer
<1>3. ASSUME NEW q \in Requetes, Panne(q) \/ Interblocage(q) PROVE UNCHANGED statut
    BY <1>3 DEF Panne, Interblocage
<1>4. ASSUME NEW x \in Sessions, NEW v \in {"REQUESTING_FUNDS", "FUNDS_DISPATCHED", "CLOSED"},
             statut' = [statut EXCEPT ![x] = v]
      PROVE  FALSE
    BY <1>4 DEF IInv, TypeOK
<1>5. ASSUME NEW q \in Requetes, Demander(q) PROVE FALSE
    BY <1>4, <1>5 DEF Demander
<1>6. ASSUME NEW q \in Requetes, Valider(q) PROVE FALSE
    <2>1. lu[q].transfert \in Sessions
        BY <1>6 DEF Valider, Reussit, Avance, IInv, EtatOK, SurUnTransfert
    <2> QED BY <1>4, <1>6, <2>1 DEF Valider
<1>7. ASSUME NEW q \in Requetes, Annuler(q) PROVE FALSE
    <2>1. lu[q].session \in Sessions
        BY <1>7 DEF Annuler, Reussit, Avance, IInv, EtatOK, Annulation
    <2> QED BY <1>4, <1>7, <2>1 DEF Annuler, Vider
<1>8. ASSUME NEW q \in Requetes, Direct(q) PROVE FALSE
    <2>1. PICK r \in Sessions :
              /\ statut[r] = "ABSENTE"
              /\ statut' = [x \in Sessions |-> IF x = r THEN "OPEN"
                                   ELSE IF x = lu[q].session THEN "CLOSED" ELSE statut[x]]
        BY <1>8, Zenon DEF Direct
    <2> QED BY <2>1
<1>9. ASSUME NEW x \in Sessions, Deconnecter(x) PROVE FALSE
    BY <1>4, <1>9 DEF Deconnecter
<1>10. ASSUME NEW x \in Sessions, NEW d, Operer(x, d) PROVE UNCHANGED statut
    BY <1>10 DEF Operer
<1>11. ASSUME NEW q \in Requetes, Progression(q),
              ~Demander(q), ~Valider(q), ~Annuler(q), ~Direct(q), ~Recevoir(q)
       PROVE  UNCHANGED statut
    BY <1>11 DEF Progression, ValiderTransfert, AnnulerTransfert, ExecuterCoffre, ExecuterCaisse,
       ExecuterSession, Executer, RecevoirDejaExecute, RecevoirEchec, RecevoirExecuter,
       AnnulerVerrouTransfert, Refus
<1>12. UNCHANGED vars => UNCHANGED statut
    OBVIOUS
<1>13. ASSUME NEW q \in Requetes, Recevoir(q)
       PROVE  execute[s] /\ ouverture'[s] = soldeCaisse[CaisseDe(s)]
    BY <1>13, RecevoirFinance
<1> QED BY <1>1, <1>2, <1>3, <1>5, <1>6, <1>7, <1>8, <1>9, <1>10, <1>11, <1>12, <1>13 DEF Next

(* OuvertureFinancee: a session that waited for funds opens only once its  *)
(* transfer has been executed, on the balance the till already holds.      *)
THEOREM OuvertureToujoursFinancee == Spec => OuvertureFinancee
<1>1. IInv /\ [Next]_vars =>
         [\A s \in Sessions : statut[s] = "FUNDS_DISPATCHED" /\ statut'[s] = "OPEN" =>
              execute[s] /\ ouverture'[s] = soldeCaisse[CaisseDe(s)]]_vars
    BY PasOuverture
<1> QED BY <1>1, Invariance, PTL DEF Spec, OuvertureFinancee
-----------------------------------------------------------------------------
(***************************************************************************)
(* Refinement: an execution is a debit of the abstract vault.              *)
(***************************************************************************)
THEOREM InitCoffre == Init => CoffreTenu!Init
<1> SUFFICES ASSUME Init PROVE CoffreTenu!Init
    OBVIOUS
<1>1. {t \in Sessions : execute[t]} = {} /\ soldeCoffre = SoldeCoffreInitial
    BY DEF Init
<1>2. SumFunctionOnSet(montant, {t \in Sessions : execute[t]}) = 0
    BY <1>1, SommeVide
<1> QED BY <1>1, <1>2 DEF CoffreTenu!Init

(* The execution is a step of the abstract vault.                          *)
LEMMA ExecuterSort ==
    ASSUME IInv, NEW q \in Requetes, Executer(q)
    PROVE  CoffreTenu!Next
<1> DEFINE E == {t \in Sessions : execute[t]}
<1>1. PICK t \in Sessions, m \in Nat :
          /\ m = montant[t] /\ m \in Montants /\ ~execute[t] /\ soldeCoffre - m >= SoldeMinimum
          /\ soldeCoffre' = soldeCoffre - m
          /\ execute' = [execute EXCEPT ![t] = TRUE] /\ montant' = montant
    BY ExecuterFait
<1>2. E' = E \cup {t} /\ t \notin E
    BY <1>1 DEF IInv, TypeOK
<1>3. IsFiniteSet(E) /\ SumFunctionOnSet(montant, E) \in Nat /\ \A x \in E \cup {t} : montant[x] \in Int
    BY SommeMontants DEF IInv, TypeOK
<1>4. SumFunctionOnSet(montant, E \cup {t}) = SumFunctionOnSet(montant, E) + m
    BY <1>1, <1>2, <1>3, SommeAjout
<1>5. CoffreTenu!Sortie(t, m)
    BY <1>1, <1>2, <1>3, <1>4 DEF CoffreTenu!Sortie, CoffreTenu!SousPlafond
<1> QED BY <1>1, <1>5 DEF CoffreTenu!Next

(* Every step of the openings is a step of the abstract vault, or leaves   *)
(* it as it is: its balance goes down only by a transfer validated,        *)
(* executed once and covered.                                              *)
THEOREM PasCoffre == IInv /\ [Next]_vars => [CoffreTenu!Next]_(CoffreTenu!varsCoffre)
<1> SUFFICES ASSUME IInv, [Next]_vars
             PROVE  CoffreTenu!Next \/ UNCHANGED CoffreTenu!varsCoffre
    OBVIOUS
<1>1. ASSUME UNCHANGED <<soldeCoffre, execute>>, \A t \in Sessions : execute[t] => montant'[t] = montant[t]
      PROVE  UNCHANGED CoffreTenu!varsCoffre
    <2> DEFINE E == {t \in Sessions : execute[t]}
    <2>1. E' = E /\ IsFiniteSet(E)
        BY <1>1, SommeMontants DEF IInv, TypeOK
    <2>2. SumFunctionOnSet(montant', E) = SumFunctionOnSet(montant, E)
        BY <1>1, <2>1, SommePareille
    <2> QED BY <1>1, <2>1, <2>2 DEF CoffreTenu!varsCoffre
<1> QED BY <1>1, ExecuterSort, PasArgent

(* CoffreRespecte: the vault sees each opening transfer go out once at     *)
(* most and never falls below its minimum.                                 *)
THEOREM ImplementeCoffre == Spec => CoffreRespecte
<1> QED BY InitCoffre, PasCoffre, Invariance, PTL DEF Spec, CoffreRespecte, CoffreTenu!Spec
=============================================================================
