------------------------ MODULE SessionCaisseProofs ------------------------
(***************************************************************************)
(* Four results about the sessions of the tills.                          *)
(*                                                                         *)
(* However many handlers run with stale reads, a till and a cashier have   *)
(* at most one active session (UInv).  The unique indexes are checked when *)
(* a row is written, but Reprendre writes the row it read for the till and *)
(* the cashier it was called with: the proof carries along that the two    *)
(* agree.                                                                  *)
(*                                                                         *)
(* However many handlers run, every variable keeps its type (TInv): a      *)
(* handler that has begun works on a row that exists, because no statut    *)
(* ever goes back to ABSENTE.                                              *)
(*                                                                         *)
(* From these two follow two action properties, for any number of          *)
(* handlers again: a closed session that no handler in flight may still    *)
(* bring back stays closed, and no balance of a till changes without a     *)
(* mouvement save by a finalizeClose whose reading is out of date.         *)
(***************************************************************************)
EXTENDS SessionCaisse, TLAPS

(* The functions are defined on the rows and the handlers.                 *)
Domaines ==
    /\ DOMAIN statut = Sessions /\ DOMAIN titulaire = Sessions
    /\ DOMAIN etape = Requetes /\ DOMAIN lu = Requetes

(* A session about to be taken up again exists, and belongs to the till    *)
(* and the cashier of the call.                                            *)
RepriseJuste(q) ==
    etape[q] = "reprendre" =>
        /\ lu[q].session \in Sessions
        /\ statut[lu[q].session] # "ABSENTE"
        /\ titulaire[lu[q].session].caisse = lu[q].caisse
        /\ titulaire[lu[q].session].caissier = lu[q].caissier

ReprisesJustes == \A q \in Requetes : RepriseJuste(q)

UInv == Domaines /\ UneSessionActive /\ ReprisesJustes

(* What every step does to the rows that exist: they keep their holder.    *)
LignesGardees ==
    \A s \in Sessions : statut[s] # "ABSENTE" =>
        statut'[s] # "ABSENTE" /\ titulaire'[s] = titulaire[s]

(* What every step but OuvrirLire does to the handlers: none of them gets  *)
(* to the step "reprendre", or learns something while it is there.         *)
AucuneReprise ==
    /\ DOMAIN etape' = Requetes /\ DOMAIN lu' = Requetes
    /\ \A q \in Requetes : etape'[q] = "reprendre" =>
          etape[q] = "reprendre" /\ lu'[q] = lu[q]
-----------------------------------------------------------------------------
(* The handlers that are about to take up a session stay right.            *)
LEMMA ReprisesGardees ==
    ASSUME ReprisesJustes, LignesGardees, AucuneReprise
    PROVE  ReprisesJustes'
BY DEF ReprisesJustes, RepriseJuste, LignesGardees, AucuneReprise

(* A step that moves the handler q to another step than "reprendre".       *)
LEMMA SuiteSansReprise ==
    ASSUME Domaines, NEW q \in Requetes, NEW e, NEW l, e # "reprendre",
           Continuer(q, e, l)
    PROVE  AucuneReprise
BY DEF Domaines, Continuer, AucuneReprise

(* The end of a handler.                                                   *)
LEMMA FinSansReprise ==
    ASSUME Domaines, NEW q \in Requetes, Terminer(q)
    PROVE  AucuneReprise
<1>1. Continuer(q, "libre", LectureVide)
    BY DEF Terminer
<1> QED
    BY <1>1, SuiteSansReprise

(* The beginning of a handler that reads.                                  *)
LEMMA DebutSansEffet ==
    ASSUME UInv, NEW q \in Requetes, NEW e, NEW l, e # "reprendre",
           Commencer(q, e, l)
    PROVE  UInv'
<1>1. Continuer(q, e, l) /\ UNCHANGED statut /\ UNCHANGED titulaire
    BY DEF Commencer, varsLigne
<1>2. AucuneReprise
    BY <1>1, SuiteSansReprise DEF UInv
<1> QED
    BY <1>1, <1>2, ReprisesGardees
       DEF UInv, Domaines, UneSessionActive, Active, LignesGardees, AucuneReprise

(* A step that writes neither the statut nor the holder of a session.      *)
LEMMA LignesIntactes ==
    ASSUME UInv, AucuneReprise, UNCHANGED statut, UNCHANGED titulaire
    PROVE  UInv'
BY ReprisesGardees
   DEF UInv, Domaines, UneSessionActive, Active, LignesGardees, AucuneReprise

(* A step that closes a session.                                           *)
LEMMA ClotureSure ==
    ASSUME UInv, AucuneReprise, NEW s, Clore(s), UNCHANGED titulaire
    PROVE  UInv'
<1>1. DOMAIN statut' = Sessions
    BY DEF UInv, Domaines, Clore
<1>2. \A r \in Sessions : statut'[r] = IF r = s THEN "CLOSED" ELSE statut[r]
    BY DEF UInv, Domaines, Clore
<1>3. UneSessionActive'
    BY <1>2 DEF UInv, UneSessionActive, Active, Actifs
<1>4. LignesGardees
    BY <1>2 DEF LignesGardees
<1> QED
    BY <1>1, <1>3, <1>4, ReprisesGardees DEF UInv, Domaines, AucuneReprise

(* A step that gives a session an active statut, when the till and the     *)
(* cashier for which the indexes were checked are the holder's.            *)
LEMMA PassageSur ==
    ASSUME UInv, AucuneReprise, NEW s, NEW c, NEW a, NEW n \in Actifs,
           s \in Sessions => titulaire[s].caisse = c /\ titulaire[s].caissier = a,
           CreneauLibre({s}, c, a),
           statut' = [statut EXCEPT ![s] = n],
           UNCHANGED titulaire
    PROVE  UInv'
<1>1. DOMAIN statut' = Sessions
    BY DEF UInv, Domaines
<1>2. \A r \in Sessions : statut'[r] = IF r = s THEN n ELSE statut[r]
    BY DEF UInv, Domaines
<1>3. UneSessionActive'
    <2> SUFFICES ASSUME NEW r \in Sessions, NEW t \in Sessions,
                        Active(r)', Active(t)', r # t
                 PROVE  /\ titulaire[r].caisse # titulaire[t].caisse
                        /\ titulaire[r].caissier # titulaire[t].caissier
        BY DEF UneSessionActive
    <2>1. CASE r # s /\ t # s
        BY <1>2, <2>1 DEF UInv, UneSessionActive, Active
    <2>2. CASE r = s
        BY <1>2, <2>2 DEF CreneauLibre, Active
    <2>3. CASE t = s
        BY <1>2, <2>3 DEF CreneauLibre, Active
    <2> QED
        BY <2>1, <2>2, <2>3
<1>4. LignesGardees
    BY <1>2 DEF LignesGardees, Actifs
<1> QED
    BY <1>1, <1>3, <1>4, ReprisesGardees DEF UInv, Domaines, AucuneReprise
-----------------------------------------------------------------------------
(* The opening reads a session that is active for the till and for the     *)
(* cashier at once, or none.                                               *)
LEMMA OuvrirLireGarde ==
    ASSUME UInv, NEW q \in Requetes, NEW c \in Caisses, NEW a \in Caissiers,
           OuvrirLire(q, c, a)
    PROVE  UInv'
<1>1. UNCHANGED statut /\ UNCHANGED titulaire
    BY DEF OuvrirLire, varsLigne
<1> DEFINE surCaisse == {r \in Sessions : Active(r) /\ titulaire[r].caisse = c}
           duCaissier == {r \in Sessions : Active(r) /\ titulaire[r].caissier = a}
<1>2. surCaisse = duCaissier
    BY DEF OuvrirLire
<1>3. PICK e \in IF surCaisse = {} THEN {AUCUN} ELSE surCaisse :
          Continuer(q, IF e # AUCUN /\ statut[e] = "OPEN" THEN "reprendre" ELSE "ouvrir",
                    [LectureVide EXCEPT !.session = e, !.caisse = c, !.caissier = a])
    BY DEF OuvrirLire
<1>4. DOMAIN etape' = Requetes /\ DOMAIN lu' = Requetes
    BY <1>3 DEF Continuer, UInv, Domaines
<1>5. ASSUME NEW p \in Requetes, p # q
      PROVE  RepriseJuste(p)'
    <2>1. etape'[p] = etape[p] /\ lu'[p] = lu[p]
        BY <1>3, <1>5 DEF Continuer, UInv, Domaines
    <2> QED
        BY <1>1, <2>1 DEF UInv, ReprisesJustes, RepriseJuste
<1>6. RepriseJuste(q)'
    <2> SUFFICES ASSUME etape'[q] = "reprendre"
                 PROVE  /\ lu'[q].session \in Sessions
                        /\ statut[lu'[q].session] # "ABSENTE"
                        /\ titulaire[lu'[q].session].caisse = lu'[q].caisse
                        /\ titulaire[lu'[q].session].caissier = lu'[q].caissier
        BY <1>1 DEF RepriseJuste
    <2>1. e # AUCUN /\ statut[e] = "OPEN"
        BY <1>3 DEF Continuer, UInv, Domaines
    <2>2. e \in surCaisse /\ e \in duCaissier
        BY <1>2, <1>3, <2>1
    <2>3. lu'[q].session = e /\ lu'[q].caisse = c /\ lu'[q].caissier = a
        BY <1>3 DEF Continuer, UInv, Domaines, LectureVide
    <2> QED
        BY <2>1, <2>2, <2>3
<1> QED
    BY <1>1, <1>4, <1>5, <1>6
       DEF UInv, Domaines, UneSessionActive, Active, ReprisesJustes

(* The session that is taken up again keeps its till and cashier.          *)
LEMMA ReprendreGarde ==
    ASSUME UInv, NEW q \in Requetes, Reprendre(q)
    PROVE  UInv'
<1>1. AucuneReprise
    BY FinSansReprise DEF Reprendre, UInv
<1>2. /\ titulaire[lu[q].session].caisse = lu[q].caisse
      /\ titulaire[lu[q].session].caissier = lu[q].caissier
    BY DEF Reprendre, UInv, ReprisesJustes, RepriseJuste
<1>3. /\ CreneauLibre({lu[q].session}, lu[q].caisse, lu[q].caissier)
      /\ statut' = [statut EXCEPT ![lu[q].session] = "OPEN"]
      /\ UNCHANGED titulaire
    BY DEF Reprendre, varsLigne
<1>4. "OPEN" \in Actifs
    BY DEF Actifs
<1> QED
    BY <1>1, <1>2, <1>3, <1>4, PassageSur

(* A session inserted while the stale one of the same holder is closed.    *)
LEMMA OuvrirGarde ==
    ASSUME UInv, NEW q \in Requetes, Ouvrir(q)
    PROVE  UInv'
<1> DEFINE c == lu[q].caisse
           a == lu[q].caissier
           perimee == {lu[q].session} \ {AUCUN}
<1>1. CreneauLibre(perimee, c, a) /\ Terminer(q)
    BY DEF Ouvrir
<1>2. AucuneReprise
    BY <1>1, FinSansReprise DEF UInv
<1>3. PICK n \in Sessions :
          /\ statut[n] = "ABSENTE"
          /\ statut' = [s \in Sessions |-> IF s = n THEN "OPEN"
                                            ELSE IF s \in perimee THEN "CLOSED" ELSE statut[s]]
          /\ titulaire' = [titulaire EXCEPT ![n] = [caisse |-> c, caissier |-> a]]
    BY DEF Ouvrir
<1>4. titulaire'[n].caisse = c /\ titulaire'[n].caissier = a
    BY <1>3 DEF UInv, Domaines
<1>5. \A r \in Sessions \ {n} : titulaire'[r] = titulaire[r]
    BY <1>3 DEF UInv, Domaines
<1>6. \A r \in Sessions \ {n} : Active(r)' => Active(r) /\ r \notin perimee
    BY <1>3 DEF Active, Actifs
<1>7. \A r \in Sessions \ {n} : Active(r)' =>
          titulaire'[r].caisse # c /\ titulaire'[r].caissier # a
    BY <1>1, <1>5, <1>6 DEF CreneauLibre
<1>8. UneSessionActive'
    <2> SUFFICES ASSUME NEW r \in Sessions, NEW t \in Sessions,
                        Active(r)', Active(t)', r # t
                 PROVE  /\ titulaire'[r].caisse # titulaire'[t].caisse
                        /\ titulaire'[r].caissier # titulaire'[t].caissier
        BY DEF UneSessionActive
    <2>1. CASE r # n /\ t # n
        BY <1>5, <1>6, <2>1 DEF UInv, UneSessionActive
    <2>2. CASE r = n
        BY <1>4, <1>7, <2>2
    <2>3. CASE t = n
        BY <1>4, <1>7, <2>3
    <2> QED
        BY <2>1, <2>2, <2>3
<1>9. LignesGardees
    BY <1>3, <1>5 DEF LignesGardees
<1>10. DOMAIN statut' = Sessions /\ DOMAIN titulaire' = Sessions
    BY <1>3 DEF UInv, Domaines
<1> QED
    BY <1>2, <1>8, <1>9, <1>10, ReprisesGardees DEF UInv, Domaines, AucuneReprise
-----------------------------------------------------------------------------
(* The actions that move money leave the sessions where they are.    *)
LEMMA ArgentGarde ==
    ASSUME UInv, NEW q \in Requetes, Argent(q)
    PROVE  UInv'
<1>1. ASSUME NEW s \in Sessions, NEW m \in Montants, NEW t, OperationLire(q, s, t, m) \/ TransfertLire(q, s, t, m)
      PROVE  UInv'
    <2>1. CASE OperationLire(q, s, t, m)
        BY <2>1, DebutSansEffet DEF OperationLire
    <2>2. CASE TransfertLire(q, s, t, m)
        BY <2>2, DebutSansEffet DEF TransfertLire
    <2> QED
        BY <1>1, <2>1, <2>2
<1>2. CASE Enregistrer(q)
    BY <1>2, FinSansReprise, LignesIntactes DEF Enregistrer, varsLigne, UInv
<1>3. ASSUME NEW c \in Caisses, NEW d \in Deltas, TransfertSansSession(q, c, d)
      PROVE  UInv'
    BY <1>3, LignesIntactes
       DEF TransfertSansSession, varsLigne, varsHandler, UInv, Domaines, AucuneReprise
<1>4. ASSUME NEW t \in Remises, NEW s \in Sessions \cup {AUCUN}, RemiseLire(q, t, s)
      PROVE  UInv'
    BY <1>4, DebutSansEffet DEF RemiseLire
<1>5. CASE RemiseExecuter(q)
    BY <1>5, FinSansReprise, LignesIntactes DEF RemiseExecuter, varsLigne, UInv
<1> QED
    BY <1>1, <1>2, <1>3, <1>4, <1>5 DEF Argent

(* A phase of the closing that gives the session read the statut n.        *)
LEMMA PhaseGarde ==
    ASSUME UInv, NEW q \in Requetes, NEW n \in Actifs,
           Passer(lu[q].session, n), Terminer(q), UNCHANGED titulaire
    PROVE  UInv'
<1>1. AucuneReprise
    BY FinSansReprise DEF UInv
<1> QED
    BY <1>1, PassageSur DEF Passer

(* Opening and closing.                                                    *)
LEMMA CycleGarde ==
    ASSUME UInv, NEW q \in Requetes, Cycle(q)
    PROVE  UInv'
<1>1. ASSUME NEW c \in Caisses, NEW a \in Caissiers, OuvrirLire(q, c, a)
      PROVE  UInv'
    BY <1>1, OuvrirLireGarde
<1>2. CASE Reprendre(q)
    BY <1>2, ReprendreGarde
<1>3. CASE Ouvrir(q)
    BY <1>3, OuvrirGarde
<1>4. ASSUME NEW s \in Sessions, GelerLire(q, s) \/ RouvrirLire(q, s)
      PROVE  UInv'
    <2>1. CASE GelerLire(q, s)
        BY <2>1, DebutSansEffet DEF GelerLire
    <2>2. CASE RouvrirLire(q, s)
        BY <2>2, DebutSansEffet DEF RouvrirLire
    <2> QED
        BY <1>4, <2>1, <2>2
<1>5. ASSUME NEW s \in Sessions, NEW total \in Comptages, CompterLire(q, s, total)
      PROVE  UInv'
    BY <1>5, DebutSansEffet DEF CompterLire
<1>6. ASSUME NEW s \in Sessions, NEW v \in 0..SoldeMax, NEW r \in 0..SoldeMax, FinaliserLire(q, s, v, r)
      PROVE  UInv'
    BY <1>6, DebutSansEffet DEF FinaliserLire
<1>7. CASE Geler(q)
    <2>1. "CLOSING_COUNT" \in Actifs
        BY DEF Actifs
    <2> QED
        BY <1>7, <2>1, PhaseGarde DEF Geler, varsLigne
<1>8. CASE Compter(q)
    <2>1. "CLOSING_VALIDATION" \in Actifs
        BY DEF Actifs
    <2> QED
        BY <1>8, <2>1, PhaseGarde DEF Compter, varsLigne
<1>9. CASE Rouvrir(q)
    <2>1. "OPEN" \in Actifs
        BY DEF Actifs
    <2> QED
        BY <1>9, <2>1, PhaseGarde DEF Rouvrir, varsLigne
<1>10. CASE FinaliserSolde(q)
    <2>1. UNCHANGED statut /\ UNCHANGED titulaire
        BY <1>10 DEF FinaliserSolde, varsLigne
    <2>2. AucuneReprise
        BY <1>10, SuiteSansReprise DEF FinaliserSolde, UInv
    <2> QED
        BY <2>1, <2>2, LignesIntactes
<1>11. CASE Finaliser(q)
    BY <1>11, FinSansReprise, ClotureSure DEF Finaliser, varsLigne, UInv
<1> QED
    BY <1>1, <1>2, <1>3, <1>4, <1>5, <1>6, <1>7, <1>8, <1>9, <1>10, <1>11 DEF Cycle

(* The closings that the cashier does not ask for.                         *)
LEMMA FermetureSubieGarde ==
    ASSUME UInv, NEW q \in Requetes, FermetureSubie(q)
    PROVE  UInv'
<1>1. ASSUME NEW s \in Sessions, ExpirerLire(q, s) \/ DeconnexionLire(q, s) \/ ForcerLire(q, s)
      PROVE  UInv'
    <2>1. CASE ExpirerLire(q, s)
        BY <2>1, DebutSansEffet DEF ExpirerLire
    <2>2. CASE DeconnexionLire(q, s)
        BY <2>2, DebutSansEffet DEF DeconnexionLire
    <2>3. CASE ForcerLire(q, s)
        BY <2>3, DebutSansEffet DEF ForcerLire
    <2> QED
        BY <1>1, <2>1, <2>2, <2>3
<1>2. UNCHANGED varsHandler => AucuneReprise
    BY DEF varsHandler, UInv, Domaines, AucuneReprise
<1>3. ASSUME NEW s \in Sessions, FermerDOffice(q, s)
      PROVE  UInv'
    BY <1>2, <1>3, ClotureSure DEF FermerDOffice
<1>4. ASSUME NEW s \in Sessions, FermerTemporairement(q, s)
      PROVE  UInv'
    BY <1>2, <1>4, ClotureSure DEF FermerTemporairement, varsLigne
<1>5. CASE ExpirerSession(q)
    <2>1. Clore(lu[q].session) /\ UNCHANGED titulaire
        BY <1>5 DEF ExpirerSession, varsLigne
    <2>2. AucuneReprise
        BY <1>5, SuiteSansReprise DEF ExpirerSession, UInv
    <2> QED
        BY <2>1, <2>2, ClotureSure
<1>6. CASE ExpirerCaisse(q)
    BY <1>6, FinSansReprise, LignesIntactes DEF ExpirerCaisse, varsLigne, UInv
<1>7. CASE Deconnexion(q)
    BY <1>7, FinSansReprise, ClotureSure DEF Deconnexion, varsLigne, UInv
<1>8. CASE ForcerFermeture(q)
    BY <1>8, FinSansReprise, LignesIntactes DEF ForcerFermeture, varsLigne, UInv
<1> QED
    BY <1>1, <1>3, <1>4, <1>5, <1>6, <1>7, <1>8 DEF FermetureSubie
-----------------------------------------------------------------------------
(* No session is active at the start.                                      *)
LEMMA InitUInv == Init => UInv
BY DEF Init, UInv, Domaines, UneSessionActive, Active, Actifs, ReprisesJustes, RepriseJuste

(* Every step keeps the invariant.                                         *)
LEMMA PasUInv == UInv /\ [Next]_vars => UInv'
<1> SUFFICES ASSUME UInv, [Next]_vars
             PROVE  UInv'
    OBVIOUS
<1>1. ASSUME NEW q \in Requetes, Panne(q)
      PROVE  UInv'
    BY <1>1, FinSansReprise, LignesIntactes DEF Panne, varsLigne, UInv
<1>2. CASE UNCHANGED vars
    BY <1>2 DEF vars, varsLigne, varsHandler, UInv, Domaines, UneSessionActive, Active,
                ReprisesJustes, RepriseJuste
<1> QED
    BY <1>1, <1>2, ArgentGarde, CycleGarde, FermetureSubieGarde DEF Next

(* At most one session is active on a till and for a cashier, for any      *)
(* number of tills, cashiers, sessions and concurrent handlers.            *)
THEOREM SessionActiveUnique == Spec => []UneSessionActive
<1>1. UInv => UneSessionActive
    BY DEF UInv
<1> QED
    BY <1>1, InitUInv, PasUInv, PTL DEF Spec-----------------------------------------------------------------------------
(***************************************************************************)
(* The types, for any number of handlers.                                  *)
(***************************************************************************)
(* A handler that has begun with a session works on a row that exists; the *)
(* amount of a closing transfer goes out of the session it is booked on,   *)
(* and what a closing sends to the vault is not negative.                  *)
AvecSession == {"reprendre", "operation", "transfert", "geler", "compter", "finaliserSolde",
                "finaliser", "rouvrir", "expirerSession", "expirerCaisse", "deconnexion",
                "forcer"}

EtapeSure(e, l) ==
    /\ e \in AvecSession => l.session \in Sessions /\ statut[l.session] # "ABSENTE"
    /\ e \in {"ouvrir", "remise"} /\ l.session # AUCUN =>
          l.session \in Sessions /\ statut[l.session] # "ABSENTE"
    /\ e = "ouvrir" => l.caisse \in Caisses /\ l.caissier \in Caissiers
    /\ e = "remise" => l.remise \in Remises /\ remise[l.remise] # AUCUN
    /\ e \in {"operation", "transfert", "remise"} => l.type \in TypesOperations
    /\ e \in {"finaliserSolde", "finaliser"} => l.montant \in Nat

LectureSure(q) == EtapeSure(etape[q], lu[q])

LignesSures ==
    /\ \A s \in Sessions : statut[s] # "ABSENTE" => titulaire[s] \in Titulaires
    /\ \A t \in Remises : remise[t] # AUCUN => remise[t].montant \in Nat

LecturesSures == \A q \in Requetes : LectureSure(q)

TInv == TypeOK /\ LignesSures /\ LecturesSures

(* What every step does to the rows of both tables.                        *)
RangeesGardees == LignesGardees /\ \A t \in Remises : remise[t] # AUCUN => remise'[t] # AUCUN

(* The rows and the handlers separately.                                   *)
TypeLignes ==
    /\ statut \in [Sessions -> Actifs \cup {"ABSENTE", "CLOSED"}]
    /\ titulaire \in [Sessions -> Titulaires \cup {AUCUN}]
    /\ fermee \in [Sessions -> BOOLEAN]
    /\ ouverture \in [Sessions -> Int]
    /\ typesInscrits \in [Sessions -> SUBSET TypesOperations]
    /\ operations \in [Sessions -> Int]
    /\ entrees \in [Sessions -> Int]
    /\ theorique \in [Sessions -> Int]
    /\ physique \in [Sessions -> Int]
    /\ ecart \in [Sessions -> Int]
    /\ reporte \in [Sessions -> Int \cup {AUCUN}]
    /\ ajustees \subseteq Sessions
    /\ remise \in [Remises -> LignesRemise \cup {AUCUN}]

TypeCaisse == soldeCaisse \in [Caisses -> Int] /\ mouvement \subseteq Caisses

TypeHandlers ==
    /\ verrouCaisse \in [Caisses -> Requetes \cup {AUCUN}]
    /\ etape \in [Requetes -> Etapes]
    /\ lu \in [Requetes -> Lectures]

(* The type invariant is the one of the rows, of the tills and of the      *)
(* handlers.                                                               *)
LEMMA TypesSepares == TypeOK <=> TypeLignes /\ TypeCaisse /\ TypeHandlers
BY DEF TypeOK, TypeLignes, TypeCaisse, TypeHandlers

(* What handlers read is typed.                                            *)
LEMMA LectureTypee ==
    /\ LectureVide \in Lectures
    /\ \A s \in Sessions \cup {AUCUN}, m, r \in Int : LectureSession(s, m, r) \in Lectures
<1>1. LectureVide \in Lectures
    BY DEF LectureVide, Lectures
<1>2. ASSUME NEW s \in Sessions \cup {AUCUN}, NEW m \in Int, NEW r \in Int
      PROVE  LectureSession(s, m, r) \in Lectures
    BY <1>1 DEF LectureSession, Lectures
<1> QED
    BY <1>1, <1>2

(* Rows that exist still exist, so what the other handlers know holds on.  *)
LEMMA LecturesGardees ==
    ASSUME TInv, NEW q \in Requetes, RangeesGardees, LectureSure(q)',
           \A p \in Requetes \ {q} : etape'[p] = etape[p] /\ lu'[p] = lu[p]
    PROVE  LecturesSures'
<1> SUFFICES ASSUME NEW p \in Requetes, p # q
             PROVE  LectureSure(p)'
    BY DEF LecturesSures
<1>1. EtapeSure(etape[p], lu[p]) /\ etape'[p] = etape[p] /\ lu'[p] = lu[p]
    BY DEF TInv, LecturesSures, LectureSure
<1> QED
    BY <1>1 DEF LectureSure, EtapeSure, RangeesGardees, LignesGardees

(* A handler goes to the step e with the reading l.                        *)
LEMMA SuiteSure ==
    ASSUME TInv, NEW q \in Requetes, NEW e \in Etapes, NEW l \in Lectures,
           Continuer(q, e, l), RangeesGardees, EtapeSure(e, l)
    PROVE  LecturesSures' /\ etape' \in [Requetes -> Etapes] /\ lu' \in [Requetes -> Lectures]
<1>1. /\ etape' \in [Requetes -> Etapes] /\ lu' \in [Requetes -> Lectures]
      /\ etape'[q] = e /\ lu'[q] = l
      /\ \A p \in Requetes \ {q} : etape'[p] = etape[p] /\ lu'[p] = lu[p]
    BY DEF Continuer, TInv, TypeOK
<1>2. LectureSure(q)'
    BY <1>1 DEF LectureSure, EtapeSure, RangeesGardees, LignesGardees
<1> QED
    BY <1>1, <1>2, LecturesGardees

(* A handler ends.                                                         *)
LEMMA FinSure ==
    ASSUME TInv, NEW q \in Requetes, Terminer(q), RangeesGardees
    PROVE  LecturesSures' /\ TypeHandlers'
<1>1. "libre" \in Etapes /\ EtapeSure("libre", LectureVide)
    BY DEF Etapes, EtapeSure, AvecSession
<1>2. Continuer(q, "libre", LectureVide)
    BY DEF Terminer
<1>3. LecturesSures' /\ etape' \in [Requetes -> Etapes] /\ lu' \in [Requetes -> Lectures]
    BY <1>1, <1>2, LectureTypee, SuiteSure
<1>4. verrouCaisse' \in [Caisses -> Requetes \cup {AUCUN}]
    BY DEF Terminer, TInv, TypeOK
<1> QED
    BY <1>3, <1>4 DEF TypeHandlers

(* A step of no handler.                                                   *)
LEMMA HandlersIntacts ==
    ASSUME TInv, UNCHANGED <<verrouCaisse, varsHandler>>, RangeesGardees
    PROVE  LecturesSures' /\ TypeHandlers'
<1>1. \A p \in Requetes : EtapeSure(etape[p], lu[p])
    BY DEF TInv, LecturesSures, LectureSure
<1>2. LecturesSures'
    BY <1>1 DEF LecturesSures, LectureSure, EtapeSure, RangeesGardees, LignesGardees, varsHandler
<1> QED
    BY <1>2 DEF TInv, TypeOK, TypeHandlers, varsHandler

(* A handler begins: nothing but its own state and mouvement changes.      *)
LEMMA DebutSur ==
    ASSUME TInv, NEW q \in Requetes, NEW e \in Etapes, NEW l \in Lectures,
           Commencer(q, e, l), EtapeSure(e, l)
    PROVE  TInv'
<1>1. /\ Continuer(q, e, l) /\ mouvement' = {}
      /\ UNCHANGED <<statut, titulaire, ajustees, fermee, ouverture, typesInscrits, operations, entrees,
                     theorique, physique, ecart, reporte, remise, soldeCaisse, verrouCaisse>>
    BY DEF Commencer, varsLigne, varsCompte, varsSommes, varsDecision
<1>2. RangeesGardees
    BY <1>1 DEF RangeesGardees, LignesGardees
<1>3. LecturesSures' /\ etape' \in [Requetes -> Etapes] /\ lu' \in [Requetes -> Lectures]
    BY <1>1, <1>2, SuiteSure
<1>4. TypeOK'
    BY <1>1, <1>3 DEF TInv, TypeOK
<1>5. LignesSures'
    BY <1>1 DEF TInv, LignesSures
<1> QED
    BY <1>3, <1>4, <1>5 DEF TInv

(* The end of a handler that has written neither statut nor remises nor    *)
(* holders.                                                                *)
LEMMA LignesSuresIntactes ==
    ASSUME TInv, UNCHANGED <<statut, titulaire, remise>>
    PROVE  LignesSures' /\ RangeesGardees
BY DEF TInv, LignesSures, RangeesGardees, LignesGardees

(* A step that changes the statut of rows, never to ABSENTE.               *)
LEMMA LignesSuresStatut ==
    ASSUME TInv, UNCHANGED <<titulaire, remise>>, NEW s \in Sessions,
           statut[s] # "ABSENTE", NEW n \in Actifs \cup {"CLOSED"},
           statut' = [statut EXCEPT ![s] = n]
    PROVE  LignesSures' /\ RangeesGardees /\ statut' \in [Sessions -> Actifs \cup {"ABSENTE", "CLOSED"}]
<1>1. \A r \in Sessions : statut'[r] = IF r = s THEN n ELSE statut[r]
    BY DEF TInv, TypeOK
<1>2. n # "ABSENTE"
    BY DEF Actifs
<1> QED
    BY <1>1, <1>2 DEF TInv, TypeOK, LignesSures, RangeesGardees, LignesGardees
-----------------------------------------------------------------------------
(***************************************************************************)
(* The types after each action.                                            *)
(***************************************************************************)
LEMMA TitulaireConnu ==
    ASSUME TInv, NEW s \in Sessions, statut[s] # "ABSENTE"
    PROVE  CaisseDe(s) \in Caisses /\ titulaire[s].caissier \in Caissiers
BY DEF TInv, LignesSures, Titulaires, CaisseDe

(* A till that is written stays typed.                                     *)
LEMMA SoldeTypee ==
    ASSUME TInv, NEW c \in Caisses, NEW v \in Int, NEW m, EcrireSolde(c, v, m)
    PROVE  TypeCaisse'
BY DEF TInv, TypeOK, TypeCaisse, EcrireSolde

(* The sums over the operations of a session are integers.                 *)
LEMMA JournalEntier ==
    ASSUME TInv, NEW s \in Sessions
    PROVE  Journal(s) \in Int /\ JournalDeFermeture(s) \in Int
BY DEF TInv, TypeOK, Journal, JournalDeFermeture

(* The distance of two integers is a natural number.                       *)
LEMMA EcartEntier ==
    ASSUME NEW x \in Int, NEW y \in Int
    PROVE  EcartAbsolu(x, y) \in Nat /\ (x # y => EcartAbsolu(x, y) # 0)
BY DEF EcartAbsolu

(* Amounts, credited or debited, are integers.                             *)
LEMMA DeltasEntiers == Deltas \subseteq Int /\ Montants \subseteq Int
BY ConstantesOK DEF Deltas

(* The signs of the three tables.                                          *)
LEMMA SignesEntiers ==
    ASSUME NEW t, NEW m \in Int
    PROVE  SigneSolde(t) * m \in Int /\ SigneDelta(t) * m \in Int /\ SigneEntree(t) * m \in Int
<1>1. SigneSolde(t) \in Int /\ SigneDelta(t) \in Int /\ SigneEntree(t) \in Int
    BY DEF SigneSolde, SigneDelta, SigneEntree
<1> QED
    BY <1>1

(* The types an operation or a transfer is given.                          *)
LEMMA TypesConnus == Types \cup {"SAFE_SUPPLY", "SAFE_DEPOSIT"} \subseteq TypesOperations
BY ConstantesOK DEF TypesOperations, CAISSE_IN_OPERATIONS, CAISSE_OUT_OPERATIONS

(* A row is added to the operations of a session.                          *)
LEMMA InscriptionTypee ==
    ASSUME TypeLignes, NEW s \in Sessions, NEW t \in TypesOperations, NEW m \in Int,
           Inscrire(s, t, m)
    PROVE  /\ theorique' \in [Sessions -> Int]
           /\ typesInscrits' \in [Sessions -> SUBSET TypesOperations]
           /\ operations' \in [Sessions -> Int]
           /\ entrees' \in [Sessions -> Int]
<1>1. PICK a \in Int, b \in Int, c \in Int :
          a = SigneSolde(t) * m /\ b = SigneDelta(t) * m /\ c = SigneEntree(t) * m
    BY SignesEntiers
<1> QED
    BY <1>1 DEF Inscrire, TypeLignes

(* Operations and transfers keep the types.                                *)
LEMMA ArgentType ==
    ASSUME TInv, NEW q \in Requetes, Argent(q)
    PROVE  TInv'
<1>0. TypeLignes /\ TypeCaisse /\ TypeHandlers /\ LignesSures /\ LecturesSures
    BY TypesSepares DEF TInv
<1>1. ASSUME NEW s \in Sessions, NEW m \in Montants,
             \/ \E t \in Types : OperationLire(q, s, t, m)
             \/ \E t \in {"SAFE_SUPPLY", "SAFE_DEPOSIT"} : TransfertLire(q, s, t, m)
      PROVE  TInv'
    <2>1. PICK t \in TypesOperations : OperationLire(q, s, t, m) \/ TransfertLire(q, s, t, m)
        BY <1>1, TypesConnus
    <2> DEFINE l == [LectureSession(s, m, 0) EXCEPT !.type = t]
    <2>2. l \in Lectures /\ l.session = s /\ l.type = t
        <3>1. LectureSession(s, m, 0) \in Lectures
            BY DeltasEntiers, LectureTypee
        <3>2. LectureSession(s, m, 0).session = s
            BY DEF LectureSession, LectureVide
        <3> QED
            BY <3>1, <3>2 DEF Lectures
    <2>3. statut[s] # "ABSENTE"
        BY <2>1 DEF OperationLire, TransfertLire, Active, Actifs
    <2>4. Commencer(q, "operation", l) \/ Commencer(q, "transfert", l)
        BY <2>1 DEF OperationLire, TransfertLire
    <2> HIDE DEF l
    <2>5. /\ "operation" \in Etapes /\ EtapeSure("operation", l)
          /\ "transfert" \in Etapes /\ EtapeSure("transfert", l)
        BY <2>2, <2>3 DEF Etapes, EtapeSure
    <2> QED
        BY <2>2, <2>4, <2>5, DebutSur
<1>2. CASE Enregistrer(q)
    <2> DEFINE s == lu[q].session
               t == lu[q].type
               m == lu[q].montant
               delta == SigneSolde(t) * m
    <2>1. s \in Sessions /\ statut[s] # "ABSENTE" /\ m \in Int /\ t \in TypesOperations
        BY <1>0, <1>2 DEF Enregistrer, LecturesSures, LectureSure, EtapeSure, AvecSession,
                          TypeHandlers, Lectures
    <2>2. UNCHANGED <<statut, titulaire, remise, ajustees, fermee, ouverture, physique, ecart, reporte>>
        BY <1>2 DEF Enregistrer, varsLigne, varsDecision
    <2>3. LignesSures' /\ RangeesGardees
        BY <2>2, LignesSuresIntactes
    <2>4. LecturesSures' /\ TypeHandlers'
        BY <1>2, <2>3, FinSure DEF Enregistrer
    <2>5. TypeCaisse'
        <3>1. CaisseDe(s) \in Caisses
            BY <2>1, TitulaireConnu
        <3>2. delta \in Int
            BY <2>1, SignesEntiers
        <3>3. EcrireSolde(CaisseDe(s), soldeCaisse[CaisseDe(s)] + delta, TRUE)
            BY <1>2 DEF Enregistrer
        <3> HIDE DEF s, delta
        <3>4. soldeCaisse[CaisseDe(s)] + delta \in Int
            BY <1>0, <3>1, <3>2 DEF TypeCaisse
        <3> QED
            BY <3>1, <3>3, <3>4, SoldeTypee
    <2>6. Inscrire(s, t, m)
        BY <1>2 DEF Enregistrer
    <2> HIDE DEF s, t, m, delta
    <2>7. TypeLignes'
        BY <1>0, <2>1, <2>2, <2>6, InscriptionTypee DEF TypeLignes
    <2> QED
        BY <2>3, <2>4, <2>5, <2>7, TypesSepares DEF TInv, TypeOK, TypeLignes, TypeCaisse, TypeHandlers
<1>3. ASSUME NEW c \in Caisses, NEW d \in Deltas, TransfertSansSession(q, c, d)
      PROVE  TInv'
    <2>1. UNCHANGED <<statut, titulaire, remise, ajustees, fermee, ouverture, typesInscrits, operations, entrees,
                      theorique, physique, ecart, reporte>>
        BY <1>3 DEF TransfertSansSession, varsLigne, varsDecision, varsCompte, varsSommes
    <2>2. LignesSures' /\ RangeesGardees
        BY <2>1, LignesSuresIntactes
    <2>3. LecturesSures' /\ TypeHandlers'
        BY <1>3, <2>2, HandlersIntacts DEF TransfertSansSession
    <2>4. soldeCaisse[c] + d \in Int
        BY <1>0, DeltasEntiers DEF TypeCaisse
    <2>5. TypeCaisse'
        BY <1>3, <2>4, SoldeTypee DEF TransfertSansSession
    <2>6. TypeLignes'
        BY <1>0, <2>1 DEF TypeLignes
    <2> QED
        BY <2>2, <2>3, <2>5, <2>6 DEF TInv, TypeOK, TypeLignes, TypeCaisse, TypeHandlers
<1>4. ASSUME NEW t \in Remises, NEW s \in Sessions \cup {AUCUN}, RemiseLire(q, t, s)
      PROVE  TInv'
    <2> DEFINE l == [LectureSession(s, remise[t].montant, 0)
                        EXCEPT !.remise = t, !.type = "SAFE_DEPOSIT"]
    <2>1. remise[t].montant \in Nat
        BY <1>0, <1>4 DEF RemiseLire, LignesSures
    <2>2. LectureSession(s, remise[t].montant, 0) \in Lectures
        BY <2>1, LectureTypee
    <2>3. l \in Lectures
        BY <2>2, TypesConnus DEF Lectures
    <2>4. l.type = "SAFE_DEPOSIT" /\ l.remise = t /\ l.session = s
        BY DEF LectureSession, LectureVide
    <2>7. s # AUCUN => s \in Sessions /\ statut[s] # "ABSENTE"
        BY <1>4 DEF RemiseLire, Active, Actifs
    <2>5. "remise" \in Etapes /\ EtapeSure("remise", l)
        BY <1>4, <2>4, <2>7, TypesConnus DEF Etapes, EtapeSure, AvecSession, RemiseLire
    <2>6. Commencer(q, "remise", l)
        BY <1>4 DEF RemiseLire
    <2> HIDE DEF l
    <2> QED
        BY <2>3, <2>5, <2>6, DebutSur
<1>5. CASE RemiseExecuter(q)
    <2> DEFINE s == lu[q].session
               t == lu[q].remise
               m == lu[q].montant
    <2>1. /\ t \in Remises /\ remise[t] # AUCUN /\ s \in Sessions \cup {AUCUN}
          /\ m \in Int /\ lu[q].type \in TypesOperations
        BY <1>0, <1>5 DEF RemiseExecuter, LecturesSures, LectureSure, EtapeSure, TypeHandlers, Lectures
    <2>2. /\ UNCHANGED <<statut, titulaire, ajustees, fermee, ouverture, physique, ecart, reporte, soldeCaisse>>
          /\ mouvement' = {}
          /\ remise' = [remise EXCEPT ![t].executee = TRUE]
          /\ Terminer(q)
        BY <1>5 DEF RemiseExecuter, varsLigne
    <2>3. \/ UNCHANGED <<theorique, typesInscrits, operations, entrees>>
          \/ s # AUCUN /\ Inscrire(s, lu[q].type, m)
        BY <1>5 DEF RemiseExecuter, varsSommes
    <2>4. ASSUME NEW r \in Remises
          PROVE  /\ remise'[r] \in LignesRemise \cup {AUCUN}
                 /\ remise'[r] # AUCUN => remise'[r].montant \in Nat
                 /\ remise[r] # AUCUN => remise'[r] # AUCUN
        <3>1. remise[r] \in LignesRemise \cup {AUCUN} /\ (remise[r] # AUCUN => remise[r].montant \in Nat)
            BY <1>0 DEF TypeLignes, LignesSures
        <3>2. CASE r # t
            BY <1>0, <2>2, <3>1, <3>2 DEF TypeLignes
        <3>3. CASE r = t
            <4>1. remise'[r] = [remise[r] EXCEPT !.executee = TRUE]
                BY <1>0, <2>1, <2>2, <3>3 DEF TypeLignes
            <4>2. remise[r] \in LignesRemise /\ remise[r].montant \in Nat
                BY <2>1, <3>1, <3>3
            <4>3. remise'[r] \in LignesRemise /\ remise'[r].montant \in Nat
                BY <4>1, <4>2 DEF LignesRemise
            <4> QED
                BY <4>3, ConstantesOK DEF LignesRemise
        <3> QED
            BY <3>2, <3>3
    <2>5. RangeesGardees
        BY <2>2, <2>4 DEF RangeesGardees, LignesGardees
    <2>6. LignesSures'
        BY <1>0, <2>2, <2>4 DEF LignesSures
    <2>7. remise' \in [Remises -> LignesRemise \cup {AUCUN}]
        BY <1>0, <2>2, <2>4 DEF TypeLignes
    <2>8. /\ theorique' \in [Sessions -> Int]
          /\ typesInscrits' \in [Sessions -> SUBSET TypesOperations]
          /\ operations' \in [Sessions -> Int] /\ entrees' \in [Sessions -> Int]
        <3>1. CASE UNCHANGED <<theorique, typesInscrits, operations, entrees>>
            BY <1>0, <3>1 DEF TypeLignes
        <3>2. CASE s # AUCUN /\ Inscrire(s, lu[q].type, m)
            BY <1>0, <2>1, <3>2, InscriptionTypee
        <3> QED
            BY <2>3, <3>1, <3>2
    <2>9. TypeLignes' /\ TypeCaisse'
        BY <1>0, <2>2, <2>7, <2>8 DEF TypeLignes, TypeCaisse
    <2>10. LecturesSures' /\ TypeHandlers'
        BY <2>2, <2>5, FinSure
    <2> QED
        BY <2>6, <2>9, <2>10 DEF TInv, TypeOK, TypeLignes, TypeCaisse, TypeHandlers
<1> QED
    BY <1>1, <1>2, <1>3, <1>4, <1>5 DEF Argent(* The end of a step that gives one session another statut.                *)
LEMMA StatutSur ==
    ASSUME TInv, NEW q \in Requetes, Terminer(q), UNCHANGED <<titulaire, remise>>,
           NEW s \in Sessions, statut[s] # "ABSENTE", NEW n \in Actifs \cup {"CLOSED"},
           statut' = [statut EXCEPT ![s] = n],
           statut' \in [Sessions -> Actifs \cup {"ABSENTE", "CLOSED"}] => TypeLignes',
           TypeCaisse'
    PROVE  TInv'
<1>1. LignesSures' /\ RangeesGardees /\ statut' \in [Sessions -> Actifs \cup {"ABSENTE", "CLOSED"}]
    BY LignesSuresStatut
<1>2. LecturesSures' /\ TypeHandlers'
    BY <1>1, FinSure
<1> QED
    BY <1>1, <1>2 DEF TInv, TypeOK, TypeLignes, TypeCaisse, TypeHandlers

(* The opening keeps the types.                                            *)
LEMMA OuvertureType ==
    ASSUME TInv, NEW q \in Requetes,
           \/ \E c \in Caisses, a \in Caissiers : OuvrirLire(q, c, a)
           \/ Reprendre(q) \/ Ouvrir(q)
    PROVE  TInv'
<1>0. TypeLignes /\ TypeCaisse /\ TypeHandlers /\ LignesSures /\ LecturesSures
    BY TypesSepares DEF TInv
<1>1. ASSUME NEW c \in Caisses, NEW a \in Caissiers, OuvrirLire(q, c, a)
      PROVE  TInv'
    <2> DEFINE surCaisse == {r \in Sessions : Active(r) /\ titulaire[r].caisse = c}
    <2>1. PICK e \in IF surCaisse = {} THEN {AUCUN} ELSE surCaisse :
              Continuer(q, IF e # AUCUN /\ statut[e] = "OPEN" THEN "reprendre" ELSE "ouvrir",
                        [LectureVide EXCEPT !.session = e, !.caisse = c, !.caissier = a])
        BY <1>1 DEF OuvrirLire
    <2>2. /\ UNCHANGED <<statut, titulaire, ajustees, fermee, ouverture, typesInscrits, operations, entrees,
                         theorique, physique, ecart, reporte, remise, soldeCaisse>>
          /\ mouvement' = {}
          /\ verrouCaisse' = [verrouCaisse EXCEPT ![c] = q]
        BY <1>1 DEF OuvrirLire, varsLigne, varsCompte, varsSommes, varsDecision
    <2>3. LignesSures' /\ RangeesGardees
        BY <2>2, LignesSuresIntactes
    <2> DEFINE n == IF e # AUCUN /\ statut[e] = "OPEN" THEN "reprendre" ELSE "ouvrir"
               l == [LectureVide EXCEPT !.session = e, !.caisse = c, !.caissier = a]
    <2>4. e \in Sessions \cup {AUCUN} /\ (e # AUCUN => statut[e] # "ABSENTE")
        BY <2>1 DEF Active, Actifs
    <2>5. l \in Lectures /\ l.session = e /\ l.caisse = c /\ l.caissier = a
        <3>1. LectureVide \in Lectures
            BY LectureTypee
        <3> QED
            BY <2>4, <3>1 DEF Lectures
    <2>6. n \in Etapes /\ n \in {"reprendre", "ouvrir"} /\ (n = "reprendre" => e \in Sessions /\ statut[e] = "OPEN")
        BY <2>4 DEF Etapes
    <2>7. EtapeSure(n, l)
        BY <2>4, <2>5, <2>6 DEF EtapeSure, AvecSession
    <2> HIDE DEF n, l
    <2>8. LecturesSures' /\ etape' \in [Requetes -> Etapes] /\ lu' \in [Requetes -> Lectures]
        BY <2>1, <2>3, <2>5, <2>6, <2>7, SuiteSure DEF n, l
    <2> QED
        BY <1>0, <2>2, <2>3, <2>8 DEF TInv, TypeOK, TypeLignes, TypeCaisse, TypeHandlers
<1>2. CASE Reprendre(q)
    <2> DEFINE s == lu[q].session
    <2>1. s \in Sessions /\ statut[s] # "ABSENTE"
        BY <1>0, <1>2 DEF Reprendre, LecturesSures, LectureSure, EtapeSure, AvecSession
    <2>2. /\ statut' = [statut EXCEPT ![s] = "OPEN"]
          /\ fermee' = [fermee EXCEPT ![s] = FALSE]
          /\ Terminer(q) /\ mouvement' = {}
          /\ UNCHANGED <<titulaire, ajustees, ouverture, typesInscrits, operations, entrees, theorique, physique,
                         ecart, reporte, remise, soldeCaisse>>
        BY <1>2 DEF Reprendre, varsLigne, varsCompte, varsSommes, varsDecision
    <2>3. TypeCaisse' /\ "OPEN" \in Actifs \cup {"CLOSED"}
        BY <1>0, <2>2 DEF TypeCaisse, Actifs
    <2>4. statut' \in [Sessions -> Actifs \cup {"ABSENTE", "CLOSED"}] => TypeLignes'
        BY <1>0, <2>2 DEF TypeLignes
    <2> HIDE DEF s
    <2> QED
        BY <2>1, <2>2, <2>3, <2>4, StatutSur
<1>3. CASE Ouvrir(q)
    <2> DEFINE c == lu[q].caisse
               a == lu[q].caissier
               perimee == {lu[q].session} \ {AUCUN}
    <2>1. c \in Caisses /\ a \in Caissiers /\ soldeCaisse[c] \in Int
        BY <1>0, <1>3 DEF Ouvrir, LecturesSures, LectureSure, EtapeSure, TypeCaisse
    <2>2. PICK r \in Sessions :
              /\ statut[r] = "ABSENTE"
              /\ statut' = [s \in Sessions |-> IF s = r THEN "OPEN" ELSE IF s \in perimee THEN "CLOSED" ELSE statut[s]]
              /\ fermee' = [s \in Sessions |-> IF s = r THEN FALSE ELSE IF s \in perimee THEN TRUE ELSE fermee[s]]
              /\ ouverture' = [s \in Sessions |-> IF s = r THEN soldeCaisse[c] ELSE IF s \in perimee THEN 0 ELSE ouverture[s]]
              /\ theorique' = [s \in Sessions |-> IF s = r THEN soldeCaisse[c] ELSE IF s \in perimee THEN 0 ELSE theorique[s]]
              /\ titulaire' = [titulaire EXCEPT ![r] = [caisse |-> c, caissier |-> a]]
        BY <1>3, Zenon DEF Ouvrir
    <2>3. /\ Terminer(q) /\ mouvement' = {}
          /\ UNCHANGED <<ajustees, typesInscrits, operations, entrees, physique, ecart, reporte, remise, soldeCaisse>>
        BY <1>3 DEF Ouvrir, varsSommes, varsDecision
    <2> DEFINE h == [caisse |-> c, caissier |-> a]
    <2>4. h \in Titulaires
        BY <2>1 DEF Titulaires
    <2> HIDE DEF perimee, c, a, h
    <2>5. TypeLignes'
        <3>1. titulaire' \in [Sessions -> Titulaires \cup {AUCUN}]
            BY <1>0, <2>2, <2>4 DEF TypeLignes, h
        <3>2. statut' \in [Sessions -> Actifs \cup {"ABSENTE", "CLOSED"}] /\ fermee' \in [Sessions -> BOOLEAN]
            BY <1>0, <2>2 DEF TypeLignes, Actifs
        <3>3. ouverture' \in [Sessions -> Int] /\ theorique' \in [Sessions -> Int]
            BY <1>0, <2>1, <2>2 DEF TypeLignes
        <3> QED
            BY <1>0, <2>3, <3>1, <3>2, <3>3 DEF TypeLignes
    <2>6. TypeCaisse'
        BY <1>0, <2>3 DEF TypeCaisse
    <2>7. \A s \in Sessions : titulaire'[s] = IF s = r THEN h ELSE titulaire[s]
        BY <1>0, <2>2 DEF TypeLignes, h
    <2>8. LignesSures'
        <3>1. \A s \in perimee : s # r => statut[s] # "ABSENTE"
            BY <1>0, <1>3 DEF Ouvrir, LecturesSures, LectureSure, EtapeSure, perimee
        <3> QED
            BY <1>0, <2>2, <2>3, <2>4, <2>7, <3>1 DEF LignesSures
    <2>9. RangeesGardees
        BY <2>2, <2>3, <2>7 DEF RangeesGardees, LignesGardees
    <2>10. LecturesSures' /\ TypeHandlers'
        BY <2>3, <2>9, FinSure
    <2> QED
        BY <2>5, <2>6, <2>8, <2>10 DEF TInv, TypeOK, TypeLignes, TypeCaisse, TypeHandlers
<1> QED
    BY <1>1, <1>2, <1>3

(* The phases of the closing keep the types.                               *)
LEMMA FermetureType ==
    ASSUME TInv, NEW q \in Requetes,
           \/ \E s \in Sessions :
                 \/ GelerLire(q, s) \/ RouvrirLire(q, s)
                 \/ \E total \in Comptages : CompterLire(q, s, total)
                 \/ \E v, r \in 0..SoldeMax : FinaliserLire(q, s, v, r)
           \/ Geler(q) \/ Compter(q) \/ Rouvrir(q) \/ FinaliserSolde(q) \/ Finaliser(q)
    PROVE  TInv'
<1> DEFINE s == lu[q].session
<1>0. TypeLignes /\ TypeCaisse /\ TypeHandlers /\ LignesSures /\ LecturesSures
    BY TypesSepares DEF TInv
<1>l. /\ lu[q].montant \in Int /\ lu[q].reste \in Int /\ lu[q].ecart \in Int
      /\ EtapeSure(etape[q], lu[q])
    BY <1>0 DEF TypeHandlers, Lectures, LecturesSures, LectureSure
<1>c. {"OPEN", "CLOSING_COUNT", "CLOSING_VALIDATION"} \subseteq Actifs \cup {"CLOSED"}
    BY DEF Actifs
<1>1. ASSUME NEW r \in Sessions, GelerLire(q, r) \/ RouvrirLire(q, r)
      PROVE  TInv'
    <2>1. LectureSession(r, JournalDeFermeture(r), 0) \in Lectures /\ LectureSession(r, 0, 0) \in Lectures
        BY JournalEntier, LectureTypee
    <2>2. \A m : LectureSession(r, m, 0).session = r
        BY DEF LectureSession, LectureVide
    <2>3. statut[r] # "ABSENTE"
        BY <1>1 DEF GelerLire, RouvrirLire
    <2>4. /\ "geler" \in Etapes /\ EtapeSure("geler", LectureSession(r, JournalDeFermeture(r), 0))
          /\ "rouvrir" \in Etapes /\ EtapeSure("rouvrir", LectureSession(r, 0, 0))
        BY <2>2, <2>3 DEF Etapes, EtapeSure
    <2>5. CASE GelerLire(q, r)
        BY <2>1, <2>4, <2>5, DebutSur DEF GelerLire
    <2>6. CASE RouvrirLire(q, r)
        BY <2>1, <2>4, <2>6, DebutSur DEF RouvrirLire
    <2> QED
        BY <1>1, <2>5, <2>6
<1>2. ASSUME NEW r \in Sessions, NEW total \in Comptages, CompterLire(q, r, total)
      PROVE  TInv'
    <2> DEFINE l == [LectureSession(r, total, 0) EXCEPT !.ecart = total - theorique[r]]
    <2>1. total \in Int /\ total - theorique[r] \in Int
        BY <1>0, ConstantesOK DEF TypeLignes
    <2>2. LectureSession(r, total, 0) \in Lectures
        BY <2>1, LectureTypee
    <2>3. l \in Lectures
        BY <2>1, <2>2 DEF Lectures
    <2>4. l.session = r /\ statut[r] # "ABSENTE"
        BY <1>2 DEF LectureSession, LectureVide, CompterLire
    <2>5. "compter" \in Etapes /\ EtapeSure("compter", l)
        BY <2>4 DEF Etapes, EtapeSure
    <2>6. Commencer(q, "compter", l)
        BY <1>2 DEF CompterLire
    <2> HIDE DEF l
    <2> QED
        BY <2>3, <2>5, <2>6, DebutSur
<1>3. ASSUME NEW r \in Sessions, NEW v \in 0..SoldeMax, NEW reste \in 0..SoldeMax, FinaliserLire(q, r, v, reste)
      PROVE  TInv'
    <2> DEFINE l == [LectureSession(r, v, reste) EXCEPT !.ecart = ecart[r]]
    <2>1. v \in Nat /\ reste \in Int /\ ecart[r] \in Int
        BY <1>0, ConstantesOK DEF TypeLignes
    <2>2. LectureSession(r, v, reste) \in Lectures
        BY <2>1, LectureTypee
    <2>3. l \in Lectures
        BY <2>1, <2>2 DEF Lectures
    <2>4. l.session = r /\ l.montant = v /\ statut[r] # "ABSENTE"
        BY <1>3 DEF LectureSession, LectureVide, FinaliserLire
    <2>5. "finaliserSolde" \in Etapes /\ EtapeSure("finaliserSolde", l)
        BY <2>1, <2>4 DEF Etapes, EtapeSure
    <2>6. Commencer(q, "finaliserSolde", l)
        BY <1>3 DEF FinaliserLire
    <2> HIDE DEF l
    <2> QED
        BY <2>3, <2>5, <2>6, DebutSur
<1>4. CASE Geler(q)
    <2>1. s \in Sessions /\ statut[s] # "ABSENTE"
        BY <1>4, <1>l DEF Geler, EtapeSure, AvecSession
    <2>2. /\ statut' = [statut EXCEPT ![s] = "CLOSING_COUNT"]
          /\ theorique' = [theorique EXCEPT ![s] = lu[q].montant]
          /\ Terminer(q) /\ mouvement' = {}
          /\ UNCHANGED <<titulaire, ajustees, fermee, ouverture, typesInscrits, operations, entrees, physique,
                         ecart, reporte, remise, soldeCaisse>>
        BY <1>4 DEF Geler, Passer, varsLigne, varsSommes, varsDecision
    <2>3. TypeCaisse'
        BY <1>0, <2>2 DEF TypeCaisse
    <2>4. statut' \in [Sessions -> Actifs \cup {"ABSENTE", "CLOSED"}] => TypeLignes'
        BY <1>0, <1>l, <2>2 DEF TypeLignes
    <2> HIDE DEF s
    <2> QED
        BY <1>c, <2>1, <2>2, <2>3, <2>4, StatutSur
<1>5. CASE Compter(q)
    <2>1. s \in Sessions /\ statut[s] # "ABSENTE"
        BY <1>5, <1>l DEF Compter, EtapeSure, AvecSession
    <2>2. /\ statut' = [statut EXCEPT ![s] = "CLOSING_VALIDATION"]
          /\ physique' = [physique EXCEPT ![s] = lu[q].montant]
          /\ ecart' = [ecart EXCEPT ![s] = lu[q].ecart]
          /\ Terminer(q) /\ mouvement' = {}
          /\ UNCHANGED <<titulaire, ajustees, fermee, ouverture, typesInscrits, operations, entrees, theorique,
                         reporte, remise, soldeCaisse>>
        BY <1>5 DEF Compter, Passer, varsLigne, varsCompte, varsSommes
    <2>3. TypeCaisse'
        BY <1>0, <2>2 DEF TypeCaisse
    <2>4. statut' \in [Sessions -> Actifs \cup {"ABSENTE", "CLOSED"}] => TypeLignes'
        BY <1>0, <1>l, <2>2 DEF TypeLignes
    <2> HIDE DEF s
    <2> QED
        BY <1>c, <2>1, <2>2, <2>3, <2>4, StatutSur
<1>6. CASE Rouvrir(q)
    <2>1. s \in Sessions /\ statut[s] # "ABSENTE"
        BY <1>6, <1>l DEF Rouvrir, EtapeSure, AvecSession
    <2>2. /\ statut' = [statut EXCEPT ![s] = "OPEN"]
          /\ Terminer(q) /\ mouvement' = {}
          /\ UNCHANGED <<titulaire, ajustees, fermee, ouverture, typesInscrits, operations, entrees, theorique,
                         physique, ecart, reporte, remise, soldeCaisse>>
        BY <1>6 DEF Rouvrir, Passer, varsLigne, varsCompte, varsSommes, varsDecision
    <2>3. TypeCaisse'
        BY <1>0, <2>2 DEF TypeCaisse
    <2>4. statut' \in [Sessions -> Actifs \cup {"ABSENTE", "CLOSED"}] => TypeLignes'
        BY <1>0, <2>2 DEF TypeLignes
    <2> HIDE DEF s
    <2> QED
        BY <1>c, <2>1, <2>2, <2>3, <2>4, StatutSur
<1>7. CASE FinaliserSolde(q)
    <2> DEFINE l == [lu[q] EXCEPT !.solde = soldeCaisse[CaisseDe(s)]]
    <2>1. s \in Sessions /\ statut[s] # "ABSENTE" /\ lu[q].montant \in Nat /\ lu[q] \in Lectures
        BY <1>0, <1>7, <1>l DEF FinaliserSolde, EtapeSure, AvecSession, TypeHandlers
    <2>2. soldeCaisse[CaisseDe(s)] \in Int
        BY <1>0, <2>1, TitulaireConnu DEF TypeCaisse
    <2>3. l \in Lectures /\ l.session = s /\ l.montant = lu[q].montant
        BY <2>1, <2>2 DEF Lectures
    <2>4. "finaliser" \in Etapes /\ EtapeSure("finaliser", l)
        BY <2>1, <2>3 DEF Etapes, EtapeSure
    <2>5. /\ Continuer(q, "finaliser", l) /\ mouvement' = {}
          /\ UNCHANGED <<statut, titulaire, ajustees, fermee, ouverture, typesInscrits, operations, entrees,
                         theorique, physique, ecart, reporte, remise, soldeCaisse, verrouCaisse>>
        BY <1>7 DEF FinaliserSolde, varsLigne, varsCompte, varsSommes, varsDecision
    <2>6. LignesSures' /\ RangeesGardees
        BY <2>5, LignesSuresIntactes
    <2> HIDE DEF l
    <2>7. LecturesSures' /\ etape' \in [Requetes -> Etapes] /\ lu' \in [Requetes -> Lectures]
        BY <2>3, <2>4, <2>5, <2>6, SuiteSure
    <2> QED
        BY <1>0, <2>5, <2>6, <2>7 DEF TInv, TypeOK, TypeLignes, TypeCaisse, TypeHandlers
<1>8. CASE Finaliser(q)
    <2> DEFINE c == CaisseDe(s)
    <2>1. s \in Sessions /\ statut[s] # "ABSENTE" /\ lu[q].montant \in Nat
        BY <1>8, <1>l DEF Finaliser, EtapeSure, AvecSession
    <2>2. /\ statut' = [statut EXCEPT ![s] = "CLOSED"]
          /\ fermee' = [fermee EXCEPT ![s] = TRUE]
          /\ reporte' = [reporte EXCEPT ![s] = lu[q].reste]
          /\ soldeCaisse' = [soldeCaisse EXCEPT ![c] = lu[q].reste]
          /\ mouvement' \in {{c}, {}}
          /\ Terminer(q)
          /\ UNCHANGED <<titulaire, ajustees, ouverture, typesInscrits, operations, entrees, theorique, physique, ecart>>
        BY <1>8 DEF Finaliser, Clore, varsLigne, varsCompte, varsSommes
    <2>3. c \in Caisses
        BY <2>1, TitulaireConnu
    <2>4. TypeCaisse'
        BY <1>0, <1>l, <2>2, <2>3 DEF TypeCaisse
    <2> DEFINE x == [session |-> s, montant |-> lu[q].montant, executee |-> FALSE]
    <2>5. x \in LignesRemise /\ x # AUCUN /\ x.montant \in Nat
        <3>1. x \in LignesRemise
            BY <2>1, <1>l DEF LignesRemise
        <3>2. AUCUN \notin LignesRemise
            BY ConstantesOK DEF LignesRemise
        <3> QED
            BY <2>1, <3>1, <3>2
    <2>6. \/ remise' = remise
          \/ \E t \in Remises : remise[t] = AUCUN /\ remise' = [remise EXCEPT ![t] = x]
        BY <1>8 DEF Finaliser, InscrireRemise
    <2> HIDE DEF x
    <2>7. /\ remise' \in [Remises -> LignesRemise \cup {AUCUN}]
          /\ \A t \in Remises : (remise[t] # AUCUN => remise'[t] # AUCUN)
                                 /\ (remise'[t] # AUCUN => remise'[t].montant \in Nat)
        <3>1. CASE remise' = remise
            BY <1>0, <3>1 DEF TypeLignes, LignesSures
        <3>2. ASSUME NEW t \in Remises, remise[t] = AUCUN, remise' = [remise EXCEPT ![t] = x]
              PROVE  /\ remise' \in [Remises -> LignesRemise \cup {AUCUN}]
                     /\ \A u \in Remises : (remise[u] # AUCUN => remise'[u] # AUCUN)
                                            /\ (remise'[u] # AUCUN => remise'[u].montant \in Nat)
            BY <1>0, <2>5, <3>2 DEF TypeLignes, LignesSures
        <3> QED
            BY <2>6, <3>1, <3>2
    <2>8. \A r \in Sessions : statut'[r] = IF r = s THEN "CLOSED" ELSE statut[r]
        BY <1>0, <2>2 DEF TypeLignes
    <2>9. TypeLignes'
        BY <1>0, <1>l, <2>2, <2>7 DEF TypeLignes, Actifs
    <2>10. LignesSures'
        BY <1>0, <2>1, <2>2, <2>7, <2>8 DEF LignesSures
    <2>11. RangeesGardees
        BY <2>2, <2>7, <2>8 DEF RangeesGardees, LignesGardees
    <2>12. LecturesSures' /\ TypeHandlers'
        BY <2>2, <2>11, FinSure
    <2> QED
        BY <2>4, <2>9, <2>10, <2>12 DEF TInv, TypeOK, TypeLignes, TypeCaisse, TypeHandlers
<1> QED
    BY <1>1, <1>2, <1>3, <1>4, <1>5, <1>6, <1>7, <1>8
(* A session is closed outside a handler.                                  *)
LEMMA ClotureImmediate ==
    ASSUME TInv, UNCHANGED <<titulaire, remise, verrouCaisse, varsHandler>>,
           NEW s \in Sessions, statut[s] # "ABSENTE", statut' = [statut EXCEPT ![s] = "CLOSED"],
           statut' \in [Sessions -> Actifs \cup {"ABSENTE", "CLOSED"}] => TypeLignes',
           TypeCaisse'
    PROVE  TInv'
<1>1. LignesSures' /\ RangeesGardees /\ statut' \in [Sessions -> Actifs \cup {"ABSENTE", "CLOSED"}]
    BY LignesSuresStatut
<1>2. LecturesSures' /\ TypeHandlers'
    BY <1>1, HandlersIntacts
<1> QED
    BY <1>1, <1>2 DEF TInv, TypeOK, TypeLignes, TypeCaisse, TypeHandlers

(* The closings that the cashier does not ask for keep the types.          *)
LEMMA FermetureSubieType ==
    ASSUME TInv, NEW q \in Requetes, FermetureSubie(q)
    PROVE  TInv'
<1> DEFINE s == lu[q].session
           m == lu[q].montant
<1>0. TypeLignes /\ TypeCaisse /\ TypeHandlers /\ LignesSures /\ LecturesSures
    BY TypesSepares DEF TInv
<1>l. m \in Int /\ lu[q] \in Lectures /\ EtapeSure(etape[q], lu[q])
    BY <1>0 DEF TypeHandlers, Lectures, LecturesSures, LectureSure
<1>1. ASSUME NEW r \in Sessions, ExpirerLire(q, r) \/ DeconnexionLire(q, r) \/ ForcerLire(q, r)
      PROVE  TInv'
    <2>1. theorique[r] \in Int
        BY <1>0 DEF TypeLignes
    <2>2. /\ LectureSession(r, Journal(r), 0) \in Lectures
          /\ LectureSession(r, theorique[r], 0) \in Lectures
          /\ LectureSession(r, 0, 0) \in Lectures
        BY <2>1, JournalEntier, LectureTypee
    <2>3. \A n : LectureSession(r, n, 0).session = r
        BY DEF LectureSession, LectureVide
    <2>4. statut[r] # "ABSENTE"
        BY <1>1 DEF ExpirerLire, DeconnexionLire, ForcerLire, Active, Actifs
    <2>5. /\ "expirerSession" \in Etapes /\ EtapeSure("expirerSession", LectureSession(r, Journal(r), 0))
          /\ "deconnexion" \in Etapes /\ EtapeSure("deconnexion", LectureSession(r, theorique[r], 0))
          /\ "forcer" \in Etapes /\ EtapeSure("forcer", LectureSession(r, 0, 0))
        BY <2>3, <2>4 DEF Etapes, EtapeSure
    <2>6. CASE ExpirerLire(q, r)
        BY <2>2, <2>5, <2>6, DebutSur DEF ExpirerLire
    <2>7. CASE DeconnexionLire(q, r)
        BY <2>2, <2>5, <2>7, DebutSur DEF DeconnexionLire
    <2>8. CASE ForcerLire(q, r)
        BY <2>2, <2>5, <2>8, DebutSur DEF ForcerLire
    <2> QED
        BY <1>1, <2>6, <2>7, <2>8
<1>2. ASSUME NEW r \in Sessions, FermerDOffice(q, r)
      PROVE  TInv'
    <2> DEFINE difference == EcartAbsolu(0, Journal(r))
    <2>1. /\ statut[r] # "ABSENTE"
          /\ statut' = [statut EXCEPT ![r] = "CLOSED"] /\ fermee' = [fermee EXCEPT ![r] = TRUE]
          /\ ajustees' \in {ajustees, ajustees \cup {r}}
          /\ theorique' = [theorique EXCEPT ![r] = Journal(r)]
          /\ operations' = [operations EXCEPT ![r] = @ + SigneDelta("ADJUSTMENT") * difference]
          /\ entrees' = [entrees EXCEPT ![r] = @ + SigneEntree("ADJUSTMENT") * difference]
          /\ typesInscrits' \in {typesInscrits, [typesInscrits EXCEPT ![r] = @ \cup {"ADJUSTMENT"}]}
          /\ ecart' = [ecart EXCEPT ![r] = -Journal(r)]
          /\ EcrireSolde(CaisseDe(r), 0, difference # 0)
          /\ UNCHANGED <<titulaire, ouverture, physique, reporte, remise, verrouCaisse, varsHandler>>
        BY <1>2 DEF FermerDOffice, Clore
    <2>2. Journal(r) \in Int /\ difference \in Int
        BY JournalEntier, EcartEntier
    <2>3. CaisseDe(r) \in Caisses
        BY <2>1, TitulaireConnu
    <2>4. PICK a \in Int, b \in Int : a = SigneDelta("ADJUSTMENT") * difference
                                     /\ b = SigneEntree("ADJUSTMENT") * difference
        BY <2>2, SignesEntiers
    <2>5. TypeCaisse'
        BY <2>1, <2>3, SoldeTypee
    <2> HIDE DEF difference
    <2>7. "ADJUSTMENT" \in TypesOperations
        BY DEF TypesOperations
    <2>6. statut' \in [Sessions -> Actifs \cup {"ABSENTE", "CLOSED"}] => TypeLignes'
        BY <1>0, <2>1, <2>2, <2>4, <2>7 DEF TypeLignes
    <2> QED
        BY <2>1, <2>5, <2>6, ClotureImmediate
<1>3. ASSUME NEW r \in Sessions, FermerTemporairement(q, r)
      PROVE  TInv'
    <2>1. /\ statut[r] # "ABSENTE"
          /\ statut' = [statut EXCEPT ![r] = "CLOSED"] /\ fermee' = [fermee EXCEPT ![r] = TRUE]
          /\ theorique' = [theorique EXCEPT ![r] = Journal(r)]
          /\ physique' = [physique EXCEPT ![r] = Journal(r)]
          /\ ecart' = [ecart EXCEPT ![r] = 0]
          /\ reporte' = [reporte EXCEPT ![r] = AUCUN]
          /\ EcrireSolde(CaisseDe(r), Journal(r), FALSE)
          /\ UNCHANGED <<titulaire, ajustees, ouverture, typesInscrits, operations, entrees, remise, verrouCaisse, varsHandler>>
        BY <1>3 DEF FermerTemporairement, Clore, varsLigne, varsSommes
    <2>2. Journal(r) \in Int
        BY JournalEntier
    <2>3. CaisseDe(r) \in Caisses
        BY <2>1, TitulaireConnu
    <2>5. TypeCaisse'
        BY <2>1, <2>2, <2>3, SoldeTypee
    <2>6. statut' \in [Sessions -> Actifs \cup {"ABSENTE", "CLOSED"}] => TypeLignes'
        BY <1>0, <2>1, <2>2 DEF TypeLignes
    <2> QED
        BY <2>1, <2>5, <2>6, ClotureImmediate
<1>4. CASE ExpirerSession(q)
    <2>1. s \in Sessions /\ statut[s] # "ABSENTE"
        BY <1>4, <1>l DEF ExpirerSession, EtapeSure, AvecSession
    <2>2. /\ statut' = [statut EXCEPT ![s] = "CLOSED"] /\ fermee' = [fermee EXCEPT ![s] = TRUE]
          /\ theorique' = [theorique EXCEPT ![s] = m]
          /\ physique' = [physique EXCEPT ![s] = m]
          /\ reporte' = [reporte EXCEPT ![s] = m]
          /\ ecart' = [ecart EXCEPT ![s] = 0]
          /\ Continuer(q, "expirerCaisse", lu[q]) /\ mouvement' = {}
          /\ UNCHANGED <<titulaire, ajustees, ouverture, typesInscrits, operations, entrees, remise, soldeCaisse, verrouCaisse>>
        BY <1>4 DEF ExpirerSession, Clore, varsLigne, varsSommes
    <2> HIDE DEF s, m
    <2>3. LignesSures' /\ RangeesGardees /\ statut' \in [Sessions -> Actifs \cup {"ABSENTE", "CLOSED"}]
        BY <2>1, <2>2, LignesSuresStatut
    <2>4. "expirerCaisse" \in Etapes /\ EtapeSure("expirerCaisse", lu[q])
        BY <2>1 DEF Etapes, EtapeSure, s
    <2>5. LecturesSures' /\ etape' \in [Requetes -> Etapes] /\ lu' \in [Requetes -> Lectures]
        BY <1>l, <2>2, <2>3, <2>4, SuiteSure
    <2>6. TypeLignes'
        BY <1>0, <1>l, <2>2, <2>3 DEF TypeLignes
    <2>7. TypeCaisse' /\ TypeHandlers'
        BY <1>0, <2>2, <2>5 DEF TypeCaisse, TypeHandlers
    <2> QED
        BY <2>3, <2>5, <2>6, <2>7 DEF TInv, TypeOK, TypeLignes, TypeCaisse, TypeHandlers
<1>5. CASE ExpirerCaisse(q)
    <2>1. s \in Sessions /\ statut[s] # "ABSENTE"
        BY <1>5, <1>l DEF ExpirerCaisse, EtapeSure, AvecSession
    <2>2. /\ EcrireSolde(CaisseDe(s), IF m < 0 THEN 0 ELSE m, FALSE) /\ Terminer(q)
          /\ UNCHANGED <<statut, titulaire, ajustees, fermee, ouverture, typesInscrits, operations, entrees, theorique,
                         physique, ecart, reporte, remise>>
        BY <1>5 DEF ExpirerCaisse, varsLigne, varsCompte, varsSommes, varsDecision
    <2>3. CaisseDe(s) \in Caisses /\ (IF m < 0 THEN 0 ELSE m) \in Int
        BY <1>l, <2>1, TitulaireConnu
    <2> HIDE DEF s, m
    <2>4. TypeCaisse'
        BY <2>2, <2>3, SoldeTypee
    <2>5. LignesSures' /\ RangeesGardees
        BY <2>2, LignesSuresIntactes
    <2>6. LecturesSures' /\ TypeHandlers'
        BY <2>2, <2>5, FinSure
    <2>7. TypeLignes'
        BY <1>0, <2>2 DEF TypeLignes
    <2> QED
        BY <2>4, <2>5, <2>6, <2>7 DEF TInv, TypeOK, TypeLignes, TypeCaisse, TypeHandlers
<1>6. CASE Deconnexion(q)
    <2>1. s \in Sessions /\ statut[s] # "ABSENTE"
        BY <1>6, <1>l DEF Deconnexion, EtapeSure, AvecSession
    <2>2. /\ statut' = [statut EXCEPT ![s] = "CLOSED"] /\ fermee' = [fermee EXCEPT ![s] = TRUE]
          /\ physique' = [physique EXCEPT ![s] = m]
          /\ reporte' = [reporte EXCEPT ![s] = m]
          /\ ecart' = [ecart EXCEPT ![s] = 0]
          /\ EcrireSolde(CaisseDe(s), m, FALSE) /\ Terminer(q)
          /\ UNCHANGED <<titulaire, ajustees, ouverture, typesInscrits, operations, entrees, theorique, remise>>
        BY <1>6 DEF Deconnexion, Clore, varsLigne, varsCompte, varsSommes
    <2>3. CaisseDe(s) \in Caisses
        BY <2>1, TitulaireConnu
    <2> HIDE DEF s, m
    <2>4. TypeCaisse'
        BY <1>l, <2>2, <2>3, SoldeTypee
    <2>5. statut' \in [Sessions -> Actifs \cup {"ABSENTE", "CLOSED"}] => TypeLignes'
        BY <1>0, <1>l, <2>2 DEF TypeLignes
    <2>6. "CLOSED" \in Actifs \cup {"CLOSED"}
        OBVIOUS
    <2> QED
        BY <2>1, <2>2, <2>4, <2>5, <2>6, StatutSur
<1>7. CASE ForcerFermeture(q)
    <2>1. /\ fermee' = [fermee EXCEPT ![s] = TRUE]
          /\ ecart' = [ecart EXCEPT ![s] = 0]
          /\ Terminer(q) /\ mouvement' = {}
          /\ UNCHANGED <<statut, titulaire, ajustees, ouverture, typesInscrits, operations, entrees, theorique,
                         physique, reporte, remise, soldeCaisse>>
        BY <1>7 DEF ForcerFermeture, varsLigne, varsCompte, varsSommes
    <2>2. LignesSures' /\ RangeesGardees
        BY <2>1, LignesSuresIntactes
    <2>3. LecturesSures' /\ TypeHandlers'
        BY <2>1, <2>2, FinSure
    <2>0. s \in Sessions
        BY <1>7, <1>l DEF ForcerFermeture, EtapeSure, AvecSession
    <2> HIDE DEF s
    <2>4. TypeLignes'
        BY <1>0, <2>0, <2>1 DEF TypeLignes
    <2>5. TypeCaisse'
        BY <1>0, <2>1 DEF TypeCaisse
    <2> QED
        BY <2>2, <2>3, <2>4, <2>5 DEF TInv, TypeOK, TypeLignes, TypeCaisse, TypeHandlers
<1> QED
    BY <1>1, <1>2, <1>3, <1>4, <1>5, <1>6, <1>7 DEF FermetureSubie

(* The invariant of the types at the start and after each step.            *)
LEMMA InitTInv == Init => TInv
<1> SUFFICES ASSUME Init
             PROVE  TInv
    OBVIOUS
<1>1. TypeOK
    BY ConstantesOK, LectureTypee DEF Init, TypeOK, Etapes
<1>2. LignesSures /\ LecturesSures
    BY DEF Init, LignesSures, LecturesSures, LectureSure, EtapeSure, AvecSession
<1> QED
    BY <1>1, <1>2 DEF TInv

(* Every step keeps the invariant of the types.                            *)
LEMMA PasTInv == TInv /\ [Next]_vars => TInv'
<1> SUFFICES ASSUME TInv, [Next]_vars
             PROVE  TInv'
    OBVIOUS
<1>1. CASE UNCHANGED vars
    BY <1>1 DEF vars, varsLigne, varsCompte, varsSommes, varsDecision, varsCaisse, varsHandler, TInv, TypeOK,
                LignesSures, LecturesSures, LectureSure, EtapeSure
<1>2. ASSUME NEW q \in Requetes, Panne(q)
      PROVE  TInv'
    <2>1. /\ Terminer(q) /\ mouvement' = {}
          /\ UNCHANGED <<statut, titulaire, ajustees, fermee, ouverture, typesInscrits, operations, entrees, theorique,
                         physique, ecart, reporte, remise, soldeCaisse>>
        BY <1>2 DEF Panne, varsLigne, varsCompte, varsSommes, varsDecision
    <2>2. LignesSures' /\ RangeesGardees
        BY <2>1, LignesSuresIntactes
    <2>3. LecturesSures' /\ TypeHandlers'
        BY <2>1, <2>2, FinSure
    <2>4. TypeOK'
        BY <2>1, <2>3 DEF TInv, TypeOK, TypeHandlers
    <2> QED
        BY <2>2, <2>3, <2>4 DEF TInv
<1>3. ASSUME NEW q \in Requetes, Cycle(q)
      PROVE  TInv'
    BY <1>3, OuvertureType, FermetureType DEF Cycle
<1> QED
    BY <1>1, <1>2, <1>3, ArgentType, FermetureSubieType DEF Next

(* Every variable of the tills, their sessions and the handlers keeps its  *)
(* type, for any number of concurrent handlers.                            *)
THEOREM TypeCorrect == Spec => []TypeOK
<1>1. TInv => TypeOK
    BY DEF TInv
<1> QED
    BY <1>1, InitTInv, PasTInv, PTL DEF Spec
-----------------------------------------------------------------------------
(***************************************************************************)
(* What is closed stays closed.                                            *)
(***************************************************************************)

(* What a step owes to the session s.                                      *)
ResteFermee(s) == statut'[s] = "CLOSED" /\ PersonneNeRevient(s)'

(* A handler goes on to a step that writes no active statut, or with       *)
(* another session.                                                        *)
LEMMA SuiteSansRetour ==
    ASSUME Domaines, NEW s \in Sessions, PersonneNeRevient(s),
           NEW q \in Requetes, NEW e, NEW l, Continuer(q, e, l),
           e \in Revenants => l.session # s
    PROVE  PersonneNeRevient(s)'
<1> SUFFICES ASSUME NEW p \in Requetes, lu'[p].session = s
             PROVE  etape'[p] \notin Revenants
    BY DEF PersonneNeRevient
<1>1. CASE p = q
    BY <1>1 DEF Continuer, Domaines
<1>2. CASE p # q
    BY <1>2 DEF Continuer, Domaines, PersonneNeRevient
<1> QED
    BY <1>1, <1>2

(* A handler ends.                                                         *)
LEMMA FinSansRetour ==
    ASSUME Domaines, NEW s \in Sessions, PersonneNeRevient(s),
           NEW q \in Requetes, Terminer(q)
    PROVE  PersonneNeRevient(s)'
<1>1. Continuer(q, "libre", LectureVide) /\ "libre" \notin Revenants
    BY DEF Terminer, Revenants
<1> QED
    BY <1>1, SuiteSansRetour

(* A handler begins.                                                       *)
LEMMA DebutSansRetour ==
    ASSUME Domaines, NEW s \in Sessions, PersonneNeRevient(s), statut[s] = "CLOSED",
           NEW q \in Requetes, NEW e, NEW l, Commencer(q, e, l),
           e \in Revenants => l.session # s
    PROVE  ResteFermee(s)
<1>1. Continuer(q, e, l) /\ UNCHANGED statut
    BY DEF Commencer
<1> QED
    BY <1>1, SuiteSansRetour DEF ResteFermee

(* The handlers that write an active statut write it on another session.   *)
LEMMA PassageAilleurs ==
    ASSUME Domaines, NEW s \in Sessions, PersonneNeRevient(s), statut[s] = "CLOSED",
           NEW q \in Requetes, etape[q] \in Revenants, Terminer(q),
           NEW n, statut' = [statut EXCEPT ![lu[q].session] = n]
    PROVE  ResteFermee(s)
<1>1. lu[q].session # s
    BY DEF PersonneNeRevient
<1>2. statut'[s] = "CLOSED"
    BY <1>1 DEF Domaines
<1> QED
    BY <1>2, FinSansRetour DEF ResteFermee

(* The step after which a session is closed leaves the others alone.       *)
LEMMA ClotureAilleurs ==
    ASSUME Domaines, NEW s \in Sessions, statut[s] = "CLOSED", NEW r, Clore(r)
    PROVE  statut'[s] = "CLOSED"
BY DEF Domaines, Clore

(* Operations and transfers.                                               *)
LEMMA ArgentResteFermee ==
    ASSUME Domaines, NEW s \in Sessions, PersonneNeRevient(s), statut[s] = "CLOSED",
           NEW q \in Requetes, Argent(q)
    PROVE  ResteFermee(s)
<1> USE DEF Revenants
<1>1. ASSUME NEW r \in Sessions, NEW m \in Montants, NEW t,
             OperationLire(q, r, t, m) \/ TransfertLire(q, r, t, m)
      PROVE  ResteFermee(s)
    <2>1. CASE OperationLire(q, r, t, m)
        BY <2>1, DebutSansRetour DEF OperationLire
    <2>2. CASE TransfertLire(q, r, t, m)
        BY <2>2, DebutSansRetour DEF TransfertLire
    <2> QED
        BY <1>1, <2>1, <2>2
<1>2. CASE Enregistrer(q)
    BY <1>2, FinSansRetour DEF Enregistrer, ResteFermee
<1>3. ASSUME NEW c \in Caisses, NEW d \in Deltas, TransfertSansSession(q, c, d)
      PROVE  ResteFermee(s)
    BY <1>3 DEF TransfertSansSession, varsHandler, ResteFermee, PersonneNeRevient
<1>4. ASSUME NEW t \in Remises, NEW r \in Sessions \cup {AUCUN}, RemiseLire(q, t, r)
      PROVE  ResteFermee(s)
    BY <1>4, DebutSansRetour DEF RemiseLire
<1>5. CASE RemiseExecuter(q)
    BY <1>5, FinSansRetour DEF RemiseExecuter, ResteFermee
<1> QED
    BY <1>1, <1>2, <1>3, <1>4, <1>5 DEF Argent

(* Opening and closing: a phase begins on a session that is not closed.    *)
LEMMA CycleResteFermee ==
    ASSUME Domaines, NEW s \in Sessions, PersonneNeRevient(s), statut[s] = "CLOSED",
           NEW q \in Requetes, Cycle(q)
    PROVE  ResteFermee(s)
<1> USE DEF Revenants
<1>1. ASSUME NEW c \in Caisses, NEW a \in Caissiers, OuvrirLire(q, c, a)
      PROVE  ResteFermee(s)
    <2> DEFINE surCaisse == {r \in Sessions : Active(r) /\ titulaire[r].caisse = c}
    <2>1. UNCHANGED statut
        BY <1>1 DEF OuvrirLire
    <2>2. PICK e \in IF surCaisse = {} THEN {AUCUN} ELSE surCaisse :
              Continuer(q, IF e # AUCUN /\ statut[e] = "OPEN" THEN "reprendre" ELSE "ouvrir",
                        [LectureVide EXCEPT !.session = e, !.caisse = c, !.caissier = a])
        BY <1>1 DEF OuvrirLire
    <2>3. [LectureVide EXCEPT !.session = e, !.caisse = c, !.caissier = a].session = e
        BY DEF LectureVide
    <2>4. PersonneNeRevient(s)'
        <3>1. CASE e = s
            <4>1. Continuer(q, "ouvrir",
                            [LectureVide EXCEPT !.session = e, !.caisse = c, !.caissier = a])
                BY <2>2, <3>1
            <4> QED
                BY <4>1, SuiteSansRetour
        <3>2. CASE e # s
            BY <2>2, <2>3, <3>2, SuiteSansRetour
        <3> QED
            BY <3>1, <3>2
    <2> QED
        BY <2>1, <2>4 DEF ResteFermee
<1>2. CASE Reprendre(q)
    BY <1>2, PassageAilleurs DEF Reprendre
<1>3. CASE Ouvrir(q)
    <2>1. PICK r \in Sessions :
              /\ statut[r] = "ABSENTE"
              /\ statut' = [x \in Sessions |-> IF x = r THEN "OPEN"
                                                ELSE IF x \in {lu[q].session} \ {AUCUN} THEN "CLOSED"
                                                ELSE statut[x]]
        BY <1>3, Zenon DEF Ouvrir
    <2>2. statut'[s] = "CLOSED"
        BY <2>1
    <2> QED
        BY <1>3, <2>2, FinSansRetour DEF Ouvrir, ResteFermee
<1>4. ASSUME NEW r \in Sessions, GelerLire(q, r) \/ RouvrirLire(q, r)
      PROVE  ResteFermee(s)
    <2>1. r # s
        BY <1>4 DEF GelerLire, RouvrirLire
    <2>2. \A m, n : LectureSession(r, m, n).session = r
        BY DEF LectureSession, LectureVide
    <2>3. CASE GelerLire(q, r)
        BY <2>1, <2>2, <2>3, DebutSansRetour DEF GelerLire
    <2>4. CASE RouvrirLire(q, r)
        BY <2>1, <2>2, <2>4, DebutSansRetour DEF RouvrirLire
    <2> QED
        BY <1>4, <2>3, <2>4
<1>5. ASSUME NEW r \in Sessions, NEW total \in Comptages, CompterLire(q, r, total)
      PROVE  ResteFermee(s)
    <2> DEFINE l == [LectureSession(r, total, 0) EXCEPT !.ecart = total - theorique[r]]
    <2>1. l.session # s
        BY <1>5 DEF CompterLire, LectureSession, LectureVide
    <2>2. Commencer(q, "compter", l)
        BY <1>5 DEF CompterLire
    <2> HIDE DEF l
    <2> QED
        BY <2>1, <2>2, DebutSansRetour
<1>6. ASSUME NEW r \in Sessions, NEW v \in 0..SoldeMax, NEW x \in 0..SoldeMax, FinaliserLire(q, r, v, x)
      PROVE  ResteFermee(s)
    BY <1>6, DebutSansRetour DEF FinaliserLire
<1>7. CASE Geler(q)
    BY <1>7, PassageAilleurs DEF Geler, Passer
<1>8. CASE Compter(q)
    BY <1>8, PassageAilleurs DEF Compter, Passer
<1>9. CASE Rouvrir(q)
    BY <1>9, PassageAilleurs DEF Rouvrir, Passer
<1>10. CASE FinaliserSolde(q)
    BY <1>10, SuiteSansRetour DEF FinaliserSolde, ResteFermee
<1>11. CASE Finaliser(q)
    BY <1>11, FinSansRetour, ClotureAilleurs DEF Finaliser, ResteFermee
<1> QED
    BY <1>1, <1>2, <1>3, <1>4, <1>5, <1>6, <1>7, <1>8, <1>9, <1>10, <1>11 DEF Cycle

(* The closings that the cashier does not ask for.                         *)
LEMMA FermetureSubieResteFermee ==
    ASSUME Domaines, NEW s \in Sessions, PersonneNeRevient(s), statut[s] = "CLOSED",
           NEW q \in Requetes, FermetureSubie(q)
    PROVE  ResteFermee(s)
<1> USE DEF Revenants
<1>1. ASSUME NEW r \in Sessions, ExpirerLire(q, r) \/ DeconnexionLire(q, r) \/ ForcerLire(q, r)
      PROVE  ResteFermee(s)
    BY <1>1, DebutSansRetour DEF ExpirerLire, DeconnexionLire, ForcerLire
<1>2. ASSUME NEW r \in Sessions, FermerDOffice(q, r) \/ FermerTemporairement(q, r)
      PROVE  ResteFermee(s)
    <2>1. Clore(r) /\ UNCHANGED <<etape, lu>>
        BY <1>2 DEF FermerDOffice, FermerTemporairement, varsHandler
    <2> QED
        BY <2>1, ClotureAilleurs DEF ResteFermee, PersonneNeRevient
<1>3. CASE ExpirerSession(q)
    BY <1>3, SuiteSansRetour, ClotureAilleurs DEF ExpirerSession, ResteFermee
<1>4. CASE ExpirerCaisse(q)
    BY <1>4, FinSansRetour DEF ExpirerCaisse, ResteFermee
<1>5. CASE Deconnexion(q)
    BY <1>5, FinSansRetour, ClotureAilleurs DEF Deconnexion, ResteFermee
<1>6. CASE ForcerFermeture(q)
    BY <1>6, FinSansRetour DEF ForcerFermeture, ResteFermee
<1> QED
    BY <1>1, <1>2, <1>3, <1>4, <1>5, <1>6 DEF FermetureSubie

(* A closed session comes back only through a handler that had read it     *)
(* before: for any number of handlers, whatever they read and wherever     *)
(* they stop.                                                              *)
THEOREM FermetureToujoursDefinitive == Spec => FermetureDefinitive
<1>1. ASSUME UInv, Next, NEW s \in Sessions, statut[s] = "CLOSED", PersonneNeRevient(s)
      PROVE  ResteFermee(s)
    <2>1. ASSUME NEW q \in Requetes, Panne(q)
          PROVE  ResteFermee(s)
        BY <1>1, <2>1, FinSansRetour DEF Panne, ResteFermee, UInv
    <2> QED
        BY <1>1, <2>1, ArgentResteFermee, CycleResteFermee, FermetureSubieResteFermee DEF Next, UInv
<1>2. UInv /\ [Next]_vars =>
          [\A s \in Sessions : statut[s] = "CLOSED" /\ PersonneNeRevient(s) =>
              statut'[s] = "CLOSED" /\ PersonneNeRevient(s)']_vars
    BY <1>1 DEF ResteFermee
<1> QED
    BY <1>2, InitUInv, PasUInv, PTL DEF Spec, FermetureDefinitive
-----------------------------------------------------------------------------
(***************************************************************************)
(* Balances and mouvements.                                                *)
(***************************************************************************)

(* What a step owes to the till c.                                         *)
SoldeJustifie(c) ==
    soldeCaisse'[c] # soldeCaisse[c] =>
        c \in mouvement' \/ \E q \in Requetes : FinalisePerime(q, c) /\ etape'[q] = "libre"

(* A till written through the guard has a mouvement when it changes.       *)
LEMMA SoldeSuivi ==
    ASSUME TInv, NEW c, NEW v, NEW m, EcrireSolde(c, v, m), NEW d \in Caisses
    PROVE  SoldeJustifie(d)
<1>1. soldeCaisse'[d] # soldeCaisse[d] => d = c /\ v # soldeCaisse[c]
    BY DEF EcrireSolde, TInv, TypeOK
<1>2. CASE m
    BY <1>1, <1>2 DEF EcrireSolde, SoldeJustifie
<1>3. CASE ~m
    BY <1>1, <1>3 DEF EcrireSolde, GardeDeSolde, SoldeJustifie
<1> QED
    BY <1>2, <1>3

(* finalizeClose writes the balance without the guard, and with a          *)
(* mouvement unless it read the balance it now writes.                     *)
LEMMA FinalisationJustifiee ==
    ASSUME TInv, NEW q \in Requetes, Finaliser(q), NEW d \in Caisses
    PROVE  SoldeJustifie(d)
<1> DEFINE c == CaisseDe(lu[q].session)
<1>1. /\ etape[q] = "finaliser" /\ Terminer(q)
      /\ soldeCaisse' = [soldeCaisse EXCEPT ![c] = lu[q].reste]
      /\ mouvement' = IF lu[q].ecart # 0 \/ lu[q].solde # lu[q].reste THEN {c} ELSE {}
    BY DEF Finaliser
<1>2. etape'[q] = "libre"
    BY <1>1 DEF Terminer, Continuer, TInv, TypeOK
<1> SUFFICES ASSUME soldeCaisse'[d] # soldeCaisse[d], d \notin mouvement'
             PROVE  FinalisePerime(q, d)
    BY <1>2 DEF SoldeJustifie
<1>3. d = c /\ soldeCaisse'[d] = lu[q].reste
    BY <1>1 DEF TInv, TypeOK
<1>4. lu[q].solde = lu[q].reste
    BY <1>1, <1>3
<1> QED
    BY <1>1, <1>3, <1>4 DEF FinalisePerime

(* No balance of a till changes without a mouvement of the same            *)
(* transaction, for any number of handlers: save by a finalizeClose that   *)
(* writes after the till has moved since its reading.                      *)
THEOREM SoldeToujoursJustifie == Spec => SoldeSuitMouvement
<1>1. ASSUME TInv, NEW q \in Requetes, Argent(q), NEW d \in Caisses
      PROVE  SoldeJustifie(d)
    <2>1. CASE \E c, v, m : EcrireSolde(c, v, m)
        BY <1>1, <2>1, SoldeSuivi
    <2>2. CASE UNCHANGED soldeCaisse
        BY <2>2 DEF SoldeJustifie
    <2>3. (\E c, v, m : EcrireSolde(c, v, m)) \/ UNCHANGED soldeCaisse
        BY <1>1 DEF Argent, OperationLire, TransfertLire, Enregistrer, TransfertSansSession,
                    RemiseLire, RemiseExecuter, Commencer
    <2> QED
        BY <2>1, <2>2, <2>3
<1>2. ASSUME TInv, NEW q \in Requetes, Cycle(q), NEW d \in Caisses
      PROVE  SoldeJustifie(d)
    <2>1. CASE Finaliser(q)
        BY <1>2, <2>1, FinalisationJustifiee
    <2>2. CASE UNCHANGED soldeCaisse
        BY <2>2 DEF SoldeJustifie
    <2>3. Finaliser(q) \/ UNCHANGED soldeCaisse
        BY <1>2 DEF Cycle, OuvrirLire, Reprendre, Ouvrir, GelerLire, RouvrirLire, CompterLire,
                    FinaliserLire, Geler, Compter, Rouvrir, FinaliserSolde, Commencer
    <2> QED
        BY <2>1, <2>2, <2>3
<1>3. ASSUME TInv, NEW q \in Requetes, FermetureSubie(q), NEW d \in Caisses
      PROVE  SoldeJustifie(d)
    <2>1. CASE \E c, v, m : EcrireSolde(c, v, m)
        BY <1>3, <2>1, SoldeSuivi
    <2>2. CASE UNCHANGED soldeCaisse
        BY <2>2 DEF SoldeJustifie
    <2>3. (\E c, v, m : EcrireSolde(c, v, m)) \/ UNCHANGED soldeCaisse
        BY <1>3 DEF FermetureSubie, ExpirerLire, DeconnexionLire, FermerDOffice,
                    FermerTemporairement, ForcerLire, ExpirerSession, ExpirerCaisse,
                    Deconnexion, ForcerFermeture, Commencer
    <2> QED
        BY <2>1, <2>2, <2>3
<1>4. ASSUME TInv, Next, NEW d \in Caisses
      PROVE  SoldeJustifie(d)
    <2>1. ASSUME NEW q \in Requetes, Panne(q)
          PROVE  SoldeJustifie(d)
        BY <2>1 DEF Panne, SoldeJustifie
    <2> QED
        BY <1>1, <1>2, <1>3, <1>4, <2>1 DEF Next
<1>5. TInv /\ [Next]_vars =>
          [\A c \in Caisses : soldeCaisse'[c] # soldeCaisse[c] =>
              c \in mouvement' \/ \E q \in Requetes : FinalisePerime(q, c) /\ etape'[q] = "libre"]_vars
    BY <1>4 DEF SoldeJustifie
<1> QED
    BY <1>5, InitTInv, PasTInv, PTL DEF Spec, SoldeSuitMouvement
=============================================================================
