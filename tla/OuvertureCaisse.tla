--------------------------- MODULE OuvertureCaisse ---------------------------
(***************************************************************************)
(* Opening of a till with funds of the vault                               *)
(* (services/caisse/session-opening-service.ts): the cashier asks, the     *)
(* vault approves or rejects, the cashier counts what was received and the *)
(* session opens, or the request is cancelled.  A session and its opening  *)
(* transfer are inserted together: the transfer of session s is named s.   *)
(*                                                                         *)
(* The same transfer is also within reach of the routes of ordinary        *)
(* transfers (services/coffre), and the same session of openDirect.        *)
(*                                                                         *)
(* A slot of Requetes is a connection with a transaction in progress.  The *)
(* rows it holds follow from the step it has reached (Tient), and so does  *)
(* the row its next statement needs (Demande).  What a transaction writes  *)
(* is applied at its commit.                                               *)
(***************************************************************************)
EXTENDS Integers, FiniteSets, Functions, Graphs

CONSTANTS
    Caisses, Caissiers,
    Sessions,           \* rows of sessions_caisse, and their transfers
    Requetes,           \* connections of the pool
    Montants,           \* amounts asked for, and of cash operations
    Comptes,            \* amounts a cashier may count at the reception
    Envoyees,           \* sessions a client may name in an execution
    SoldeCoffreInitial, SoldeCaisseInitial, SoldeMinimum,
    SoldeMax,           \* bound: no cash in beyond this
    AUCUN               \* NULL

ASSUME ConstantesOK ==
    /\ IsFiniteSet(Sessions) /\ IsFiniteSet(Caisses)
    /\ Montants \subseteq Nat \ {0} /\ Comptes \subseteq Nat
    /\ Envoyees \subseteq Sessions
    /\ SoldeCoffreInitial \in Nat /\ SoldeCaisseInitial \in Nat
    /\ SoldeMinimum \in Nat /\ SoldeMax \in Nat
    /\ AUCUN \notin Caisses \cup Caissiers \cup Sessions \cup Requetes \cup Int

VARIABLES
    \* sessions_caisse
    statut,             \* session -> statut, "ABSENTE" before the INSERT
    titulaire,          \* session -> its till and its cashier
    veille,             \* session -> soldeVeille, read when funds are asked for
    ouverture,          \* session -> montantOuverture
    theorique,          \* session -> montantFermetureTheorique
    \* transferts_coffre_caisse
    transfert,          \* session -> statut of its transfer
    montant,            \* session -> amount of its transfer
    execute,            \* session -> executedAt is set, and the keys are taken
    imputation,         \* session -> session of the operation of its transfer
    \* balances
    soldeCoffre, soldeCaisse,
    flux,               \* cash brought by clients, minus what they took out
    \* connections
    etape,              \* connection -> the step it has reached
    lu                  \* connection -> its arguments and what it has read

varsSession   == <<statut, titulaire, veille, ouverture, theorique>>
varsTransfert == <<transfert, montant, execute, imputation>>
varsArgent    == <<soldeCoffre, soldeCaisse, flux>>
varsRequete   == <<etape, lu>>
vars == <<varsSession, varsTransfert, varsArgent, varsRequete>>

Attente == {"REQUESTING_FUNDS", "FUNDS_DISPATCHED"}
Actifs == Attente \cup {"OPEN"}
StatutsTransfert == {"ABSENT", "REQUESTED", "VALIDATED", "REJECTED", "CANCELLED", "EXECUTED"}

Titulaires == [caisse : Caisses, caissier : Caissiers]

Lectures == [session : Sessions \cup {AUCUN}, transfert : Sessions \cup {AUCUN},
             titulaire : Titulaires \cup {AUCUN}, montant : Nat, solde : Int,
             approuve : BOOLEAN, execution : Requetes \cup {AUCUN}]

LectureVide == [session |-> AUCUN, transfert |-> AUCUN, titulaire |-> AUCUN,
                montant |-> 0, solde |-> 0, approuve |-> FALSE, execution |-> AUCUN]

Etapes == {"libre", "demande", "valide", "validerTransfert", "annulerTransfert",
           "execLu", "execCoffre", "execCaisse", "execSession",
           "recu", "recuAttend", "recuOuvre", "annule", "annuleTransfert", "direct"}

TypeOK ==
    /\ statut \in [Sessions -> Actifs \cup {"ABSENTE", "CLOSED"}]
    /\ titulaire \in [Sessions -> Titulaires \cup {AUCUN}]
    /\ veille \in [Sessions -> Int]
    /\ ouverture \in [Sessions -> Int]
    /\ theorique \in [Sessions -> Int]
    /\ transfert \in [Sessions -> StatutsTransfert]
    /\ montant \in [Sessions -> Nat]
    /\ execute \in [Sessions -> BOOLEAN]
    /\ imputation \in [Sessions -> Sessions \cup {AUCUN}]
    /\ soldeCoffre \in Nat
    /\ soldeCaisse \in [Caisses -> Nat]
    /\ flux \in Int
    /\ etape \in [Requetes -> Etapes]
    /\ lu \in [Requetes -> Lectures]

Init ==
    /\ statut = [s \in Sessions |-> "ABSENTE"]
    /\ titulaire = [s \in Sessions |-> AUCUN]
    /\ veille = [s \in Sessions |-> 0]
    /\ ouverture = [s \in Sessions |-> 0]
    /\ theorique = [s \in Sessions |-> 0]
    /\ transfert = [s \in Sessions |-> "ABSENT"]
    /\ montant = [s \in Sessions |-> 0]
    /\ execute = [s \in Sessions |-> FALSE]
    /\ imputation = [s \in Sessions |-> AUCUN]
    /\ soldeCoffre = SoldeCoffreInitial
    /\ soldeCaisse = [c \in Caisses |-> SoldeCaisseInitial]
    /\ flux = 0
    /\ etape = [q \in Requetes |-> "libre"]
    /\ lu = [q \in Requetes |-> LectureVide]
-----------------------------------------------------------------------------
(***************************************************************************)
(* Rows and locks.                                                         *)
(***************************************************************************)
Coffre       == <<"coffre">>
Caisse(c)    == <<"caisse", c>>
Session(s)   == <<"session", s>>
Transfert(t) == <<"transfert", t>>

CaisseDe(s) == titulaire[s].caisse

(* The rows that the transaction of q has locked.                          *)
Tient(q) ==
    LET s == lu[q].session
        t == lu[q].transfert
    IN  CASE etape[q] = "valide" -> {Transfert(t)}
          [] etape[q] = "execCoffre" -> {Coffre}
          [] etape[q] = "execCaisse" -> {Coffre, Caisse(CaisseDe(t))}
          [] etape[q] = "execSession" -> {Coffre, Caisse(CaisseDe(t)), Session(s)}
          [] etape[q] \in {"recu", "recuAttend", "recuOuvre", "annule"} -> {Session(s)}
          [] etape[q] = "annuleTransfert" -> {Session(s), Transfert(s)}
          [] etape[q] = "direct" -> {Caisse(lu[q].titulaire.caisse)}
          [] OTHER -> {}

(* The rows that its next statements need.                                 *)
Demande(q) ==
    LET s == lu[q].session
        t == lu[q].transfert
    IN  CASE etape[q] = "demande" -> {Coffre, Caisse(lu[q].titulaire.caisse)}
          [] etape[q] = "valide" -> {Session(t)}
          [] etape[q] \in {"validerTransfert", "annulerTransfert"} -> {Transfert(t)}
          [] etape[q] = "execLu" -> {Coffre}
          [] etape[q] = "execCoffre" -> {Caisse(CaisseDe(t))}
          [] etape[q] = "execCaisse" -> {IF s = AUCUN THEN Transfert(t) ELSE Session(s)}
          [] etape[q] = "execSession" -> {Caisse(CaisseDe(s)), Transfert(t)}
          [] etape[q] = "recuOuvre" -> {Caisse(CaisseDe(s))}
          [] etape[q] = "annule" -> {Transfert(s)}
          [] etape[q] = "annuleTransfert" /\ execute[s] -> {Coffre}
          [] etape[q] = "direct" /\ s # AUCUN -> {Session(s)}
          [] OTHER -> {}

Bloquants(q, lignes) == {p \in Requetes \ {q} : Tient(p) \cap lignes # {}}

(* The next statement of q does not wait.                                  *)
Avance(q, e) == etape[q] = e /\ Bloquants(q, Demande(q)) = {}

Attendre(q, e, l) ==
    /\ etape' = [etape EXCEPT ![q] = e]
    /\ lu' = [lu EXCEPT ![q] = l]

(* The transaction of q ends; the reception that awaits it, if there is    *)
(* one and it is still there, goes on at the step suite.                   *)
Finir(q, suite) ==
    LET appelants == {p \in Requetes : lu[p].execution = q}
        finis == {q} \cup (IF suite = "libre" THEN appelants ELSE {})
    IN
    /\ etape' = [p \in Requetes |-> IF p \in finis THEN "libre"
                                    ELSE IF p \in appelants THEN suite ELSE etape[p]]
    /\ lu' = [p \in Requetes |-> IF p \in finis THEN LectureVide
                                 ELSE IF p \in appelants
                                      THEN [lu[p] EXCEPT !.execution = AUCUN] ELSE lu[p]]

Terminer(q) == Finir(q, "libre")

(* A handler starts: it reads, or locks, and has written nothing yet.      *)
Commencer(q, e, l) ==
    /\ etape[q] = "libre"
    /\ Attendre(q, e, l)
    /\ UNCHANGED <<varsSession, varsTransfert, varsArgent>>

SurSession(s)   == [LectureVide EXCEPT !.session = s]
SurTransfert(t) == [LectureVide EXCEPT !.transfert = t]
-----------------------------------------------------------------------------
(***************************************************************************)
(* What makes a transaction fail.                                          *)
(***************************************************************************)

(* The unique indexes: one active session per till and per cashier.        *)
CreneauLibre(sauf, h) ==
    \A r \in Sessions \ sauf : statut[r] \in Actifs =>
        titulaire[r].caisse # h.caisse /\ titulaire[r].caissier # h.caissier

(* Mutant: the trigger is not attached to the table.                       *)
SoldeSansGarde(avant, apres) == TRUE

(* BALANCE_GUARD, for a transaction that has not inserted a mouvement.     *)
GardeDeSolde(avant, apres) == avant = apres

(* Mutant: the keys are drawn at each execution.                           *)
CleToujoursLibre(t) == TRUE

(* The unique keys of the two movements of the transfer.                   *)
CleLibre(t) == ~execute[t]

(* Mutant: the balance of the vault is not checked.                        *)
DebitSansControle(t) == TRUE

(* assertCoffreCanDebit                                                    *)
DebitPermis(t) == soldeCoffre - montant[t] >= SoldeMinimum

SoldeOuverture(q) == veille[lu[q].session] + lu[q].montant

(* cancelOpeningRequest gives the cash of an executed transfer back before *)
(* it inserts the movements.                                               *)
Restitue(s) == IF execute[s] THEN montant[s] ELSE 0

(* What the database answers to the next statement of q.                   *)
Accepte(q) ==
    LET s == lu[q].session
        t == lu[q].transfert
    IN  CASE etape[q] = "demande" -> CreneauLibre({}, lu[q].titulaire)
          [] etape[q] = "valide" -> lu[q].approuve => CreneauLibre({t}, titulaire[t])
          [] etape[q] = "direct" -> CreneauLibre({s}, lu[q].titulaire)
          [] etape[q] = "execLu" -> DebitPermis(t)
          [] etape[q] = "execCoffre" -> CleLibre(t)
          [] etape[q] = "recuOuvre" -> GardeDeSolde(soldeCaisse[CaisseDe(s)], SoldeOuverture(q))
          [] etape[q] = "annuleTransfert" -> GardeDeSolde(soldeCoffre, soldeCoffre + Restitue(s))
          [] OTHER -> TRUE

Reussit(q, e) == Avance(q, e) /\ Accepte(q)

(* A constraint, the trigger or a check refuses: ROLLBACK.                 *)
Refus(q) ==
    /\ Avance(q, etape[q])
    /\ ~Accepte(q)
    /\ Terminer(q)
    /\ UNCHANGED <<varsSession, varsTransfert, varsArgent>>

(* Crash, lost connection: of a reception, its execution goes on.          *)
Panne(q) ==
    /\ etape[q] # "libre"
    /\ Terminer(q)
    /\ UNCHANGED <<varsSession, varsTransfert, varsArgent>>

(* PostgreSQL aborts a transaction on a cycle of row locks.                *)
EnInterblocage(q) ==
    LET attend == [p \in Requetes, r \in Requetes |-> r \in Bloquants(p, Demande(p))]
        mene == TransitiveClosure(attend, Requetes)
    IN  mene[q, q]

Interblocage(q) ==
    /\ EnInterblocage(q)
    /\ Terminer(q)
    /\ UNCHANGED <<varsSession, varsTransfert, varsArgent>>
-----------------------------------------------------------------------------
(***************************************************************************)
(* The cashier asks for funds (requestSessionOpening).                     *)
(***************************************************************************)
DemanderLire(q, h, m) ==
    /\ CreneauLibre({}, h)
    /\ Commencer(q, "demande", [LectureVide EXCEPT !.titulaire = h, !.montant = m,
                                                   !.solde = soldeCaisse[h.caisse]])

(* The session and its transfer are inserted and linked.                   *)
Demander(q) ==
    /\ Reussit(q, "demande")
    /\ \E s \in Sessions :
          /\ statut[s] = "ABSENTE"
          /\ statut' = [statut EXCEPT ![s] = "REQUESTING_FUNDS"]
          /\ titulaire' = [titulaire EXCEPT ![s] = lu[q].titulaire]
          /\ veille' = [veille EXCEPT ![s] = lu[q].solde]
          /\ transfert' = [transfert EXCEPT ![s] = "REQUESTED"]
          /\ montant' = [montant EXCEPT ![s] = lu[q].montant]
    /\ Terminer(q)
    /\ UNCHANGED <<ouverture, theorique, execute, imputation, varsArgent>>
-----------------------------------------------------------------------------
(***************************************************************************)
(* The vault decides.  validateOpeningTransfer locks the transfer, checks  *)
(* it, then locks the session, whose statut it does not check.             *)
(***************************************************************************)
ValiderVerrou(q, t, ok) ==
    /\ Bloquants(q, {Transfert(t)}) = {}
    /\ transfert[t] = "REQUESTED"
    /\ Commencer(q, "valide", [SurTransfert(t) EXCEPT !.approuve = ok])

Valider(q) ==
    LET t == lu[q].transfert
        ok == lu[q].approuve
    IN
    /\ Reussit(q, "valide")
    /\ transfert' = [transfert EXCEPT ![t] = IF ok THEN "VALIDATED" ELSE "REJECTED"]
    /\ statut' = [statut EXCEPT ![t] = IF ok THEN "FUNDS_DISPATCHED" ELSE "CLOSED"]
    /\ Terminer(q)
    /\ UNCHANGED <<titulaire, veille, ouverture, theorique, montant, execute, imputation, varsArgent>>

(* validateTransfert and cancelTransfert of the ordinary transfers accept  *)
(* an opening transfer, and leave its session alone.                       *)
ValiderTransfertLire(q, t, ok) ==
    /\ transfert[t] = "REQUESTED"
    /\ Commencer(q, "validerTransfert", [SurTransfert(t) EXCEPT !.approuve = ok])

ValiderTransfert(q) ==
    /\ Avance(q, "validerTransfert")
    /\ transfert' = [transfert EXCEPT ![lu[q].transfert] =
                        IF lu[q].approuve THEN "VALIDATED" ELSE "REJECTED"]
    /\ Terminer(q)
    /\ UNCHANGED <<varsSession, montant, execute, imputation, varsArgent>>

AnnulerTransfertLire(q, t) ==
    /\ transfert[t] \in {"REQUESTED", "VALIDATED"}
    /\ Commencer(q, "annulerTransfert", SurTransfert(t))

AnnulerTransfert(q) ==
    /\ Avance(q, "annulerTransfert")
    /\ transfert' = [transfert EXCEPT ![lu[q].transfert] = "CANCELLED"]
    /\ Terminer(q)
    /\ UNCHANGED <<varsSession, montant, execute, imputation, varsArgent>>
-----------------------------------------------------------------------------
(***************************************************************************)
(* Execution of the transfer (transfer-executor.ts): from the dashboard of *)
(* the vault, with or without a session, or called by the reception.  The  *)
(* session named must exist; its statut is not looked at.                  *)
(***************************************************************************)
Executable(t) == transfert[t] = "VALIDATED" /\ ~execute[t]

ExecuterLire(q, t, s) ==
    /\ Executable(t)
    /\ s # AUCUN => statut[s] # "ABSENTE"
    /\ Commencer(q, "execLu", [SurTransfert(t) EXCEPT !.session = s])

ExecuterCoffre(q) ==
    /\ Reussit(q, "execLu")
    /\ Attendre(q, "execCoffre", lu[q])
    /\ UNCHANGED <<varsSession, varsTransfert, varsArgent>>

Ouvertes(c) == {s \in Sessions : statut[s] = "OPEN" /\ CaisseDe(s) = c}

(* Mutant: the open session of the till is not looked for.                 *)
SessionsDonnees(q) == {lu[q].session}

(* The session the transfer is booked on: the one given, or the open one.  *)
SessionsPossibles(q) ==
    LET ouvertes == Ouvertes(CaisseDe(lu[q].transfert)) IN
    IF lu[q].session # AUCUN \/ ouvertes = {} THEN {lu[q].session} ELSE ouvertes

ExecuterCaisse(q) ==
    /\ Reussit(q, "execCoffre")
    /\ \E s \in SessionsPossibles(q) :
          Attendre(q, "execCaisse", [lu[q] EXCEPT !.session = s])
    /\ UNCHANGED <<varsSession, varsTransfert, varsArgent>>

(* The operation inserted references the session: the foreign key, then    *)
(* updateSessionSolde, need its row.                                       *)
ExecuterSession(q) ==
    /\ Avance(q, "execCaisse")
    /\ lu[q].session # AUCUN
    /\ Attendre(q, "execSession", lu[q])
    /\ UNCHANGED <<varsSession, varsTransfert, varsArgent>>

Executer(q) ==
    LET t == lu[q].transfert
        s == lu[q].session
        c == CaisseDe(IF s = AUCUN THEN t ELSE s)
    IN
    /\ Avance(q, IF s = AUCUN THEN "execCaisse" ELSE "execSession")
    /\ soldeCoffre' = soldeCoffre - montant[t]
    /\ soldeCaisse' = [soldeCaisse EXCEPT ![c] = @ + montant[t]]
    /\ theorique' = IF s = AUCUN THEN theorique
                    ELSE [theorique EXCEPT ![s] = @ + montant[t]]
    /\ transfert' = [transfert EXCEPT ![t] = "EXECUTED"]
    /\ execute' = [execute EXCEPT ![t] = TRUE]
    /\ imputation' = [imputation EXCEPT ![t] = s]
    /\ Finir(q, "recuOuvre")
    /\ UNCHANGED <<statut, titulaire, veille, ouverture, montant, flux>>
-----------------------------------------------------------------------------
(***************************************************************************)
(* The cashier has counted the funds (receiveFundsAndOpen).                *)
(***************************************************************************)
RecevoirVerrou(q, s, compte) ==
    /\ Bloquants(q, {Session(s)}) = {}
    /\ statut[s] = "FUNDS_DISPATCHED"
    /\ Commencer(q, "recu", [SurSession(s) EXCEPT !.montant = compte])

(* Mutant: a transfer that is only validated passes for executed.          *)
RecevoirSansExecuter(q) ==
    /\ etape[q] = "recu"
    /\ transfert[lu[q].session] \in {"VALIDATED", "EXECUTED"}
    /\ Attendre(q, "recuOuvre", lu[q])
    /\ UNCHANGED <<varsSession, varsTransfert, varsArgent>>

(* The transfer, read without a lock, has been executed already.           *)
RecevoirDejaExecute(q) ==
    /\ etape[q] = "recu"
    /\ transfert[lu[q].session] = "EXECUTED"
    /\ Attendre(q, "recuOuvre", lu[q])
    /\ UNCHANGED <<varsSession, varsTransfert, varsArgent>>

(* It is executed now, on a connection of its own, which is awaited while  *)
(* the row of the session stays locked.                                    *)
RecevoirExecuter(q, e) ==
    LET s == lu[q].session IN
    /\ etape[q] = "recu" /\ etape[e] = "libre"
    /\ Executable(s)
    /\ etape' = [etape EXCEPT ![q] = "recuAttend", ![e] = "execLu"]
    /\ lu' = [lu EXCEPT ![q].execution = e,
                        ![e] = [SurTransfert(s) EXCEPT !.session = s]]
    /\ UNCHANGED <<varsSession, varsTransfert, varsArgent>>

(* The transfer is in another statut, or the pool is empty.                *)
RecevoirEchec(q) ==
    LET s == lu[q].session IN
    /\ etape[q] = "recu"
    /\ transfert[s] # "EXECUTED"
    /\ Executable(s) => \A e \in Requetes : etape[e] # "libre"
    /\ Terminer(q)
    /\ UNCHANGED <<varsSession, varsTransfert, varsArgent>>

(* Session and till get the amount carried over plus the amount counted.   *)
Recevoir(q) ==
    LET s == lu[q].session
        solde == SoldeOuverture(q)
    IN
    /\ Reussit(q, "recuOuvre")
    /\ statut' = [statut EXCEPT ![s] = "OPEN"]
    /\ ouverture' = [ouverture EXCEPT ![s] = solde]
    /\ theorique' = [theorique EXCEPT ![s] = solde]
    /\ soldeCaisse' = [soldeCaisse EXCEPT ![CaisseDe(s)] = solde]
    /\ Terminer(q)
    /\ UNCHANGED <<titulaire, veille, varsTransfert, soldeCoffre, flux>>
-----------------------------------------------------------------------------
(***************************************************************************)
(* The cashier gives up (cancelOpeningRequest).  The cash goes back to the *)
(* vault before the movements are inserted, so BALANCE_GUARD refuses the   *)
(* cancellation of an executed transfer.                                   *)
(***************************************************************************)
Vider(s) ==
    /\ statut' = [statut EXCEPT ![s] = "CLOSED"]
    /\ ouverture' = [ouverture EXCEPT ![s] = 0]
    /\ theorique' = [theorique EXCEPT ![s] = 0]

AnnulerVerrou(q, s) ==
    /\ Bloquants(q, {Session(s)}) = {}
    /\ statut[s] \in Attente
    /\ Commencer(q, "annule", SurSession(s))

AnnulerVerrouTransfert(q) ==
    /\ Avance(q, "annule")
    /\ Attendre(q, "annuleTransfert", lu[q])
    /\ UNCHANGED <<varsSession, varsTransfert, varsArgent>>

Annuler(q) ==
    LET s == lu[q].session IN
    /\ Reussit(q, "annuleTransfert")
    /\ transfert' = [transfert EXCEPT ![s] = "CANCELLED"]
    /\ soldeCoffre' = soldeCoffre + Restitue(s)
    /\ soldeCaisse' = [soldeCaisse EXCEPT ![CaisseDe(s)] = @ - Restitue(s)]
    /\ Vider(s)
    /\ Terminer(q)
    /\ UNCHANGED <<titulaire, veille, montant, execute, imputation, flux>>
-----------------------------------------------------------------------------
(***************************************************************************)
(* openDirectWithExistingFunds: a session of the same cashier on the same  *)
(* till that is still waiting for funds is closed, its transfer is not.    *)
(***************************************************************************)
DirectVerrou(q, h) ==
    LET prises == {r \in Sessions : statut[r] \in Actifs /\ ~CreneauLibre(Sessions \ {r}, h)} IN
    /\ Bloquants(q, {Caisse(h.caisse)}) = {}
    /\ \A r \in prises : titulaire[r] = h /\ statut[r] # "OPEN"
    /\ \E s \in IF prises = {} THEN {AUCUN} ELSE prises :
          Commencer(q, "direct", [LectureVide EXCEPT !.titulaire = h, !.session = s])

Direct(q) ==
    LET h == lu[q].titulaire
        s == lu[q].session
        solde == soldeCaisse[h.caisse]
        Ecrire(f, r, clos, neuf) ==
            [x \in Sessions |-> IF x = r THEN neuf ELSE IF x = s THEN clos ELSE f[x]]
    IN
    /\ Reussit(q, "direct")
    /\ \E r \in Sessions :
          /\ statut[r] = "ABSENTE"
          /\ statut' = Ecrire(statut, r, "CLOSED", "OPEN")
          /\ titulaire' = [titulaire EXCEPT ![r] = h]
          /\ veille' = [veille EXCEPT ![r] = solde]
          /\ ouverture' = Ecrire(ouverture, r, 0, solde)
          /\ theorique' = Ecrire(theorique, r, 0, solde)
    /\ Terminer(q)
    /\ UNCHANGED <<varsTransfert, varsArgent>>
-----------------------------------------------------------------------------
(***************************************************************************)
(* The session once open: cash operations, and the logout of the cashier.  *)
(***************************************************************************)
LignesLibres(s) ==
    \A p \in Requetes : Tient(p) \cap {Session(s), Caisse(CaisseDe(s))} = {}

Operer(s, delta) ==
    /\ statut[s] = "OPEN"
    /\ LignesLibres(s)
    /\ theorique[s] + delta \in 0..SoldeMax
    /\ theorique' = [theorique EXCEPT ![s] = @ + delta]
    /\ soldeCaisse' = [soldeCaisse EXCEPT ![CaisseDe(s)] = @ + delta]
    /\ flux' = flux + delta
    /\ UNCHANGED <<statut, titulaire, veille, ouverture, varsTransfert, soldeCoffre, varsRequete>>

(* forceCloseOnLogout: any active session, open or not; the till gets the  *)
(* theoretical balance.                                                    *)
Deconnecter(s) ==
    /\ statut[s] \in Actifs
    /\ LignesLibres(s)
    /\ GardeDeSolde(soldeCaisse[CaisseDe(s)], theorique[s])
    /\ statut' = [statut EXCEPT ![s] = "CLOSED"]
    /\ soldeCaisse' = [soldeCaisse EXCEPT ![CaisseDe(s)] = theorique[s]]
    /\ UNCHANGED <<titulaire, veille, ouverture, theorique, varsTransfert, soldeCoffre, flux, varsRequete>>
-----------------------------------------------------------------------------
Appel(q) ==
    \/ \E h \in Titulaires : DirectVerrou(q, h) \/ \E m \in Montants : DemanderLire(q, h, m)
    \/ \E s \in Sessions :
          \/ AnnulerTransfertLire(q, s) \/ AnnulerVerrou(q, s)
          \/ \E ok \in BOOLEAN : ValiderVerrou(q, s, ok) \/ ValiderTransfertLire(q, s, ok)
          \/ \E r \in Envoyees \cup {AUCUN} : ExecuterLire(q, s, r)
          \/ \E compte \in Comptes : RecevoirVerrou(q, s, compte)

Progression(q) ==
    \/ Demander(q) \/ Valider(q) \/ ValiderTransfert(q) \/ AnnulerTransfert(q)
    \/ ExecuterCoffre(q) \/ ExecuterCaisse(q) \/ ExecuterSession(q) \/ Executer(q)
    \/ RecevoirDejaExecute(q) \/ RecevoirEchec(q) \/ Recevoir(q)
    \/ \E e \in Requetes : RecevoirExecuter(q, e)
    \/ AnnulerVerrouTransfert(q) \/ Annuler(q)
    \/ Direct(q) \/ Refus(q)

Next ==
    \/ \E q \in Requetes : Appel(q) \/ Progression(q) \/ Panne(q) \/ Interblocage(q)
    \/ \E s \in Sessions : Deconnecter(s) \/ \E m \in Montants : Operer(s, m) \/ Operer(s, -m)

Spec == Init /\ [][Next]_vars

(* Node runs a handler whose statement has been answered; a row lock that  *)
(* is free again and again is obtained; PostgreSQL looks for cycles.       *)
Equite == \A q \in Requetes : SF_vars(Progression(q)) /\ WF_vars(Interblocage(q))

SpecEquitable == Spec /\ Equite
-----------------------------------------------------------------------------
(***************************************************************************)
(* Properties.                                                             *)
(***************************************************************************)

(* The vault sees each opening transfer go out once at most and never      *)
(* falls below its minimum, although the dashboard and the reception may   *)
(* execute the same transfer and a cancellation may want it back.          *)
CoffreTenu ==
    INSTANCE CoffreAbstrait WITH
        Transferts <- Sessions, SoldeInitial <- SoldeCoffreInitial,
        PlafondSortant <- 0, PlafondEntrant <- 0,
        solde <- soldeCoffre, entrant <- 0,
        sortant <- SumFunctionOnSet(montant, {t \in Sessions : execute[t]}),
        deplaces <- {t \in Sessions : execute[t]}

CoffreRespecte == CoffreTenu!Spec

(* No opening, cancellation or logout creates or destroys money, although  *)
(* two of them write into the till a balance computed from what was read   *)
(* long before, or counted by hand.                                        *)
LiquiditeConservee ==
    soldeCoffre + SumFunction(soldeCaisse)
      = SoldeCoffreInitial + SumFunction([c \in Caisses |-> SoldeCaisseInitial]) + flux

(* The till holds what its open session accounts for, however the session  *)
(* was opened and whoever executed a transfer.  It may hold more, only by  *)
(* supplies booked on another session of the till, which a client named,   *)
(* whatever its statut, or a reception that died left open to be closed.   *)
ImputesAilleurs(s) ==
    {t \in Sessions : /\ execute[t] /\ imputation[t] \notin {s, AUCUN}
                      /\ CaisseDe(imputation[t]) = CaisseDe(s)}

SessionRefleteCaisse ==
    \A s \in Sessions : statut[s] = "OPEN" =>
        soldeCaisse[CaisseDe(s)] - theorique[s]
            \in 0..SumFunctionOnSet(montant, ImputesAilleurs(s))

(* A session that waited for funds opens only with the funds: its transfer *)
(* has been executed, and the till already held the opening balance.       *)
OuvertureFinancee ==
    [][\A s \in Sessions : statut[s] = "FUNDS_DISPATCHED" /\ statut'[s] = "OPEN" =>
          execute[s] /\ ouverture'[s] = soldeCaisse[CaisseDe(s)]]_vars

(* Violated: "Phase C: Le caissier confirme la réception des fonds et      *)
(* ouvre la session", but the execution it awaits waits for the row of the *)
(* session that the reception holds, and no cycle of locks shows it.       *)
ReceptionAboutit ==
    \A q \in Requetes : etape[q] = "recu" ~> etape[q] = "libre"
=============================================================================
