--------------------------- MODULE SessionCaisse ---------------------------
(***************************************************************************)
(* The life of the sessions of the tills: opening on the carried balance,  *)
(* cash operations, closing in three phases (freeze, count, decision),     *)
(* cancellation of a closing, closings on time-out, at logout and by an    *)
(* administrator: services/caisse/, caisse-admin-service.ts, ledger.ts.    *)
(*                                                                         *)
(* Each member of Requetes is a slot for a handler in flight.  A handler   *)
(* reads without a lock, computes, and writes later; a part of a           *)
(* transaction that locks the rows before it reads them is one step.  The  *)
(* vault side of the transfers is the subject of TransfertCoffre.          *)
(***************************************************************************)
EXTENDS Integers, Functions

CONSTANTS
    Caisses,            \* tills of the agency
    Caissiers,          \* cashiers
    Sessions,           \* rows that can be inserted in sessions_caisse
    Remises,            \* closing transfers that finalizeClose can insert
    Requetes,           \* slots for concurrent handlers
    Types,              \* types of the cash operations
    Montants,           \* amounts of operations and transfers
    Comptages,          \* totals a cashier may count
    Tolerance,          \* rounding accepted by finalizeClose
    SoldeInitial,       \* balance of every till at the start
    SoldeMax,           \* bound: no cash in, no part of a count beyond this
    SommeMax,           \* bound: no sum of the operations of a session is
                        \* brought further from zero than this
    AUCUN               \* NULL

(* The lists of shared/config/caisse-operations.ts.                        *)
CAISSE_IN_OPERATIONS ==
    {"SAVINGS_DEPOSIT", "DEPOSIT_SAVINGS", "DEPOSIT_CURRENT", "DEPOSIT_BLOCKED",
     "INITIAL_DEPOSIT", "CREDIT_REPAYMENT", "LOAN_REPAYMENT", "ENGAGEMENT_FEE",
     "TONTINE_CONTRIBUTION", "MISC_COLLECTION", "SAFE_SUPPLY", "TRANSFER_IN",
     "AGENT_SETTLEMENT"}

CAISSE_OUT_OPERATIONS ==
    {"SAVINGS_WITHDRAWAL", "WITHDRAWAL_SAVINGS", "WITHDRAWAL_CURRENT",
     "WITHDRAWAL_BLOCKED", "TONTINE_WITHDRAWAL", "CREDIT_DISBURSEMENT",
     "LOAN_DISBURSEMENT", "FEE", "BANK_FEE", "MISC_DISBURSEMENT", "SAFE_DEPOSIT",
     "TRANSFER_OUT", "AGENT_PROVISIONING"}

(* The types that TYPES_OPERATIONS_CAISSE marks as taking money out.       *)
SORTIES_AFFICHEES ==
    {"TONTINE_WITHDRAWAL", "CREDIT_DISBURSEMENT", "WITHDRAWAL_SAVINGS",
     "WITHDRAWAL_CURRENT", "WITHDRAWAL_BLOCKED", "MISC_DISBURSEMENT"}

(* The cash given to an agent in the field, and what the agent brings back.*)
TYPES_AGENT == {"AGENT_PROVISIONING", "AGENT_SESSION_CLOSE"}

TypesOperations ==
    CAISSE_IN_OPERATIONS \cup CAISSE_OUT_OPERATIONS \cup TYPES_AGENT \cup {"ADJUSTMENT"}

ASSUME ConstantesOK ==
    /\ Types \subseteq TypesOperations \ {"ADJUSTMENT"}
    /\ Montants \subseteq Nat \ {0}
    /\ Comptages \subseteq Nat
    /\ Tolerance \in Nat /\ SoldeInitial \in Nat /\ SoldeMax \in Nat
    /\ SommeMax \in Nat
    /\ AUCUN \notin [session : Sessions, montant : Int, executee : BOOLEAN]
    /\ AUCUN \notin TypesOperations
    /\ AUCUN \notin Caisses \cup Caissiers \cup Sessions \cup Remises \cup Requetes \cup Int

VARIABLES
    \* sessions_caisse
    statut,             \* session -> statut, "ABSENTE" before the INSERT
    titulaire,          \* session -> its till and cashier
    fermee,             \* session -> closedAt is set
    ouverture,          \* session -> montantOuverture
    typesInscrits,      \* session -> the types of its rows of operations_caisse
    operations,         \* session -> their sum, signed by getOperationDelta
    entrees,            \* session -> their sum, by isOperationCaisseEntree
    theorique,          \* session -> montantFermetureTheorique
    physique,           \* session -> montantPhysique
    ecart,              \* session -> ecart
    reporte,            \* session -> montantReporte
    ajustees,           \* sessions whose key "adj-close-" is taken
    \* caisses
    soldeCaisse,
    mouvement,          \* tills for which the last transaction inserted a
                        \* mouvement_financier
    verrouCaisse,       \* till -> the opening that holds its row, or AUCUN
    \* closing transfers
    remise,             \* transfer -> its session, amount, executed or not
    \* handlers
    etape,              \* handler -> the step it has reached
    lu                  \* handler -> its arguments and what it has read

varsLigne    == <<titulaire, ajustees>>
varsDecision == <<physique, ecart, reporte, remise>>
varsSommes   == <<typesInscrits, operations, entrees>>
varsCompte   == <<ouverture, varsSommes, theorique>>
varsCaisse   == <<soldeCaisse, mouvement>>
varsHandler  == <<etape, lu>>
vars == <<statut, varsLigne, fermee, varsCompte, varsDecision, varsCaisse,
          verrouCaisse, varsHandler>>

Actifs == {"OPEN", "CLOSING_COUNT", "CLOSING_VALIDATION"}

Titulaires == [caisse : Caisses, caissier : Caissiers]
LignesRemise == [session : Sessions, montant : Int, executee : BOOLEAN]

Lectures == [session : Sessions \cup {AUCUN}, caisse : Caisses \cup {AUCUN},
             caissier : Caissiers \cup {AUCUN}, remise : Remises \cup {AUCUN},
             type : TypesOperations \cup {AUCUN}, montant : Int, reste : Int, solde : Int, ecart : Int]

LectureVide == [session |-> AUCUN, caisse |-> AUCUN, caissier |-> AUCUN,
                remise |-> AUCUN, type |-> AUCUN, montant |-> 0, reste |-> 0, solde |-> 0, ecart |-> 0]

LectureSession(s, m, r) ==
    [LectureVide EXCEPT !.session = s, !.montant = m, !.reste = r]

Etapes == {"libre", "reprendre", "ouvrir", "operation", "transfert", "remise",
           "geler", "compter", "finaliserSolde", "finaliser", "rouvrir",
           "expirerSession", "expirerCaisse", "deconnexion", "forcer"}

TypeOK ==
    /\ statut \in [Sessions -> Actifs \cup {"ABSENTE", "CLOSED"}]
    /\ titulaire \in [Sessions -> Titulaires \cup {AUCUN}]
    /\ fermee \in [Sessions -> BOOLEAN]
    /\ ouverture \in [Sessions -> Int]
    /\ typesInscrits \in [Sessions -> SUBSET TypesOperations]
    /\ operations \in [Sessions -> Int]
    /\ entrees \in [Sessions -> Int]
    /\ theorique \in [Sessions -> Int]
    /\ physique \in [Sessions -> Int]
    /\ ecart \in [Sessions -> Int]
    /\ reporte \in [Sessions -> Int \cup {AUCUN}]
    /\ ajustees \subseteq Sessions
    /\ soldeCaisse \in [Caisses -> Int]
    /\ mouvement \subseteq Caisses
    /\ verrouCaisse \in [Caisses -> Requetes \cup {AUCUN}]
    /\ remise \in [Remises -> LignesRemise \cup {AUCUN}]
    /\ etape \in [Requetes -> Etapes]
    /\ lu \in [Requetes -> Lectures]

Init ==
    /\ statut = [s \in Sessions |-> "ABSENTE"]
    /\ titulaire = [s \in Sessions |-> AUCUN]
    /\ fermee = [s \in Sessions |-> FALSE]
    /\ ouverture = [s \in Sessions |-> 0]
    /\ typesInscrits = [s \in Sessions |-> {}]
    /\ operations = [s \in Sessions |-> 0]
    /\ entrees = [s \in Sessions |-> 0]
    /\ theorique = [s \in Sessions |-> 0]
    /\ physique = [s \in Sessions |-> 0]
    /\ ecart = [s \in Sessions |-> 0]
    /\ reporte = [s \in Sessions |-> AUCUN]
    /\ ajustees = {}
    /\ soldeCaisse = [c \in Caisses |-> SoldeInitial]
    /\ mouvement = {}
    /\ verrouCaisse = [c \in Caisses |-> AUCUN]
    /\ remise = [t \in Remises |-> AUCUN]
    /\ etape = [q \in Requetes |-> "libre"]
    /\ lu = [q \in Requetes |-> LectureVide]
-----------------------------------------------------------------------------
Active(s) == statut[s] \in Actifs
CaisseDe(s) == titulaire[s].caisse
Ouvertes(c) == {s \in Sessions : statut[s] = "OPEN" /\ CaisseDe(s) = c}

(* The sign of an operation is decided in three places.  The writers of    *)
(* operations give updateSessionSolde the sign of the lists; an agent      *)
(* brings money in.                                                        *)
SigneSolde(t) ==
    IF t \in CAISSE_IN_OPERATIONS \cup {"AGENT_SESSION_CLOSE"} THEN 1 ELSE -1

(* getOperationDelta, for the automatic closings: a type outside the lists *)
(* counts for nothing.                                                     *)
SigneDelta(t) ==
    IF t \in CAISSE_IN_OPERATIONS \cup {"ADJUSTMENT"} THEN 1
    ELSE IF t \in CAISSE_OUT_OPERATIONS THEN -1 ELSE 0

(* Mutant: a type that is not displayed is taken for an exit.              *)
SigneEntreeParDefautSortie(t) ==
    IF t \in CAISSE_IN_OPERATIONS \ {"SAFE_SUPPLY", "TRANSFER_IN"} THEN 1 ELSE -1

(* isOperationCaisseEntree, for initiateClose: a type that is not          *)
(* displayed brings money in, SAFE_DEPOSIT and BANK_FEE too.               *)
SigneEntree(t) == IF t \in SORTIES_AFFICHEES THEN -1 ELSE 1

(* What the opening amount and the operations of a session add up to: for  *)
(* the automatic closings, and for initiateClose.                          *)
Journal(s) == ouverture[s] + operations[s]
JournalDeFermeture(s) == ouverture[s] + entrees[s]

Continuer(q, e, l) ==
    /\ etape' = [etape EXCEPT ![q] = e]
    /\ lu' = [lu EXCEPT ![q] = l]

(* The transaction of q ends; only an opening holds the row of a till      *)
(* between two steps.                                                      *)
Terminer(q) ==
    /\ Continuer(q, "libre", LectureVide)
    /\ verrouCaisse' = [c \in Caisses |-> IF verrouCaisse[c] = q THEN AUCUN ELSE verrouCaisse[c]]

(* A handler starts with a plain read.                                     *)
Commencer(q, e, l) ==
    /\ etape[q] = "libre"
    /\ Continuer(q, e, l)
    /\ mouvement' = {}
    /\ UNCHANGED <<statut, varsLigne, fermee, varsCompte, varsDecision, soldeCaisse, verrouCaisse>>

(* Mutant: the unique indexes have not been created.                       *)
CreneauSansIndex(sauf, c, a) == TRUE

(* The partial unique indexes of db.ts: sauf apart, no other session is    *)
(* active on the till or for the cashier.                                  *)
CreneauLibre(sauf, c, a) ==
    \A r \in Sessions \ sauf :
        Active(r) => titulaire[r].caisse # c /\ titulaire[r].caissier # a

(* Mutant: the trigger is not attached to the table of the tills.          *)
SoldeSansGarde(c, v) == TRUE

(* BALANCE_GUARD: a transaction without mouvement may not change a balance.*)
GardeDeSolde(c, v) == soldeCaisse[c] = v

(* The row of till c is written with the value v.                          *)
EcrireSolde(c, v, avecMouvement) ==
    /\ verrouCaisse[c] = AUCUN
    /\ avecMouvement \/ GardeDeSolde(c, v)
    /\ soldeCaisse' = [soldeCaisse EXCEPT ![c] = v]
    /\ mouvement' = IF avecMouvement THEN {c} ELSE {}
-----------------------------------------------------------------------------
(***************************************************************************)
(* Opening on the balance carried over (openDirectWithExistingFunds).      *)
(***************************************************************************)
OuvrirLire(q, c, a) ==
    LET surCaisse == {r \in Sessions : Active(r) /\ titulaire[r].caisse = c}
        duCaissier == {r \in Sessions : Active(r) /\ titulaire[r].caissier = a}
    IN
    /\ etape[q] = "libre"
    /\ verrouCaisse[c] = AUCUN
    /\ soldeCaisse[c] >= 0
    /\ surCaisse = duCaissier
    /\ verrouCaisse' = [verrouCaisse EXCEPT ![c] = q]
    /\ \E e \in IF surCaisse = {} THEN {AUCUN} ELSE surCaisse :
          Continuer(q, IF e # AUCUN /\ statut[e] = "OPEN" THEN "reprendre" ELSE "ouvrir",
                    [LectureVide EXCEPT !.session = e, !.caisse = c, !.caissier = a])
    /\ mouvement' = {}
    /\ UNCHANGED <<statut, varsLigne, fermee, varsCompte, varsDecision, soldeCaisse>>

(* The cashier already had the till open: the session is taken up again.   *)
Reprendre(q) ==
    LET s == lu[q].session IN
    /\ etape[q] = "reprendre"
    /\ CreneauLibre({s}, lu[q].caisse, lu[q].caissier)
    /\ statut' = [statut EXCEPT ![s] = "OPEN"]
    /\ fermee' = [fermee EXCEPT ![s] = FALSE]
    /\ Terminer(q)
    /\ mouvement' = {}
    /\ UNCHANGED <<varsLigne, varsCompte, varsDecision, soldeCaisse>>

(* A session left half-way is closed and emptied, and a new one inserted.  *)
Ouvrir(q) ==
    LET c == lu[q].caisse
        perimee == {lu[q].session} \ {AUCUN}
        CloreEtOuvrir(f, r, clos, neuf) ==
            [s \in Sessions |-> IF s = r THEN neuf ELSE IF s \in perimee THEN clos ELSE f[s]]
    IN
    /\ etape[q] = "ouvrir"
    /\ CreneauLibre(perimee, c, lu[q].caissier)
    /\ \E r \in Sessions :
          /\ statut[r] = "ABSENTE"
          /\ statut' = CloreEtOuvrir(statut, r, "CLOSED", "OPEN")
          /\ fermee' = CloreEtOuvrir(fermee, r, TRUE, FALSE)
          /\ ouverture' = CloreEtOuvrir(ouverture, r, 0, soldeCaisse[c])
          /\ theorique' = CloreEtOuvrir(theorique, r, 0, soldeCaisse[c])
          /\ titulaire' = [titulaire EXCEPT ![r] = [caisse |-> c, caissier |-> lu[q].caissier]]
    /\ Terminer(q)
    /\ mouvement' = {}
    /\ UNCHANGED <<ajustees, varsSommes, varsDecision, soldeCaisse>>
-----------------------------------------------------------------------------
(***************************************************************************)
(* Money booked on a session.  A cash operation at the desk reads an OPEN  *)
(* session of the cashier before its transaction, the route of the cash    *)
(* operations one without closedAt, those of the agents an active one; a   *)
(* transfer with the vault is given a session by the client, or finds the  *)
(* open session of the till.  All then lock the row and look at its        *)
(* balance, never at its statut.                                           *)
(***************************************************************************)
DebitPermis(s, delta) == delta < 0 => theorique[s] + delta >= 0

(* The bounds of the model.                                                *)
DansLesBornes(s, t, m) ==
    /\ SigneSolde(t) = 1 => theorique[s] + m <= SoldeMax
    /\ operations[s] + SigneDelta(t) * m \in (-SommeMax)..SommeMax
    /\ entrees[s] + SigneEntree(t) * m \in (-SommeMax)..SommeMax

OperationLire(q, s, t, m) ==
    /\ statut[s] = "OPEN" \/ (Active(s) /\ (~fermee[s] \/ t \in TYPES_AGENT))
    /\ SigneSolde(t) = -1 /\ t \notin TYPES_AGENT =>
          theorique[s] >= m \/ soldeCaisse[CaisseDe(s)] >= m
    /\ DansLesBornes(s, t, m)
    /\ Commencer(q, "operation", [LectureSession(s, m, 0) EXCEPT !.type = t])

TransfertLire(q, s, t, m) ==
    /\ Active(s)
    /\ DansLesBornes(s, t, m)
    /\ Commencer(q, "transfert", [LectureSession(s, m, 0) EXCEPT !.type = t])

(* A row of type t is inserted, and updateSessionSolde moves the balance.  *)
Inscrire(s, t, m) ==
    /\ DebitPermis(s, SigneSolde(t) * m)
    /\ theorique' = [theorique EXCEPT ![s] = @ + SigneSolde(t) * m]
    /\ typesInscrits' = [typesInscrits EXCEPT ![s] = @ \cup {t}]
    /\ operations' = [operations EXCEPT ![s] = @ + SigneDelta(t) * m]
    /\ entrees' = [entrees EXCEPT ![s] = @ + SigneEntree(t) * m]

(* The till follows its session by the same amount.                        *)
Enregistrer(q) ==
    LET s == lu[q].session
        c == CaisseDe(s)
        delta == SigneSolde(lu[q].type) * lu[q].montant
    IN
    /\ etape[q] \in {"operation", "transfert"}
    /\ etape[q] = "transfert" /\ delta < 0 => soldeCaisse[c] + delta >= 0
    /\ Inscrire(s, lu[q].type, lu[q].montant)
    /\ EcrireSolde(c, soldeCaisse[c] + delta, TRUE)
    /\ Terminer(q)
    /\ UNCHANGED <<statut, varsLigne, fermee, ouverture, varsDecision>>

(* A transfer with the vault while no session of the till is OPEN.         *)
TransfertSansSession(q, c, delta) ==
    /\ etape[q] = "libre"
    /\ Ouvertes(c) = {}
    /\ soldeCaisse[c] + delta \in 0..SoldeMax
    /\ EcrireSolde(c, soldeCaisse[c] + delta, TRUE)
    /\ UNCHANGED <<statut, varsLigne, fermee, varsCompte, varsDecision, verrouCaisse, varsHandler>>

(* The vault has accepted a closing transfer and executes it: on the       *)
(* session the client passes, or the open one of the till, or none.  The   *)
(* till is left alone: finalizeClose has already set its balance.          *)
RemiseLire(q, t, s) ==
    /\ remise[t] # AUCUN
    /\ ~remise[t].executee
    /\ IF s = AUCUN THEN Ouvertes(CaisseDe(remise[t].session)) = {} ELSE Active(s)
    /\ Commencer(q, "remise", [LectureSession(s, remise[t].montant, 0)
                                EXCEPT !.remise = t, !.type = "SAFE_DEPOSIT"])

RemiseExecuter(q) ==
    LET s == lu[q].session
        t == lu[q].remise
    IN
    /\ etape[q] = "remise"
    /\ ~remise[t].executee
    /\ verrouCaisse[CaisseDe(remise[t].session)] = AUCUN
    /\ IF s = AUCUN THEN UNCHANGED <<theorique, varsSommes>>
                    ELSE Inscrire(s, lu[q].type, lu[q].montant)
    /\ remise' = [remise EXCEPT ![t].executee = TRUE]
    /\ Terminer(q)
    /\ mouvement' = {}
    /\ UNCHANGED <<statut, varsLigne, fermee, ouverture, physique, ecart, reporte, soldeCaisse>>
-----------------------------------------------------------------------------
(***************************************************************************)
(* Closing (session-closing-service.ts).  Each phase reads the session     *)
(* without a lock, checks its statut, and updates the row by its id.  The  *)
(* row and the operations of the session are read together, in one step.   *)
(***************************************************************************)

(* The row s gets an active statut: the unique indexes are checked.        *)
Passer(s, nouveau) ==
    /\ CreneauLibre({s}, titulaire[s].caisse, titulaire[s].caissier)
    /\ statut' = [statut EXCEPT ![s] = nouveau]

(* The row s is closed.                                                    *)
Clore(s) ==
    /\ statut' = [statut EXCEPT ![s] = "CLOSED"]
    /\ fermee' = [fermee EXCEPT ![s] = TRUE]

GelerLire(q, s) ==
    /\ statut[s] = "OPEN"
    /\ Commencer(q, "geler", LectureSession(s, JournalDeFermeture(s), 0))

Geler(q) ==
    LET s == lu[q].session IN
    /\ etape[q] = "geler"
    /\ Passer(s, "CLOSING_COUNT")
    /\ theorique' = [theorique EXCEPT ![s] = lu[q].montant]
    /\ Terminer(q)
    /\ mouvement' = {}
    /\ UNCHANGED <<varsLigne, fermee, ouverture, varsSommes, varsDecision, soldeCaisse>>

CompterLire(q, s, total) ==
    /\ statut[s] = "CLOSING_COUNT"
    /\ Commencer(q, "compter",
                 [LectureSession(s, total, 0) EXCEPT !.ecart = total - theorique[s]])

(* Mutant: the total counted is left NULL.                                 *)
CompterSansTotal(q) ==
    LET s == lu[q].session IN
    /\ etape[q] = "compter"
    /\ Passer(s, "CLOSING_VALIDATION")
    /\ physique' = [physique EXCEPT ![s] = AUCUN]
    /\ ecart' = [ecart EXCEPT ![s] = lu[q].ecart]
    /\ Terminer(q)
    /\ mouvement' = {}
    /\ UNCHANGED <<varsLigne, fermee, varsCompte, reporte, remise, soldeCaisse>>

Compter(q) ==
    LET s == lu[q].session IN
    /\ etape[q] = "compter"
    /\ Passer(s, "CLOSING_VALIDATION")
    /\ physique' = [physique EXCEPT ![s] = lu[q].montant]
    /\ ecart' = [ecart EXCEPT ![s] = lu[q].ecart]
    /\ Terminer(q)
    /\ mouvement' = {}
    /\ UNCHANGED <<varsLigne, fermee, varsCompte, reporte, remise, soldeCaisse>>

(* Mutant: a closing that left the cash in the till can still be cancelled.*)
RouvrirLireReportee(q, s) ==
    /\ statut[s] = "CLOSING_COUNT" \/ (statut[s] = "CLOSED" /\ reporte[s] # AUCUN)
    /\ Commencer(q, "rouvrir", LectureSession(s, 0, 0))

(* cancelClose                                                             *)
RouvrirLire(q, s) ==
    /\ statut[s] = "CLOSING_COUNT"
    /\ Commencer(q, "rouvrir", LectureSession(s, 0, 0))

Rouvrir(q) ==
    /\ etape[q] = "rouvrir"
    /\ Passer(lu[q].session, "OPEN")
    /\ Terminer(q)
    /\ mouvement' = {}
    /\ UNCHANGED <<varsLigne, fermee, varsCompte, varsDecision, soldeCaisse>>

EcartAbsolu(x, y) == IF x >= y THEN x - y ELSE y - x

(* The cashier decides what goes to the vault and what stays.              *)
FinaliserLire(q, s, versCoffre, reste) ==
    /\ statut[s] = "CLOSING_VALIDATION"
    /\ EcartAbsolu(versCoffre + reste, physique[s]) <= Tolerance
    /\ Commencer(q, "finaliserSolde",
                 [LectureSession(s, versCoffre, reste) EXCEPT !.ecart = ecart[s]])

(* The balance of the till is read for the amount of the mouvement.        *)
FinaliserSolde(q) ==
    LET l == lu[q] IN
    /\ etape[q] = "finaliserSolde"
    /\ Continuer(q, "finaliser", [l EXCEPT !.solde = soldeCaisse[CaisseDe(l.session)]])
    /\ mouvement' = {}
    /\ UNCHANGED <<statut, varsLigne, fermee, varsCompte, varsDecision, soldeCaisse, verrouCaisse>>

(* Mutant: the part for the vault is the whole count.                      *)
InscrireRemiseEntiere(s, versCoffre) ==
    IF versCoffre = 0 THEN UNCHANGED remise
    ELSE \E t \in Remises :
            /\ remise[t] = AUCUN
            /\ remise' = [remise EXCEPT ![t] =
                  [session |-> s, montant |-> physique[s], executee |-> FALSE]]

InscrireRemise(s, versCoffre) ==
    IF versCoffre = 0 THEN UNCHANGED remise
    ELSE \E t \in Remises :
            /\ remise[t] = AUCUN
            /\ remise' = [remise EXCEPT ![t] =
                  [session |-> s, montant |-> versCoffre, executee |-> FALSE]]

(* A mouvement is inserted for the ecart and one for the change of the     *)
(* balance; when the balance read equals the new one the flag of           *)
(* BALANCE_GUARD is set by hand.                                           *)
Finaliser(q) ==
    LET s == lu[q].session
        c == CaisseDe(s)
    IN
    /\ etape[q] = "finaliser"
    /\ InscrireRemise(s, lu[q].montant)
    /\ verrouCaisse[c] = AUCUN
    /\ soldeCaisse' = [soldeCaisse EXCEPT ![c] = lu[q].reste]
    /\ mouvement' = IF lu[q].ecart # 0 \/ lu[q].solde # lu[q].reste THEN {c} ELSE {}
    /\ Clore(s)
    /\ reporte' = [reporte EXCEPT ![s] = lu[q].reste]
    /\ Terminer(q)
    /\ UNCHANGED <<varsLigne, varsCompte, physique, ecart>>
-----------------------------------------------------------------------------
(***************************************************************************)
(* Closings that the cashier does not ask for.                             *)
(***************************************************************************)

(* closeExpiredSessions: no transaction, three statements committed one by *)
(* one; the till is last.                                                  *)
ExpirerLire(q, s) ==
    /\ Active(s)
    /\ Commencer(q, "expirerSession", LectureSession(s, Journal(s), 0))

ExpirerSession(q) ==
    LET s == lu[q].session
        solde == lu[q].montant
    IN
    /\ etape[q] = "expirerSession"
    /\ Clore(s)
    /\ theorique' = [theorique EXCEPT ![s] = solde]
    /\ physique' = [physique EXCEPT ![s] = solde]
    /\ reporte' = [reporte EXCEPT ![s] = solde]
    /\ ecart' = [ecart EXCEPT ![s] = 0]
    /\ Continuer(q, "expirerCaisse", lu[q])
    /\ mouvement' = {}
    /\ UNCHANGED <<varsLigne, ouverture, varsSommes, remise, soldeCaisse, verrouCaisse>>

ExpirerCaisse(q) ==
    LET solde == lu[q].montant IN
    /\ etape[q] = "expirerCaisse"
    /\ EcrireSolde(CaisseDe(lu[q].session), IF solde < 0 THEN 0 ELSE solde, FALSE)
    /\ Terminer(q)
    /\ UNCHANGED <<statut, varsLigne, fermee, varsCompte, varsDecision>>

(* forceCloseOnLogout: the balance of the session, read before the         *)
(* transaction, is carried over to the till.                               *)
DeconnexionLire(q, s) ==
    /\ Active(s)
    /\ Commencer(q, "deconnexion", LectureSession(s, theorique[s], 0))

Deconnexion(q) ==
    LET s == lu[q].session IN
    /\ etape[q] = "deconnexion"
    /\ Clore(s)
    /\ physique' = [physique EXCEPT ![s] = lu[q].montant]
    /\ reporte' = [reporte EXCEPT ![s] = lu[q].montant]
    /\ ecart' = [ecart EXCEPT ![s] = 0]
    /\ EcrireSolde(CaisseDe(s), lu[q].montant, FALSE)
    /\ Terminer(q)
    /\ UNCHANGED <<varsLigne, varsCompte, remise>>

(* closeSessionAtomic, as the administrator calls it: a count of zero.  An *)
(* ecart is booked once per session, as an operation whose amount has no   *)
(* sign.                                                                   *)
FermerDOffice(q, s) ==
    LET difference == EcartAbsolu(0, Journal(s)) IN
    /\ etape[q] = "libre"
    /\ statut[s] # "ABSENTE" /\ ~fermee[s]
    /\ difference # 0 => s \notin ajustees
    /\ ajustees' = IF difference # 0 THEN ajustees \cup {s} ELSE ajustees
    /\ Clore(s)
    /\ theorique' = [theorique EXCEPT ![s] = Journal(s)]
    /\ operations' = [operations EXCEPT ![s] = @ + SigneDelta("ADJUSTMENT") * difference]
    /\ entrees' = [entrees EXCEPT ![s] = @ + SigneEntree("ADJUSTMENT") * difference]
    /\ typesInscrits' = IF difference # 0 THEN [typesInscrits EXCEPT ![s] = @ \cup {"ADJUSTMENT"}]
                                          ELSE typesInscrits
    /\ ecart' = [ecart EXCEPT ![s] = -Journal(s)]
    /\ EcrireSolde(CaisseDe(s), 0, difference # 0)
    /\ UNCHANGED <<titulaire, ouverture, physique, reporte, remise, verrouCaisse, varsHandler>>

(* closeSessionTemporarily, after an urgent loan has been paid out.        *)
FermerTemporairement(q, s) ==
    /\ etape[q] = "libre"
    /\ statut[s] # "ABSENTE" /\ ~fermee[s]
    /\ Clore(s)
    /\ theorique' = [theorique EXCEPT ![s] = Journal(s)]
    /\ physique' = [physique EXCEPT ![s] = Journal(s)]
    /\ ecart' = [ecart EXCEPT ![s] = 0]
    /\ reporte' = [reporte EXCEPT ![s] = AUCUN]
    /\ EcrireSolde(CaisseDe(s), Journal(s), FALSE)
    /\ UNCHANGED <<varsLigne, ouverture, varsSommes, remise, verrouCaisse, varsHandler>>

(* forceCloseSession of the administration: closedAt and ecart are written *)
(* and the statut is not.                                                  *)
ForcerLire(q, s) ==
    /\ statut[s] # "ABSENTE" /\ ~fermee[s]
    /\ Commencer(q, "forcer", LectureSession(s, 0, 0))

ForcerFermeture(q) ==
    LET s == lu[q].session IN
    /\ etape[q] = "forcer"
    /\ fermee' = [fermee EXCEPT ![s] = TRUE]
    /\ ecart' = [ecart EXCEPT ![s] = 0]
    /\ Terminer(q)
    /\ mouvement' = {}
    /\ UNCHANGED <<statut, varsLigne, varsCompte, physique, reporte, remise, soldeCaisse>>

(* The handler stops: crash, lost connection, or an error (unique index,   *)
(* BALANCE_GUARD, insufficient funds) that rolls its transaction back.     *)
Panne(q) ==
    /\ etape[q] # "libre"
    /\ Terminer(q)
    /\ mouvement' = {}
    /\ UNCHANGED <<statut, varsLigne, fermee, varsCompte, varsDecision, soldeCaisse>>
-----------------------------------------------------------------------------
Deltas == Montants \cup {-m : m \in Montants}

Argent(q) ==
    \/ \E s \in Sessions, m \in Montants :
          \/ \E t \in Types : OperationLire(q, s, t, m)
          \/ \E t \in {"SAFE_SUPPLY", "SAFE_DEPOSIT"} : TransfertLire(q, s, t, m)
    \/ Enregistrer(q)
    \/ \E c \in Caisses, d \in Deltas : TransfertSansSession(q, c, d)
    \/ \E t \in Remises, s \in Sessions \cup {AUCUN} : RemiseLire(q, t, s)
    \/ RemiseExecuter(q)

Cycle(q) ==
    \/ \E c \in Caisses, a \in Caissiers : OuvrirLire(q, c, a)
    \/ Reprendre(q) \/ Ouvrir(q)
    \/ \E s \in Sessions :
          \/ GelerLire(q, s) \/ RouvrirLire(q, s)
          \/ \E total \in Comptages : CompterLire(q, s, total)
          \/ \E v, r \in 0..SoldeMax : FinaliserLire(q, s, v, r)
    \/ Geler(q) \/ Compter(q) \/ Rouvrir(q) \/ FinaliserSolde(q) \/ Finaliser(q)

FermetureSubie(q) ==
    \/ \E s \in Sessions :
          \/ ExpirerLire(q, s) \/ DeconnexionLire(q, s)
          \/ FermerDOffice(q, s) \/ FermerTemporairement(q, s) \/ ForcerLire(q, s)
    \/ ExpirerSession(q) \/ ExpirerCaisse(q) \/ Deconnexion(q) \/ ForcerFermeture(q)

Next == \E q \in Requetes : Argent(q) \/ Cycle(q) \/ FermetureSubie(q) \/ Panne(q)

Spec == Init /\ [][Next]_vars
-----------------------------------------------------------------------------
(***************************************************************************)
(* Properties.                                                             *)
(***************************************************************************)

(* At most one session is active on a till and for a cashier, although     *)
(* every phase writes the statut it decided on after a read that may be    *)
(* out of date.                                                            *)
UneSessionActive ==
    \A s, r \in Sessions : Active(s) /\ Active(r) /\ s # r =>
        /\ titulaire[s].caisse # titulaire[r].caisse
        /\ titulaire[s].caissier # titulaire[r].caissier

(* The steps that write an active statut decided on at an earlier read.    *)
Revenants == {"reprendre", "geler", "compter", "rouvrir"}

PersonneNeRevient(s) == \A q \in Requetes : lu[q].session = s => etape[q] \notin Revenants

(* A closed session comes back only through a handler that had read it     *)
(* before it was closed: once none is left, no sequence of calls of any    *)
(* number of cashiers, crons and administrators opens it again.            *)
FermetureDefinitive ==
    [][\A s \in Sessions :
          statut[s] = "CLOSED" /\ PersonneNeRevient(s) =>
             statut'[s] = "CLOSED" /\ PersonneNeRevient(s)']_vars

RemisesDe(s) == {t \in Remises : remise[t] # AUCUN /\ remise[t].session = s}

SommeRemises(s) == SumFunction([t \in RemisesDe(s) |-> remise[t].montant])

(* The golden rule of the closing: what was counted is what goes to the    *)
(* vault plus what stays in the till.                                      *)
RegleDOr ==
    \A s \in Sessions : statut[s] = "CLOSED" /\ reporte[s] # AUCUN =>
        EcartAbsolu(SommeRemises(s) + reporte[s], physique[s]) <= Tolerance

(* Types the three tables sign alike: the entries of the central list, and *)
(* the exits that are displayed.                                           *)
TypesAccordes == CAISSE_IN_OPERATIONS \cup SORTIES_AFFICHEES

(* The balance kept up at each operation, the sum initiateClose freezes    *)
(* and the sum of the automatic closings agree, through freezes that are   *)
(* cancelled and closings that are interrupted, as long as no row of the   *)
(* session has a type the tables sign differently.                         *)
TheoriqueSuitOperations ==
    \A s \in Sessions : Active(s) /\ typesInscrits[s] \subseteq TypesAccordes =>
        theorique[s] = Journal(s) /\ theorique[s] = JournalDeFermeture(s)

(* shared/config/caisse-operations.ts says that its table is the one of    *)
(* every service of the tills: the balance a closing freezes would then be *)
(* the sum its getOperationDelta gives.  (The code does not keep to it.)   *)
GelFidele ==
    \A s \in Sessions : statut[s] = "CLOSING_COUNT" => theorique[s] = Journal(s)

(* finalizeClose is about to write the balance of the till of its session, *)
(* which has moved since finalizeClose read it.                            *)
FinalisePerime(q, c) ==
    /\ etape[q] = "finaliser"
    /\ CaisseDe(lu[q].session) = c
    /\ lu[q].solde # soldeCaisse[c]

(* BALANCE_GUARD: no balance of a till changes without a mouvement of the  *)
(* same transaction, whatever the handlers read before, save by a          *)
(* finalizeClose whose reading is out of date and who set the flag of the  *)
(* trigger by hand.                                                        *)
SoldeSuitMouvement ==
    [][\A c \in Caisses : soldeCaisse'[c] # soldeCaisse[c] =>
          c \in mouvement' \/ \E q \in Requetes : FinalisePerime(q, c) /\ etape'[q] = "libre"]_vars
=============================================================================
