-------------------------- MODULE TransfertCoffre --------------------------
(***************************************************************************)
(* Transfers between the vault of an agency (coffre-fort) and its tills    *)
(* (caisses), together with the cash operations and the supplies that run  *)
(* on the same rows: services/coffre/, ledger.ts, storage/finance.ts.      *)
(*                                                                         *)
(* Each member of Requetes is a slot for an HTTP handler in flight.  Every *)
(* database statement on which two handlers can interleave is a step of    *)
(* its own: plain reads, row locks (SELECT ... FOR UPDATE, and the shared  *)
(* lock a foreign key takes), and the commit.  What a transaction writes   *)
(* becomes visible at its commit and its locks go with it.                 *)
(*                                                                         *)
(* Sessions are opened before the start and stay open: the module          *)
(* SessionCaisse models their life cycle.                                  *)
(***************************************************************************)
EXTENDS Integers, FiniteSets, Functions, Relation

CONSTANTS
    Transferts,         \* rows that can be inserted in transferts_coffre_caisse
    Caisses,            \* tills of the agency
    Sessions,           \* rows of sessions_caisse
    CaisseDe,           \* CaisseDe[s]: the till of session s
    OuvertesAuDepart,   \* sessions open at the start
    Agents,             \* users
    Admins,             \* users whose primary role is ADMIN
    Requetes,           \* slots for concurrent handlers
    Montants,           \* amounts of transfers and operations
    Clotures,           \* values "the motif says Remise de cloture" may take
    SoldeCoffreInitial, SoldeCaisseInitial,
    SoldeMinimum,       \* coffres_forts.soldeMinimum
    PlafondSortant,     \* config.plafondJournalierSortant, 0 when not set
    PlafondEntrant,     \* config.plafondJournalierEntrant, 0 when not set
    SeparationInitiateurValideur,
    SoldeMax,           \* bound: no deposit or supply beyond this balance
    AUCUN               \* NULL

ASSUME ConstantesOK ==
    /\ IsFiniteSet(Caisses)
    /\ CaisseDe \in [Sessions -> Caisses]
    /\ OuvertesAuDepart \subseteq Sessions
    /\ Admins \subseteq Agents
    /\ Montants \subseteq Nat \ {0}
    /\ Clotures \subseteq BOOLEAN
    /\ SoldeCoffreInitial \in Nat /\ SoldeCaisseInitial \in Nat
    /\ SoldeMinimum \in Nat /\ PlafondSortant \in Nat /\ PlafondEntrant \in Nat
    /\ SeparationInitiateurValideur \in BOOLEAN
    /\ SoldeMax \in Nat
    /\ AUCUN \notin Transferts \cup Caisses \cup Sessions \cup Agents \cup Requetes

(* The unique index of db.ts: at most one active session on a till.        *)
ASSUME UneSessionParCaisse ==
    \A s, r \in OuvertesAuDepart : CaisseDe[s] = CaisseDe[r] => s = r

VARIABLES
    \* Rows of transferts_coffre_caisse
    statut,             \* transfer -> its statut, "ABSENT" before the INSERT
    fiche,              \* transfer -> the columns set at the INSERT
    valideur,           \* transfer -> validatedBy
    verrouille,         \* transfer -> verrouille (set with executedAt)
    \* mouvements_financiers
    mouvements,         \* transfers whose "-debit"/"-credit" keys are taken
    sortant, entrant,   \* sums of today's DEBIT and CREDIT rows of the vault
    flux,               \* cash that came from outside, minus what went out
    \* balances
    soldeCoffre, soldeCaisse,
    \* sessions_caisse
    sessionStatut,      \* session -> statut
    theorique,          \* session -> montantFermetureTheorique
    \* row locks: the handler that holds each exclusively, or AUCUN
    verrouCoffre, verrouCaisse, verrouSession,
    partage,            \* session -> handlers with a foreign-key lock on it
    \* handlers
    etape,              \* handler -> the step it has reached
    req                 \* handler -> its arguments and what it has read

varsTransfert == <<statut, fiche, valideur, verrouille>>
varsArgent    == <<mouvements, sortant, entrant, flux, soldeCoffre, soldeCaisse>>
varsSession   == <<sessionStatut, theorique>>
varsVerrou    == <<verrouCoffre, verrouCaisse, verrouSession, partage>>
varsRequete   == <<etape, req>>
vars == <<varsTransfert, varsArgent, varsSession, varsVerrou, varsRequete>>

Statuts == {"REQUESTED", "VALIDATED", "REJECTED", "CANCELLED", "EXECUTED"}
Terminaux == {"EXECUTED", "REJECTED", "CANCELLED"}
Sens == {"COFFRE_VERS_CAISSE", "CAISSE_VERS_COFFRE"}

StatutsSession == {"REQUESTING_FUNDS", "FUNDS_DISPATCHED", "OPEN",
                   "CLOSING_COUNT", "CLOSING_VALIDATION", "CLOSED"}

Fiches == [sens : Sens, caisse : Caisses, montant : Montants,
           demandeur : Agents, cloture : Clotures]

Contextes == [transfert : Transferts \cup {AUCUN}, session : Sessions \cup {AUCUN},
              agent : Agents \cup {AUCUN}, approuve : BOOLEAN, delta : Int]

Contexte(t, s, a, ok, d) ==
    [transfert |-> t, session |-> s, agent |-> a, approuve |-> ok, delta |-> d]

ContexteVide == Contexte(AUCUN, AUCUN, AUCUN, FALSE, 0)

(* The steps of an execution that holds the vault, then also the till.     *)
EtapesCaisse == {"execCaisse", "execPartage", "execSession"}
EtapesCoffre == {"execCoffre"} \cup EtapesCaisse
EtapesExec   == {"execLu"} \cup EtapesCoffre
EtapesOp     == {"opLue", "opPartage", "opSession"}
Etapes == {"libre", "validerLu", "annulerLu"} \cup EtapesExec \cup EtapesOp

TypeOK ==
    /\ statut \in [Transferts -> Statuts \cup {"ABSENT"}]
    /\ fiche \in [Transferts -> Fiches \cup {AUCUN}]
    /\ valideur \in [Transferts -> Agents \cup {AUCUN}]
    /\ verrouille \in [Transferts -> BOOLEAN]
    /\ mouvements \subseteq Transferts
    /\ sortant \in Nat /\ entrant \in Nat /\ flux \in Int
    /\ soldeCoffre \in Int
    /\ soldeCaisse \in [Caisses -> Int]
    /\ sessionStatut \in [Sessions -> StatutsSession]
    /\ theorique \in [Sessions -> Int]
    /\ verrouCoffre \in Requetes \cup {AUCUN}
    /\ verrouCaisse \in [Caisses -> Requetes \cup {AUCUN}]
    /\ verrouSession \in [Sessions -> Requetes \cup {AUCUN}]
    /\ partage \in [Sessions -> SUBSET Requetes]
    /\ etape \in [Requetes -> Etapes]
    /\ req \in [Requetes -> Contextes]

Init ==
    /\ statut = [t \in Transferts |-> "ABSENT"]
    /\ fiche = [t \in Transferts |-> AUCUN]
    /\ valideur = [t \in Transferts |-> AUCUN]
    /\ verrouille = [t \in Transferts |-> FALSE]
    /\ mouvements = {}
    /\ sortant = 0 /\ entrant = 0 /\ flux = 0
    /\ soldeCoffre = SoldeCoffreInitial
    /\ soldeCaisse = [c \in Caisses |-> SoldeCaisseInitial]
    /\ sessionStatut = [s \in Sessions |->
                          IF s \in OuvertesAuDepart THEN "OPEN" ELSE "CLOSED"]
    /\ theorique = [s \in Sessions |->
                      IF s \in OuvertesAuDepart THEN SoldeCaisseInitial ELSE 0]
    /\ verrouCoffre = AUCUN
    /\ verrouCaisse = [c \in Caisses |-> AUCUN]
    /\ verrouSession = [s \in Sessions |-> AUCUN]
    /\ partage = [s \in Sessions |-> {}]
    /\ etape = [q \in Requetes |-> "libre"]
    /\ req = [q \in Requetes |-> ContexteVide]
-----------------------------------------------------------------------------
(* A transfer to the vault whose motif says "Remise de cloture" neither    *)
(* checks nor debits the till: the closing of the session has done it.     *)
SansEffetCaisse(f) == f.sens = "CAISSE_VERS_COFFRE" /\ f.cloture

(***************************************************************************)
(* Locks.                                                                  *)
(***************************************************************************)

(* The handlers that q waits for: the holders of the row lock it asks for  *)
(* next.  FOR UPDATE on a session also waits for the shared locks that     *)
(* inserts referencing the session have taken.                             *)
Bloquants(q) ==
    LET t == req[q].transfert
        s == req[q].session
        detenteurs ==
            CASE etape[q] = "execLu" -> {verrouCoffre}
              [] etape[q] = "execCoffre" -> {verrouCaisse[fiche[t].caisse]}
              [] etape[q] \in {"execCaisse", "opLue"} /\ s # AUCUN -> {verrouSession[s]}
              [] etape[q] \in {"execPartage", "opPartage"} -> {verrouSession[s]} \cup partage[s]
              [] etape[q] = "opSession" -> {verrouCaisse[CaisseDe[s]]}
              [] etape[q] = "execSession" /\ ~SansEffetCaisse(fiche[t]) -> {verrouCaisse[CaisseDe[s]]}
              [] OTHER -> {}
    IN  detenteurs \ {AUCUN, q}

Attendre(q, e, ctx) ==
    /\ etape' = [etape EXCEPT ![q] = e]
    /\ req' = [req EXCEPT ![q] = ctx]

(* The transaction of q ends, committed or rolled back.                    *)
Terminer(q) ==
    /\ Attendre(q, "libre", ContexteVide)
    /\ verrouCoffre' = IF verrouCoffre = q THEN AUCUN ELSE verrouCoffre
    /\ verrouCaisse' = [c \in Caisses |-> IF verrouCaisse[c] = q THEN AUCUN ELSE verrouCaisse[c]]
    /\ verrouSession' = [s \in Sessions |-> IF verrouSession[s] = q THEN AUCUN ELSE verrouSession[s]]
    /\ partage' = [s \in Sessions |-> partage[s] \ {q}]

(* Mutant: the error is caught and the connection kept without ROLLBACK.   *)
AnnulationSansRollback(q) ==
    /\ Attendre(q, "libre", ContexteVide)
    /\ UNCHANGED <<varsTransfert, varsArgent, varsSession, varsVerrou>>

Annulation(q) ==
    /\ Terminer(q)
    /\ UNCHANGED <<varsTransfert, varsArgent, varsSession>>
-----------------------------------------------------------------------------
(***************************************************************************)
(* Checks on the vault (coffre-guard.ts).                                  *)
(***************************************************************************)
SousPlafond(total, plafond) == plafond = 0 \/ total <= plafond

DebitCoffrePermis(m) ==
    /\ soldeCoffre >= m
    /\ soldeCoffre - m >= SoldeMinimum
    /\ SousPlafond(sortant + m, PlafondSortant)

CreditCoffrePermis(m) == SousPlafond(entrant + m, PlafondEntrant)

MouvementCoffrePermis(f) ==
    IF f.sens = "COFFRE_VERS_CAISSE" THEN DebitCoffrePermis(f.montant)
                                     ELSE CreditCoffrePermis(f.montant)

MouvementCaissePermis(f) ==
    f.sens = "CAISSE_VERS_COFFRE" /\ ~SansEffetCaisse(f) => soldeCaisse[f.caisse] >= f.montant

(* What the transfer adds to the till, or to its session.                  *)
DeltaCaisse(f) == IF f.sens = "COFFRE_VERS_CAISSE" THEN f.montant ELSE -f.montant
-----------------------------------------------------------------------------
(***************************************************************************)
(* Request, validation and cancellation of a transfer.  Validation and     *)
(* cancellation read the row, check what they read, then update it by id.  *)
(***************************************************************************)
CreerTransfert(t, f) ==
    /\ statut[t] = "ABSENT"
    /\ IF f.sens = "COFFRE_VERS_CAISSE" THEN SousPlafond(sortant + f.montant, PlafondSortant)
                                        ELSE SousPlafond(entrant + f.montant, PlafondEntrant)
    /\ statut' = [statut EXCEPT ![t] = "REQUESTED"]
    /\ fiche' = [fiche EXCEPT ![t] = f]
    /\ UNCHANGED <<valideur, verrouille, varsArgent, varsSession, varsVerrou, varsRequete>>

(* Mutant: the rule of separation is not looked up.                        *)
ValiderLireSansRegle(q, t, a, ok) ==
    /\ etape[q] = "libre"
    /\ statut[t] = "REQUESTED"
    /\ Attendre(q, "validerLu", Contexte(t, AUCUN, a, ok, 0))
    /\ UNCHANGED <<varsTransfert, varsArgent, varsSession, varsVerrou>>

ValiderLire(q, t, a, ok) ==
    /\ etape[q] = "libre"
    /\ statut[t] = "REQUESTED"
    /\ ~(SeparationInitiateurValideur /\ fiche[t].demandeur = a)
    /\ Attendre(q, "validerLu", Contexte(t, AUCUN, a, ok, 0))
    /\ UNCHANGED <<varsTransfert, varsArgent, varsSession, varsVerrou>>

(* Mutant: validatedBy receives the id of the transfer.                    *)
ValiderEcrireMauvaisId(q) ==
    LET t == req[q].transfert IN
    /\ etape[q] = "validerLu"
    /\ statut' = [statut EXCEPT ![t] = IF req[q].approuve THEN "VALIDATED" ELSE "REJECTED"]
    /\ valideur' = [valideur EXCEPT ![t] = t]
    /\ Attendre(q, "libre", ContexteVide)
    /\ UNCHANGED <<fiche, verrouille, varsArgent, varsSession, varsVerrou>>

ValiderEcrire(q) ==
    LET t == req[q].transfert IN
    /\ etape[q] = "validerLu"
    /\ statut' = [statut EXCEPT ![t] = IF req[q].approuve THEN "VALIDATED" ELSE "REJECTED"]
    /\ valideur' = [valideur EXCEPT ![t] = req[q].agent]
    /\ Attendre(q, "libre", ContexteVide)
    /\ UNCHANGED <<fiche, verrouille, varsArgent, varsSession, varsVerrou>>

AnnulerLire(q, t, a) ==
    /\ etape[q] = "libre"
    /\ statut[t] \in {"REQUESTED", "VALIDATED"}
    /\ fiche[t].demandeur = a \/ a \in Admins
    /\ Attendre(q, "annulerLu", Contexte(t, AUCUN, a, FALSE, 0))
    /\ UNCHANGED <<varsTransfert, varsArgent, varsSession, varsVerrou>>

AnnulerEcrire(q) ==
    /\ etape[q] = "annulerLu"
    /\ statut' = [statut EXCEPT ![req[q].transfert] = "CANCELLED"]
    /\ Attendre(q, "libre", ContexteVide)
    /\ UNCHANGED <<fiche, valideur, verrouille, varsArgent, varsSession, varsVerrou>>
-----------------------------------------------------------------------------
(***************************************************************************)
(* Execution of a transfer (transfer-executor.ts).                         *)
(***************************************************************************)

(* The row is read without a lock.  The client passes the active session   *)
(* of the user who executes, if there is one; the server does not look at  *)
(* its statut, and OuvertureCaisse names sessions of any statut.           *)
ExecLire(q, t, s) ==
    /\ etape[q] = "libre"
    /\ s # AUCUN => sessionStatut[s] # "CLOSED"
    /\ statut[t] = "VALIDATED"
    /\ ~verrouille[t]
    /\ Attendre(q, "execLu", Contexte(t, s, AUCUN, FALSE, 0))
    /\ UNCHANGED <<varsTransfert, varsArgent, varsSession, varsVerrou>>

ExecVerrouCoffre(q) ==
    /\ etape[q] = "execLu"
    /\ Bloquants(q) = {}
    /\ MouvementCoffrePermis(fiche[req[q].transfert])
    /\ verrouCoffre' = q
    /\ Attendre(q, "execCoffre", req[q])
    /\ UNCHANGED <<varsTransfert, varsArgent, varsSession, verrouCaisse, verrouSession, partage>>

ExecRefusCoffre(q) ==
    /\ etape[q] = "execLu"
    /\ Bloquants(q) = {}
    /\ ~MouvementCoffrePermis(fiche[req[q].transfert])
    /\ Annulation(q)

SessionsOuvertes(c) == {s \in Sessions : CaisseDe[s] = c /\ sessionStatut[s] = "OPEN"}

(* The session the transfer is booked on: the one the client passed, or    *)
(* the open session of the till.                                           *)
SessionsPossibles(q) ==
    LET ouvertes == SessionsOuvertes(fiche[req[q].transfert].caisse) IN
    IF req[q].session # AUCUN THEN {req[q].session}
    ELSE IF ouvertes # {} THEN ouvertes ELSE {AUCUN}

(* Mutant: the key of a movement is drawn at each execution.               *)
CleToujoursLibre(t) == TRUE

(* The keys of the two movements are unique.                               *)
CleLibre(t) == t \notin mouvements

(* The till is locked and checked, the two movements inserted, and the     *)
(* session looked up.                                                      *)
ExecVerrouCaisse(q) ==
    LET t == req[q].transfert IN
    /\ etape[q] = "execCoffre"
    /\ Bloquants(q) = {}
    /\ MouvementCaissePermis(fiche[t])
    /\ CleLibre(t)
    /\ verrouCaisse' = [verrouCaisse EXCEPT ![fiche[t].caisse] = q]
    /\ \E s \in SessionsPossibles(q) :
          Attendre(q, "execCaisse", [req[q] EXCEPT !.session = s])
    /\ UNCHANGED <<varsTransfert, varsArgent, varsSession, verrouCoffre, verrouSession, partage>>

ExecRefusCaisse(q) ==
    LET t == req[q].transfert IN
    /\ etape[q] = "execCoffre"
    /\ Bloquants(q) = {}
    /\ ~(MouvementCaissePermis(fiche[t]) /\ CleLibre(t))
    /\ Annulation(q)

(* A row that references session s is inserted: shared lock on s.          *)
Partager(q, s) == partage' = [partage EXCEPT ![s] = @ \cup {q}]

ExecPartage(q) ==
    /\ etape[q] = "execCaisse"
    /\ req[q].session # AUCUN
    /\ Bloquants(q) = {}
    /\ Partager(q, req[q].session)
    /\ Attendre(q, "execPartage", req[q])
    /\ UNCHANGED <<varsTransfert, varsArgent, varsSession, verrouCoffre, verrouCaisse, verrouSession>>

(* Mutant: the session is locked and debited without a check.              *)
DebitSessionSansControle(s, delta) == TRUE

(* updateSessionSolde: a debit may not take the session below zero.        *)
DebitSessionPermis(s, delta) == delta < 0 => theorique[s] + delta >= 0

ExecVerrouSession(q) ==
    LET s == req[q].session IN
    /\ etape[q] = "execPartage"
    /\ Bloquants(q) = {}
    /\ DebitSessionPermis(s, DeltaCaisse(fiche[req[q].transfert]))
    /\ verrouSession' = [verrouSession EXCEPT ![s] = q]
    /\ Attendre(q, "execSession", req[q])
    /\ UNCHANGED <<varsTransfert, varsArgent, varsSession, verrouCoffre, verrouCaisse, partage>>

ExecRefusSession(q) ==
    /\ etape[q] = "execPartage"
    /\ Bloquants(q) = {}
    /\ ~DebitSessionPermis(req[q].session, DeltaCaisse(fiche[req[q].transfert]))
    /\ Annulation(q)

(* Mutant: the session is found, but the till of the transfer is updated.  *)
CaisseToucheeDuTransfert(s, f) == f.caisse

(* The till whose balance the transfer changes: that of the session it is  *)
(* booked on, which need not be the till of the transfer.                  *)
CaisseTouchee(s, f) == IF s = AUCUN THEN f.caisse ELSE CaisseDe[s]

(* Mutant: the balance of the till is updated a second time by the         *)
(* fallback meant for tills without a session.                             *)
EcrireCaisseDeuxFois(s, f) ==
    /\ theorique' = IF s = AUCUN THEN theorique
                    ELSE [theorique EXCEPT ![s] = @ + DeltaCaisse(f)]
    /\ soldeCaisse' = [soldeCaisse EXCEPT ![CaisseTouchee(s, f)] = @ + 2 * DeltaCaisse(f)]

EcrireCaisse(s, f) ==
    /\ theorique' = IF s = AUCUN THEN theorique
                    ELSE [theorique EXCEPT ![s] = @ + DeltaCaisse(f)]
    /\ soldeCaisse' = IF SansEffetCaisse(f) THEN soldeCaisse
                      ELSE [soldeCaisse EXCEPT ![CaisseTouchee(s, f)] = @ + DeltaCaisse(f)]

EcrireCoffre(f) ==
    /\ soldeCoffre' = soldeCoffre - DeltaCaisse(f)
    /\ IF f.sens = "COFFRE_VERS_CAISSE"
       THEN sortant' = sortant + f.montant /\ UNCHANGED entrant
       ELSE entrant' = entrant + f.montant /\ UNCHANGED sortant

EcrireTransfert(t) ==
    /\ statut' = [statut EXCEPT ![t] = "EXECUTED"]
    /\ verrouille' = [verrouille EXCEPT ![t] = TRUE]
    /\ mouvements' = mouvements \cup {t}

ExecCommit(q) ==
    LET t == req[q].transfert
        s == req[q].session
    IN
    /\ etape[q] = "execSession" \/ (etape[q] = "execCaisse" /\ s = AUCUN)
    /\ Bloquants(q) = {}
    /\ EcrireCaisse(s, fiche[t])
    /\ EcrireCoffre(fiche[t])
    /\ EcrireTransfert(t)
    /\ Terminer(q)
    /\ UNCHANGED <<fiche, valideur, flux, sessionStatut>>
-----------------------------------------------------------------------------
(***************************************************************************)
(* Cash deposits and withdrawals on a session (global-transaction-service, *)
(* executeWithLedger, updateSessionSolde).  The session is read, and its   *)
(* balance checked, before the transaction starts.                         *)
(***************************************************************************)
OpLire(q, s, delta) ==
    /\ etape[q] = "libre"
    /\ sessionStatut[s] = "OPEN"
    /\ DebitSessionPermis(s, delta)
    /\ delta > 0 => theorique[s] + delta <= SoldeMax
    /\ Attendre(q, "opLue", Contexte(AUCUN, s, AUCUN, FALSE, delta))
    /\ UNCHANGED <<varsTransfert, varsArgent, varsSession, varsVerrou>>

OpPartage(q) ==
    /\ etape[q] = "opLue"
    /\ Bloquants(q) = {}
    /\ Partager(q, req[q].session)
    /\ Attendre(q, "opPartage", req[q])
    /\ UNCHANGED <<varsTransfert, varsArgent, varsSession, verrouCoffre, verrouCaisse, verrouSession>>

OpVerrouSession(q) ==
    LET s == req[q].session IN
    /\ etape[q] = "opPartage"
    /\ Bloquants(q) = {}
    /\ DebitSessionPermis(s, req[q].delta)
    /\ verrouSession' = [verrouSession EXCEPT ![s] = q]
    /\ Attendre(q, "opSession", req[q])
    /\ UNCHANGED <<varsTransfert, varsArgent, varsSession, verrouCoffre, verrouCaisse, partage>>

OpRefus(q) ==
    /\ etape[q] = "opPartage"
    /\ Bloquants(q) = {}
    /\ ~DebitSessionPermis(req[q].session, req[q].delta)
    /\ Annulation(q)

OpCommit(q) ==
    LET s == req[q].session
        delta == req[q].delta
    IN
    /\ etape[q] = "opSession"
    /\ Bloquants(q) = {}
    /\ theorique' = [theorique EXCEPT ![s] = @ + delta]
    /\ soldeCaisse' = [soldeCaisse EXCEPT ![CaisseDe[s]] = @ + delta]
    /\ flux' = flux + delta
    /\ Terminer(q)
    /\ UNCHANGED <<varsTransfert, mouvements, sortant, entrant, soldeCoffre, sessionStatut>>
-----------------------------------------------------------------------------
(* The vault is supplied from outside.  The movement is inserted before    *)
(* the check that sums today's movements, so the check sees it twice.      *)
ApportPermis(m) == CreditCoffrePermis(m + m)

Apport(m) ==
    /\ verrouCoffre = AUCUN
    /\ soldeCoffre + m <= SoldeMax
    /\ ApportPermis(m)
    /\ soldeCoffre' = soldeCoffre + m
    /\ entrant' = entrant + m
    /\ flux' = flux + m
    /\ UNCHANGED <<varsTransfert, mouvements, sortant, soldeCaisse, varsSession, varsVerrou, varsRequete>>

(* Midnight: the sums of today's movements start again.                    *)
NouveauJour ==
    /\ sortant + entrant > 0
    /\ sortant' = 0
    /\ entrant' = 0
    /\ UNCHANGED <<varsTransfert, mouvements, flux, soldeCoffre, soldeCaisse,
                   varsSession, varsVerrou, varsRequete>>

(* The handler stops: process crash, lost connection, GL posting refused.  *)
Panne(q) ==
    /\ etape[q] # "libre"
    /\ Annulation(q)

(* PostgreSQL aborts a transaction that finds itself on a cycle of waits.  *)
EnInterblocage(q) ==
    LET attend == [p \in Requetes, r \in Requetes |-> r \in Bloquants(p)]
        mene == TransitiveClosure(attend, Requetes)
    IN  mene[q, q]

Interblocage(q) ==
    /\ EnInterblocage(q)
    /\ Annulation(q)
-----------------------------------------------------------------------------
Appel(q) ==
    \/ \E t \in Transferts, a \in Agents :
          \/ \E ok \in BOOLEAN : ValiderLire(q, t, a, ok)
          \/ AnnulerLire(q, t, a)
    \/ \E t \in Transferts, s \in Sessions \cup {AUCUN} : ExecLire(q, t, s)
    \/ \E s \in Sessions, m \in Montants : OpLire(q, s, m) \/ OpLire(q, s, -m)

Progression(q) ==
    \/ ValiderEcrire(q) \/ AnnulerEcrire(q)
    \/ ExecVerrouCoffre(q) \/ ExecRefusCoffre(q)
    \/ ExecVerrouCaisse(q) \/ ExecRefusCaisse(q)
    \/ ExecPartage(q)
    \/ ExecVerrouSession(q) \/ ExecRefusSession(q)
    \/ ExecCommit(q)
    \/ OpPartage(q) \/ OpVerrouSession(q) \/ OpRefus(q) \/ OpCommit(q)

Next ==
    \/ \E t \in Transferts, f \in Fiches : CreerTransfert(t, f)
    \/ \E q \in Requetes : Appel(q) \/ Progression(q) \/ Panne(q) \/ Interblocage(q)
    \/ \E m \in Montants : Apport(m)
    \/ NouveauJour

Spec == Init /\ [][Next]_vars

(* A handler runs on, and PostgreSQL grants row locks in the order they    *)
(* are asked for, so that a lock which is free again and again is obtained *)
(* at last; a cycle of waits is detected after deadlock_timeout.           *)
Equite == \A q \in Requetes : SF_vars(Progression(q)) /\ WF_vars(Interblocage(q))

SpecEquitable == Spec /\ Equite
-----------------------------------------------------------------------------
(***************************************************************************)
(* Properties.                                                             *)
(***************************************************************************)

(* The transactions implement the vault: at most one movement of money per *)
(* transfer however many executions race, minimum balance and daily caps   *)
(* kept although the caps are sums read by a query.                        *)
CoffreTenu ==
    INSTANCE CoffreAbstrait WITH
        solde <- soldeCoffre, deplaces <- mouvements, SoldeInitial <- SoldeCoffreInitial

CoffreRespecte == CoffreTenu!Spec

(* No execution, operation or rollback creates or destroys money: vault    *)
(* and tills together hold what came from outside.                         *)
LiquiditeConservee ==
    soldeCoffre + SumFunction(soldeCaisse)
      = SoldeCoffreInitial + Cardinality(Caisses) * SoldeCaisseInitial + flux

(* The theoretical balance of an open session and the balance of its till  *)
(* are two columns written by different statements; they agree at every    *)
(* commit, whichever session a transfer was booked on.                     *)
SessionRefleteCaisse ==
    \A s \in Sessions : sessionStatut[s] = "OPEN" => theorique[s] = soldeCaisse[CaisseDe[s]]

(* No till goes below zero, although withdrawals are only checked against  *)
(* the balance of a session.                                               *)
CaisseJamaisNegative == \A c \in Caisses : soldeCaisse[c] >= 0

(* Money only moves after a user other than the one who asked has decided, *)
(* even when several validations and cancellations of the row overlap.     *)
SeparationRespectee ==
    SeparationInitiateurValideur =>
        \A t \in mouvements : valideur[t] \notin {AUCUN, fiche[t].demandeur}

(* Every handler ends: no lock is waited for forever, deadlocks included.  *)
RequeteAboutit == \A q \in Requetes : etape[q] # "libre" ~> etape[q] = "libre"
=============================================================================
