--------------------------- MODULE PaiementMobile ---------------------------
(***************************************************************************)
(* Mobile money payments (services/mobile-money/payment-service.ts): the   *)
(* life of a row of payment_intents, driven at the same time by the        *)
(* request that created it, the webhooks of pawaPay, the screen that polls *)
(* it, the reconciliation cron, the expiry that follows it, an operator    *)
(* who cancels and an administrator who decides by hand.                   *)
(*                                                                         *)
(* Each of them reads the row, waits for something, then updates the row   *)
(* by its id alone: a step here is a read, an answer of the provider, or a *)
(* write.  The settlement is one step: it is one transaction whose unique  *)
(* key in mouvements_financiers admits one winner and whose balances are   *)
(* locked before they are read.                                            *)
(***************************************************************************)
EXTENDS Integers, FiniteSets, Functions

CONSTANTS
    Intentions,         \* rows that can be inserted in payment_intents
    Evenements,         \* rows that can be inserted in provider_events
    Requetes,           \* slots for concurrent HTTP handlers
    Recon,              \* reconcilePendingPayments, single by isRunning
    Expi,               \* expireTimedOutPayments
    Montants,           \* amounts
    Options,            \* fee options a request may ask for
    AvecCredit,         \* values "a credit is attached" may take
    AvecAgence,         \* values "an agence is named" may take
    Frais,              \* the fee of the schedule
    SoldeInitial,       \* comptes.soldeCourant
    CaisseInitiale,     \* caisses.solde of the digital till
    Sandbox,            \* PAWAPAY environment = sandbox: no signature checked
    AUCUN               \* NULL

Acteurs == Requetes \cup {Recon, Expi}

ASSUME ConstantesPaiement ==
    /\ IsFiniteSet(Intentions)
    /\ Recon # Expi /\ Recon \notin Requetes /\ Expi \notin Requetes
    /\ Montants \subseteq Nat \ {0}
    /\ Options \subseteq {"SANS", "CLIENT_PAYS", "FEES_DEDUCTED"}
    /\ AvecCredit \subseteq BOOLEAN /\ AvecAgence \subseteq BOOLEAN
    /\ Frais \in Nat /\ SoldeInitial \in Nat /\ CaisseInitiale \in Nat
    /\ Sandbox \in BOOLEAN
    /\ AUCUN \notin Intentions \cup Evenements
    /\ AUCUN \notin [i : Intentions, brut : {"ACCEPTED", "COMPLETED", "FAILED"}, traite : BOOLEAN]

VARIABLES
    statut,             \* intention -> status, "ABSENT" before the INSERT
    fiche,              \* intention -> the columns set at the INSERT
    age,                \* intention -> 1 past PENDING_THRESHOLD, 2 past expireAt
    decaissement,       \* intention -> disbursementStatus of its credit
    operateur,          \* intention -> what pawaPay knows of it
    ecritures,          \* idempotency keys of mouvements_financiers
    solde,              \* balance of the account of the client
    caisse,             \* balance of the digital till
    evenements,         \* provider_events
    decides,            \* intentions an administrator declared paid
    etape,              \* actor -> the step it has reached
    req,                \* actor -> the row it works on, what it will write
    reste               \* Recon, Expi -> rows of the list still to visit

varsIntention == <<statut, fiche, age, decaissement>>
varsArgent    == <<ecritures, solde, caisse>>
varsActeur    == <<etape, req, reste>>
vars == <<varsIntention, varsArgent, operateur, evenements, decides, varsActeur>>

Terminaux == {"SUCCESS", "FAILED", "EXPIRED", "CANCELLED", "REVERSED"}
Statuts   == {"CREATED", "PENDING"} \cup Terminaux
Types     == {"COLLECTION", "PAYOUT"}
Etapes    == {"libre", "appel", "sonder", "enFile", "annuler", "ecrire",
              "regler", "regle", "marquer", "liste"}

Fiches == [type : Types, montant : Montants,
           option : {"SANS", "CLIENT_PAYS", "FEES_DEDUCTED"},
           credit : BOOLEAN, agence : BOOLEAN, origine : Intentions \cup {AUCUN}]

Contextes == [i : Intentions \cup {AUCUN}, cible : Statuts \cup {AUCUN},
              ev : Evenements \cup {AUCUN}]

Contexte(i, c, e) == [i |-> i, cible |-> c, ev |-> e]
ContexteVide == Contexte(AUCUN, AUCUN, AUCUN)

(* The rows, the balances and what each handler remembers keep their types:*)
(* no handler stores a status of pawaPay in the place of one of ours.      *)
TypeOK ==
    /\ statut \in [Intentions -> Statuts \cup {"ABSENT"}]
    /\ fiche \in [Intentions -> Fiches \cup {AUCUN}]
    /\ age \in [Intentions -> 0..2]
    /\ decaissement \in [Intentions -> {"WAITING", "COMPLETED", "FAILED"}]
    /\ operateur \in [Intentions -> {"INCONNU", "ACCEPTED", "COMPLETED", "FAILED"}]
    /\ ecritures \subseteq Types \X Intentions
    /\ solde \in Int /\ caisse \in Int
    /\ evenements \in [Evenements -> [i : Intentions, brut : {"ACCEPTED", "COMPLETED", "FAILED"},
                                      traite : BOOLEAN] \cup {AUCUN}]
    /\ decides \subseteq Intentions
    /\ etape \in [Acteurs -> Etapes]
    /\ req \in [Acteurs -> Contextes]
    /\ reste \in [{Recon, Expi} -> SUBSET Intentions]

Init ==
    /\ statut = [i \in Intentions |-> "ABSENT"]
    /\ fiche = [i \in Intentions |-> AUCUN]
    /\ age = [i \in Intentions |-> 0]
    /\ decaissement = [i \in Intentions |-> "WAITING"]
    /\ operateur = [i \in Intentions |-> "INCONNU"]
    /\ ecritures = {}
    /\ solde = SoldeInitial
    /\ caisse = CaisseInitiale
    /\ evenements = [e \in Evenements |-> AUCUN]
    /\ decides = {}
    /\ etape = [a \in Acteurs |-> "libre"]
    /\ req = [a \in Acteurs |-> ContexteVide]
    /\ reste = [a \in {Recon, Expi} |-> {}]
-----------------------------------------------------------------------------
(***************************************************************************)
(* Amounts, with the fee paid on top (CLIENT_PAYS) or taken out of the     *)
(* amount (FEES_DEDUCTED): what leaves the source and what arrives.        *)
(***************************************************************************)
Brut(f) == IF f.option = "CLIENT_PAYS" THEN f.montant + Frais ELSE f.montant
Net(f)  == IF f.option = "FEES_DEDUCTED" THEN f.montant - Frais ELSE f.montant

(* What a settlement adds to the account and to the digital till of the    *)
(* agence: without an agence there is no till.                             *)
DeltaCompte(f) == IF f.type = "COLLECTION" THEN Net(f) ELSE -Brut(f)

DeltaCaisse(f) ==
    IF ~f.agence THEN 0 ELSE IF f.type = "COLLECTION" THEN Brut(f) ELSE -Net(f)

(* The amount sent to pawaPay, which refuses one that is not positive.     *)
MontantEnvoye(f) == IF f.type = "COLLECTION" THEN Brut(f) ELSE Net(f)

(* Mutant: a payout takes the fee from the digital till as well.           *)
CaisseApresBrut(f) ==
    LET c == caisse + (IF f.type = "COLLECTION" THEN Brut(f) ELSE -Brut(f))
    IN  IF f.agence /\ c >= 0 THEN c ELSE caisse

(* The digital till refuses to go below zero.                              *)
CaisseApres(f) ==
    LET c == caisse + DeltaCaisse(f) IN IF c >= 0 THEN c ELSE caisse

Cle(i) == <<fiche[i].type, i>>

(* Mutant: a payment accepted by pawaPay is taken for a completed one.     *)
NormaliserAccepte(s) ==
    CASE s \in {"ACCEPTED", "COMPLETED"} -> "SUCCESS"
      [] s = "FAILED" -> "FAILED"
      [] OTHER -> "PENDING"

(* The status of pawaPay in the words of payment_intents.                  *)
Normaliser(s) ==
    CASE s = "COMPLETED" -> "SUCCESS"
      [] s = "FAILED" -> "FAILED"
      [] OTHER -> "PENDING"

(* getStatus looks for the reference among the deposits and the payouts: a *)
(* refund is not found there, and what is not found is pending.            *)
StatutLu(i) ==
    IF fiche[i].origine # AUCUN THEN "PENDING" ELSE Normaliser(operateur[i])

(* parseWebhookPayload normalises the status of the payload, and the       *)
(* handler normalises the result again.                                    *)
StatutWebhook(brut) == Normaliser(Normaliser(brut))

-----------------------------------------------------------------------------
Attendre(a, e, ctx) ==
    /\ etape' = [etape EXCEPT ![a] = e]
    /\ req' = [req EXCEPT ![a] = ctx]

(* The actor goes on to its next row, or ends.                             *)
Suite(a) ==
    Attendre(a, IF a = Recon /\ reste[Recon] # {} THEN "liste" ELSE "libre", ContexteVide)

(***************************************************************************)
(* The request: INSERT, call of pawaPay, UPDATE.                           *)
(***************************************************************************)
Creer(q, i, f) ==
    /\ etape[q] = "libre"
    /\ statut[i] = "ABSENT"
    /\ statut' = [statut EXCEPT ![i] = "CREATED"]
    /\ fiche' = [fiche EXCEPT ![i] = f]
    /\ Attendre(q, "appel", Contexte(i, AUCUN, AUCUN))
    /\ UNCHANGED <<age, decaissement, varsArgent, operateur, evenements, decides, reste>>

Initier(q, i, type, m, option, credit, agence) ==
    Creer(q, i, [type |-> type, montant |-> m, option |-> option,
                 credit |-> credit, agence |-> agence, origine |-> AUCUN])

(* A refund is a payout of at most the amount of a successful collection.  *)
Rembourser(q, i, o, m) ==
    /\ statut[o] = "SUCCESS"
    /\ fiche[o].type = "COLLECTION"
    /\ m <= fiche[o].montant
    /\ Creer(q, i, [type |-> "PAYOUT", montant |-> m, option |-> "SANS",
                    credit |-> fiche[o].credit, agence |-> fiche[o].agence, origine |-> o])

(* pawaPay accepts and the answer arrives.                                 *)
AppelAccepte(q) ==
    LET i == req[q].i IN
    /\ etape[q] = "appel"
    /\ MontantEnvoye(fiche[i]) > 0
    /\ operateur' = [operateur EXCEPT ![i] = "ACCEPTED"]
    /\ Attendre(q, "ecrire", Contexte(i, "PENDING", AUCUN))
    /\ UNCHANGED <<varsIntention, varsArgent, evenements, decides, reste>>

(* Mutant: the word of pawaPay is stored instead of the status.            *)
AppelEchoueRejete(q, recu, erreurMobileMoney) ==
    LET i == req[q].i IN
    /\ etape[q] = "appel"
    /\ recu => MontantEnvoye(fiche[i]) > 0
    /\ operateur' = IF recu THEN [operateur EXCEPT ![i] = "ACCEPTED"] ELSE operateur
    /\ Attendre(q, "ecrire", Contexte(i, "REJECTED", AUCUN))
    /\ UNCHANGED <<varsIntention, varsArgent, evenements, decides, reste>>

(* The call fails: pawaPay never saw it (circuit open, refusal, network    *)
(* down), or accepted it (recu) and every answer was lost or unreadable.   *)
(* A refund rethrows a MobileMoneyError without an UPDATE; an answer that  *)
(* is not JSON is none.                                                    *)
AppelEchoue(q, recu, erreurMobileMoney) ==
    LET i == req[q].i IN
    /\ etape[q] = "appel"
    /\ recu => MontantEnvoye(fiche[i]) > 0
    /\ operateur' = IF recu THEN [operateur EXCEPT ![i] = "ACCEPTED"] ELSE operateur
    /\ IF fiche[i].origine # AUCUN /\ erreurMobileMoney
          THEN Attendre(q, "libre", ContexteVide)
          ELSE Attendre(q, "ecrire", Contexte(i, "FAILED", AUCUN))
    /\ UNCHANGED <<varsIntention, varsArgent, evenements, decides, reste>>

(***************************************************************************)
(* updatePaymentIntent: an UPDATE by id that looks at no status, decided   *)
(* on an earlier read.                                                     *)
(***************************************************************************)
EcrireStatut(a) ==
    /\ etape[a] = "ecrire"
    /\ statut' = [statut EXCEPT ![req[a].i] = req[a].cible]
    /\ IF req[a].ev # AUCUN THEN Attendre(a, "marquer", req[a]) ELSE Suite(a)
    /\ UNCHANGED <<fiche, age, decaissement, varsArgent, operateur, evenements, decides, reste>>
-----------------------------------------------------------------------------
(***************************************************************************)
(* Settlement: executeWithLedger under the key of the intention.  The      *)
(* account refuses a debit it cannot bear, and the transaction with it;    *)
(* the digital till that refuses only leaves a warning.                    *)
(***************************************************************************)
(* Mutant: the key carries the date instead of the intention.              *)
CleToujoursLibre(i) == i \in Intentions

CleLibre(i) == Cle(i) \notin ecritures

ReglementPermis(i) == CleLibre(i) /\ (DeltaCompte(fiche[i]) < 0 => solde + DeltaCompte(fiche[i]) >= 0)

(* Mutant: the row is updated outside the transaction, before it.          *)
ReglerHorsTransaction(a) ==
    LET i == req[a].i
        f == fiche[i]
    IN
    /\ etape[a] = "regler"
    /\ ReglementPermis(i)
    /\ IF statut[i] # "SUCCESS"
          THEN UNCHANGED <<varsArgent, etape>>
          ELSE /\ ecritures' = ecritures \cup {Cle(i)}
               /\ solde' = solde + DeltaCompte(f)
               /\ caisse' = CaisseApres(f)
               /\ etape' = [etape EXCEPT ![a] = "regle"]
    /\ statut' = [statut EXCEPT ![i] = "SUCCESS"]
    /\ UNCHANGED <<fiche, age, decaissement, operateur, evenements, decides, req, reste>>

Regler(a) ==
    LET i == req[a].i
        f == fiche[i]
    IN
    /\ etape[a] = "regler"
    /\ ReglementPermis(i)
    /\ ecritures' = ecritures \cup {Cle(i)}
    /\ solde' = solde + DeltaCompte(f)
    /\ caisse' = CaisseApres(f)
    /\ statut' = [statut EXCEPT ![i] = "SUCCESS"]
    /\ Attendre(a, "regle", req[a])
    /\ UNCHANGED <<fiche, age, decaissement, operateur, evenements, decides, reste>>

(* The key is taken, the account refuses, or the accounting rule is        *)
(* missing: the error ends the handler and the row keeps its status.       *)
ReglementRefuse(a) ==
    /\ etape[a] = "regler"
    /\ Suite(a)
    /\ UNCHANGED <<varsIntention, varsArgent, operateur, evenements, decides, reste>>

(* After the commit, the hook that activates the credit of a payout, and   *)
(* takes it back when its schedule cannot be drawn up.  An error of the    *)
(* hook itself is only logged.                                             *)
ActiverCredit(a) ==
    LET i == req[a].i IN
    /\ etape[a] = "regle"
    /\ \/ UNCHANGED decaissement
       \/ /\ fiche[i].type = "PAYOUT" /\ fiche[i].credit
          /\ \E d \in {"COMPLETED", "FAILED"} : decaissement' = [decaissement EXCEPT ![i] = d]
    /\ IF req[a].ev # AUCUN THEN Attendre(a, "marquer", req[a]) ELSE Suite(a)
    /\ UNCHANGED <<statut, fiche, age, varsArgent, operateur, evenements, decides, reste>>
-----------------------------------------------------------------------------
(***************************************************************************)
(* Webhook: INSERT of the event, signature, SELECT of the row; the branch  *)
(* is taken on the status read here.                                       *)
(***************************************************************************)
SuiteWebhook(q, i, e) ==
    LET s == StatutWebhook(evenements'[e].brut) IN
    CASE statut[i] \in Terminaux -> Attendre(q, "marquer", Contexte(i, AUCUN, e))
      [] statut[i] \notin Terminaux /\ s = "SUCCESS" -> Attendre(q, "regler", Contexte(i, AUCUN, e))
      [] statut[i] \notin Terminaux /\ s = "FAILED" -> Attendre(q, "ecrire", Contexte(i, "FAILED", e))
      [] OTHER -> Attendre(q, "libre", ContexteVide)

(* pawaPay may repeat, delay and reorder its callbacks.                    *)
RecevoirWebhook(q, e, i, brut) ==
    /\ etape[q] = "libre"
    /\ evenements[e] = AUCUN
    /\ operateur[i] # "INCONNU" /\ brut \in {"ACCEPTED", operateur[i]}
    /\ evenements' = [evenements EXCEPT ![e] = [i |-> i, brut |-> brut, traite |-> FALSE]]
    /\ SuiteWebhook(q, i, e)
    /\ UNCHANGED <<varsIntention, varsArgent, operateur, decides, reste>>

(* markEventProcessed, then what the failure of a payout tells its credit. *)
Marquer(q) ==
    LET i == req[q].i IN
    /\ etape[q] = "marquer"
    /\ evenements' = [evenements EXCEPT ![req[q].ev].traite = TRUE]
    /\ decaissement' = IF req[q].cible = "FAILED" /\ fiche[i].type = "PAYOUT" /\ fiche[i].credit
                       THEN [decaissement EXCEPT ![i] = "FAILED"] ELSE decaissement
    /\ Suite(q)
    /\ UNCHANGED <<statut, fiche, age, varsArgent, operateur, decides, reste>>

(* The cron replays an event that is not processed: a new row, without the *)
(* headers the signature is checked against.  The old row is left as is.   *)
Rejouer(q, e, n) ==
    /\ etape[q] = "libre"
    /\ evenements[e] # AUCUN /\ evenements[n] = AUCUN
    /\ ~evenements[e].traite
    /\ evenements' = [evenements EXCEPT ![n] = [evenements[e] EXCEPT !.traite = ~Sandbox]]
    /\ IF Sandbox THEN SuiteWebhook(q, evenements[e].i, n) ELSE UNCHANGED <<etape, req>>
    /\ UNCHANGED <<varsIntention, varsArgent, operateur, decides, reste>>

(* After 24 hours the event is closed as EXPIRED_DLQ.                      *)
Perimer(e) ==
    /\ evenements[e] # AUCUN
    /\ ~evenements[e].traite
    /\ evenements' = [evenements EXCEPT ![e].traite = TRUE]
    /\ UNCHANGED <<varsIntention, varsArgent, operateur, decides, varsActeur>>
-----------------------------------------------------------------------------
(***************************************************************************)
(* Polling: GET /payments/:id asks pawaPay about a PENDING row.            *)
(***************************************************************************)
Sonder(q, i) ==
    /\ etape[q] = "libre"
    /\ statut[i] = "PENDING"
    /\ Attendre(q, "sonder", Contexte(i, AUCUN, AUCUN))
    /\ UNCHANGED <<varsIntention, varsArgent, operateur, evenements, decides, reste>>

(* What a status answered for row i leads actor a to.                      *)
Repondre(a, i) ==
    CASE StatutLu(i) = "SUCCESS" -> Attendre(a, "regler", Contexte(i, AUCUN, AUCUN))
      [] StatutLu(i) = "FAILED" -> Attendre(a, "ecrire", Contexte(i, "FAILED", AUCUN))
      [] OTHER -> Suite(a)

SondageRepondu(q) ==
    /\ etape[q] = "sonder"
    /\ Repondre(q, req[q].i)
    /\ UNCHANGED <<varsIntention, varsArgent, operateur, evenements, decides, reste>>

(***************************************************************************)
(* Cancellation, alone or after pawaPay has failed an enqueued payout.     *)
(* pawaPay is not told of the first.                                       *)
(***************************************************************************)
AnnulerLire(q, i) ==
    /\ \/ etape[q] = "libre"
       \/ etape[q] = "annuler" /\ req[q].i = i
    /\ statut[i] \in {"CREATED", "PENDING"}
    /\ Attendre(q, "ecrire", Contexte(i, "CANCELLED", AUCUN))
    /\ UNCHANGED <<varsIntention, varsArgent, operateur, evenements, decides, reste>>

AnnulationRefusee(q) ==
    /\ etape[q] = "annuler"
    /\ statut[req[q].i] \notin {"CREATED", "PENDING"}
    /\ Attendre(q, "libre", ContexteVide)
    /\ UNCHANGED <<varsIntention, varsArgent, operateur, evenements, decides, reste>>

EnFileLire(q, i) ==
    /\ etape[q] = "libre"
    /\ statut[i] = "PENDING"
    /\ Attendre(q, "enFile", Contexte(i, AUCUN, AUCUN))
    /\ UNCHANGED <<varsIntention, varsArgent, operateur, evenements, decides, reste>>

EnFileEchouer(q) ==
    LET i == req[q].i IN
    /\ etape[q] = "enFile"
    /\ fiche[i].type = "PAYOUT" /\ operateur[i] = "ACCEPTED"
    /\ operateur' = [operateur EXCEPT ![i] = "FAILED"]
    /\ Attendre(q, "annuler", req[q])
    /\ UNCHANGED <<varsIntention, varsArgent, evenements, decides, reste>>

(***************************************************************************)
(* Decision of an administrator on a row that is not terminal.             *)
(***************************************************************************)
Reconcilier(q, i, ok) ==
    /\ etape[q] = "libre"
    /\ statut[i] \in {"CREATED", "PENDING"}
    /\ decides' = IF ok THEN decides \cup {i} ELSE decides
    /\ IF ok THEN Attendre(q, "regler", Contexte(i, AUCUN, AUCUN))
             ELSE Attendre(q, "ecrire", Contexte(i, "FAILED", AUCUN))
    /\ UNCHANGED <<varsIntention, varsArgent, operateur, evenements, reste>>
-----------------------------------------------------------------------------
(***************************************************************************)
(* The cron: a list of rows is read, then each is visited.  An overlapping *)
(* tick skips the reconciliation but not the expiry, so both may run.      *)
(***************************************************************************)
ReconLister ==
    LET liste == {i \in Intentions : statut[i] = "PENDING" /\ age[i] >= 1} IN
    /\ etape[Recon] = "libre"
    /\ liste # {}
    /\ reste' = [reste EXCEPT ![Recon] = liste]
    /\ Attendre(Recon, "liste", ContexteVide)
    /\ UNCHANGED <<varsIntention, varsArgent, operateur, evenements, decides>>

(* The status of row i: an answer, or an error after the retries.          *)
ReconVisiter(i, repondu) ==
    LET autres == reste[Recon] \ {i} IN
    /\ etape[Recon] = "liste"
    /\ i \in reste[Recon]
    /\ reste' = [reste EXCEPT ![Recon] = autres]
    /\ CASE repondu /\ StatutLu(i) = "SUCCESS" ->
              Attendre(Recon, "regler", Contexte(i, AUCUN, AUCUN))
         [] repondu /\ StatutLu(i) = "FAILED" ->
              Attendre(Recon, "ecrire", Contexte(i, "FAILED", AUCUN))
         [] repondu /\ StatutLu(i) = "PENDING" /\ age[i] = 2 ->
              Attendre(Recon, "ecrire", Contexte(i, "EXPIRED", AUCUN))
         [] OTHER -> Attendre(Recon, IF autres = {} THEN "libre" ELSE "liste", ContexteVide)
    /\ UNCHANGED <<varsIntention, varsArgent, operateur, evenements, decides>>

(* Mutant: the flag isRunning of the reconciliation stops the expiry too.  *)
ExpiListerApresRecon ==
    LET liste == {i \in Intentions : statut[i] = "PENDING" /\ age[i] = 2} IN
    /\ etape[Expi] = "libre" /\ etape[Recon] = "libre"
    /\ liste # {}
    /\ reste' = [reste EXCEPT ![Expi] = liste]
    /\ Attendre(Expi, "liste", ContexteVide)
    /\ UNCHANGED <<varsIntention, varsArgent, operateur, evenements, decides>>

ExpiLister ==
    LET liste == {i \in Intentions : statut[i] = "PENDING" /\ age[i] = 2} IN
    /\ etape[Expi] = "libre"
    /\ liste # {}
    /\ reste' = [reste EXCEPT ![Expi] = liste]
    /\ Attendre(Expi, "liste", ContexteVide)
    /\ UNCHANGED <<varsIntention, varsArgent, operateur, evenements, decides>>

ExpiEcrire(i) ==
    LET autres == reste[Expi] \ {i} IN
    /\ etape[Expi] = "liste"
    /\ i \in reste[Expi]
    /\ statut' = [statut EXCEPT ![i] = "EXPIRED"]
    /\ reste' = [reste EXCEPT ![Expi] = autres]
    /\ Attendre(Expi, IF autres = {} THEN "libre" ELSE "liste", ContexteVide)
    /\ UNCHANGED <<fiche, age, decaissement, varsArgent, operateur, evenements, decides>>
-----------------------------------------------------------------------------
(***************************************************************************)
(* Environment: pawaPay concludes, time passes, a handler is lost with the *)
(* process or the connection.                                              *)
(***************************************************************************)
Conclure(i, verdict) ==
    /\ operateur[i] = "ACCEPTED"
    /\ operateur' = [operateur EXCEPT ![i] = verdict]
    /\ UNCHANGED <<varsIntention, varsArgent, evenements, decides, varsActeur>>

Vieillir(i) ==
    /\ statut[i] = "PENDING"
    /\ age[i] < 2
    /\ age' = [age EXCEPT ![i] = @ + 1]
    /\ UNCHANGED <<statut, fiche, decaissement, varsArgent, operateur, evenements, decides, varsActeur>>

Panne(a) ==
    /\ etape[a] # "libre"
    /\ Attendre(a, "libre", ContexteVide)
    /\ reste' = IF a \in {Recon, Expi} THEN [reste EXCEPT ![a] = {}] ELSE reste
    /\ UNCHANGED <<varsIntention, varsArgent, operateur, evenements, decides>>
-----------------------------------------------------------------------------
NextRequete(q) ==
    \/ \E i \in Intentions, t \in Types, m \in Montants, o \in Options :
          \E c \in AvecCredit, g \in AvecAgence : Initier(q, i, t, m, o, c, g)
    \/ \E i, o \in Intentions, m \in Montants : Rembourser(q, i, o, m)
    \/ AppelAccepte(q)
    \/ \E recu, mm \in BOOLEAN : AppelEchoue(q, recu, mm)
    \/ \E e \in Evenements, i \in Intentions, s \in {"ACCEPTED", "COMPLETED", "FAILED"} :
          RecevoirWebhook(q, e, i, s)
    \/ Marquer(q)
    \/ \E e, n \in Evenements : Rejouer(q, e, n)
    \/ \E i \in Intentions : Sonder(q, i)
    \/ SondageRepondu(q)
    \/ \E i \in Intentions : AnnulerLire(q, i)
    \/ AnnulationRefusee(q)
    \/ \E i \in Intentions : EnFileLire(q, i)
    \/ EnFileEchouer(q)
    \/ \E i \in Intentions, ok \in BOOLEAN : Reconcilier(q, i, ok)

NextCron ==
    \/ ReconLister
    \/ \E i \in Intentions, ok \in BOOLEAN : ReconVisiter(i, ok)
    \/ ExpiLister
    \/ \E i \in Intentions : ExpiEcrire(i)

NextActeur(a) ==
    \/ EcrireStatut(a)
    \/ Regler(a)
    \/ ReglementRefuse(a)
    \/ ActiverCredit(a)
    \/ Panne(a)

NextExterieur ==
    \/ \E i \in Intentions, v \in {"COMPLETED", "FAILED"} : Conclure(i, v)
    \/ \E i \in Intentions : Vieillir(i)
    \/ \E e \in Evenements : Perimer(e)

Next ==
    \/ \E q \in Requetes : NextRequete(q)
    \/ NextCron
    \/ \E a \in Acteurs : NextActeur(a)
    \/ NextExterieur

Spec == Init /\ [][Next]_vars
-----------------------------------------------------------------------------
(* The clock and the cron go on.  A crash may interrupt an expiry, not     *)
(* every one of them between its list and its first UPDATE.                *)
Equite ==
    /\ \A i \in Intentions : WF_vars(Vieillir(i))
    /\ WF_vars(ExpiLister)
    /\ SF_vars(\E i \in Intentions : ExpiEcrire(i))

SpecEquitable == Spec /\ Equite
-----------------------------------------------------------------------------
(***************************************************************************)
(* Properties.                                                             *)
(***************************************************************************)
Reglees == {i \in Intentions : statut[i] # "ABSENT" /\ Cle(i) \in ecritures}

(* Whatever the polling, the cron, the webhooks and an administrator do    *)
(* at the same time, the account moved once for each settled payment: its  *)
(* balance is the opening balance and what the settled rows add.           *)
CompteUneFois ==
    solde = SoldeInitial + SumFunction([i \in Reglees |-> DeltaCompte(fiche[i])])

(* The digital till, whose refused debits are only logged, never shows     *)
(* less than what the settled rows that name its agence left in the        *)
(* wallet.  The others move the account and no till.                       *)
CaisseJamaisSousEstimee ==
    caisse >= CaisseInitiale + SumFunction([i \in Reglees |-> DeltaCaisse(fiche[i])])

(* The account of a client moves only when pawaPay completed the payment   *)
(* or an administrator declared it paid.                                   *)
ReglementJustifie ==
    \A i \in Intentions : \A t \in Types :
        <<t, i>> \in ecritures => operateur[i] = "COMPLETED" \/ i \in decides

(* A payment shown as SUCCESS has its movement in the ledger, and a credit *)
(* is activated only after the payout of its amount is in the ledger.      *)
SuccesComptabilise ==
    \A i \in Intentions :
        statut[i] = "SUCCESS" \/ decaissement[i] = "COMPLETED" => Cle(i) \in ecritures

(* A PENDING payment does not stay so for ever: the expiry closes it even  *)
(* if pawaPay never answers and every other handler is lost.               *)
AttenteBornee ==
    \A i \in Intentions : statut[i] = "PENDING" ~> statut[i] \in Terminaux
=============================================================================
