# COFINCO: verification of the cash circuit

COFINCO is the back office of a microfinance institution: clients' accounts, credits and tontines on one
side, and on the other the cash that an agency really holds, in its vault (*coffre-fort*), its tills
(*caisses*) and the bags of its field agents. This directory holds TLA+ models of the parts where a mistake
loses money: the transfers between vault and tills, the sessions in which a cashier works on a till and how
they are opened, the cash that travels between vaults or to the bank, mobile money payments, and the journal
an agent keeps without network. The server is a set of Express handlers over one PostgreSQL database, at READ
COMMITTED, with a pool of twenty connections; the device is a browser with several tabs over one IndexedDB.
Everything below is about what those handlers do when they overlap or stop half-way.

The vocabulary of the modules is that of the code, which is French.

## 1. The system

### Components, their state and their operations

| component | state it keeps | operations | talks to |
|---|---|---|---|
| Transfers vault/till: `services/coffre/*`, `routes/coffre.ts` | `transferts_coffre_caisse` (statut, who asked, who validated, verrouille), `coffres_forts.solde` | request, validate/reject, cancel, execute, reverse | ledger, sessions, idempotency middleware |
| Ledger: `services/ledger.ts`, `global-transaction-service.ts` | `mouvements_financiers`, `operations_caisse`, `evenements_outbox`, balances of accounts, tills, sessions | executeWithLedger, updateSessionSolde, cash operations | every module that moves money |
| Sessions of the tills: `services/caisse/*`, `caisse-admin-service.ts` | `sessions_caisse` (statut, opening, theoretical and counted amounts), `caisses.solde` | opening (direct, or in steps with funds of the vault), freeze, count, decision, cancellation, closings by time-out, logout, administrator | ledger, transfers |
| Supply of the vault: `storage/finance.ts` | the vault's row | provisionCoffreWithLedger | ledger, vault guards |
| Database rules: `db.ts` | triggers and partial unique indexes | BALANCE_GUARD; one active session per till and per cashier | every UPDATE of a balance or a session |
| Transfers between vaults: `services/transfert-inter-coffres/*` | `transferts_inter_coffres` (statut, approvers, verrouille), its movements, `coffres_forts.solde` | draft, submit, approve or reject twice, cancel, delete, dispatch, receive | vault rows |
| Evacuation of the vault: `services/evacuation-coffre/*` | `evacuations_coffre` (statut, approver, preparer, amount counted), its movements | draft, submit, approve, reject, cancel, prepare, dispatch, deposit, reconcile | vault rows |
| Field agents: `services/caisse-agent/*` | agents' sessions, pending operations, settlements (*remises*) | open, collect, approve, settle | tills |
| Mobile money: `services/mobile-money/*`, `routes/payments.ts`, `cron/payment-reconciliation.ts` | `payment_intents`, `provider_events`, `mouvements_financiers`, digital till | collect, pay out, refund, callback, poll, cancel, reconcile, expire, replay | pawaPay, ledger, tills, credits |
| Credit workflows: `shared/machines/*`, allocation, re-evaluation | demandes, credits, instalments | transitions, repayment | ledger |
| Scheduled transfers and savings | schedules and their runs | run, retry | ledger |
| Idempotency middleware, duplicate detection | `idempotency_keys` | check, take, answer, expire | every financial route |
| Outbox worker, notifications | `evenements_outbox`, queues | publish, retry | web sockets |
| Circuit breakers | state, counters | execute, reset | external providers |
| Refresh tokens, temporary permissions | token families | create, rotate, revoke | authentication |
| Offline synchronisation: `offline-treasury.ts`, `journal-service.ts`, `syncService.ts` of the client, `routes/sync-journal.ts` | the device's journal and day session, `offline_journal_entries` | operate, close the day, upload, mark, book | agents' operations, ledger |
| Tontines, accounting, treasury, HR, UI | records and reports | | |

`PROJECT.json` lists the same components with their status.

### How they interact

A transfer is asked for by a cashier, decided by another user and executed by a third call. The execution is
one transaction over five tables: the vault's row, the till's row, two movements with unique idempotency
keys, the session of the till and the transfer. A deposit or a withdrawal is also one transaction, which
starts after the session has been read. Both end in `updateSessionSolde`, which locks the session and then
writes session and till. The closing of a session is three calls of the cashier, each a transaction of its
own that begins by a plain read; the last one asks for a transfer to the vault and sets the balance of the
till, on which the next session opens.

A till that needs funds opens in steps: the cashier's request inserts a session and its transfer, the vault
decides, the cashier's reception executes the transfer on a second connection and opens the session. The same
transfer is within reach of the routes of ordinary transfers, and the same session of the direct opening, which
is why the four meet in one module.

The workflows between vaults and the evacuations share nothing with each other but `coffres_forts.solde`. A
payment is a row that six actors update by its id; the settlement alone is guarded, by one unique key. A
journal entry goes from a tab of the device to a handler of the server and back, and each side marks it with
what it believes of the other.

### What is hard

* **Check, then act.** Nearly every handler reads a row without a lock, tests it, and updates it by its id.
* **Three balances for one drawer of cash**: `caisses.solde`, `sessions_caisse.montantFermetureTheorique`, and
  the sum of `operations_caisse`; four functions write them, with their own idea of the sign of an operation.
* **Derived limits**: the daily caps are sums read by a query, so they hold only under the right lock.
* **Locks in several orders**, shared locks taken by foreign keys included.
* **Stopping half-way**: a crash, a lost connection, a refused posting; closings on time-out run without a
  transaction.
* **Several ways to close a session**, written at different times, which do not agree on what closing means.

The hazards, each at its line with the property that watches it, are in `PROJECT.json` under `hazards`.

### What makes each component correct

* Vault: a transfer's money moves at most once; minimum balance and daily caps hold at every commit; no money
  moves on the decision of the user who asked; a decided transfer stays decided.
* Tills and sessions: an open session and its till hold the same amount; no till is negative; a till and a
  cashier have one active session; a closed session stays closed; what was counted is what goes to the vault
  plus what stays; a balance changes only together with a movement.
* Opening: the vault gives the cash of a request at most once; a session that asked for funds opens only with
  them, and on an amount the till already holds.
* Cash between vaults: it leaves once, covered by the balance and after the approvals of its workflow, arrives
  once and after it left; the statut of the document says where it is.
* Payments: the account moves once, only for a payment that was made; SUCCESS means it is in the ledger; no
  payment stays pending for ever.
* Offline journal: an entry is booked at most once, and one shown as confirmed is on the server.
* All handlers: no wait lasts for ever.
* Still to be modelled: no operation executed twice under one idempotency key; every event published.

## 2. Modules

| module | what it is |
|---|---|
| `CoffreAbstrait` | what the vault promises, in four actions |
| `TransfertCoffre` | transfers, cash operations and supplies, statement by statement, with row locks |
| `TransfertCoffreProofs` | type correctness, separation of duties, refinement of `CoffreAbstrait` |
| `CaisseProofs` | sessions and tills agree; no till is negative; no cash appears or vanishes |
| `SessionCaisse` | the life of the sessions of the tills |
| `SessionCaisseProofs` | one active session per till and per cashier; types; closed sessions stay closed; balances change with a movement |
| `OuvertureCaisse` | the opening of a session with funds of the vault, with the rows it locks |
| `OuvertureCaisseProofs` | types, sessions and tills, funds of an opening, conservation, refinement of `CoffreAbstrait` |
| `ArgentEnRoute` | what moving cash between vaults promises: two actions |
| `TransfertInterCoffres`, `EvacuationCoffre` | the two workflows that take cash out of a vault |
| `CirculationCoffres` | both on the same vaults, and their properties |
| `CirculationCoffresProofs` | types, approvals, statut of an evacuation, refinement of `ArgentEnRoute` |
| `PaiementMobile` | the life of a mobile money payment under all its actors |
| `PaiementMobileProofs` | types, settlement justified and counted once, SUCCESS in the ledger, digital till |
| `JournalHorsLigne` | the journal of a device, its upload by several tabs and its booking |
| `JournalHorsLigneProofs` | types, an entry is booked at most once, a confirmed entry was received |
| `Sommes` | facts about the sum of a function over a finite set, which the proofs about money use |
| `MCTransfertCoffre`, `MCSessionCaisse`, `MCOuvertureCaisse`, `MCCirculationCoffres`, `MCPaiementMobile`, `MCJournalHorsLigne` | instances for TLC |

### `TransfertCoffre`

*State.* One function per column of `transferts_coffre_caisse` that is ever tested (`statut`, `valideur`,
`verrouille`; `fiche` holds the columns fixed at the INSERT); the set `mouvements` of transfers whose two
idempotency keys are taken; the sums of today's movements of the vault (`sortant`, `entrant`); the balances;
statut and theoretical balance of the sessions; four lock tables; and, for each handler in flight (`Requetes`),
the step it has reached and what it has read. `flux` is a history variable: cash that came from outside.

*Steps.* One action per statement on which two handlers can interleave. What a transaction writes is applied
at its commit; a rollback drops its locks and nothing else.

| code | actions |
|---|---|
| createTransfert | `CreerTransfert` |
| validateTransfert | `ValiderLire` (SELECT and guards), `ValiderEcrire` (UPDATE by id) |
| cancelTransfert | `AnnulerLire`, `AnnulerEcrire` |
| executeTransfertCoffre | `ExecLire` → `ExecVerrouCoffre`/`ExecRefusCoffre` → `ExecVerrouCaisse`/`ExecRefusCaisse` → `ExecPartage` (foreign-key lock of the INSERT) → `ExecVerrouSession`/`ExecRefusSession` → `ExecCommit` |
| GlobalTransactionService.process, executeWithLedger, updateSessionSolde | `OpLire` → `OpPartage` → `OpVerrouSession`/`OpRefus` → `OpCommit` |
| provisionCoffreWithLedger | `Apport` |
| getDailyCoffreTotal at midnight | `NouveauJour` |
| crash, ROLLBACK, posting refused | `Panne` |
| PostgreSQL's deadlock detector | `Interblocage` |

*Abstractions.* Amounts are small naturals. The sentence "Remise de clôture" searched for in the motif is a
boolean of the transfer. Billetage, minimum and maximum amount, authorisations, audit rows and broadcasts are left
out: they refuse the call or change nothing that is modelled. Sessions are open from the start and stay
open; their life is the other module.

### `SessionCaisse`

*State.* The columns of `sessions_caisse` that decide anything; what its rows of `operations_caisse` come to, as the
two functions that add them up sign them (`operations`, `entrees`), and the types they have (`typesInscrits`); the
balance of each till, and `mouvement`, the tills for which the last transaction inserted a movement; the closing
transfers; the handlers. The code has three tables of signs, and the module has the three, over the names of the
types themselves: the writers of operations sign the balance of the session (`SigneSolde`), getOperationDelta the sum
of the automatic closings (`SigneDelta`, `Journal`), isOperationCaisseEntree the sum of the freeze (`SigneEntree`,
`JournalDeFermeture`).

| code | actions |
|---|---|
| openDirectWithExistingFunds | `OuvrirLire` (locks the till), `Reprendre` or `Ouvrir` |
| cash operation, supply of an agent and what the agent brings back; transfer with the vault | `OperationLire`, `TransfertLire`, `Enregistrer` (`Inscrire`), `TransfertSansSession` |
| execution of a closing transfer | `RemiseLire`, `RemiseExecuter` |
| initiateClose, submitCount, cancelClose | `GelerLire`/`Geler`, `CompterLire`/`Compter`, `RouvrirLire`/`Rouvrir` |
| finalizeClose | `FinaliserLire`, `FinaliserSolde`, `Finaliser` |
| closeExpiredSessions | `ExpirerLire`, `ExpirerSession`, `ExpirerCaisse` |
| forceCloseOnLogout | `DeconnexionLire`, `Deconnexion` |
| closeSessionAtomic as the administrator's route calls it | `FermerDOffice` |
| closeSessionTemporarily | `FermerTemporairement` |
| forceCloseSession | `ForcerLire`, `ForcerFermeture` |
| unique indexes, BALANCE_GUARD | `CreneauLibre`, `GardeDeSolde` |

*Abstractions.* The row of a session and its operations, which initiateClose and closeExpiredSessions read with
two queries, are read in one step. A transaction that locks the session and the till before it reads anything
is one step. Refusals for pending operations, unsettled agents, denominations or opening hours leave
everything unchanged and are not written down. `OperationLire` unites three routes by what they ask of the session:
the desk one that is OPEN, the route of cash operations one without `closedAt` whose till or session covers a
withdrawal, the agents an active one. `TransfertLire` takes a session of the transfer's own till; the
other case is in `TransfertCoffre`. Rows of `Sessions` are never used twice, so an instance comes to an end:
its cfgs say `CHECK_DEADLOCK FALSE`. The same holds of the rows of the modules below.

### `OuvertureCaisse`

*State.* The columns of the session and of its transfer that decide anything (a session and its opening transfer
are inserted together, so one name stands for both), the session an execution was booked on (`imputation`, the
`sessionId` of its operation), the balances, and the connections: the step each has reached and what it has
read. Which rows a connection has locked, and which its next statement needs, are functions of its step
(`Tient`, `Demande`), so there is no lock table to keep.

| code | actions |
|---|---|
| requestSessionOpening | `DemanderLire`, `Demander` |
| validateOpeningTransfer | `ValiderVerrou` (row of the transfer), `Valider` (row of the session, whose statut is not looked at) |
| validateTransfert, cancelTransfert on an opening transfer | `ValiderTransfertLire`/`ValiderTransfert`, `AnnulerTransfertLire`/`AnnulerTransfert` |
| executeTransfertCoffre | `ExecuterLire` → `ExecuterCoffre` → `ExecuterCaisse` → `ExecuterSession` → `Executer` |
| receiveFundsAndOpen | `RecevoirVerrou`, then `RecevoirDejaExecute`, `RecevoirExecuter` (a second connection) or `RecevoirEchec`, then `Recevoir` |
| cancelOpeningRequest | `AnnulerVerrou` → `AnnulerVerrouTransfert` → `Annuler` |
| openDirectWithExistingFunds | `DirectVerrou`, `Direct` |
| updateSessionSolde for a cash operation; forceCloseOnLogout | `Operer`; `Deconnecter` |
| unique index, BALANCE_GUARD, unique key, minimum of the vault | `Accepte`, and `Refus` when it says no |
| crash; PostgreSQL's deadlock detector | `Panne`; `Interblocage` |

*Abstractions.* The reads at the start of a request are one step, and so are the two transactions `Operer` and
`Deconnecter`, whose own interleavings are in `TransfertCoffre` and `SessionCaisse`. The locks foreign keys take on
vault and till at a request are waited for and not kept. The sums of `operations_caisse`, caps, separation of duties
and the closings by time-out or by an administrator are left to those modules. `Envoyees` is the set of sessions a
client may name in an execution. The server does not look at their statut, nor does `ExecuterLire`; `ExecLire` of
`TransfertCoffre` names sessions that are not closed, which is what a dashboard sends.

### `TransfertInterCoffres`, `EvacuationCoffre`, `CirculationCoffres`

*State.* A row per document, what left and what arrived for it (the totals of its movements), the balances of the
vaults and, for each handler, what it is about to write (`ticDemandes`, `evcDemandes`). `CirculationCoffres`
instantiates both workflows on the same `solde`.

| code | actions |
|---|---|
| createTransfert, submitTransfert | `Creer`; `SoumettreLire`, `SoumettreValider`, `Ecrire` |
| approveTransfert, rejection, cancelTransfert | `ApprouverLire`, `AnnulerLire`, then `Ecrire` by id |
| DELETE of a draft | `SupprimerLire`, `SupprimerEcrire` |
| dispatchTransfert, executeReceive | `Dispatcher`; `ReceptionLire`, `Recevoir` |
| createEvacuation, simpleTransition | `Creer`; `Soumettre`, `Approuver`, `Rejeter`, `Annuler` (the UPDATE asks for the statut it read) |
| prepareEvacuation, reconcileEvacuation | `PreparerLire`/`Preparer`, `RapprocherLire`/`Rapprocher` |
| dispatchEvacuation, executeDeposit | `Dispatcher`, `Deposer` |
| refusal, crash | `Abandonner` |

*Abstractions.* The rules of separation are those of `getDefaultConfig`; a dispatch or a reception, which locks row
and vault with NOWAIT, is one step. Documents, seals, carriers and postings are left out.

### `PaiementMobile`

*State.* The row of each payment, how old it is (`age`: past the threshold of the reconciliation, past `expireAt`),
what pawaPay knows of it (`operateur`), the keys in the ledger, the balances of the account and of the digital
till, the callbacks received, and for each actor the step it has reached.

| code | actions |
|---|---|
| initiateCollection, initiatePayout, initiateRefund, makeRequest | `Initier`, `Rembourser`, `AppelAccepte`, `AppelEchoue` |
| handleWebhook | `RecevoirWebhook`, the settlement, `Marquer` |
| checkAndUpdatePendingStatus | `Sonder`, `SondageRepondu` |
| cancelPayment, fail-enqueued, manualReconcile | `AnnulerLire`/`AnnulationRefusee`, `EnFileLire`/`EnFileEchouer`, `Reconcilier` |
| reconcilePendingPayments, expireTimedOutPayments, recoverUnprocessedEvents | `ReconLister`/`ReconVisiter`, `ExpiLister`/`ExpiEcrire`, `Rejouer` |
| updatePaymentIntent by id | `EcrireStatut` |
| processSuccessfulCollection, processSuccessfulPayout | `Regler` or `ReglementRefuse`, then `ActiverCredit` |
| pawaPay, the clock, a crash | `Conclure`, `Vieillir`, `Perimer`, `Panne` |

A payment has an agency or not (`fiche.agence`, `AvecAgence`): without one the settlement leaves the digital till
alone. getStatus looks among deposits and payouts only, so a refund is answered PENDING whatever became of it
(`StatutLu`). The hook of a credit succeeds, fails (the row is marked FAILED) or is lost.

*Abstractions.* The settlement is one step: one transaction with a unique key and locked balances. Signatures are
checked or not (`Sandbox`); bulk payouts, notifications and processReversal, which nothing calls, are left out.

### `JournalHorsLigne`

*State.* IndexedDB (the journal, the status of its entries, the day session), what each tab is doing, and the
server: the keys it has recorded, the movements booked, its handlers (`Taches`) and, for each tab, the one whose
answer it awaits. A tab that gave up on an answer sends its next batch while the server still works on the last one.
Confirmations and rejections are written one entry at a time, and an entry that was recorded may be refused when it
comes again.

| code | actions |
|---|---|
| executeOfflineOperation, closeDaySession | `Verifier`, `LireSession`, `Journaliser`, `Compter`; `FermerLire`, `Fermer`, `FermerJournaliser` |
| syncJournal, uploadJournalBatch | `Lister`, `EnvoyerLot`, `EchecReseau` or `Reponse`, `MarquerConfirmee`, `MarquerRejetee`, `FinDesLots` |
| markSessionSynced | `SessionLire`, `SessionMarquer` |
| POST /journal | `Controler`, `Inserer`, `Executer` |
| closed tab, restart of the server | `AbandonnerSaisie`, `FermerOnglet`, `Abandonner` |

*Abstractions.* `Lister` keeps the order of the journal (`sortBy('sequence')`), given by the position of an entry
(`Rang`, `EnOrdre`). What a signature, a hash or the clock says of an entry is left to chance; the election of a leading
tab (`tabLeader.ts`) is represented by its result, several tabs that sync at once. The older queue of requests
(`offline-db.ts`, `/api/sync`) is left out.

## 3. Runs

Deadlock is checked in every run of `MCTransfertCoffre`.

| run | instance | what it shows |
|---|---|---|
| transferts | two transfers, two tills, a session on the first, two handlers | `TypeOK`; `SeparationRespectee`; `CoffreRespecte` (the refinement); `LiquiditeConservee`, `SessionRefleteCaisse`, `CaisseJamaisNegative` |
| progres | one till, two handlers, fairness, closing transfers too | `RequeteAboutit`: every handler ends |
| sessions_une_a_une | one till, one cashier, two sessions, one handler at a time, a deposit, a withdrawal and a bank fee | `RegleDOr`, `TheoriqueSuitOperations`, `TypeOK` |
| sessions_concurrentes | two tills, two cashiers, two sessions, two handlers, no operations | `UneSessionActive`, `FermetureDefinitive`, `SoldeSuitMouvement` |
| ouvertures | one till, two cashiers, two openings, two connections | `CoffreRespecte` (the refinement of `CoffreAbstrait`), `LiquiditeConservee`, `SessionRefleteCaisse`, `OuvertureFinancee`, `TypeOK` |
| circulation | two vaults, a transfer between them and an evacuation to the second, three users, two handlers and one | `ArgentSuivi` (the refinement of `ArgentEnRoute`), `ArgentPartiAutorise`, `EvacuationSuitArgent`, `TypeOK` |
| paiements | two payments with the fee deducted, with or without an agency, one may refund the other, one handler and the cron | `CompteUneFois`, `CaisseJamaisSousEstimee`, `ReglementJustifie`, `TypeOK` |
| paiements_progres | one payment with the fee on top, two callbacks, two handlers and the cron, fairness | `SuccesComptabilise`, `CompteUneFois`, `ReglementJustifie`, `AttenteBornee` |
| journal | two tabs, two handlers of the server, two entries sent one by one, one call of the agent at a time | `LivreUneFois`, `ConfirmeeRecue`, `TypeOK` |

*Why the bounds are enough.* A race needs two handlers, and every race of the transfers is between two of: two
executions, an execution and a decision, an execution and a cash operation. Two transfers are what a daily
cap of three with amounts of two can be exceeded by. Two tills, one of them with a session, are what a transfer needs
to be booked on the session of another till. The initial balances (5 with a minimum of 2, 2 per till) let one debit
pass and the next be refused. For the sessions, two rows let a till be closed and opened again, or two cashiers contend for it while one reopens. One
handler that reads and another that does anything else is every race there is, and none of them needs an operation:
a closing by an administrator moves the balance too. `Types` holds an entry and an exit the
tables agree on and one they do not, to which `TransfertLire` adds the supply and the deposit of the vault;
counts of 0 and 2 contain a shortage, an exact count and, after a payout, an excess, and a count of 2 is split between
vault and till as 0 + 2, 1 + 1 or 2 + 0 (`FinaliserLire` takes both parts from `0..SoldeMax`). `SoldeMax` stops
cash that comes in without end, `SommeMax` sums of operations that go up or down without end (`DansLesBornes`); they
are written in the guards of `OpLire`, `Apport`, `OperationLire`, `TransfertLire` and `TransfertSansSession`.

An opening races with at most one more connection at a time: the reception takes two, and a cancellation, a
decision or a second execution needs one. Two rows let a session be closed while its transfer lives and the till
be opened again, amounts of 1 and 2 against a vault of 3 with a minimum of 1 let one opening pass and the next be
refused, and a count of 0 or 1 contains the right one and a wrong one. `SoldeMax` is in the guard of `Operer`.
Between vaults, every race is between a handler that has read and a transaction or another handler that has read:
two handlers for a transfer, one for an evacuation, whose other operations compare the statut in their UPDATE.
Three users are what two approvals and a creator need; with no administrator the cancellation is the
creator's. For payments, a row settled by one actor while another writes its status needs two actors, which
`Requetes`, the reconciliation and the expiry are; a second payment is there for refunds, which carry no fee; a fee is
deducted from the amount in one run and paid on top of it in the other; and two callbacks of one payment for repetition and reordering. For the journal, two tabs that list
the same entries are the race; two handlers let the server work on two uploads at once, of one tab or of two; a batch
of one lets a sync be cut between two batches; a device without a key (`Chiffrements = {FALSE}`) has every behaviour of
one with a key and more, since an encrypted payload only makes the server refuse an amount; `MaxOperations`, `MaxCaisse` and
`MaxEnAttente` are limits of the code.

Each property of a passing run has a mutant in `PROJECT.json`: an operator of the module, named and commented
there, which replaces one definition by a plausible mistake and makes TLC report that property.

*Fairness*, only for the runs of a liveness property. In `TransfertCoffre` and `OuvertureCaisse`, `Progression` of
each handler is strongly fair: Node runs a handler whose query has been answered, and PostgreSQL queues the
waiters of a row, so a lock that is free again and again is obtained. `Interblocage` is weakly fair: the server
looks for cycles after `deadlock_timeout`. In `PaiementMobile`, time passes (`Vieillir`), the cron starts its expiry
(`ExpiLister`), and not every expiry is lost before its first UPDATE (`ExpiEcrire`, strongly fair, since a crash may
interrupt some). Nothing is assumed of the arrival of calls, of supplies, of midnight, of pawaPay's answers or of
crashes.

### Where the code and its own words disagree

Three runs state what the repository says of the program and TLC finds them violated; `PROJECT.json` quotes the
lines.

| run | property | what happens |
|---|---|---|
| reception_bloquee | `ReceptionAboutit` | the reception of a transfer that is validated and not executed holds the row of the session and awaits an execution, on another connection, that needs this row. PostgreSQL sees no cycle, no timeout is set: it never ends, and vault and till stay locked with it |
| gel_discordant | `GelFidele` | the central list of operations says it is used by every service of the tills; the freeze has a table of its own, in which a BANK_FEE, a SAFE_DEPOSIT and every type not listed bring money in. A till of 1 that pays a fee of 1 is frozen at 2, so its cashier is found short |
| transit_annule | `TransitSuivi` | a cancellation decided before the dispatch cancels a transfer whose cash is on the road; nobody can receive it any more |

Met while modelling, part of the models as the code has them, and the reason why some properties are stated as they
are:

* A cancellation of a vault's transfer that read VALIDATED overwrites EXECUTED: the money has moved. Hence
  `SeparationRespectee` and `CoffreRespecte` do not speak of `statut`.
* The comment of the execution says that vault before till avoids deadlocks; it does not, since a cash operation
  locks session, then till. `RequeteAboutit` therefore relies on the detector.
* A supply's own movement is in the daily sum it is checked against.
* An execution may be booked on a session of another till, or on one that was closed since: `SessionRefleteCaisse` of
  `OuvertureCaisse` allows the till to hold more than its session by exactly such supplies: those of `ImputesAilleurs`,
  booked on another session *of that till*. The till is the one of the booked session, which the execution credits;
  with two tills it need not be the one of the transfer's own session. A proof attempt for any number of tills showed
  the difference, which an instance with one till cannot. The logout then fails on BALANCE_GUARD.
* A session that is counted, then reopened, misses a transfer executed meanwhile, so a withdrawal may take a till
  below zero: `CaisseJamaisNegative` is a property of sessions that stay open (`TransfertCoffre`).
* Two finalisations of one count hand it over twice, and a handler that read a session before its closing writes its
  balance after it: `RegleDOr` and `TheoriqueSuitOperations` are checked with handlers that may stop at any step but do
  not overlap, and TLC finds each violated with two.
* The same stale handlers bring a closed session back, and a finalizeClose that read the balance of the till before
  another transaction moved it overwrites that without a movement, having set the flag of BALANCE_GUARD by hand.
  `FermetureDefinitive` and `SoldeSuitMouvement` are stated, and proved, for handlers that overlap: they name these two
  cases (`PersonneNeRevient`, `FinalisePerime`) and say that there is no other.
* The three tables of signs agree on the entries of the central list and on the displayed exits (`TypesAccordes`), and
  `TheoriqueSuitOperations` speaks of sessions with such rows only. The freeze of a session with a deposit at the vault, a
  fee, a supply of an agent or a loan disbursement is off by twice its amount. It also
  counts the opening supply twice when that was booked on the pending session.
* The cancellation of an opening whose transfer was executed promises the return of the funds and is always refused
  by BALANCE_GUARD, because it writes the balance before the movement. A request for funds never expires:
  `requestExpiresAt` is written and never read.
* An opening validated by the ordinary route leaves its session in REQUESTING_FUNDS; once executed, only an
  administrator frees the till. A validation of an opening does not look at the statut of its session, so one that was
  closed by a logout is dispatched again.
* A callback that says COMPLETED is normalised twice and read as PENDING ("on attend le prochain webhook"): the
  payment waits for the polling or the cron. A payout or refund whose call failed after pawaPay took it moves money
  without a row of the ledger; several refunds of one payment together exceed it; a credit whose hook is lost stays
  WAITING.
* The client's comment "Revert syncing status on network failure" stands beside a call that marks the batch rejected:
  an entry whose answer is lost is shown as refused, though it may be booked, and is never sent again. An entry
  recorded by a server that stops before booking it is confirmed and never booked. An operation of one tab
  overwrites the day session of another, so no property of that balance is stated.

## 4. Proofs

The theorems hold for every value of the constants: any number of transfers, payments, users, handlers, tabs.
What is assumed of the constants is named in the module that declares them and evaluated by TLC in its runs. The
assumptions on the constants (`ConstantesOK`, `ConstantesPaiement`, `ConstantesJournal`, ...) say that amounts,
caps and opening balances are naturals, that AUCUN is not a row, that a document names two different places and,
where a property adds up money or counts entries, that there are finitely many tills or rows.
`UneSessionParCaisse` (the unique index of `db.ts`) is assumed of the sessions open at the start. A theorem that
needs more says so in its statement; there is one such hypothesis, `Clotures = {FALSE}`, explained below.

Every invariant and every action property of a passing run is the subject of a theorem, save `RegleDOr` and
`TheoriqueSuitOperations`; section 3 says what TLC shows of it on an instance.

**Sums of money** (`Sommes`). `SumFunctionOnSet` is a fold, hence a recursive function on the subsets of a
finite set, and the library's induction over finite sets takes an operator as a parameter. `Sommes` uses instead
that among some subsets of a finite set there is a minimal one (`Minimal`, from the well-foundedness of strict
inclusion): a set for which a fact about sums fails would have a minimal such subset, and removing the element
the fold takes first gives a smaller one. From it: the sum is an integer, does not depend on the order, follows
a change of one entry or of two, grows by a new element, is that of its one term when the others are zero. No
result of these rests on an assumption about the fold.

### Transfers (`TransfertCoffreProofs`, `CaisseProofs`)

The first three rest on one invariant of `TransfertCoffre`, `IInv == TypeOK /\ ReferencesOK /\ DecisionOK /\
CoffreGarde`.

* `TypeCorrect`: `Spec => []TypeOK`. `TypeOK` alone is not inductive: a handler past its first read
  dereferences `fiche[t]`, so `ReferencesOK` says that the transfer a handler works on exists, and that a
  row beyond "ABSENT" has its columns.
* `SeparationToujours`: a validation decides on a read of the row, so `DecisionOK` carries the rule along:
  whoever waits between reading and writing is not the requester, a row with a `valideur` has one other
  than the requester, and an execution in flight works on a row that has been validated. The last part is what
  survives a cancellation or a second validation that overwrites `statut`.
* `ImplementeCoffre`: `Spec => CoffreTenu!Spec`. The minimum balance and the caps are tested when the vault is
  locked and used at the commit; `CoffreGarde` says that from the lock to the commit the handler still holds
  the vault and that what it tested is still true, because `Apport` and other executions need that lock.
  Midnight only lowers the sums.
* `SessionFidele`, `CaisseCouverte` and `LiquiditeToujours` (`CaisseProofs`), under the further assumption that
  no transfer is a closing one (`Clotures = {FALSE}`), from `JInv`, which adds to `IInv` the locks held at each
  step (`LignesVerrouillees`) and the checks made under them (`DebitsCouverts`): session and till are equal
  because every commit adds the same amount to both, and a till without a session is only debited under its own
  lock, on which its balance was tested. A till is covered because the equal session was. Vault and tills
  together keep their sum because a commit moves one amount between the vault and one till, the till on whose
  session it books or the transfer's own. A closing transfer is left out as its execution does not debit the
  till: the closing did, in `SessionCaisse`.

### Sessions (`SessionCaisseProofs`)

* `SessionActiveUnique`: the invariant `UInv` adds to the property the type facts it needs and, for a session
  about to be taken up again, that the handler holds the till and cashier the session has.
* `TypeCorrect`, for any number of handlers, from `TInv == TypeOK /\ LignesSures /\ LecturesSures`: a handler
  that has read a session dereferences its holder when it writes, so a statut must never return to ABSENTE.
* `FermetureToujoursDefinitive`, for any number of handlers, from `UInv`: only the four steps of `Revenants` give a
  session another statut than CLOSED, each on the session its handler has read; a handler that begins reads a
  session whose statut it asks for, so none begins such a step on a closed session. The theorem is about the exact
  race the code allows: whoever read before the closing may undo it, nobody else.
* `SoldeToujoursJustifie`, for any number of handlers, from `TInv`: `EcrireSolde`, through which all the closings but
  one write, either comes with a movement or keeps the balance. `Finaliser` is the other: it inserts a movement when
  the balance it read differs from the one it writes, so without one it writes what it read, and a change means that
  the balance has moved since.

### Openings (`OuvertureCaisseProofs`)

`IInv` says what the columns of a session and of its transfer tell of each other (`LigneOK`), that a till has
one active session, that no row is held twice (`Exclusion`), and what each connection relies on at its step
(`EtatOK`). The proof has one shape throughout: what a step changes is on a row it holds, so what another
connection has tested on the rows *it* holds is unchanged (`Epargne`); the rest never goes back (`Stable`: a row
keeps its till and its amount, a transfer that was executed stays so).

* `SessionRefleteToujoursCaisse`: part of `IInv`; an execution credits the till and one session, or the till and
  `ImputesAilleurs`.
* `OuvertureToujoursFinancee`: a reception opens from the step that has found the transfer executed, and a
  transfer is never un-executed; it opens on the balance of the till because BALANCE_GUARD refuses the opening
  that would write another.
* `ImplementeCoffre`: `DebitPermis` is tested when the vault's row is locked, and true at the commit because the
  row is held; the unique key stops a second execution.
* `LiquiditeToujours`, by `Sommes`; `TypeCorrect`, by which neither vault nor till is ever negative: a till
  holds at least what its open session accounts for, and an operation is checked against the session.

### Cash between vaults (`CirculationCoffresProofs`)

The theorems of `CirculationCoffresProofs` hold under the assumptions of `CirculationCoffres` (a document names
two different places and a positive amount). They rest on `IInv == TypeOK /\ InvTic /\ InvEvc`, whose two last
parts say what the columns of a row tell of each other *whatever its statut was rewritten to*, and what stays
true of a row that a waiting handler has read.

* `TypeCorrect`: balances stay natural because the dispatch tests them under the lock.
* `StatutSuitArgent`: every UPDATE of an evacuation that is not under the row's lock compares the statut, except
  the reconciliation, and what that one read, DEPOSITED, only it can change.
* `ApprobationsRespectees`: an approval is decided on a row that another handler may rewrite before it is
  written; `InvTic` carries along that a first approver was not the creator, and that a second one came after a
  first.
* `Raffinement`: `Spec => Route!Spec`, from the keys that stop a second movement of one document.

### Payments (`PaiementMobileProofs`)

Here nothing is locked: six actors update a row by its id. `IInv` is about what a row cannot lose. `LigneOK`
ties the columns to the ledger (a movement has the type of its row, and somebody, pawaPay or an administrator,
said that the payment was made; SUCCESS or a credit paid out has its movement), `EtatOK` says what an actor
between two awaits may still rely on: about to settle, that the payment was made; having settled, that the key
is in the ledger; and a status written by id is never SUCCESS, which only the settlement writes. All three are
facts that only become true, so the order of the actors does not matter.

* `ReglementToujoursJustifie`, `SuccesToujoursComptabilise`: two parts of `IInv`.
* `CompteToujoursUneFois`, `CaisseToujoursSuffisante`: a further invariant (`Argent`) equates or bounds the
  balances by sums over the settled rows; a settlement adds one row to them, and its unique key is why it adds
  it once.
* `TypeCorrect`: an actor at work is on a row that exists, whatever list or callback it took the row from.

### Offline journal (`JournalHorsLigneProofs`)

What the server has recorded only grows (`Croit`), so what a tab was told stays true however old it is. `IInv`
follows an entry: a batch lists inscribed entries, each once; what a handler still has to do is not among what
it has answered; what it answers as accepted is recorded; what it is about to book is recorded.

* `ToujoursLivreUneFois`: the movement's unique key refuses a second booking, and a handler only books what it
  or another has recorded.
* `ToujoursConfirmeeRecue`: a tab confirms what was accepted, and rejects nothing that was.
* `TypeCorrect`: the journal is a sequence without repetition of the entries that have a status.

### Only model-checked

Liveness under fairness (`RequeteAboutit`, `AttenteBornee`) and ENABLED; that `Interblocage` finds every cycle
of waits (a transitive closure); `RegleDOr` and `TheoriqueSuitOperations`, for handlers that do not overlap, since they
do not hold otherwise. The three properties of violation runs are false.

## 5. Not modelled

Everything listed `not_modelled` in `PROJECT.json`. Within the parts that are modelled: the second count and the
approval of ecarts; regularisation tasks; postings to the general ledger, which can only roll a transaction back;
the audit tables; in `operations_caisse`, the rows of mobile money and of the agents' commissions, refunds, the generic
POST of an operation without an account, CASH_TRANSFER, whose sign is looked for in a text, and the SALARY_PAYMENT and
FEE_REFUND rows of the desk's queue, which move no balance: the tables of signs disagree on most of these as well;
validateClosingTransfer and processReversal, which nothing calls; the SQL function
close_expired_sessions, whose comparison of a text with a numeric always fails; isolation levels other than READ
COMMITTED.

The repository has 465 000 lines, of which the models translate some 2 %: by far the most are screens, seeds, generated
workers, listing and reporting routes, configuration, human resources and accounting tables, whose handlers read or
write one row and interact with nothing. The parts that move money between places, and the ones where several actors
write one row, are few thousand lines, and those are what the plan goes through.

## 6. Plan

Most important first. Done: 1 to 7.

1. `CoffreAbstrait`, `TransfertCoffre`: vault and transfers, refinement, separation, no wait for ever.
2. `TransfertCoffreProofs`, `CaisseProofs`.
3. `SessionCaisse`, `SessionCaisseProofs`.
4. `PaiementMobile`: answer, callback, polling and reconciliation of a payment.
5. `ArgentEnRoute`, `TransfertInterCoffres`, `EvacuationCoffre`, `CirculationCoffres` and its proofs.
6. `JournalHorsLigne`: a journal uploaded by several tabs and booked once.
7. `OuvertureCaisse`: the opening in steps on the vault's row, against the same abstract vault.
8. `Idempotence`: keys, upsert, cached answers and expiry, against "at most one execution per key".
9. `FileSortante`: the outbox with its two triggers (poll, NOTIFY), crash between mark and broadcast.
10. `Disjoncteur`: both circuit breakers, with calls that end after the state has changed.
11. `CaisseAgent`: an agent's session, pending operations, settlement with the till.
12. `Credit`: the two workflows of `shared/machines`, allocation of repayments as a function against a reference.
13. `VirementsProgrammes`: runs of a schedule that are retried.

Theorems worth proving next: lemmas about the operators of the models that several proofs use (`JournalDeFermeture`,
`EnOrdre`, `ImputesAilleurs`); `RegleDOr` and `TheoriqueSuitOperations`, from the hypothesis that the handlers of one
session do not overlap while all others do; `SessionFidele` with closing transfers, with the amount of those not yet
executed on the side of the till; that the database's own rules (`CreneauLibre`, the unique keys) follow from the
invariants wherever a handler does not rely on them.
