-------------------------- MODULE JournalHorsLigne --------------------------
(***************************************************************************)
(* The work of a field agent without network: operations are written to a  *)
(* journal on the device (client/src/lib/offline-treasury.ts and           *)
(* journal-service.ts), sent to the server when the network is back        *)
(* (syncService.ts) and booked there (server/routes/sync-journal.ts).      *)
(*                                                                         *)
(* The tabs of the browser share one IndexedDB.  Several may run a sync at *)
(* once: tabLeader.ts lets a new tab lead until it hears of an older one.  *)
(* An await of a handler, on the device or on the server, ends a step when *)
(* the step has read or written something others write; a Dexie            *)
(* transaction and an SQL transaction are one step each.                   *)
(***************************************************************************)
EXTENDS Integers, FiniteSets, SequencesExt

CONSTANTS
    Onglets,            \* tabs of the device, each may run a sync
    Taches,             \* handlers of POST /journal that may run at once
    Saisies,            \* calls of the agent that may run at once, in any tab
    Entrees,            \* entries that can be appended to the journal
    Montants,           \* cash impacts of the operations: deposits > 0, withdrawals < 0
    Chiffrements,       \* values hasEncryptionKey may take, set at the login
    SoldeOuverture,     \* openingBalance of the day session
    MaxCaisse,          \* limits.maxCaisseBalance
    MaxOperations,      \* limits.maxDailyOperations
    MaxEnAttente,       \* limits.maxPendingSync
    TailleLot,          \* JOURNAL_BATCH_SIZE
    AutreAgent,         \* another agent served the client of an entry the same day
    AUCUN

ASSUME ConstantesJournal ==
    /\ IsFiniteSet(Onglets) /\ IsFiniteSet(Saisies) /\ IsFiniteSet(Entrees)
    /\ Montants \subseteq Int \ {0}
    /\ Chiffrements \subseteq BOOLEAN /\ AutreAgent \in BOOLEAN
    /\ SoldeOuverture \in Nat /\ MaxCaisse \in Nat
    /\ MaxOperations \in Nat /\ MaxEnAttente \in Nat /\ TailleLot \in Nat \ {0}
    /\ AUCUN \notin Entrees \cup Taches

VARIABLES
    \* IndexedDB of the device
    journal,            \* the entries appended, in order
    impact,             \* entry -> its cash impact, 0 when it moves no money
    etat,               \* entry -> syncStatus
    session,            \* the row of agentDaySessions
    chiffre,            \* the payloads are encrypted in the journal
    \* What the tabs are doing
    operation,          \* executeOfflineOperation or closeDaySession
    synchro,            \* syncJournal
    \* The server
    recu,               \* keys of offline_journal_entries
    mouvements,         \* entry -> movements booked for it
    traitement          \* handler -> the upload it works on

varsAppareil == <<journal, impact, etat, session, chiffre>>
varsServeur  == <<recu, mouvements, traitement>>
vars == <<varsAppareil, operation, synchro, varsServeur>>

Etats == {"absente", "local", "syncing", "confirmed", "rejected"}

Repos == [etape |-> "repos", montant |-> 0, solde |-> 0, nombre |-> 0]
SynchroRepos == [etape |-> "repos", liste |-> <<>>, acceptees |-> {}, rejetees |-> {},
                 statut |-> "open", tache |-> AUCUN]
Inactif == [etape |-> "inactif", lot |-> <<>>, acceptees |-> {}, rejetees |-> {}]

Init ==
    /\ journal = <<>>
    /\ impact = [e \in Entrees |-> 0]
    /\ etat = [e \in Entrees |-> "absente"]
    /\ session = [statut |-> "open", fermee |-> FALSE,
                  solde |-> SoldeOuverture, nombre |-> 0]
    /\ chiffre \in Chiffrements
    /\ operation = [f \in Saisies |-> Repos]
    /\ synchro = [o \in Onglets |-> SynchroRepos]
    /\ recu = {}
    /\ mouvements = [e \in Entrees |-> 0]
    /\ traitement = [h \in Taches |-> Inactif]

-----------------------------------------------------------------------------
(* The device: an operation of the agent.                                  *)

VaEn(f, suite) ==
    /\ operation' = [operation EXCEPT ![f] = suite]
    /\ UNCHANGED <<synchro, varsServeur>>

(* canExecuteOffline, on the session and the backlog it reads.  The statut *)
(* of the session is not looked at.                                        *)
Permise(montant) ==
    /\ session.solde + montant \in 0..MaxCaisse
    /\ session.nombre < MaxOperations
    /\ Cardinality({e \in Entrees : etat[e] = "local"}) < MaxEnAttente

Verifier(f, montant) ==
    /\ operation[f] = Repos
    /\ Permise(montant)
    /\ VaEn(f, [Repos EXCEPT !.etape = "verifiee", !.montant = montant])
    /\ UNCHANGED varsAppareil

(* The second read of the session, whose values the last step writes back. *)
LireSession(f) ==
    /\ operation[f].etape = "verifiee"
    /\ VaEn(f, [operation[f] EXCEPT !.etape = "lue", !.solde = session.solde,
                                    !.nombre = session.nombre])
    /\ UNCHANGED varsAppareil

(* appendJournalEntry: one transaction gives the next sequence number.     *)
Ajouter(e, montant) ==
    /\ etat[e] = "absente"
    /\ journal' = Append(journal, e)
    /\ impact' = [impact EXCEPT ![e] = montant]
    /\ etat' = [etat EXCEPT ![e] = "local"]
    /\ UNCHANGED <<session, chiffre>>

Journaliser(f, e) ==
    /\ operation[f].etape = "lue"
    /\ Ajouter(e, operation[f].montant)
    /\ VaEn(f, [operation[f] EXCEPT !.etape = "ajoutee"])

Compter(f) ==
    LET op == operation[f] IN
    /\ op.etape = "ajoutee"
    /\ session' = [session EXCEPT !.solde = op.solde + op.montant,
                                  !.nombre = op.nombre + 1]
    /\ VaEn(f, Repos)
    /\ UNCHANGED <<journal, impact, etat, chiffre>>

FermerLire(f) ==
    /\ operation[f] = Repos
    /\ session.statut = "open"
    /\ VaEn(f, [Repos EXCEPT !.etape = "fermer"])
    /\ UNCHANGED varsAppareil

Fermer(f) ==
    /\ operation[f].etape = "fermer"
    /\ session' = [session EXCEPT !.statut = "closed", !.fermee = TRUE]
    /\ VaEn(f, [Repos EXCEPT !.etape = "fermee"])
    /\ UNCHANGED <<journal, impact, etat, chiffre>>

(* The CAISSE_CLOSE entry.                                                 *)
FermerJournaliser(f, e) ==
    /\ operation[f].etape = "fermee"
    /\ Ajouter(e, 0)
    /\ VaEn(f, Repos)

Operer(f) ==
    \/ \E m \in Montants : Verifier(f, m)
    \/ LireSession(f)
    \/ \E e \in Entrees : Journaliser(f, e) \/ FermerJournaliser(f, e)
    \/ Compter(f)
    \/ FermerLire(f)
    \/ Fermer(f)

-----------------------------------------------------------------------------
(* The device: syncJournal.                                                *)

Passe(o, suite) ==
    /\ synchro' = [synchro EXCEPT ![o] = suite]
    /\ UNCHANGED operation

(* The entries of the batch under way, and the batches that follow it.     *)
Coupe(o) == IF Len(synchro[o].liste) < TailleLot THEN Len(synchro[o].liste) ELSE TailleLot
Lot(o) == SubSeq(synchro[o].liste, 1, Coupe(o))
Restent(o) == SubSeq(synchro[o].liste, Coupe(o) + 1, Len(synchro[o].liste))

Marquer(es, valeur) ==
    /\ etat' = [e \in Entrees |-> IF e \in es THEN valeur ELSE etat[e]]
    /\ UNCHANGED <<journal, impact, session, chiffre>>

(* The sequence number of an entry, and entries sorted by that number.     *)
Rang(e) == CHOOSE i \in DOMAIN journal : journal[i] = e

EnOrdre(es) ==
    {l \in [1..Cardinality(es) -> es] :
        \A i, j \in DOMAIN l : i < j => Rang(l[i]) < Rang(l[j])}

(* The handshake, which changes nothing here, and the list of the entries. *)
Lister(o) ==
    /\ synchro[o].etape = "repos"
    /\ \E liste \in EnOrdre({e \in Entrees : etat[e] = "local"}) :
          Passe(o, [SynchroRepos EXCEPT !.etape = "lots", !.liste = liste])
    /\ UNCHANGED <<varsAppareil, varsServeur>>

(* The answer to the last batch has been written down.                     *)
LotAcheve(o) ==
    /\ synchro[o].etape = "lots"
    /\ synchro[o].acceptees = {} /\ synchro[o].rejetees = {}

(* markEntriesSyncing, then the upload, which starts a handler.  One that  *)
(* an earlier upload left behind may still be at work.                     *)
EnvoyerLot(o, h) ==
    /\ LotAcheve(o)
    /\ synchro[o].liste # <<>>
    /\ traitement[h] = Inactif
    /\ Marquer(ToSet(Lot(o)), "syncing")
    /\ traitement' = [traitement EXCEPT ![h] =
                         [Inactif EXCEPT !.etape = "verifier", !.lot = Lot(o)]]
    /\ Passe(o, [synchro[o] EXCEPT !.etape = "attente", !.tache = h])
    /\ UNCHANGED <<recu, mouvements>>

(* The request or its answer is lost, or the answer is an HTTP error: the  *)
(* batch is to be marked rejected, though the handler may be at work or    *)
(* done, and the other batches wait for another sync.                      *)
EchecReseau(o) ==
    /\ synchro[o].etape = "attente"
    /\ Passe(o, [SynchroRepos EXCEPT !.etape = "lots", !.rejetees = ToSet(Lot(o))])
    /\ UNCHANGED <<varsAppareil, varsServeur>>

(* The answer has arrived: what the tab is told, and its next batches.     *)
Recoit(o, acceptees, rejetees) ==
    LET h == synchro[o].tache IN
    /\ synchro[o].etape = "attente"
    /\ traitement[h].etape = "repondre"
    /\ traitement' = [traitement EXCEPT ![h] = Inactif]
    /\ Passe(o, [synchro[o] EXCEPT !.etape = "lots", !.liste = Restent(o), !.tache = AUCUN,
                    !.acceptees = acceptees, !.rejetees = rejetees])
    /\ UNCHANGED <<varsAppareil, recu, mouvements>>

ReponseParDefaut(o) ==                          \* Mutant
    LET t == traitement[synchro[o].tache] IN
    Recoit(o, ToSet(Lot(o)) \ t.rejetees, t.rejetees)

Reponse(o) ==
    LET t == traitement[synchro[o].tache] IN
    Recoit(o, t.acceptees, t.rejetees)

(* markEntriesConfirmed, then markEntriesRejected, one entry at a time.    *)
(* Nothing is written for the entries in conflict.                         *)
MarquerConfirmee(o, e) ==
    /\ e \in synchro[o].acceptees
    /\ Marquer({e}, "confirmed")
    /\ Passe(o, [synchro[o] EXCEPT !.acceptees = @ \ {e}])
    /\ UNCHANGED varsServeur

MarquerRejetee(o, e) ==
    /\ synchro[o].acceptees = {}
    /\ e \in synchro[o].rejetees
    /\ Marquer({e}, "rejected")
    /\ Passe(o, [synchro[o] EXCEPT !.rejetees = @ \ {e}])
    /\ UNCHANGED varsServeur

(* No batch left, or no network between two of them: markSyncedSessions    *)
(* looks whether every entry of the day has an answer.                     *)
FinDesLots(o) ==
    /\ LotAcheve(o)
    /\ Passe(o, IF session.statut \in {"open", "closed"}
                   /\ \A e \in ToSet(journal) : etat[e] \in {"confirmed", "rejected"}
                THEN [SynchroRepos EXCEPT !.etape = "session"]
                ELSE SynchroRepos)
    /\ UNCHANGED <<varsAppareil, varsServeur>>

(* markSessionSynced reads closedAt, then writes the statut it stands for. *)
SessionLire(o) ==
    /\ synchro[o].etape = "session"
    /\ Passe(o, [SynchroRepos EXCEPT !.etape = "ecrire",
                    !.statut = IF session.fermee THEN "synced" ELSE "open"])
    /\ UNCHANGED <<varsAppareil, varsServeur>>

SessionMarquer(o) ==
    /\ synchro[o].etape = "ecrire"
    /\ session' = [session EXCEPT !.statut = synchro[o].statut]
    /\ Passe(o, SynchroRepos)
    /\ UNCHANGED <<journal, impact, etat, chiffre, varsServeur>>

Synchroniser(o) ==
    \/ Lister(o) \/ EchecReseau(o) \/ Reponse(o)
    \/ \E h \in Taches : EnvoyerLot(o, h)
    \/ FinDesLots(o) \/ SessionLire(o) \/ SessionMarquer(o)
    \/ \E e \in Entrees : MarquerConfirmee(o, e) \/ MarquerRejetee(o, e)

-----------------------------------------------------------------------------
(* The server: POST /journal, one entry of the batch after the other.      *)

CoteServeur == UNCHANGED <<varsAppareil, operation, synchro>>

AvanceSansFin(h, etape, acceptees, rejetees) == \* Mutant
    traitement' = [traitement EXCEPT ![h] =
        [etape |-> IF etape = "suivante" THEN "verifier" ELSE etape,
         lot |-> IF etape = "suivante" THEN Tail(@.lot) ELSE @.lot,
         acceptees |-> @.acceptees \cup acceptees,
         rejetees |-> @.rejetees \cup rejetees]]

Avance(h, etape, acceptees, rejetees) ==
    traitement' = [traitement EXCEPT ![h] =
        [etape |-> IF etape = "suivante"
                   THEN IF Len(@.lot) = 1 THEN "repondre" ELSE "verifier"
                   ELSE etape,
         lot |-> IF etape = "suivante" THEN Tail(@.lot) ELSE @.lot,
         acceptees |-> @.acceptees \cup acceptees,
         rejetees |-> @.rejetees \cup rejetees]]

(* An encrypted payload is sent empty: no amount to book, no client.       *)
ConflitPossible(e) == AutreAgent /\ impact[e] # 0 /\ ~chiffre

(* The checks that come before the INSERT.  What the agent, the key, the   *)
(* signature, the hash, the clock (48 hours) and the limits say of an      *)
(* entry is left to chance, and the first and any error refuse even one    *)
(* that is recorded; an empty payload is refused when an amount is         *)
(* expected.                                                               *)
Controler(h) ==
    LET e == Head(traitement[h].lot) IN
    /\ traitement[h].etape = "verifier"
    /\ \/ Avance(h, "suivante", {}, {e})
       \/ e \in recu    /\ Avance(h, "suivante", {e}, {})
       \/ e \notin recu /\ ConflitPossible(e) /\ Avance(h, "suivante", {}, {})
       \/ e \notin recu /\ (chiffre => impact[e] = 0)
                        /\ Avance(h, "inserer", {}, {})
    /\ UNCHANGED <<recu, mouvements>>
    /\ CoteServeur

(* A row of offline_journal_entries, or of mouvements_financiers, holds    *)
(* this idempotency key.                                                   *)
CleToujoursLibre(e, cles) == TRUE               \* Mutant
CleLibre(e, cles) == e \notin cles

(* The INSERT, refused when another handler got there first, and the       *)
(* update of the device key: an error of either, even after the INSERT, is *)
(* answered as a rejection.                                                *)
Inserer(h) ==
    LET e == Head(traitement[h].lot) IN
    /\ traitement[h].etape = "inserer"
    /\ \/ recu' = recu /\ Avance(h, "suivante", {}, {e})
       \/ /\ CleLibre(e, recu)
          /\ recu' = recu \cup {e}
          /\ \/ Avance(h, "suivante", {}, {e})
             \/ impact[e] = 0 /\ Avance(h, "suivante", {e}, {})
             \/ impact[e] # 0 /\ Avance(h, "executer", {}, {})
    /\ UNCHANGED mouvements
    /\ CoteServeur

(* executeJournalBusinessOperation: a transaction of its own, whose        *)
(* failure is logged and changes nothing to the answer.                    *)
Executer(h) ==
    LET e == Head(traitement[h].lot) IN
    /\ traitement[h].etape = "executer"
    /\ \/ /\ CleLibre(e, {f \in Entrees : mouvements[f] > 0})
          /\ mouvements' = [mouvements EXCEPT ![e] = @ + 1]
       \/ UNCHANGED mouvements
    /\ Avance(h, "suivante", {e}, {})
    /\ UNCHANGED recu
    /\ CoteServeur

(* Nobody waits for the answer any more, or the server restarts.           *)
Abandonner(h) ==
    /\ traitement[h] # Inactif
    /\ traitement' = [traitement EXCEPT ![h] = Inactif]
    /\ \A o \in Onglets : synchro[o].tache # h
    /\ UNCHANGED <<recu, mouvements>>
    /\ CoteServeur

Traiter(h) == Controler(h) \/ Inserer(h) \/ Executer(h) \/ Abandonner(h)

-----------------------------------------------------------------------------
(* A tab is closed in the middle of whatever it did.                       *)
AbandonnerSaisie(f) ==
    /\ operation[f] # Repos
    /\ VaEn(f, Repos)
    /\ UNCHANGED varsAppareil

FermerOnglet(o) ==
    /\ synchro[o] # SynchroRepos
    /\ Passe(o, SynchroRepos)
    /\ UNCHANGED <<varsAppareil, varsServeur>>

Next ==
    \/ \E f \in Saisies : Operer(f) \/ AbandonnerSaisie(f)
    \/ \E o \in Onglets : Synchroniser(o) \/ FermerOnglet(o)
    \/ \E h \in Taches : Traiter(h)

Spec == Init /\ [][Next]_vars

-----------------------------------------------------------------------------
(* The state keeps its types; a handler of the server at work has an entry *)
(* of its batch to work on, and the journal lists what was appended once.  *)
TypeOK ==
    /\ ToSet(journal) = {e \in Entrees : etat[e] # "absente"}
    /\ Len(journal) = Cardinality(ToSet(journal))
    /\ impact \in [Entrees -> Montants \cup {0}]
    /\ chiffre \in BOOLEAN
    /\ etat \in [Entrees -> Etats]
    /\ session \in [statut : {"open", "closed", "synced"}, fermee : BOOLEAN,
                     solde : Int, nombre : Nat]
    /\ operation \in [Saisies -> [etape : {"repos", "verifiee", "lue", "ajoutee", "fermer", "fermee"},
                                   montant : Int, solde : Int, nombre : Nat]]
    /\ \A o \in Onglets :
          /\ ToSet(synchro[o].liste) \subseteq ToSet(journal)
          /\ synchro[o].acceptees \cap synchro[o].rejetees = {}
          /\ synchro[o].etape = "attente" => synchro[o].tache \in Taches
    /\ \A h \in Taches :
          traitement[h].etape \in {"verifier", "inserer", "executer"} => traitement[h].lot # <<>>
    /\ recu \subseteq ToSet(journal)
    /\ mouvements \in [Entrees -> Nat]

(* However many tabs upload an entry, and however often an answer is lost, *)
(* the server books it once at most, and only after it recorded the entry  *)
(* in its own journal.                                                     *)
LivreUneFois ==
    \A e \in Entrees : mouvements[e] <= 1 /\ (mouvements[e] = 1 => e \in recu)

(* An entry the device shows as confirmed is on the server: no answer that *)
(* came late, from another tab or without a word on the entry says so.     *)
ConfirmeeRecue == \A e \in Entrees : etat[e] = "confirmed" => e \in recu
=============================================================================
