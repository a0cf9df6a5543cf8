----------------------- MODULE JournalHorsLigneProofs -----------------------
(***************************************************************************)
(* Theorems about JournalHorsLigne, for any number of tabs, calls and      *)
(* entries.  What the server has recorded only grows, so what a handler or *)
(* a tab holds of it, however old, stays true: the invariant follows each  *)
(* entry from the journal to the batch, to the answer and back.            *)
(***************************************************************************)
EXTENDS JournalHorsLigne, SequenceTheorems, FiniteSetTheorems, TLAPS

Statuts == {"open", "closed", "synced"}

Operations == [etape : {"repos", "verifiee", "lue", "ajoutee", "fermer", "fermee"},
               montant : Int, solde : Int, nombre : Nat]

Synchros == [etape : {"repos", "lots", "attente", "session", "ecrire"}, liste : Seq(Entrees),
             acceptees : SUBSET Entrees, rejetees : SUBSET Entrees, statut : Statuts,
             tache : Taches \cup {AUCUN}]

Traitements == [etape : {"inactif", "verifier", "inserer", "executer", "repondre"}, lot : Seq(Entrees),
                acceptees : SUBSET Entrees, rejetees : SUBSET Entrees]

AuTravail == {"verifier", "inserer", "executer"}

Inscrite(e) == etat[e] # "absente"

SansDoublon(s) == \A i, j \in 1..Len(s) : s[i] = s[j] => i = j

(* The device lists, once each, the entries that have a statut.            *)
AppareilOK ==
    /\ journal \in Seq(Entrees)
    /\ ToSet(journal) = {e \in Entrees : Inscrite(e)}
    /\ Len(journal) = Cardinality(ToSet(journal))
    /\ impact \in [Entrees -> Montants \cup {0}]
    /\ chiffre \in BOOLEAN
    /\ etat \in [Entrees -> Etats]
    /\ session \in [statut : Statuts, fermee : BOOLEAN, solde : Int, nombre : Nat]

(* An operation at work has an amount the agent typed.                     *)
OperationOK(op) == op.etape \in {"verifiee", "lue", "ajoutee"} => op.montant \in Montants

OperationsOK ==
    /\ operation \in [Saisies -> Operations]
    /\ \A f \in Saisies : OperationOK(operation[f])

(* What a tab has listed, and what it was told of an entry.                *)
SynchroOK(s) ==
    /\ \A i \in 1..Len(s.liste) : Inscrite(s.liste[i])
    /\ SansDoublon(s.liste)
    /\ s.acceptees \subseteq recu
    /\ \A e \in s.rejetees : Inscrite(e)
    /\ s.acceptees \cap s.rejetees = {}
    /\ s.etape = "attente" => s.tache \in Taches

SynchrosOK ==
    /\ synchro \in [Onglets -> Synchros]
    /\ \A o \in Onglets : SynchroOK(synchro[o])

(* What a handler has left to do, and what it will answer.  It books only  *)
(* what is recorded.                                                       *)
TraitementOK(t) ==
    /\ \A i \in 1..Len(t.lot) : Inscrite(t.lot[i]) /\ t.lot[i] \notin t.acceptees \cup t.rejetees
    /\ SansDoublon(t.lot)
    /\ t.acceptees \subseteq recu
    /\ \A e \in t.rejetees : Inscrite(e)
    /\ t.acceptees \cap t.rejetees = {}
    /\ t.etape \in AuTravail => t.lot # <<>>
    /\ t.etape = "executer" => Head(t.lot) \in recu

TraitementsOK ==
    /\ traitement \in [Taches -> Traitements]
    /\ \A h \in Taches : TraitementOK(traitement[h])

ServeurOK ==
    /\ recu \in SUBSET Entrees
    /\ \A e \in recu : Inscrite(e)
    /\ mouvements \in [Entrees -> Nat]

IInv ==
    /\ AppareilOK /\ OperationsOK /\ SynchrosOK /\ TraitementsOK /\ ServeurOK
    /\ LivreUneFois
    /\ ConfirmeeRecue
-----------------------------------------------------------------------------
(***************************************************************************)
(* Entries are inscribed and recorded for good.                            *)
(***************************************************************************)
Croit ==
    /\ \A e \in Entrees : Inscrite(e) => Inscrite(e)'
    /\ recu \subseteq recu'

(* The set of a sequence of entries is made of its elements.               *)
LEMMA ElementDeSuite ==
    ASSUME NEW s \in Seq(Entrees)
    PROVE  ToSet(s) = {s[i] : i \in 1..Len(s)} /\ ToSet(s) \in SUBSET Entrees
BY DEF ToSet

(* What Head and Tail return of a sequence of entries.                     *)
LEMMA TeteQueue ==
    ASSUME NEW s \in Seq(Entrees), s # <<>>
    PROVE  /\ Head(s) = s[1] /\ Head(s) \in Entrees /\ Len(s) \in Nat \ {0}
           /\ Tail(s) \in Seq(Entrees) /\ Len(Tail(s)) = Len(s) - 1
           /\ \A i \in 1..Len(s) - 1 : Tail(s)[i] = s[i + 1]
           /\ Len(s) # 1 => Tail(s) # <<>>
<1>1. /\ Head(s) = s[1] /\ Head(s) \in Entrees /\ Len(s) \in Nat \ {0}
      /\ Tail(s) \in Seq(Entrees) /\ Len(Tail(s)) = Len(s) - 1
      /\ \A i \in 1..Len(s) - 1 : Tail(s)[i] = s[i + 1]
    OBVIOUS
<1>2. Len(s) # 1 => Tail(s) # <<>>
    <2>1. PICK u : u = Tail(s)
        OBVIOUS
    <2>2. Len(s) # 1 => Len(u) # 0
        BY <1>1, <2>1
    <2>3. u = <<>> => Len(u) = 0
        BY EmptySeq
    <2> QED BY <2>1, <2>2, <2>3
<1> QED BY <1>1, <1>2

(* What a synchronisation knows stays true while entries are only added    *)
(* and received.                                                           *)
LEMMA SynchroGarde ==
    ASSUME Croit, NEW s \in Synchros, SynchroOK(s)
    PROVE  SynchroOK(s)'
<1>1. /\ \A i \in 1..Len(s.liste) : s.liste[i] \in Entrees
      /\ s.rejetees \subseteq Entrees
    BY DEF Synchros
<1> QED BY <1>1 DEF SynchroOK, Croit

(* What the handling of an upload knows stays true likewise.               *)
LEMMA TraitementGarde ==
    ASSUME Croit, NEW t \in Traitements, TraitementOK(t)
    PROVE  TraitementOK(t)'
<1>1. /\ \A i \in 1..Len(t.lot) : t.lot[i] \in Entrees
      /\ t.rejetees \subseteq Entrees
    BY DEF Traitements
<1> QED BY <1>1 DEF TraitementOK, Croit

(* One tab writes what it holds, or none does.                             *)
LEMMA PasSynchro ==
    ASSUME SynchrosOK, Croit, NEW o \in Onglets, NEW s \in Synchros, SynchroOK(s)',
           synchro' = [synchro EXCEPT ![o] = s]
    PROVE  SynchrosOK'
<1>1. synchro' \in [Onglets -> Synchros]
    BY DEF SynchrosOK
<1>2. ASSUME NEW p \in Onglets PROVE SynchroOK(synchro[p])'
    <2>1. PICK r \in Synchros : r = synchro[p] /\ SynchroOK(r)
        BY DEF SynchrosOK
    <2>2. SynchroOK(r)'
        BY <2>1, SynchroGarde
    <2>3. synchro'[p] = IF p = o THEN s ELSE r
        BY <2>1 DEF SynchrosOK
    <2> QED BY <2>2, <2>3
<1> QED BY <1>1, <1>2 DEF SynchrosOK

(* No synchronisation moves.                                               *)
LEMMA SynchroIdem ==
    ASSUME SynchrosOK, Croit, UNCHANGED synchro
    PROVE  SynchrosOK'
<1>1. ASSUME NEW p \in Onglets PROVE SynchroOK(synchro[p])'
    <2>1. PICK r \in Synchros : r = synchro[p] /\ SynchroOK(r)
        BY DEF SynchrosOK
    <2>2. SynchroOK(r)'
        BY <2>1, SynchroGarde
    <2> QED BY <2>1, <2>2
<1> QED BY <1>1 DEF SynchrosOK

(* One handling of an upload goes on.                                      *)
LEMMA PasTraitement ==
    ASSUME TraitementsOK, Croit, NEW h \in Taches, NEW t \in Traitements, TraitementOK(t)',
           traitement' = [traitement EXCEPT ![h] = t]
    PROVE  TraitementsOK'
<1>1. traitement' \in [Taches -> Traitements]
    BY DEF TraitementsOK
<1>2. ASSUME NEW p \in Taches PROVE TraitementOK(traitement[p])'
    <2>1. PICK r \in Traitements : r = traitement[p] /\ TraitementOK(r)
        BY DEF TraitementsOK
    <2>2. TraitementOK(r)'
        BY <2>1, TraitementGarde
    <2>3. traitement'[p] = IF p = h THEN t ELSE r
        BY <2>1 DEF TraitementsOK
    <2> QED BY <2>2, <2>3
<1> QED BY <1>1, <1>2 DEF TraitementsOK

(* No handling of an upload moves.                                         *)
LEMMA TraitementIdem ==
    ASSUME TraitementsOK, Croit, UNCHANGED traitement
    PROVE  TraitementsOK'
<1>1. ASSUME NEW p \in Taches PROVE TraitementOK(traitement[p])'
    <2>1. PICK r \in Traitements : r = traitement[p] /\ TraitementOK(r)
        BY DEF TraitementsOK
    <2>2. TraitementOK(r)'
        BY <2>1, TraitementGarde
    <2> QED BY <2>1, <2>2
<1> QED BY <1>1 DEF TraitementsOK

(* The server has received nothing and booked nothing.                     *)
LEMMA ServeurIdem ==
    ASSUME IInv, Croit, UNCHANGED <<recu, mouvements>>
    PROVE  ServeurOK' /\ LivreUneFois'
BY DEF IInv, ServeurOK, LivreUneFois, Croit, Inscrite

(* The device has written nothing.                                         *)
LEMMA AppareilIdem ==
    ASSUME IInv, UNCHANGED varsAppareil, recu \subseteq recu'
    PROVE  AppareilOK' /\ ConfirmeeRecue' /\ Croit
BY DEF IInv, AppareilOK, ConfirmeeRecue, Croit, Inscrite, varsAppareil

(* No operation of the device moves.                                       *)
LEMMA OperationIdem ==
    ASSUME OperationsOK, UNCHANGED operation
    PROVE  OperationsOK'
BY DEF OperationsOK, OperationOK

(* The states of rest are typed and know nothing.                          *)
LEMMA Repos_Inactif ==
    /\ SynchroRepos \in Synchros /\ SynchroOK(SynchroRepos)
    /\ Inactif \in Traitements /\ TraitementOK(Inactif)
    /\ Repos \in Operations /\ OperationOK(Repos)
<1>1. SynchroRepos \in Synchros /\ SynchroOK(SynchroRepos)
    BY DEF SynchroRepos, Synchros, SynchroOK, SansDoublon, Statuts
<1>2. Inactif \in Traitements /\ TraitementOK(Inactif)
    BY DEF Inactif, Traitements, TraitementOK, SansDoublon, AuTravail
<1>3. Repos \in Operations /\ OperationOK(Repos)
    BY DEF Repos, Operations, OperationOK
<1> QED BY <1>1, <1>2, <1>3

(* The invariant holds at the start.                                       *)
LEMMA InitIInv == Init => IInv
<1> SUFFICES ASSUME Init PROVE IInv
    OBVIOUS
<1>1. AppareilOK
    <2>1. journal \in Seq(Entrees) /\ ToSet(journal) = {} /\ Len(journal) = 0
        BY DEF Init, ToSet
    <2>2. Cardinality({}) = 0
        BY FS_EmptySet
    <2>3. chiffre \in BOOLEAN /\ session \in [statut : Statuts, fermee : BOOLEAN, solde : Int, nombre : Nat]
        BY ConstantesJournal DEF Init, Statuts
    <2> QED BY <2>1, <2>2, <2>3 DEF Init, AppareilOK, Inscrite, Etats
<1>2. OperationsOK /\ SynchrosOK /\ TraitementsOK
    BY Repos_Inactif DEF Init, OperationsOK, SynchrosOK, TraitementsOK
<1> QED BY <1>1, <1>2 DEF Init, IInv, ServeurOK, LivreUneFois, ConfirmeeRecue
-----------------------------------------------------------------------------
(***************************************************************************)
(* The device: operations.                                                 *)
(***************************************************************************)
LEMMA PasOperation ==
    ASSUME OperationsOK, NEW f \in Saisies, NEW op \in Operations, OperationOK(op), VaEn(f, op)
    PROVE  OperationsOK'
BY DEF OperationsOK, OperationOK, VaEn

(* What a step of an operation has to show.                                *)
LEMMA SaisieOK ==
    ASSUME IInv, NEW f \in Saisies, NEW op \in Operations, OperationOK(op), VaEn(f, op),
           AppareilOK', \A e \in Entrees : Inscrite(e) => Inscrite(e)', ConfirmeeRecue'
    PROVE  IInv'
<1>1. Croit /\ UNCHANGED <<synchro, recu, mouvements, traitement>>
    BY DEF VaEn, varsServeur, Croit
<1>2. OperationsOK'
    BY PasOperation DEF IInv
<1>3. SynchrosOK' /\ TraitementsOK'
    BY <1>1, SynchroIdem, TraitementIdem DEF IInv
<1>4. ServeurOK' /\ LivreUneFois'
    BY <1>1, ServeurIdem
<1> QED BY <1>2, <1>3, <1>4 DEF IInv

(* A step of an operation that writes nothing in the database.             *)
LEMMA SaisieSeule ==
    ASSUME IInv, NEW f \in Saisies, NEW op \in Operations, OperationOK(op), VaEn(f, op),
           UNCHANGED varsAppareil
    PROVE  IInv'
<1>1. recu' = recu
    BY DEF VaEn, varsServeur
<1>2. AppareilOK' /\ ConfirmeeRecue' /\ Croit
    BY <1>1, AppareilIdem
<1> QED BY <1>2, SaisieOK DEF Croit

(* An entry is added at the end of the journal.                            *)
LEMMA Inscription ==
    ASSUME IInv, NEW e \in Entrees, NEW m \in Montants \cup {0}, Ajouter(e, m), recu' = recu
    PROVE  /\ AppareilOK' /\ ConfirmeeRecue'
           /\ \A x \in Entrees : Inscrite(x) => Inscrite(x)'
<1>1. /\ journal' = Append(journal, e) /\ etat[e] = "absente"
      /\ impact' = [impact EXCEPT ![e] = m] /\ etat' = [etat EXCEPT ![e] = "local"]
      /\ UNCHANGED <<session, chiffre>>
    BY DEF Ajouter
<1>2. /\ journal \in Seq(Entrees) /\ Len(journal) \in Nat
      /\ etat \in [Entrees -> Etats] /\ impact \in [Entrees -> Montants \cup {0}]
    BY DEF IInv, AppareilOK
<1>3. \A x \in Entrees : etat'[x] = IF x = e THEN "local" ELSE etat[x]
    BY <1>1, <1>2
<1>4. /\ journal' \in Seq(Entrees) /\ Len(journal') = Len(journal) + 1
      /\ \A i \in 1..Len(journal) : journal'[i] = journal[i]
      /\ journal'[Len(journal) + 1] = e
    BY <1>1, <1>2
<1>5. ToSet(journal') = ToSet(journal) \cup {e}
    <2>1. ToSet(journal) = {journal[i] : i \in 1..Len(journal)}
        BY <1>2, ElementDeSuite
    <2>2. ToSet(journal') = {journal'[i] : i \in 1..Len(journal) + 1}
        BY <1>4, ElementDeSuite
    <2>3. \A i \in 1..Len(journal) + 1 : i \in 1..Len(journal) \/ i = Len(journal) + 1
        BY <1>2
    <2>4. \A i \in 1..Len(journal) : i \in 1..Len(journal) + 1
        BY <1>2
    <2>5. Len(journal) + 1 \in 1..Len(journal) + 1
        BY <1>2
    <2> QED BY <1>4, <2>1, <2>2, <2>3, <2>4, <2>5
<1>6. e \notin ToSet(journal) /\ IsFiniteSet(ToSet(journal))
    <2>1. ToSet(journal) \in SUBSET Entrees /\ e \notin ToSet(journal)
        BY <1>1 DEF IInv, AppareilOK, Inscrite
    <2> QED BY <2>1, FS_Subset, ConstantesJournal
<1>7. Cardinality(ToSet(journal')) = Cardinality(ToSet(journal)) + 1
    BY <1>5, <1>6, FS_AddElement
<1>8. ToSet(journal') = {x \in Entrees : etat'[x] # "absente"}
    BY <1>3, <1>5 DEF IInv, AppareilOK, Inscrite
<1>9. impact' \in [Entrees -> Montants \cup {0}] /\ etat' \in [Entrees -> Etats]
    BY <1>1, <1>2 DEF Etats
<1>10. AppareilOK'
    <2>1. Len(journal') = Cardinality(ToSet(journal'))
        BY <1>4, <1>7 DEF IInv, AppareilOK
    <2> QED BY <1>1, <1>4, <1>8, <1>9, <2>1 DEF IInv, AppareilOK, Inscrite
<1>11. ConfirmeeRecue'
    BY <1>3 DEF IInv, ConfirmeeRecue
<1> QED BY <1>3, <1>10, <1>11 DEF Inscrite

(* An operation entered on the device.                                     *)
LEMMA OpererOK ==
    ASSUME IInv, NEW f \in Saisies, Operer(f)
    PROVE  IInv'
<1>1. PICK op \in Operations : operation[f] = op /\ OperationOK(op)
    BY DEF IInv, OperationsOK
<1>2. session \in [statut : Statuts, fermee : BOOLEAN, solde : Int, nombre : Nat]
    BY DEF IInv, AppareilOK
<1>3. ASSUME NEW m \in Montants, Verifier(f, m) PROVE IInv'
    <2>1. PICK n \in Int : n = m /\ n \in Montants
        BY ConstantesJournal
    <2> DEFINE r == [Repos EXCEPT !.etape = "verifiee", !.montant = n]
    <2>2. r \in Operations /\ OperationOK(r)
        BY <2>1, Repos_Inactif DEF Repos, Operations, OperationOK
    <2>3. VaEn(f, r) /\ UNCHANGED varsAppareil
        BY <1>3, <2>1 DEF Verifier
    <2> HIDE DEF r
    <2> QED BY <2>2, <2>3, SaisieSeule
<1>4. CASE LireSession(f)
    <2>1. PICK d \in Int, n \in Nat : d = session.solde /\ n = session.nombre
        BY <1>2
    <2> DEFINE r == [op EXCEPT !.etape = "lue", !.solde = d, !.nombre = n]
    <2>2. r \in Operations /\ OperationOK(r)
        BY <1>1, <1>4 DEF Operations, OperationOK, LireSession
    <2>3. VaEn(f, r) /\ UNCHANGED varsAppareil
        BY <1>1, <1>4, <2>1 DEF LireSession
    <2> HIDE DEF r
    <2> QED BY <2>2, <2>3, SaisieSeule
<1>5. ASSUME NEW e \in Entrees, Journaliser(f, e) PROVE IInv'
    <2> DEFINE r == [op EXCEPT !.etape = "ajoutee"]
    <2>1. r \in Operations /\ OperationOK(r) /\ op.montant \in Montants
        BY <1>1, <1>5 DEF Operations, OperationOK, Journaliser
    <2>2. VaEn(f, r) /\ Ajouter(e, op.montant) /\ recu' = recu
        BY <1>1, <1>5 DEF Journaliser, VaEn, varsServeur
    <2> HIDE DEF r
    <2>3. /\ AppareilOK' /\ ConfirmeeRecue'
          /\ \A x \in Entrees : Inscrite(x) => Inscrite(x)'
        BY <2>1, <2>2, Inscription
    <2> QED BY <2>1, <2>2, <2>3, SaisieOK
<1>6. ASSUME NEW e \in Entrees, FermerJournaliser(f, e) PROVE IInv'
    <2>1. VaEn(f, Repos) /\ Ajouter(e, 0) /\ recu' = recu
        BY <1>6 DEF FermerJournaliser, VaEn, varsServeur
    <2>2. /\ AppareilOK' /\ ConfirmeeRecue'
          /\ \A x \in Entrees : Inscrite(x) => Inscrite(x)'
        BY <2>1, Inscription
    <2> QED BY <2>1, <2>2, SaisieOK, Repos_Inactif
<1>7. ASSUME NEW d \in [statut : Statuts, fermee : BOOLEAN, solde : Int, nombre : Nat],
             session' = d, UNCHANGED <<journal, impact, etat, chiffre>>,
             NEW r \in Operations, OperationOK(r), VaEn(f, r)
      PROVE  IInv'
    <2>1. AppareilOK'
        BY <1>7 DEF IInv, AppareilOK, Inscrite
    <2>2. ConfirmeeRecue' /\ \A x \in Entrees : Inscrite(x) => Inscrite(x)'
        BY <1>7 DEF IInv, ConfirmeeRecue, Inscrite, VaEn, varsServeur
    <2> QED BY <1>7, <2>1, <2>2, SaisieOK
<1>8. CASE Compter(f)
    <2>0. PICK x \in Int, n \in Nat : x = op.solde + op.montant /\ n = op.nombre + 1
        BY DEF Operations
    <2>1. PICK d : d = [session EXCEPT !.solde = x, !.nombre = n]
        OBVIOUS
    <2>2. d \in [statut : Statuts, fermee : BOOLEAN, solde : Int, nombre : Nat]
        BY <1>2, <2>1
    <2>3. session' = d /\ UNCHANGED <<journal, impact, etat, chiffre>> /\ VaEn(f, Repos)
        BY <1>1, <1>8, <2>0, <2>1 DEF Compter
    <2> QED BY <1>7, <2>2, <2>3, Repos_Inactif
<1>9. CASE FermerLire(f)
    <2> DEFINE r == [Repos EXCEPT !.etape = "fermer"]
    <2>1. r \in Operations /\ OperationOK(r)
        BY DEF Repos, Operations, OperationOK
    <2>2. VaEn(f, r) /\ UNCHANGED varsAppareil
        BY <1>9 DEF FermerLire
    <2> HIDE DEF r
    <2> QED BY <2>1, <2>2, SaisieSeule
<1>10. CASE Fermer(f)
    <2> DEFINE r == [Repos EXCEPT !.etape = "fermee"]
    <2>1. r \in Operations /\ OperationOK(r)
        BY DEF Repos, Operations, OperationOK
    <2>2. PICK d : d = [session EXCEPT !.statut = "closed", !.fermee = TRUE]
        OBVIOUS
    <2>3. d \in [statut : Statuts, fermee : BOOLEAN, solde : Int, nombre : Nat]
        BY <1>2, <2>2 DEF Statuts
    <2>4. VaEn(f, r) /\ session' = d /\ UNCHANGED <<journal, impact, etat, chiffre>>
        BY <1>10, <2>2 DEF Fermer
    <2> HIDE DEF r
    <2> QED BY <1>7, <2>1, <2>3, <2>4
<1> QED BY <1>3, <1>4, <1>5, <1>6, <1>8, <1>9, <1>10 DEF Operer-----------------------------------------------------------------------------
(***************************************************************************)
(* The device: a sync.                                                     *)
(***************************************************************************)
LEMMA SynchroPas ==
    ASSUME IInv, NEW o \in Onglets, NEW s \in Synchros, SynchroOK(s), Passe(o, s),
           AppareilOK', ConfirmeeRecue', Croit, UNCHANGED <<recu, mouvements>>, TraitementsOK'
    PROVE  IInv'
<1>1. SynchroOK(s)'
    BY SynchroGarde
<1>2. SynchrosOK'
    BY <1>1, PasSynchro DEF IInv, Passe
<1>3. OperationsOK'
    BY OperationIdem DEF IInv, Passe
<1>4. ServeurOK' /\ LivreUneFois'
    BY ServeurIdem
<1> QED BY <1>2, <1>3, <1>4 DEF IInv

(* A step of a synchronisation that writes nothing.                        *)
LEMMA SynchroSeule ==
    ASSUME IInv, NEW o \in Onglets, NEW s \in Synchros, SynchroOK(s), Passe(o, s),
           UNCHANGED <<varsAppareil, varsServeur>>
    PROVE  IInv'
<1>1. UNCHANGED <<recu, mouvements, traitement>>
    BY DEF varsServeur
<1>2. AppareilOK' /\ ConfirmeeRecue' /\ Croit
    BY <1>1, AppareilIdem
<1>3. TraitementsOK'
    BY <1>1, <1>2, TraitementIdem DEF IInv
<1> QED BY <1>1, <1>2, <1>3, SynchroPas

(* Entries get another state; those marked confirmed have been received.   *)
LEMMA MarquerOK ==
    ASSUME IInv, NEW es \in SUBSET Entrees, \A e \in es : Inscrite(e),
           NEW v \in Etats \ {"absente"}, Marquer(es, v), v = "confirmed" => es \subseteq recu,
           recu' = recu
    PROVE  AppareilOK' /\ ConfirmeeRecue' /\ Croit
<1>1. /\ etat' = [e \in Entrees |-> IF e \in es THEN v ELSE etat[e]]
      /\ UNCHANGED <<journal, impact, session, chiffre>>
    BY DEF Marquer
<1>2. \A e \in Entrees : etat'[e] = IF e \in es THEN v ELSE etat[e]
    BY <1>1
<1>3. \A e \in Entrees : Inscrite(e)' <=> Inscrite(e)
    BY <1>2 DEF Inscrite
<1>4. etat' \in [Entrees -> Etats]
    BY <1>1 DEF IInv, AppareilOK
<1>5. ToSet(journal)' = {e \in Entrees : Inscrite(e)'}
    BY <1>1, <1>3 DEF IInv, AppareilOK
<1>6. AppareilOK'
    BY <1>1, <1>4, <1>5 DEF IInv, AppareilOK
<1>7. ConfirmeeRecue'
    BY <1>2 DEF IInv, ConfirmeeRecue
<1> QED BY <1>3, <1>6, <1>7 DEF Croit

(* The state of a synchronisation, as a value.                             *)
LEMMA SynchroDe ==
    ASSUME IInv, NEW o \in Onglets
    PROVE  \E s \in Synchros : synchro[o] = s /\ SynchroOK(s)
BY DEF IInv, SynchrosOK

(* Both parts of the list cut at k are made of its elements, once each.    *)
LEMMA Coupure ==
    ASSUME NEW s \in Seq(Entrees), \A i \in 1..Len(s) : Inscrite(s[i]), SansDoublon(s),
           NEW k \in 0..Len(s), NEW u \in {SubSeq(s, 1, k), SubSeq(s, k + 1, Len(s))}
    PROVE  u \in Seq(Entrees) /\ (\A i \in 1..Len(u) : Inscrite(u[i])) /\ SansDoublon(u)
<1>1. Len(s) \in Nat /\ \A i \in 1..Len(s) : s[i] \in Entrees
    OBVIOUS
<1>2. CASE u = SubSeq(s, 1, k)
    <2>1. u \in Seq(Entrees) /\ Len(u) = k /\ \A i \in 1..k : u[i] = s[i]
        BY <1>1, <1>2
    <2> QED BY <1>1, <2>1 DEF SansDoublon
<1>3. CASE u = SubSeq(s, k + 1, Len(s))
    <2>1. /\ u \in Seq(Entrees) /\ Len(u) = Len(s) - k
          /\ \A i \in 1..Len(s) - k : u[i] = s[i + k]
        BY <1>1, <1>3, SubSeqProperties
    <2>2. \A i \in 1..Len(s) - k : i + k \in 1..Len(s)
        BY <1>1
    <2>3. SansDoublon(u)
        <3> SUFFICES ASSUME NEW i \in 1..Len(u), NEW j \in 1..Len(u), u[i] = u[j] PROVE i = j
            BY DEF SansDoublon
        <3>1. i + k \in 1..Len(s) /\ j + k \in 1..Len(s) /\ s[i + k] = s[j + k]
            BY <2>1, <2>2
        <3>2. i + k = j + k
            BY <3>1 DEF SansDoublon
        <3> QED BY <1>1, <2>1, <3>2
    <2> QED BY <1>1, <2>1, <2>2, <2>3
<1> QED BY <1>2, <1>3

(* The next batch of a synchronisation and what remains after it.          *)
LEMMA LotOK ==
    ASSUME IInv, NEW o \in Onglets
    PROVE  \E lot \in Seq(Entrees), reste \in Seq(Entrees) :
               /\ Lot(o) = lot /\ Restent(o) = reste
               /\ \A i \in 1..Len(lot) : Inscrite(lot[i])
               /\ \A i \in 1..Len(reste) : Inscrite(reste[i])
               /\ SansDoublon(lot) /\ SansDoublon(reste)
               /\ synchro[o].liste # <<>> => lot # <<>>
               /\ ToSet(lot) \in SUBSET Entrees /\ \A e \in ToSet(lot) : Inscrite(e)
<1>1. PICK s \in Synchros : synchro[o] = s /\ SynchroOK(s)
    BY SynchroDe
<1>2. PICK l \in Seq(Entrees) : l = s.liste /\ SansDoublon(l) /\ \A i \in 1..Len(l) : Inscrite(l[i])
    BY <1>1 DEF Synchros, SynchroOK
<1>3. PICK k \in 0..Len(l) : k = Coupe(o) /\ (l # <<>> => k # 0)
    BY <1>1, <1>2, ConstantesJournal DEF Coupe
<1>4. Lot(o) = SubSeq(l, 1, k) /\ Restent(o) = SubSeq(l, k + 1, Len(l))
    BY <1>1, <1>2, <1>3 DEF Lot, Restent
<1>5. PICK lot \in Seq(Entrees) :
          /\ lot = SubSeq(l, 1, k) /\ (\A i \in 1..Len(lot) : Inscrite(lot[i])) /\ SansDoublon(lot)
    BY <1>2, Coupure
<1>6. PICK reste \in Seq(Entrees) :
          /\ reste = SubSeq(l, k + 1, Len(l))
          /\ (\A i \in 1..Len(reste) : Inscrite(reste[i])) /\ SansDoublon(reste)
    BY <1>2, Coupure
<1>7. l # <<>> => lot # <<>>
    <2>1. Len(lot) = k
        BY <1>5
    <2>2. Len(<<>>) = 0
        OBVIOUS
    <2> QED BY <1>3, <2>1, <2>2
<1>8. ToSet(lot) \in SUBSET Entrees /\ \A e \in ToSet(lot) : Inscrite(e)
    <2>1. ToSet(lot) = {lot[i] : i \in 1..Len(lot)} /\ ToSet(lot) \in SUBSET Entrees
        BY ElementDeSuite
    <2> QED BY <1>5, <2>1
<1> QED BY <1>1, <1>2, <1>4, <1>5, <1>6, <1>7, <1>8

(* A synchronisation lists the entries that the server has not confirmed.  *)
LEMMA ListerOK ==
    ASSUME IInv, NEW o \in Onglets, Lister(o)
    PROVE  IInv'
<1> DEFINE es == {e \in Entrees : etat[e] = "local"}
<1>1. PICK l \in EnOrdre(es) :
          /\ Passe(o, [SynchroRepos EXCEPT !.etape = "lots", !.liste = l])
          /\ UNCHANGED <<varsAppareil, varsServeur>>
    BY DEF Lister
<1>2. PICK n \in Nat : n = Cardinality(es)
    BY FS_Subset, FS_CardinalityType, ConstantesJournal
<1>3. l \in [1..n -> es] /\ l \in Seq(Entrees) /\ Len(l) = n
    <2>1. l \in [1..n -> es]
        BY <1>1, <1>2 DEF EnOrdre
    <2>2. l \in [1..n -> Entrees]
        BY <2>1
    <2>3. l \in Seq(Entrees) /\ DOMAIN l = 1..n
        BY <2>2, SeqDef
    <2> QED BY <2>1, <2>3
<1>4. \A i \in 1..Len(l) : Inscrite(l[i])
    BY <1>3 DEF Inscrite
<1>5. ASSUME NEW e \in es PROVE Rang(e) \in Int
    <2>1. journal \in Seq(Entrees) /\ e \in ToSet(journal)
        BY DEF IInv, AppareilOK, Inscrite
    <2>2. PICK i \in DOMAIN journal : journal[i] = e
        BY <2>1 DEF ToSet
    <2>3. Rang(e) \in DOMAIN journal
        BY <2>2 DEF Rang
    <2> QED BY <2>1, <2>3
<1>6. SansDoublon(l)
    <2> SUFFICES ASSUME NEW i \in 1..n, NEW j \in 1..n, l[i] = l[j] PROVE i = j
        BY <1>3 DEF SansDoublon
    <2>1. /\ i < j => Rang(l[i]) < Rang(l[j])
          /\ j < i => Rang(l[j]) < Rang(l[i])
        BY <1>1, <1>2, <1>3 DEF EnOrdre
    <2>2. PICK r \in Int : r = Rang(l[i]) /\ r = Rang(l[j])
        BY <1>3, <1>5
    <2> QED BY <2>1, <2>2
<1>7. PICK s \in Synchros : s = [SynchroRepos EXCEPT !.etape = "lots", !.liste = l] /\ SynchroOK(s)
    <2> DEFINE s == [SynchroRepos EXCEPT !.etape = "lots", !.liste = l]
    <2>1. s \in Synchros
        BY <1>3 DEF SynchroRepos, Synchros, Statuts
    <2>2. s.liste = l /\ s.acceptees = {} /\ s.rejetees = {}
        BY DEF SynchroRepos
    <2>3. SynchroOK(s)
        BY <1>4, <1>6, <2>2 DEF SynchroOK
    <2> QED BY <2>1, <2>3
<1> QED BY <1>1, <1>7, SynchroSeule

(* A batch is sent.                                                        *)
LEMMA EnvoyerLotOK ==
    ASSUME IInv, NEW o \in Onglets, NEW h \in Taches, EnvoyerLot(o, h)
    PROVE  IInv'
<1>1. PICK s \in Synchros : synchro[o] = s /\ SynchroOK(s)
    BY SynchroDe
<1>2. PICK lot \in Seq(Entrees) :
          /\ Lot(o) = lot /\ lot # <<>> /\ SansDoublon(lot)
          /\ \A i \in 1..Len(lot) : Inscrite(lot[i])
          /\ ToSet(lot) \in SUBSET Entrees /\ \A e \in ToSet(lot) : Inscrite(e)
    BY LotOK DEF EnvoyerLot
<1>3. /\ Marquer(ToSet(lot), "syncing") /\ UNCHANGED <<recu, mouvements>>
      /\ traitement' = [traitement EXCEPT ![h] = [Inactif EXCEPT !.etape = "verifier", !.lot = lot]]
      /\ Passe(o, [s EXCEPT !.etape = "attente", !.tache = h])
    BY <1>1, <1>2 DEF EnvoyerLot
<1>4. AppareilOK' /\ ConfirmeeRecue' /\ Croit
    BY <1>2, <1>3, MarquerOK DEF Etats
<1>5. PICK t \in Traitements :
          t = [Inactif EXCEPT !.etape = "verifier", !.lot = lot] /\ TraitementOK(t)
    <2> DEFINE t == [Inactif EXCEPT !.etape = "verifier", !.lot = lot]
    <2>1. t \in Traitements
        BY DEF Inactif, Traitements
    <2>2. t.lot = lot /\ t.acceptees = {} /\ t.rejetees = {} /\ t.etape = "verifier"
        BY DEF Inactif
    <2>3. TraitementOK(t)
        BY <1>2, <2>2 DEF TraitementOK
    <2> QED BY <2>1, <2>3
<1>6. TraitementsOK'
    <2>1. TraitementOK(t)'
        BY <1>4, <1>5, TraitementGarde
    <2> QED BY <1>3, <1>4, <1>5, <2>1, PasTraitement DEF IInv
<1>7. PICK r \in Synchros : r = [s EXCEPT !.etape = "attente", !.tache = h] /\ SynchroOK(r)
    <2> DEFINE r == [s EXCEPT !.etape = "attente", !.tache = h]
    <2>1. r \in Synchros /\ SynchroOK(r)
        BY <1>1 DEF Synchros, SynchroOK
    <2> QED BY <2>1
<1> QED BY <1>3, <1>4, <1>6, <1>7, SynchroPas

(* The request or its answer is lost.                                      *)
LEMMA EchecReseauOK ==
    ASSUME IInv, NEW o \in Onglets, EchecReseau(o)
    PROVE  IInv'
<1>1. PICK lot \in Seq(Entrees) :
          /\ Lot(o) = lot /\ ToSet(lot) \in SUBSET Entrees /\ \A e \in ToSet(lot) : Inscrite(e)
    BY LotOK
<1>2. PICK es \in SUBSET Entrees : es = ToSet(lot) /\ \A e \in es : Inscrite(e)
    BY <1>1
<1> DEFINE s == [SynchroRepos EXCEPT !.etape = "lots", !.rejetees = es]
<1>3. Passe(o, s) /\ UNCHANGED <<varsAppareil, varsServeur>>
    BY <1>1, <1>2 DEF EchecReseau
<1>4. s \in Synchros /\ SynchroOK(s)
    BY <1>2, Repos_Inactif DEF SynchroRepos, Synchros, SynchroOK
<1> HIDE DEF s
<1> QED BY <1>3, <1>4, SynchroSeule

(* What the tab is told of the batch is what the handler has found.        *)
LEMMA ReponseOK ==
    ASSUME IInv, NEW o \in Onglets, Reponse(o)
    PROVE  IInv'
<1>1. PICK s \in Synchros : synchro[o] = s /\ SynchroOK(s)
    BY SynchroDe
<1>0. PICK h \in Taches : h = synchro[o].tache
    BY <1>1 DEF Reponse, Recoit, SynchroOK
<1>2. PICK t \in Traitements : traitement[h] = t /\ TraitementOK(t)
    BY DEF IInv, TraitementsOK
<1>3. PICK reste \in Seq(Entrees) :
          Restent(o) = reste /\ SansDoublon(reste) /\ \A i \in 1..Len(reste) : Inscrite(reste[i])
    BY LotOK
<1>4. PICK a \in SUBSET Entrees, r \in SUBSET Entrees :
          /\ a = t.acceptees /\ r = t.rejetees
          /\ a \subseteq recu /\ (\A e \in r : Inscrite(e)) /\ a \cap r = {}
    BY <1>2 DEF Traitements, TraitementOK
<1> DEFINE u == [s EXCEPT !.etape = "lots", !.liste = reste, !.tache = AUCUN,
                         !.acceptees = a, !.rejetees = r]
<1>5. /\ traitement' = [traitement EXCEPT ![h] = Inactif] /\ Passe(o, u)
      /\ UNCHANGED <<varsAppareil, recu, mouvements>>
    BY <1>0, <1>1, <1>2, <1>3, <1>4 DEF Reponse, Recoit
<1>6. u \in Synchros /\ SynchroOK(u)
    <2>1. u \in Synchros
        BY DEF Synchros
    <2>2. u.liste = reste /\ u.acceptees = a /\ u.rejetees = r /\ u.etape = "lots"
        BY DEF Synchros
    <2> HIDE DEF u
    <2> QED BY <1>3, <1>4, <2>1, <2>2 DEF SynchroOK
<1> HIDE DEF u
<1>7. AppareilOK' /\ ConfirmeeRecue' /\ Croit
    BY <1>5, AppareilIdem
<1>8. TraitementsOK'
    <2>1. TraitementOK(Inactif)'
        BY <1>7, Repos_Inactif, TraitementGarde
    <2> QED BY <1>5, <1>7, <2>1, Repos_Inactif, PasTraitement DEF IInv
<1> QED BY <1>5, <1>6, <1>7, <1>8, SynchroPas

(* The answer to one entry of a batch is written down.                     *)
LEMMA MarquageOK ==
    ASSUME IInv, NEW o \in Onglets, NEW e \in Entrees, MarquerConfirmee(o, e) \/ MarquerRejetee(o, e)
    PROVE  IInv'
<1>1. PICK s \in Synchros : synchro[o] = s /\ SynchroOK(s)
    BY SynchroDe
<1>2. PICK v \in {"confirmed", "rejected"} :
          /\ Marquer({e}, v) /\ (v = "confirmed" => e \in recu) /\ Inscrite(e)
          /\ \E r \in Synchros : Passe(o, r) /\ SynchroOK(r)
    <2>1. CASE MarquerConfirmee(o, e)
        <3> DEFINE r == [s EXCEPT !.acceptees = @ \ {e}]
        <3>1. Marquer({e}, "confirmed") /\ e \in s.acceptees /\ Passe(o, r)
            BY <1>1, <2>1 DEF MarquerConfirmee
        <3>2. r \in Synchros /\ SynchroOK(r)
            BY <1>1 DEF Synchros, SynchroOK
        <3>3. e \in recu /\ Inscrite(e)
            BY <1>1, <3>1 DEF SynchroOK, IInv, ServeurOK
        <3> HIDE DEF r
        <3> QED BY <3>1, <3>2, <3>3
    <2>2. CASE MarquerRejetee(o, e)
        <3> DEFINE r == [s EXCEPT !.rejetees = @ \ {e}]
        <3>1. Marquer({e}, "rejected") /\ e \in s.rejetees /\ Passe(o, r)
            BY <1>1, <2>2 DEF MarquerRejetee
        <3>2. r \in Synchros /\ SynchroOK(r)
            BY <1>1 DEF Synchros, SynchroOK
        <3>3. Inscrite(e)
            BY <1>1, <3>1 DEF SynchroOK
        <3> HIDE DEF r
        <3> QED BY <3>1, <3>2, <3>3
    <2> QED BY <2>1, <2>2
<1>3. UNCHANGED <<recu, mouvements, traitement>>
    BY DEF MarquerConfirmee, MarquerRejetee, varsServeur
<1>4. AppareilOK' /\ ConfirmeeRecue' /\ Croit
    BY <1>2, <1>3, MarquerOK DEF Etats
<1>5. TraitementsOK'
    BY <1>3, <1>4, TraitementIdem DEF IInv
<1> QED BY <1>2, <1>3, <1>4, <1>5, SynchroPas

(* The end of a synchronisation, and the tab that is closed at any point.  *)
LEMMA FinSynchroOK ==
    ASSUME IInv, NEW o \in Onglets,
           FinDesLots(o) \/ SessionLire(o) \/ SessionMarquer(o) \/ FermerOnglet(o)
    PROVE  IInv'
<1>1. CASE FermerOnglet(o)
    BY <1>1, Repos_Inactif, SynchroSeule DEF FermerOnglet
<1>2. CASE FinDesLots(o)
    <2>1. PICK r : /\ r \in {[SynchroRepos EXCEPT !.etape = "session"], SynchroRepos} /\ Passe(o, r)
                   /\ UNCHANGED <<varsAppareil, varsServeur>>
        BY <1>2 DEF FinDesLots
    <2>2. r \in Synchros /\ SynchroOK(r)
        BY <2>1, Repos_Inactif DEF SynchroRepos, Synchros, SynchroOK
    <2> QED BY <2>1, <2>2, SynchroSeule
<1>3. CASE SessionLire(o)
    <2>1. PICK v \in Statuts : Passe(o, [SynchroRepos EXCEPT !.etape = "ecrire", !.statut = v])
        BY <1>3 DEF SessionLire, Statuts
    <2>2. /\ [SynchroRepos EXCEPT !.etape = "ecrire", !.statut = v] \in Synchros
          /\ SynchroOK([SynchroRepos EXCEPT !.etape = "ecrire", !.statut = v])
        BY Repos_Inactif DEF SynchroRepos, Synchros, SynchroOK
    <2> QED BY <1>3, <2>1, <2>2, SynchroSeule DEF SessionLire
<1>4. CASE SessionMarquer(o)
    <2>1. PICK s \in Synchros : synchro[o] = s
        BY SynchroDe
    <2>2. /\ session' = [session EXCEPT !.statut = s.statut]
          /\ Passe(o, SynchroRepos) /\ UNCHANGED <<journal, impact, etat, chiffre, recu, mouvements, traitement>>
        BY <1>4, <2>1 DEF SessionMarquer, varsServeur
    <2>3. session' \in [statut : Statuts, fermee : BOOLEAN, solde : Int, nombre : Nat]
        BY <2>2 DEF Synchros, IInv, AppareilOK
    <2>4. AppareilOK' /\ ConfirmeeRecue' /\ Croit
        BY <2>2, <2>3 DEF IInv, AppareilOK, ConfirmeeRecue, Croit, Inscrite
    <2>5. TraitementsOK'
        BY <2>2, <2>4, TraitementIdem DEF IInv
    <2> QED BY <2>2, <2>4, <2>5, Repos_Inactif, SynchroPas
<1> QED BY <1>1, <1>2, <1>3, <1>4-----------------------------------------------------------------------------
(***************************************************************************)
(* The server: a handler, one entry after the other.                       *)
(***************************************************************************)
LEMMA ServeurPas ==
    ASSUME IInv, CoteServeur, recu \subseteq recu', TraitementsOK', ServeurOK', LivreUneFois'
    PROVE  IInv'
<1>1. UNCHANGED <<varsAppareil, operation, synchro>>
    BY DEF CoteServeur
<1>2. AppareilOK' /\ ConfirmeeRecue' /\ Croit
    BY <1>1, AppareilIdem
<1>3. OperationsOK' /\ SynchrosOK'
    BY <1>1, <1>2, OperationIdem, SynchroIdem DEF IInv
<1> QED BY <1>2, <1>3 DEF IInv

(* The handler is done with the entry, with the answer it has recorded,    *)
(* or goes on with it.                                                     *)
LEMMA AvanceOK ==
    ASSUME IInv, Croit, NEW h \in Taches, NEW e \in Entrees,
           traitement[h].etape \in AuTravail, e = Head(traitement[h].lot),
           NEW etape \in {"suivante", "inserer", "executer"},
           NEW a \in SUBSET {e}, NEW r \in SUBSET {e}, Avance(h, etape, a, r),
           a = {} \/ r = {}, a \subseteq recu', Inscrite(e),
           etape # "suivante" => a = {} /\ r = {},
           etape = "executer" => e \in recu'
    PROVE  TraitementsOK'
<1>1. PICK t \in Traitements : traitement[h] = t /\ TraitementOK(t)
    BY DEF IInv, TraitementsOK
<1>2. PICK l \in Seq(Entrees), c \in SUBSET Entrees, d \in SUBSET Entrees :
          l = t.lot /\ c = t.acceptees /\ d = t.rejetees
    BY DEF Traitements
<1>3. /\ \A i \in 1..Len(l) : Inscrite(l[i]) /\ l[i] \notin c \cup d
      /\ SansDoublon(l) /\ c \subseteq recu /\ (\A x \in d : Inscrite(x)) /\ c \cap d = {} /\ l # <<>>
      /\ e = Head(l)
    BY <1>1, <1>2 DEF TraitementOK
<1>4. /\ e = l[1] /\ Len(l) \in Nat \ {0}
      /\ Tail(l) \in Seq(Entrees) /\ Len(Tail(l)) = Len(l) - 1
      /\ \A i \in 1..Len(l) - 1 : Tail(l)[i] = l[i + 1]
      /\ Len(l) # 1 => Tail(l) # <<>>
    BY <1>3, TeteQueue
<1> DEFINE m == IF etape = "suivante" THEN Tail(l) ELSE l
           p == IF etape = "suivante" THEN IF Len(l) = 1 THEN "repondre" ELSE "verifier" ELSE etape
           u == [etape |-> p, lot |-> m, acceptees |-> c \cup a, rejetees |-> d \cup r]
<1>5. traitement' = [traitement EXCEPT ![h] = u]
    BY <1>1, <1>2 DEF Avance
<1>6. /\ m \in Seq(Entrees) /\ SansDoublon(m)
      /\ \A i \in 1..Len(m) : Inscrite(m[i]) /\ m[i] \notin c \cup d /\ m[i] \notin a \cup r
    <2>1. CASE etape = "suivante"
        <3>1. \A i \in 1..Len(l) - 1 : i + 1 \in 1..Len(l) /\ i + 1 # 1
            BY <1>4
        <3>2. ASSUME NEW i \in 1..Len(m), NEW j \in 1..Len(m), m[i] = m[j] PROVE i = j
            <4>1. i + 1 \in 1..Len(l) /\ j + 1 \in 1..Len(l) /\ l[i + 1] = l[j + 1]
                BY <1>4, <2>1, <3>1, <3>2
            <4>2. i + 1 = j + 1
                BY <1>3, <4>1 DEF SansDoublon
            <4> QED BY <1>4, <2>1, <4>2
        <3>3. ASSUME NEW i \in 1..Len(m)
              PROVE  Inscrite(m[i]) /\ m[i] \notin c \cup d /\ m[i] # e
            <4>1. m[i] = l[i + 1] /\ i + 1 \in 1..Len(l) /\ 1 \in 1..Len(l) /\ i + 1 # 1
                BY <1>4, <2>1, <3>1
            <4>2. l[i + 1] # l[1]
                BY <1>3, <4>1 DEF SansDoublon
            <4> QED BY <1>3, <1>4, <4>1, <4>2
        <3> QED BY <1>4, <2>1, <3>2, <3>3 DEF SansDoublon
    <2>2. CASE etape # "suivante"
        BY <1>3, <2>2
    <2> QED BY <2>1, <2>2
<1>7. p \in AuTravail => m # <<>>
    BY <1>3, <1>4 DEF AuTravail
<1>8. p = "executer" => Head(m) \in recu'
    BY <1>3
<1>9. u \in Traitements
    BY <1>6 DEF Traitements
<1>10. /\ c \cup a \subseteq recu' /\ (c \cup a) \cap (d \cup r) = {}
       /\ \A x \in d \cup r : Inscrite(x)
    <2>1. e \notin c \cup d
        BY <1>3, <1>4
    <2> QED BY <1>3, <2>1 DEF Croit
<1> HIDE DEF m, p
<1>11. PICK v \in Traitements : v = u
    BY <1>9
<1>12. v.lot = m /\ v.acceptees = c \cup a /\ v.rejetees = d \cup r /\ v.etape = p
    BY <1>11
<1> HIDE DEF u
<1>13. ASSUME NEW x \in Seq(Entrees), x = m PROVE \A i \in 1..Len(x) : Inscrite(x[i])'
    BY <1>6, <1>13 DEF Croit
<1>14. TraitementOK(v)'
    <2>1. PICK x \in Seq(Entrees) : x = v.lot /\ x = m
        BY <1>6, <1>12
    <2>2. \A i \in 1..Len(x) : Inscrite(x[i])' /\ x[i] \notin v.acceptees \cup v.rejetees
        BY <1>6, <1>12, <1>13, <2>1
    <2>3. /\ SansDoublon(x) /\ v.acceptees \subseteq recu' /\ v.acceptees \cap v.rejetees = {}
          /\ v.etape \in AuTravail => x # <<>>
          /\ v.etape = "executer" => Head(x) \in recu'
        BY <1>6, <1>7, <1>8, <1>10, <1>12, <2>1
    <2>4. \A y \in v.rejetees : Inscrite(y)'
        <3>1. v.rejetees \subseteq Entrees /\ \A y \in v.rejetees : Inscrite(y)
            BY <1>10, <1>12 DEF Traitements
        <3> QED BY <3>1 DEF Croit
    <2> QED BY <2>1, <2>2, <2>3, <2>4 DEF TraitementOK
<1> QED BY <1>5, <1>11, <1>14, PasTraitement DEF IInv

(* The entry a handler is at work on.                                      *)
LEMMA EntreeDe ==
    ASSUME IInv, NEW h \in Taches, traitement[h].etape \in AuTravail
    PROVE  /\ Head(traitement[h].lot) \in Entrees /\ Inscrite(Head(traitement[h].lot))
           /\ traitement[h].etape = "executer" => Head(traitement[h].lot) \in recu
<1>1. PICK t \in Traitements : traitement[h] = t /\ TraitementOK(t)
    BY DEF IInv, TraitementsOK
<1>2. PICK l \in Seq(Entrees) : l = t.lot /\ l # <<>> /\ \A i \in 1..Len(l) : Inscrite(l[i])
    BY <1>1 DEF Traitements, TraitementOK
<1>3. Head(l) = l[1] /\ 1 \in 1..Len(l) /\ Head(l) \in Entrees
    BY <1>2, TeteQueue
<1> QED BY <1>1, <1>2, <1>3 DEF TraitementOK

(* The server checks an entry, which it may already have.                  *)
LEMMA ControlerOK ==
    ASSUME IInv, NEW h \in Taches, Controler(h)
    PROVE  IInv'
<1>1. traitement[h].etape = "verifier" /\ UNCHANGED <<recu, mouvements>> /\ CoteServeur
    BY DEF Controler
<1>2. PICK e \in Entrees : e = Head(traitement[h].lot) /\ Inscrite(e)
    BY <1>1, EntreeDe DEF AuTravail
<1>3. Croit
    BY <1>1 DEF Croit, CoteServeur, varsAppareil, Inscrite
<1>4. \/ e \in recu /\ Avance(h, "suivante", {e}, {})
      \/ Avance(h, "suivante", {}, {e})
      \/ Avance(h, "suivante", {}, {})
      \/ Avance(h, "inserer", {}, {})
    BY <1>2 DEF Controler
<1>5. traitement[h].etape \in AuTravail
    BY <1>1 DEF AuTravail
<1>6. {} \in SUBSET {e} /\ {e} \in SUBSET {e} /\ {} \subseteq recu'
    OBVIOUS
<1>7. TraitementsOK'
    <2>1. CASE e \in recu /\ Avance(h, "suivante", {e}, {})
        <3>1. {e} \subseteq recu'
            BY <1>1, <2>1
        <3> QED BY <1>2, <1>3, <1>5, <1>6, <2>1, <3>1, AvanceOK
    <2>2. CASE Avance(h, "suivante", {}, {e})
        BY <1>2, <1>3, <1>5, <1>6, <2>2, AvanceOK
    <2>3. CASE Avance(h, "suivante", {}, {})
        BY <1>2, <1>3, <1>5, <1>6, <2>3, AvanceOK
    <2>4. CASE Avance(h, "inserer", {}, {})
        BY <1>2, <1>3, <1>5, <1>6, <2>4, AvanceOK
    <2> QED BY <1>4, <2>1, <2>2, <2>3, <2>4
<1> QED BY <1>1, <1>3, <1>7, ServeurIdem, ServeurPas

(* The server inserts an entry and books its movement.                     *)
LEMMA InsererOK ==
    ASSUME IInv, NEW h \in Taches, Inserer(h)
    PROVE  IInv'
<1>1. traitement[h].etape = "inserer" /\ mouvements' = mouvements /\ CoteServeur
    BY DEF Inserer
<1>2. PICK e \in Entrees : e = Head(traitement[h].lot) /\ Inscrite(e)
    BY <1>1, EntreeDe DEF AuTravail
<1>3. \/ recu' = recu /\ Avance(h, "suivante", {}, {e})
      \/ /\ recu' = recu \cup {e}
         /\ \/ Avance(h, "suivante", {}, {e})
            \/ Avance(h, "suivante", {e}, {})
            \/ Avance(h, "executer", {}, {})
    BY <1>2 DEF Inserer
<1>4. Croit /\ recu \subseteq recu' /\ recu' \subseteq recu \cup {e}
    BY <1>1, <1>3 DEF Croit, CoteServeur, varsAppareil, Inscrite
<1>5. traitement[h].etape \in AuTravail
    BY <1>1 DEF AuTravail
<1>6. {} \in SUBSET {e} /\ {e} \in SUBSET {e} /\ {} \subseteq recu'
    OBVIOUS
<1>7. TraitementsOK'
    <2>1. CASE Avance(h, "suivante", {}, {e})
        BY <1>2, <1>4, <1>5, <1>6, <2>1, AvanceOK
    <2>2. CASE recu' = recu \cup {e} /\ Avance(h, "suivante", {e}, {})
        <3>1. {e} \subseteq recu'
            BY <2>2
        <3> QED BY <1>2, <1>4, <1>5, <1>6, <2>2, <3>1, AvanceOK
    <2>3. CASE recu' = recu \cup {e} /\ Avance(h, "executer", {}, {})
        <3>1. e \in recu'
            BY <2>3
        <3> QED BY <1>2, <1>4, <1>5, <1>6, <2>3, <3>1, AvanceOK
    <2> QED BY <1>3, <2>1, <2>2, <2>3
<1>8. ServeurOK' /\ LivreUneFois'
    BY <1>1, <1>2, <1>4 DEF IInv, ServeurOK, LivreUneFois, Croit
<1> QED BY <1>1, <1>4, <1>7, <1>8, ServeurPas

(* The money is booked under a key that nothing else holds.                *)
LEMMA ExecuterOK ==
    ASSUME IInv, NEW h \in Taches, Executer(h)
    PROVE  IInv'
<1>1. traitement[h].etape = "executer" /\ recu' = recu /\ CoteServeur
    BY DEF Executer
<1>2. PICK e \in Entrees : e = Head(traitement[h].lot) /\ Inscrite(e) /\ e \in recu
    BY <1>1, EntreeDe DEF AuTravail
<1>3. /\ Avance(h, "suivante", {e}, {})
      /\ \/ ~(mouvements[e] > 0) /\ mouvements' = [mouvements EXCEPT ![e] = @ + 1]
         \/ UNCHANGED mouvements
    BY <1>2 DEF Executer, CleLibre
<1>4. Croit
    BY <1>1 DEF Croit, CoteServeur, varsAppareil, Inscrite
<1>5. traitement[h].etape \in AuTravail /\ {e} \subseteq recu' /\ {} \in SUBSET {e} /\ {e} \in SUBSET {e}
    BY <1>1, <1>2 DEF AuTravail
<1>6. TraitementsOK'
    BY <1>2, <1>3, <1>4, <1>5, AvanceOK
<1>7. ServeurOK'
    BY <1>1, <1>3, <1>4 DEF IInv, ServeurOK, Croit
<1>8. LivreUneFois'
    BY <1>1, <1>2, <1>3 DEF IInv, ServeurOK, LivreUneFois
<1> QED BY <1>1, <1>6, <1>7, <1>8, ServeurPas

(* The handling of an upload is given up.                                  *)
LEMMA AbandonnerOK ==
    ASSUME IInv, NEW h \in Taches, Abandonner(h)
    PROVE  IInv'
<1>1. /\ traitement' = [traitement EXCEPT ![h] = Inactif] /\ UNCHANGED <<recu, mouvements>>
      /\ CoteServeur
    BY DEF Abandonner
<1>2. Croit
    BY <1>1 DEF Croit, CoteServeur, varsAppareil, Inscrite
<1>3. TraitementOK(Inactif)'
    BY <1>2, Repos_Inactif, TraitementGarde
<1>4. TraitementsOK'
    BY <1>1, <1>2, <1>3, Repos_Inactif, PasTraitement DEF IInv
<1> QED BY <1>1, <1>2, <1>4, ServeurIdem, ServeurPas
-----------------------------------------------------------------------------
(* A step that changes nothing.                                            *)
LEMMA Inchange == ASSUME IInv, UNCHANGED vars PROVE IInv'
<1>1. UNCHANGED <<varsAppareil, operation, synchro, recu, mouvements, traitement>>
    BY DEF vars, varsServeur
<1>2. AppareilOK' /\ ConfirmeeRecue' /\ Croit
    BY <1>1, AppareilIdem
<1> QED BY <1>1, <1>2, OperationIdem, SynchroIdem, TraitementIdem, ServeurIdem DEF IInv

(* Every step keeps the invariant.                                         *)
LEMMA PasIInv == IInv /\ [Next]_vars => IInv'
<1> SUFFICES ASSUME IInv, [Next]_vars PROVE IInv'
    OBVIOUS
<1>1. ASSUME NEW f \in Saisies, Operer(f) \/ AbandonnerSaisie(f) PROVE IInv'
    BY <1>1, OpererOK, SaisieSeule, Repos_Inactif DEF AbandonnerSaisie
<1>2. ASSUME NEW o \in Onglets, Synchroniser(o) PROVE IInv'
    BY <1>2, ListerOK, EnvoyerLotOK, EchecReseauOK, ReponseOK, MarquageOK, FinSynchroOK DEF Synchroniser
<1>3. ASSUME NEW h \in Taches, Traiter(h) PROVE IInv'
    BY <1>3, ControlerOK, InsererOK, ExecuterOK, AbandonnerOK DEF Traiter
<1>4. ASSUME NEW o \in Onglets, FermerOnglet(o) PROVE IInv'
    BY <1>4, FinSynchroOK
<1> QED BY <1>1, <1>2, <1>3, <1>4, Inchange DEF Next

(* The inductive invariant holds in every state: what a tab, a handling of *)
(* the server and an operation remember of the journal is true of it,      *)
(* whatever the others have done since.                                    *)
THEOREM Invariance == Spec => []IInv
<1> QED BY InitIInv, PasIInv, PTL DEF Spec

(* TypeOK: a handler at work always has an entry to work on, no entry is   *)
(* answered both ways, and the journal lists each entry once.              *)
THEOREM TypeCorrect == Spec => []TypeOK
<1>1. IInv => TypeOK
    <2> SUFFICES ASSUME IInv PROVE TypeOK
        OBVIOUS
    <2>1. ASSUME NEW o \in Onglets
          PROVE  /\ ToSet(synchro[o].liste) \subseteq ToSet(journal)
                 /\ synchro[o].acceptees \cap synchro[o].rejetees = {}
                 /\ synchro[o].etape = "attente" => synchro[o].tache \in Taches
        <3>1. PICK s \in Synchros : synchro[o] = s /\ SynchroOK(s)
            BY SynchroDe
        <3>2. PICK l \in Seq(Entrees) : l = s.liste /\ \A i \in 1..Len(l) : Inscrite(l[i])
            BY <3>1 DEF Synchros, SynchroOK
        <3>3. ToSet(l) = {l[i] : i \in 1..Len(l)} /\ ToSet(l) \in SUBSET Entrees
            BY ElementDeSuite
        <3>4. ToSet(l) \subseteq ToSet(journal)
            BY <3>2, <3>3 DEF IInv, AppareilOK
        <3> QED BY <3>1, <3>2, <3>4 DEF SynchroOK
    <2>2. recu \subseteq ToSet(journal)
        BY DEF IInv, ServeurOK, AppareilOK
    <2>3. \A h \in Taches :
              traitement[h].etape \in {"verifier", "inserer", "executer"} => traitement[h].lot # <<>>
        BY DEF IInv, TraitementsOK, TraitementOK, AuTravail
    <2> QED BY <2>1, <2>2, <2>3 DEF TypeOK, IInv, AppareilOK, OperationsOK, ServeurOK, Operations, Statuts, Inscrite
<1> QED BY <1>1, Invariance, PTL

(* LivreUneFois: however many tabs upload an entry, and however often an   *)
(* answer is lost or late, the server books it at most once, and only      *)
(* after it has recorded it.                                               *)
THEOREM ToujoursLivreUneFois == Spec => []LivreUneFois
<1>1. IInv => LivreUneFois
    BY DEF IInv
<1> QED BY <1>1, Invariance, PTL

(* ConfirmeeRecue: whatever the device shows as confirmed is on the        *)
(* server, after any answer, late or of another tab.                       *)
THEOREM ToujoursConfirmeeRecue == Spec => []ConfirmeeRecue
<1>1. IInv => ConfirmeeRecue
    BY DEF IInv
<1> QED BY <1>1, Invariance, PTL
=============================================================================
