CONSTANTS
    k1 = k1
    k2 = k2
    t1 = t1
    e1 = e1
    Coffres = {k1, k2}
    Transferts = {t1}
    Evacuations = {e1}
    Utilisateurs = {u1, u2, u3}
    Admins = {}
    TicRequetes = {q1, q2}
    EvcRequetes = {q3}
    Source <- MCSource
    Destination <- MCDestination
    Montant <- MCMontant
    DEHORS = DEHORS
    MontantsRecus = {2}
    SoldeInitial <- MCSolde
    SoldeMinimum <- MCMinimum
    Plafond <- MCPlafond
    AUCUN = AUCUN
SPECIFICATION Spec
SYMMETRY Symetrie
INVARIANTS TypeOK EvacuationSuitArgent ArgentPartiAutorise
PROPERTY ArgentSuivi
CHECK_DEADLOCK FALSE
