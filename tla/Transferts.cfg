CONSTANTS
    c1 = c1
    s1 = s1
    Transferts = {t1, t2}
    Caisses = {c1, c2}
    Sessions = {s1}
    CaisseDe <- MCCaisseDe
    OuvertesAuDepart = {s1}
    Agents = {a1, a2}
    Admins = {}
    Requetes = {q1, q2}
    Montants = {2}
    Clotures = {FALSE}
    SoldeCoffreInitial = 5
    SoldeCaisseInitial = 2
    SoldeMinimum = 2
    PlafondSortant = 3
    PlafondEntrant = 4
    SeparationInitiateurValideur = TRUE
    SoldeMax = 5
    AUCUN = AUCUN
SPECIFICATION Spec
SYMMETRY Symetrie
INVARIANTS TypeOK SeparationRespectee LiquiditeConservee SessionRefleteCaisse CaisseJamaisNegative
PROPERTY CoffreRespecte
