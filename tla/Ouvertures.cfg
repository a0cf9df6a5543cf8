CONSTANTS
    Caisses = {c1}
    Caissiers = {a1, a2}
    Sessions = {s1, s2}
    Requetes = {q1, q2}
    Montants = {1, 2}
    Comptes = {0, 1}
    Envoyees = {s1}
    SoldeCoffreInitial = 3
    SoldeCaisseInitial = 1
    SoldeMinimum = 1
    SoldeMax = 3
    AUCUN = AUCUN
SPECIFICATION Spec
SYMMETRY Symetrie
INVARIANTS TypeOK LiquiditeConservee SessionRefleteCaisse
PROPERTIES CoffreRespecte OuvertureFinancee
CHECK_DEADLOCK FALSE
