CONSTANTS
    Caisses = {c1}
    Caissiers = {a1}
    Sessions = {s1}
    Requetes = {q1, q2}
    Montants = {1}
    Comptes = {1, 2}
    Envoyees = {}
    SoldeCoffreInitial = 3
    SoldeCaisseInitial = 1
    SoldeMinimum = 1
    SoldeMax = 3
    AUCUN = AUCUN
SPECIFICATION SpecEquitable
PROPERTY ReceptionAboutit
CHECK_DEADLOCK FALSE
