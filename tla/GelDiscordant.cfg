CONSTANTS
    Caisses = {c1}
    Caissiers = {a1}
    Sessions = {s1}
    Remises = {}
    Requetes = {q1}
    Types = {"DEPOSIT_CURRENT", "BANK_FEE"}
    Montants = {1}
    Comptages = {0, 1}
    Tolerance = 0
    SoldeInitial = 1
    SoldeMax = 2
    SommeMax = 2
    AUCUN = AUCUN
SPECIFICATION Spec
INVARIANT GelFidele
CHECK_DEADLOCK FALSE
