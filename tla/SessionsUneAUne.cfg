CONSTANTS
    Caisses = {c1}
    Caissiers = {a1}
    Sessions = {s1, s2}
    Remises = {r1}
    Requetes = {q1}
    Types = {"DEPOSIT_CURRENT", "WITHDRAWAL_CURRENT", "BANK_FEE"}
    Montants = {2}
    Comptages = {0, 2}
    Tolerance = 0
    SoldeInitial = 2
    SoldeMax = 2
    SommeMax = 2
    AUCUN = AUCUN
SPECIFICATION Spec
SYMMETRY Symetrie
INVARIANTS TypeOK RegleDOr TheoriqueSuitOperations
CHECK_DEADLOCK FALSE
