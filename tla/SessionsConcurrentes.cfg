CONSTANTS
    Caisses = {c1, c2}
    Caissiers = {a1, a2}
    Sessions = {s1, s2}
    Remises = {}
    Requetes = {q1, q2}
    Types = {}
    Montants = {}
    Comptages = {1}
    Tolerance = 0
    SoldeInitial = 1
    SoldeMax = 1
    SommeMax = 0
    AUCUN = AUCUN
SPECIFICATION Spec
SYMMETRY Symetrie
INVARIANTS UneSessionActive
PROPERTIES FermetureDefinitive SoldeSuitMouvement
CHECK_DEADLOCK FALSE
