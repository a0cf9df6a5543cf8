CONSTANTS
    Onglets = {o1, o2}
    Taches = {h1, h2}
    Saisies = {f1}
    Entrees = {e1, e2}
    Montants <- MCMontants
    Chiffrements = {FALSE}
    SoldeOuverture = 1
    MaxCaisse = 3
    MaxOperations = 1
    MaxEnAttente = 1
    TailleLot = 1
    AutreAgent = TRUE
    AUCUN = AUCUN
SPECIFICATION Spec
SYMMETRY Symetrie
INVARIANTS TypeOK LivreUneFois ConfirmeeRecue
CHECK_DEADLOCK FALSE
