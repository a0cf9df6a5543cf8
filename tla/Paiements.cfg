CONSTANTS
    Intentions = {i1, i2}
    Evenements = {}
    Requetes = {q1}
    Recon = recon
    Expi = expi
    Montants = {2}
    Options = {"FEES_DEDUCTED"}
    AvecCredit = {TRUE}
    AvecAgence = {TRUE, FALSE}
    Frais = 1
    SoldeInitial = 3
    CaisseInitiale = 1
    Sandbox = FALSE
    AUCUN = AUCUN
SPECIFICATION Spec
SYMMETRY Symetrie
INVARIANTS TypeOK CompteUneFois CaisseJamaisSousEstimee ReglementJustifie
CHECK_DEADLOCK FALSE
