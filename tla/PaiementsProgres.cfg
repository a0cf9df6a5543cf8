CONSTANTS
    Intentions = {i1}
    Evenements = {e1, e2}
    Requetes = {q1, q2}
    Recon = recon
    Expi = expi
    Montants = {2}
    Options = {"CLIENT_PAYS"}
    AvecCredit = {TRUE}
    AvecAgence = {TRUE}
    Frais = 1
    SoldeInitial = 3
    CaisseInitiale = 1
    Sandbox = FALSE
    AUCUN = AUCUN
SPECIFICATION SpecEquitable
INVARIANTS SuccesComptabilise CompteUneFois ReglementJustifie
PROPERTY AttenteBornee
CHECK_DEADLOCK FALSE
