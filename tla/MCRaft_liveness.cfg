\* Elections alone, under fairness and without loss.
SPECIFICATION FairSpec
CONSTANTS
    Noeuds = {n1, n2, n3}
    Commandes = {c1}
    Faillibles = {}
    Electables = {n1, n2, n3}
    MaxTerm = 2
    MaxLog = 0
    MaxAppels = 0
    Personne = Personne
PROPERTY LeaderElected
CHECK_DEADLOCK FALSE
