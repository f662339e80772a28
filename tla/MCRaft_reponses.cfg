\* Six alternating leaderships, and an answer to a call of the third in the fifth.
SPECIFICATION SpecReponses
CONSTANTS
    Noeuds = {n1, n2, n3}
    Commandes = {c1}
    Faillibles = {}
    Electables = {}
    MaxTerm = 3
    MaxLog = 2
    MaxAppels = 3
    Personne = Personne
    Premier = n1
    Second = n2
VIEW Vue
INVARIANT LeaderCompleteness
CHECK_DEADLOCK FALSE
