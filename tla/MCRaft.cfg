\* Three nodes; the scenarios give the bounds.
SPECIFICATION SpecScenarios
CONSTANTS
    Noeuds = {n1, n2, n3}
    Commandes = {c1}
    Faillibles = {}
    Electables = {}
    MaxTerm = 3
    MaxLog = 2
    MaxAppels = 3
    Personne = Personne
    Premier = n1
    Second = n2
VIEW Vue
INVARIANTS
    TypeOK
    ElectionSafety
    LogMatching
    LeaderCompleteness
    StateMachineSafety
PROPERTY CommittedNeverRewritten
CHECK_DEADLOCK FALSE
