\* Two clients and three instances, one of which stops, pauses and restarts.
SPECIFICATION Spec
CONSTANTS
    Clients = {A, B}
    Instances = {r1, r2, r3}
    TTL = 1
    Derive = 0
    RetryCount = 1
    Fragiles = {r1}
    Personne = Personne
    Permis = {}
    MaxTemps = 1
INVARIANTS
    ExclusionMutuelle
PROPERTIES
    EcritureValideAcceptee
CHECK_DEADLOCK FALSE
