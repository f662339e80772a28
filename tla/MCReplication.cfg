\* Three replicas, masters, nodes of the ring; two shards; a lock on two instances.
SPECIFICATION SpecCopies
CONSTANTS
    Noeuds = {r1, r2, r3}
    W = 2
    R = 2
    Lectures = {1}
    MaxEcritures = 2
    Permis = {"delai"}
    Personne = Personne
    Preneurs = {A, B}
    Instances = {i1, i2}
    Obstine = A
SYMMETRY Symetrie
INVARIANTS
    EcritureDurable
    LectureForte
    HorlogesFideles
    Convergence
    PlacementFidele
PROPERTIES
    SansRetour
CHECK_DEADLOCK FALSE
