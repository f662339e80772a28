\* Three requests for one key; three callers of one service; two sagas, workers, readers.
SPECIFICATION FairSpec
CONSTANTS
    Requetes = {q1, q2, q3}
    Cles = {k1}
    Payloads = {p1, p2}
    Personne = Personne
    Appelants = {a1, a2, a3}
    Sagas = {s1, s2}
    Orchestrees = {s2}
    Ouvriers = {w1, w2}
    Lecteurs = {r1, r2}
PROPERTIES
    ChacunRepond
    Retablissement
    TousTraites
    Propagation
CHECK_DEADLOCK FALSE
