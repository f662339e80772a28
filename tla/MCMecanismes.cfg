\* Every mechanism with its simulation and with programmes that overlap.
SPECIFICATION SpecMecanismes
CONSTANTS
    Ouvriers = {w1, w2}
    Lecteurs = {l1, l2}
    Personne = Personne
    Requetes = {q1, q2, q3}
    RequeteNommee = q1
    Cles = {k1, k2}
    Payloads = {p1, p2}
    Appelants = {a1}
    Sagas = {s1, s2, s3}
    Orchestrees = {s3}
    Permis = {}
INVARIANTS
    ScissionBreve
    VuesFideles
    OrdreFidele
    CopiesFideles
    EntreeMesuree
    IdentitesSaines
    ObservationsFideles
    LivraisonOrdonnee
    FilesSaines
    CacheFidele
    FenetresExactes
    SansDoublon
    ReponseFidele
    EffetsExacts
PROPERTIES
    PasJustifies
    Constats
CHECK_DEADLOCK FALSE
