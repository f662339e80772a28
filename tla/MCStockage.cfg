\* The storage engines and the event store, each in the usage in which it keeps its promises.
SPECIFICATION SpecMoteurs
CONSTANTS
    Cles = {a, b}
    Valeurs = {v1}
    ValeursLSM = {v1, v2}
    Tx = {t1, t2}
    Ligne = k
    Absent = Absent
    Inchangee = Inchangee
    Systeme = Systeme
    Aucun = Aucun
    Rien = Rien
    Illisible = Illisible
    Permis = {"dechirure"}
    MaxWal = 6
    FilsComptes = {f1, f2}
    Seul = f1
VIEW Vue
SYMMETRY Symetrie
INVARIANTS
    RecuperationFidele
    LsnMonotone
    LecturesIsolees
PROPERTIES
    ImplementeMagasin
    LecturesFigees
    ImplementeCompte
CHECK_DEADLOCK FALSE
