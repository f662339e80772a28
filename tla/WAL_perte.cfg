\* A commit after a restart on a torn file.
SPECIFICATION Spec
CONSTANTS
    Cles = {a}
    Valeurs = {v1}
    Tx = {t1}
    Absent = Absent
    Inchangee = Inchangee
    Systeme = Systeme
    Aucun = Aucun
    Permis = {"dechirure", "suite"}
    MaxWal = 6
INVARIANT RecuperationFidele
CHECK_DEADLOCK FALSE
