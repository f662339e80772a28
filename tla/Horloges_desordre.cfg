\* Versions that arrive before those they know of.
SPECIFICATION Spec
CONSTANTS
    Noeuds = {1, 2, 3}
    MaxVersions = 4
    Permis = {"desordre"}
INVARIANT FreresMaximaux
CHECK_DEADLOCK FALSE
