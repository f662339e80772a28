------------------------------- MODULE Anneau -------------------------------
(***************************************************************************)
(* Consistent hashing with virtual nodes (jour11-consistent-hashing, and   *)
(* ConsistentHashSharding of jour12-sharding).  A key is the position its  *)
(* hash gives it; the positions of the virtual nodes are any that do not   *)
(* collide.  AnneauSimple is the ring of one virtual node each.            *)
(***************************************************************************)
EXTENDS Integers, FiniteSets

CONSTANTS Noeuds, Personne,
          Taille,   \* TAILLE_ANNEAU
          Vnodes,
          Permis

\* What the constants are.
AnneauAssumption ==
    /\ Personne \notin Noeuds
    /\ Taille \in Nat \ {0} /\ Vnodes \in Nat \ {0}
    /\ Permis \subseteq {"doublon"}  \* a node that is on the ring is added again

Positions == 0..Taille - 1

VARIABLES
    hachage,          \* where the virtual nodes of every node fall
    occurrences,      \* _positions: how many times each position is in the list
    anneau,           \* _anneau: the node of a position, or Personne
    noeud_positions   \* _noeud_positions; no positions for a node that is not there

varsAnneau == <<hachage, occurrences, anneau, noeud_positions>>

TypeOK ==
    /\ hachage \in [Noeuds -> [1..Vnodes -> Positions]]
    /\ occurrences \in [Positions -> Nat]
    /\ anneau \in [Positions -> Noeuds \union {Personne}]
    /\ noeud_positions \in [Noeuds -> SUBSET Positions]

Init ==
    /\ hachage \in [Noeuds -> [1..Vnodes -> Positions]]
    /\ \A n, m \in Noeuds, i, j \in 1..Vnodes :
         hachage[n][i] = hachage[m][j] => n = m /\ i = j
    /\ occurrences = [p \in Positions |-> 0]
    /\ anneau = [p \in Positions |-> Personne]
    /\ noeud_positions = [n \in Noeuds |-> {}]

Presents == {n \in Noeuds : noeud_positions[n] # {}}

-----------------------------------------------------------------------------
\* ajouter_noeud; its weight gives it more or fewer virtual nodes.
Ajouter(n, nb_vnodes) ==
    LET siennes == {hachage[n][i] : i \in 1..nb_vnodes} IN
    /\ "doublon" \in Permis \/ n \notin Presents
    /\ anneau' = [p \in Positions |-> IF p \in siennes THEN n ELSE anneau[p]]
    /\ occurrences' = [p \in Positions |->
         occurrences[p] + (IF p \in siennes THEN 1 ELSE 0)]
    /\ noeud_positions' = [noeud_positions EXCEPT ![n] = siennes]
    /\ UNCHANGED hachage

\* Mutant: the first virtual node only.
ARetirer_Premiere(n) == noeud_positions[n] \intersect {hachage[n][1]}

ARetirer(n) == noeud_positions[n]

\* retirer_noeud.
Retirer(n) ==
    /\ n \in Presents
    /\ anneau' = [p \in Positions |-> IF p \in ARetirer(n) THEN Personne ELSE anneau[p]]
    /\ occurrences' = [p \in Positions |->
         occurrences[p] - (IF p \in ARetirer(n) THEN 1 ELSE 0)]
    /\ noeud_positions' = [noeud_positions EXCEPT ![n] = {}]
    /\ UNCHANGED hachage

Next == \E n \in Noeuds : Retirer(n) \/ (\E nb \in 1..Vnodes : Ajouter(n, nb))

Spec == Init /\ [][Next]_varsAnneau

-----------------------------------------------------------------------------
Liste == {p \in Positions : occurrences[p] > 0}

\* How far clockwise a position is from a key.
Distance(cle, p) == (p - cle) % Taille

\* bisect_left, and back to the first position beyond the last one.
Suivante(cle) == CHOOSE p \in Liste : \A q \in Liste : Distance(cle, p) <= Distance(cle, q)

\* noeud_pour.
NoeudPour(cle) == IF Liste = {} THEN Personne ELSE anneau[Suivante(cle)]

Eloignement(cle, n) == CHOOSE d \in {Distance(cle, p) : p \in noeud_positions[n]} :
                          \A p \in noeud_positions[n] : d <= Distance(cle, p)

\* N_noeuds_pour: the first N distinct nodes met, in that order.
NoeudsPour(cle, nb) ==
    LET avant(n) == {m \in Presents : Eloignement(cle, m) < Eloignement(cle, n)}
        trouves == IF nb < Cardinality(Presents) THEN nb ELSE Cardinality(Presents)
    IN  [i \in 1..trouves |-> CHOOSE n \in Presents : Cardinality(avant(n)) = i - 1]

\* Every position of the list has its node: lookups succeed whatever nodes have
\* come, gone and come back with another weight.
AnneauCoherent == \A p \in Positions :
    (occurrences[p] > 0) <=> (\E n \in Presents : anneau[p] = n /\ p \in noeud_positions[n])

\* "Ajouter un noeud : seule la portion entre son predecesseur et lui est
\* reaffectee", "Retirer un noeud : ses cles passent a son successeur": keys move to
\* the node that comes and from the one that goes, never between others; and the
\* node that gets the key of one that goes is the second of those that replicas of
\* the key were stored on.
Redistribution ==
    [][\A cle \in Positions :
         /\ NoeudPour(cle)' # NoeudPour(cle) =>
              \E n \in Noeuds :
                 \/ n \in Presents' \ Presents /\ NoeudPour(cle)' = n
                 \/ n \in Presents \ Presents' /\ NoeudPour(cle) = n
         /\ (/\ Presents' \subseteq Presents
             /\ Presents' # {}
             /\ NoeudPour(cle) \notin Presents')
              => NoeudPour(cle)' = NoeudsPour(cle, 2)[2]]_varsAnneau
=============================================================================
