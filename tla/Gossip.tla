------------------------------- MODULE Gossip -------------------------------
(***************************************************************************)
(* Push-pull gossip (jour10-gossip): in every round a node copies its      *)
(* state, sends the copy to k neighbours in turn and merges what each of   *)
(* them answers; writes, partitions and the other nodes' rounds go on      *)
(* meanwhile.                                                              *)
(***************************************************************************)
EXTENDS Integers, FiniteSets

CONSTANTS Noeuds,        \* positive, 0 is nobody
          Cles,
          Auteurs,       \* who writes each key
          k,             \* the fanout
          Permis,
          Coupures,      \* the groups that a partition may cut off
          MaxEcritures   \* bound: writes of a key by a node

\* What the constants are.
GossipAssumption ==
    /\ Noeuds \subseteq Nat \ {0} /\ IsFiniteSet(Noeuds)
    /\ Auteurs \in [Cles -> SUBSET Noeuds]
    /\ k \in Nat \ {0}
    /\ Permis \subseteq {"perte", "arret"}
    /\ Coupures \subseteq SUBSET Noeuds
    /\ MaxEcritures \in Nat

Entree(version, auteur) == [version |-> version, noeud_src |-> auteur]
Absente == Entree(0, 0)   \* the node does not know the key

VARIABLES
    etat_gossip,  \* _etat: a key's version and its author
    generation,   \* _generation
    copie,        \* mon_etat, while a round needs it
    voisins,      \* the neighbours of the round that are still to come
    contacte,     \* the neighbour that has merged and has not answered yet, or 0
    recu,         \* the answer that is still to be merged, if there is one
    arretes,      \* the nodes that were stopped
    sursis,       \* those of them that were asleep: their loop has one more round
    separes       \* the group a partition cuts off

varsGossip == <<etat_gossip, generation, copie, voisins, contacte, recu, arretes,
                sursis, separes>>

Etats == [Cles -> [version : 0..MaxEcritures, noeud_src : {0} \union Noeuds]]

TypeOK ==
    /\ etat_gossip \in [Noeuds -> Etats]
    /\ generation \in [Noeuds -> [Cles -> 0..MaxEcritures]]
    /\ {copie, recu} \subseteq [Noeuds -> {{}} \union {{e} : e \in Etats}]
    /\ voisins \in [Noeuds -> SUBSET Noeuds]
    /\ contacte \in [Noeuds -> {0} \union Noeuds]
    /\ {arretes, sursis, separes} \subseteq SUBSET Noeuds

Init ==
    /\ etat_gossip = [n \in Noeuds |-> [c \in Cles |-> Absente]]
    /\ generation = [n \in Noeuds |-> [c \in Cles |-> 0]]
    /\ copie = [n \in Noeuds |-> {}]
    /\ voisins = [n \in Noeuds |-> {}]
    /\ contacte = [n \in Noeuds |-> 0]
    /\ recu = [n \in Noeuds |-> {}]
    /\ arretes = {}
    /\ sursis = {}
    /\ separes = {}

-----------------------------------------------------------------------------
\* ecrire_local: the version comes from the node's own count.
EcrireLocal(n, c) ==
    /\ n \in Auteurs[c]
    /\ generation[n][c] < MaxEcritures
    /\ generation' = [generation EXCEPT ![n][c] = @ + 1]
    /\ etat_gossip' = [etat_gossip EXCEPT ![n][c] = Entree(generation'[n][c], n)]
    /\ UNCHANGED <<copie, voisins, contacte, recu, arretes, sursis, separes>>

PeutCommuniquer(a, b) == a \in separes <=> b \in separes

Candidats(n) == {m \in Noeuds \ {n} : PeutCommuniquer(n, m)}

\* The node waits for an answer or has one to merge.
Occupe(n) == contacte[n] # 0 \/ recu[n] # {}

EnTour(n) == voisins[n] # {} \/ Occupe(n)

\* The beginning of _round_gossip, with random.sample.
Commencer(n, choisis) ==
    /\ n \notin arretes \ sursis /\ ~EnTour(n)
    /\ choisis \subseteq Candidats(n)
    /\ Cardinality(choisis) = (IF k < Cardinality(Candidats(n)) THEN k
                               ELSE Cardinality(Candidats(n)))
    /\ choisis # {}
    /\ copie' = [copie EXCEPT ![n] = {etat_gossip[n]}]
    /\ voisins' = [voisins EXCEPT ![n] = choisis]
    /\ sursis' = sursis \ {n}
    /\ UNCHANGED <<etat_gossip, generation, contacte, recu, arretes, separes>>

\* Mutant: what comes from elsewhere replaces what is there.
EstPlusRecent_Toujours(distante, locale) == distante # locale

\* Mutant: the version after the node's own is not enough.
EstPlusRecent_Deux(distante, locale) == distante.version > locale.version + 1

EstPlusRecent(distante, locale) == distante.version > locale.version

Fusionner(locales, distantes) ==
    [c \in Cles |-> IF EstPlusRecent(distantes[c], locales[c]) THEN distantes[c]
                    ELSE locales[c]]

\* The round goes on to its next neighbour.
Suivant(n, m) ==
    /\ voisins' = [voisins EXCEPT ![n] = @ \ {m}]
    /\ copie' = [copie EXCEPT ![n] = IF voisins[n] = {m} THEN {} ELSE @]

\* echanger: recevoir_etat at the neighbour merges what was sent, ...
Echanger(n, m) ==
    /\ ~Occupe(n)
    /\ m \in voisins[n]
    /\ m \notin arretes
    /\ \E mon_etat \in copie[n] :
         etat_gossip' = [etat_gossip EXCEPT ![m] = Fusionner(@, mon_etat)]
    /\ contacte' = [contacte EXCEPT ![n] = m]
    /\ Suivant(n, m)
    /\ UNCHANGED <<generation, recu, arretes, sursis, separes>>

\* ... then takes the lock again: the neighbour's state of that moment comes back.
Repondre(n) ==
    /\ contacte[n] # 0
    /\ recu' = [recu EXCEPT ![n] = {etat_gossip[contacte[n]]}]
    /\ contacte' = [contacte EXCEPT ![n] = 0]
    /\ UNCHANGED <<etat_gossip, generation, copie, voisins, arretes, sursis, separes>>

\* The exchange is lost, or the neighbour was stopped.
EchangerEnVain(n, m) ==
    /\ ~Occupe(n)
    /\ m \in voisins[n]
    /\ "perte" \in Permis \/ m \in arretes
    /\ Suivant(n, m)
    /\ UNCHANGED <<etat_gossip, generation, contacte, recu, arretes, sursis, separes>>

\* _merger of the answer.
Merger(n) ==
    /\ \E distant \in recu[n] :
         etat_gossip' = [etat_gossip EXCEPT ![n] = Fusionner(@, distant)]
    /\ recu' = [recu EXCEPT ![n] = {}]
    /\ UNCHANGED <<generation, copie, voisins, contacte, arretes, sursis, separes>>

Arreter(n) ==
    /\ "arret" \in Permis
    /\ n \notin arretes
    /\ arretes' = arretes \union {n}
    /\ sursis' = sursis \union ({n} \ {m \in Noeuds : EnTour(m)})
    /\ arretes' # Noeuds
    /\ UNCHANGED <<etat_gossip, generation, copie, voisins, contacte, recu, separes>>

\* partitionner, guerir.
Partitionner(groupe) ==
    /\ separes' = groupe
    /\ UNCHANGED <<etat_gossip, generation, copie, voisins, contacte, recu, arretes,
                   sursis>>

-----------------------------------------------------------------------------
\* _boucle_gossip: the node's thread, when its neighbours answer.
Tour(n) ==
    \/ \E choisis \in SUBSET Noeuds : Commencer(n, choisis)
    \/ \E m \in Noeuds : Echanger(n, m)
    \/ Repondre(n) \/ Merger(n)

Next ==
    \/ \E n \in Noeuds :
         \/ Tour(n) \/ Arreter(n)
         \/ \E c \in Cles : EcrireLocal(n, c)
         \/ \E m \in Noeuds : EchangerEnVain(n, m)
    \/ \E groupe \in Coupures \union {{}} : Partitionner(groupe)

Spec == Init /\ [][Next]_varsGossip

-----------------------------------------------------------------------------
\* "On ne garde que les entrees plus recentes que ce qu'on a": a node's version
\* of a key that one node writes never goes back, whatever copies are under way.
VersionsCroissantes ==
    [][\A n \in Noeuds, c \in Cles :
         etat_gossip'[n][c].version >= etat_gossip[n][c].version]_etat_gossip

\* "Elle sera propagee automatiquement par le gossip": once partitions have
\* ended, what was written comes to every node.
Propagation == <>[](separes = {}) =>
    \A c \in Cles, v \in 1..MaxEcritures :
        (\E n \in Noeuds : etat_gossip[n][c].version = v)
            ~> (\A n \in Noeuds : etat_gossip[n][c].version >= v)
=============================================================================
