---------------------------- MODULE MCReplication ----------------------------
(***************************************************************************)
(* Where copies of a key live, how they come to agree and who holds their  *)
(* lock, in one run.  The mechanisms share nothing: the initial state      *)
(* chooses one with its bounds (scenario), the variables of the others     *)
(* keep their initial values.  The module is an instance of QuorumWR: two  *)
(* writes and a read at two of three replicas, with timeouts.              *)
(***************************************************************************)
EXTENDS QuorumWR, TLC

CONSTANTS Personne, Preneurs, Instances,    \* of the lock
          Obstine                            \* the client that tries again

VARIABLES scenario,
          versions, vc_noeud, freres, en_vol, lus, recus, connus,
          etat_gossip, generation, copie, voisins, contacte, recu, arretes, sursis,
          separes,
          strategie_conflit, ecrits_maitres, entree, vers,
          hachage, occurrences, anneau, noeud_positions,
          methode, bornes, registre, contenu, appel, migration, valeurs,
          migrations, derniere, rendue,
          temps, actif, store, pc, essai, debut, sets, sets_admis, releases,
          releases_admis, accords, fencing_counter, fencing, dernier_token, rejetes

varsHorloges == <<versions, vc_noeud, freres, en_vol, lus, recus, connus>>
varsGossip == <<etat_gossip, generation, copie, voisins, contacte, recu, arretes,
                sursis, separes>>
varsMaitres == <<strategie_conflit, ecrits_maitres, entree, vers>>
varsAnneau == <<hachage, occurrences, anneau, noeud_positions>>
varsSharding == <<methode, bornes, registre, contenu, appel, migration,
                  valeurs, migrations, derniere, rendue>>
varsRedlock == <<temps, actif, store, pc, essai, debut, sets, sets_admis, releases,
                 releases_admis, accords, fencing_counter, fencing, dernier_token,
                 rejetes>>
vars == <<scenario, varsQuorum, varsHorloges, varsGossip, varsMaitres,
          varsAnneau, varsSharding, varsRedlock>>

-----------------------------------------------------------------------------
\* Replicas that do not answer.
QPannes == INSTANCE QuorumWR WITH Permis <- {"panne"}

\* Three versions, delivered after those they know of.
H == INSTANCE HorlogesVectorielles WITH Noeuds <- 1..3, MaxVersions <- 3, Permis <- {}

\* The same in any order.
HDesordre == INSTANCE HorlogesVectorielles WITH Noeuds <- 1..3, MaxVersions <- 3,
                                                Permis <- {"desordre"}

\* One key of one author; exchanges are lost, nodes stop.
G == INSTANCE Gossip WITH Noeuds <- 1..3, Cles <- {"k1"}, Auteurs <- [c \in {"k1"} |-> {1}],
                          k <- 1, Coupures <- {}, MaxEcritures <- 2,
                          Permis <- {"perte", "arret"}

\* Rounds with two neighbours, who get the same copy one after the other.
GDeux == INSTANCE Gossip WITH Noeuds <- 1..3, Cles <- {"k1"}, Auteurs <- [c \in {"k1"} |-> {1}],
                              k <- 2, Coupures <- {}, MaxEcritures <- 2, Permis <- {}

\* A write of each master.
M == INSTANCE MultiMaitre WITH Noeuds <- 1..3, Strategies <- {"LWW", "FWW", "CUSTOM"},
                               MaxEcritures <- 3, Permis <- {}

\* Merged values, written again and again.
F == INSTANCE MultiMaitre WITH Noeuds <- 1..3, Strategies <- {"MERGE"},
                               MaxEcritures <- 4, Permis <- {"plusieurs"}

\* Three nodes of one or two virtual nodes each.
A == INSTANCE Anneau WITH Noeuds <- 1..3, Taille <- 6, Vnodes <- 2, Permis <- {}

\* Three keys on two shards, by directory and by ranges.
S == INSTANCE Sharding WITH Cles <- 0..2, NbShards <- 2, Ecrivains <- {"e1"},
                            LecteursCles <- {"l1"}, MaxValeurs <- 3, MaxMigrations <- 2,
                            Methodes <- {"directory", "range"}, Permis <- {}

\* Two attempts by a client, the second among the late calls of the first.
Verrou == INSTANCE Redlock WITH Clients <- Preneurs, TTL <- 1, Derive <- 0,
                                RetryCount <- 2, Permis <- {}, Fragiles <- {},
                                MaxTemps <- 2

ASSUME /\ QuorumAssumption /\ QPannes!QuorumAssumption
       /\ H!HorlogesAssumption /\ HDesordre!HorlogesAssumption /\ G!GossipAssumption
       /\ GDeux!GossipAssumption
       /\ M!MaitresAssumption /\ F!MaitresAssumption
       /\ A!AnneauAssumption /\ S!ShardingAssumption
       /\ Verrou!RedlockAssumption

InitCopies ==
    /\ scenario \in {"quorum", "quorum_pannes", "horloges", "horloges_desordre", "gossip",
                     "gossip_deux", "maitres", "fusion", "anneau", "sharding", "verrou"}
    /\ Init
    /\ H!Init
    /\ G!Init
    /\ IF scenario = "fusion" THEN F!Init ELSE M!Init
    /\ A!Init
    /\ S!Init
    /\ Verrou!Init
    /\ scenario \notin {"maitres", "fusion"} => strategie_conflit = "LWW"
    /\ scenario # "anneau" =>
         \A m \in 1..3, i \in 1..2 : hachage[m][i] = 2 * (m - 1) + (i - 1)
    /\ scenario # "sharding" => methode = "directory"

\* Nobody writes in the last scenario, which is about the exclusion, and one client
\* tries again.
NextCopies ==
    \/ /\ scenario = "quorum" /\ Next
       /\ UNCHANGED <<scenario, varsHorloges, varsGossip, varsMaitres,
                       varsAnneau, varsSharding, varsRedlock>>
    \/ /\ scenario = "quorum_pannes" /\ QPannes!Next
       /\ UNCHANGED <<scenario, varsHorloges, varsGossip, varsMaitres,
                       varsAnneau, varsSharding, varsRedlock>>
    \/ /\ scenario = "horloges" /\ H!Next
       /\ UNCHANGED <<scenario, varsQuorum, varsGossip, varsMaitres,
                       varsAnneau, varsSharding, varsRedlock>>
    \/ /\ scenario = "horloges_desordre" /\ HDesordre!Next
       /\ UNCHANGED <<scenario, varsQuorum, varsGossip, varsMaitres,
                       varsAnneau, varsSharding, varsRedlock>>
    \/ /\ scenario = "gossip" /\ G!Next
       /\ UNCHANGED <<scenario, varsQuorum, varsHorloges, varsMaitres,
                       varsAnneau, varsSharding, varsRedlock>>
    \/ /\ scenario = "gossip_deux" /\ GDeux!Next
       /\ UNCHANGED <<scenario, varsQuorum, varsHorloges, varsMaitres,
                       varsAnneau, varsSharding, varsRedlock>>
    \/ /\ scenario = "maitres" /\ M!Next
       /\ UNCHANGED <<scenario, varsQuorum, varsHorloges, varsGossip,
                       varsAnneau, varsSharding, varsRedlock>>
    \/ /\ scenario = "fusion" /\ F!Next
       /\ UNCHANGED <<scenario, varsQuorum, varsHorloges, varsGossip,
                       varsAnneau, varsSharding, varsRedlock>>
    \/ /\ scenario = "anneau" /\ A!Next
       /\ UNCHANGED <<scenario, varsQuorum, varsHorloges, varsGossip,
                       varsMaitres, varsSharding, varsRedlock>>
    \/ /\ scenario = "sharding" /\ S!Next
       /\ UNCHANGED <<scenario, varsQuorum, varsHorloges, varsGossip,
                       varsMaitres, varsAnneau, varsRedlock>>
    \/ /\ scenario = "verrou" /\ Verrou!Next
       /\ \A c \in Preneurs : pc'[c] # "ecrit"
       /\ \A c \in Preneurs \ {Obstine} : essai'[c] < 2
       /\ UNCHANGED <<scenario, varsQuorum, varsHorloges, varsGossip,
                       varsMaitres, varsAnneau, varsSharding>>

SpecCopies == InitCopies /\ [][NextCopies]_vars

Symetrie == Permutations(Noeuds)

-----------------------------------------------------------------------------
\* Vector clocks are typed, their order is causality, no version is lost unless one
\* that knew of it came, and in causal order no obsolete one is kept.
HorlogesFideles ==
    /\ scenario \in {"horloges", "horloges_desordre"} =>
         H!TypeOK /\ H!CausaliteFidele /\ H!RienDePerdu
    /\ scenario = "horloges" => H!FreresMaximaux

\* Quorums, masters and gossip are typed.  When repairs arrive no replica that
\* answered stays behind what the read returned; all masters hold one value in the
\* end, and when values are merged it is made of every write.
Convergence ==
    /\ scenario \in {"quorum", "quorum_pannes"} => TypeOK
    /\ scenario = "quorum" => ReparationComplete
    /\ scenario \in {"gossip", "gossip_deux"} => G!TypeOK
    /\ scenario \in {"maitres", "fusion"} => F!TypeOK /\ M!Convergence /\ F!AucunePerte

\* Ring, shards and lock are typed.  Every position of the ring has its node, a key is
\* in the one shard where it is looked for, reads and range queries miss nothing.  The
\* keys of a valid holder of the lock are where they were granted, and no two clients
\* hold it, although a second attempt meets the late SETs and releases of the first.
PlacementFidele ==
    /\ scenario = "anneau" => A!TypeOK /\ A!AnneauCoherent
    /\ scenario = "sharding" => S!TypeOK /\ S!UneSeuleCopie /\ S!LectureTransparente
                               /\ S!PlageComplete
    /\ scenario = "verrou" => /\ Verrou!TypeOK /\ Verrou!ClesDuDetenteur
                              /\ Verrou!ExclusionMutuelle

\* Gossip: versions never go back.  Ring: only the keys of the node that comes or goes
\* move, and to who had a replica.
SansRetour == G!VersionsCroissantes /\ A!Redistribution
=============================================================================
