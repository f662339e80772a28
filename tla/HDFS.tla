-------------------------------- MODULE HDFS --------------------------------
(***************************************************************************)
(* HDFS (jour21-hdfs): the NameNode's map of blocks, the placement of      *)
(* replicas over racks, and the replication of what a dead node held.      *)
(*                                                                         *)
(* Failures are separate from their detection: between the two the         *)
(* NameNode copies from, and to, nodes that have stopped.  A bloc has the  *)
(* size of one (128 MB), the unit of space.                                *)
(***************************************************************************)
EXTENDS Integers, Sequences, FiniteSets, SequencesExt, FiniteSetsExt

CONSTANTS Clusters,   \* numbers of racks and of nodes in each, and what is done
          Facteur,    \* FACTEUR_REPLIQUE
          Capacite,   \* capacite_gb, in blocs
          Permis

\* What the constants are.
HDFSAssumption ==
    /\ Facteur \in Nat \ {0} /\ Capacite \in Nat
    /\ \A c \in Clusters : c.racks \in Nat /\ c.par_rack \in Nat
    \* Once the scenario is over, nodes that fail, and that come back.
    /\ Permis \subseteq {"pannes", "retours"}

VARIABLES
    cluster,    \* the node_ids, <<rack, index>>, in the order of their registration
    etat,       \* of each DataNode, for the NameNode
    blocs,      \* bloc_ids on each DataNode
    utilise,    \* utilise_gb, in blocs
    repliques,  \* of each bloc, in the order of their creation
    en_marche,  \* the DataNodes that run
    fideles,    \* of each bloc, the DataNodes that really have its data
    taches      \* what the scenario has still to do

varsHDFS == <<cluster, etat, blocs, utilise, repliques, en_marche, fideles, taches>>

Rack(d) == d[1]
Noeuds == ToSet(cluster)
Blocs == DOMAIN repliques
Vivants == {d \in Noeuds : etat[d] = "ALIVE"}   \* datanodes_vivants
NonDetectes == Vivants \ en_marche

TypeOK ==
    /\ etat \in [Noeuds -> {"ALIVE", "DEAD"}]
    /\ blocs \in [Noeuds -> SUBSET Blocs] /\ utilise \in [Noeuds -> Nat]
    /\ repliques \in Seq(SUBSET Noeuds)
    /\ en_marche \subseteq Noeuds
    /\ fideles \in [Blocs -> SUBSET Noeuds]

Init ==
    /\ \E c \in Clusters : /\ cluster = [i \in 1..(c.racks * c.par_rack) |->
                                    <<((i - 1) \div c.par_rack) + 1, ((i - 1) % c.par_rack) + 1>>]
                           /\ taches = c.ops
    /\ etat = [d \in Noeuds |-> "ALIVE"]
    /\ blocs = [d \in Noeuds |-> {}]
    /\ utilise = [d \in Noeuds |-> 0]
    /\ repliques = <<>> /\ fideles = <<>>
    /\ en_marche = Noeuds

-----------------------------------------------------------------------------
\* The nodes with more than a bloc of space, the freest first, those registered
\* first before their equals.
Tri(noeuds, u) ==
    LET rang == [d \in noeuds |-> CHOOSE i \in DOMAIN cluster : cluster[i] = d]
        Avant(a, b) == u[a] < u[b] \/ (u[a] = u[b] /\ rang[a] < rang[b])
    IN SortSeq(SelectSeq(cluster, LAMBDA d : d \in noeuds), Avant)

\* The second: the freest of another rack than the first's, or the freest that is left.
Second(vivants) ==
    LET c == SelectSeq(vivants, LAMBDA d : Rack(d) # Rack(vivants[1]))
    IN IF c = <<>> THEN vivants[2] ELSE c[1]

\* _choisir_datanodes: the freest, one of another rack, the others in the second's.
Completer(choisis, vivants, nb) ==
    LET r2 == choisis[2]
        restants == SelectSeq(vivants, LAMBDA d : d \notin ToSet(choisis))
        ordre == SelectSeq(restants, LAMBDA d : Rack(d) = Rack(r2))
                   \o SelectSeq(restants, LAMBDA d : Rack(d) # Rack(r2))
    IN SubSeq(choisis \o ordre, 1, Min({nb, Len(vivants)}))

ChoisirDatanodes(nb, candidats, u) ==
    LET vivants == Tri({d \in candidats : Capacite - u[d] > 1}, u) IN
    IF Len(vivants) < nb THEN ToSet(vivants)
    ELSE IF nb = 1 THEN {vivants[1]}
    ELSE ToSet(Completer(<<vivants[1], Second(vivants)>>, vivants, nb))

\* creer_fichier: each bloc is placed with the space left by those before it.
Placer(e, b) ==
    LET dns == ChoisirDatanodes(Facteur, Vivants, e.utilise) IN
    [utilise |-> [d \in Noeuds |-> e.utilise[d] + (IF d \in dns THEN 1 ELSE 0)],
     places |-> Append(e.places, dns)]

CreerFichier(nb) ==
    LET f == FoldLeft(Placer, [utilise |-> utilise, places |-> <<>>], [i \in 1..nb |-> i]) IN
    /\ utilise' = f.utilise
    /\ repliques' = repliques \o f.places
    /\ fideles' = fideles \o [i \in 1..nb |-> f.places[i] \intersect en_marche]
    /\ blocs' = [d \in Noeuds |-> blocs[d] \union
                    {Len(repliques) + i : i \in {j \in 1..nb : d \in f.places[j]}}]
    /\ UNCHANGED <<cluster, etat, en_marche>>

\* re_repliquer: the copies are ordered whether a replica with the data runs or not,
\* and the racks of those that are left are not looked at.
Repliquer(e, b) ==
    LET reste == e.repliques[b]
        dns == IF Cardinality(reste) >= Facteur THEN {}
               ELSE ChoisirDatanodes(Facteur - Cardinality(reste), e.vivants \ reste, e.utilise)
        source == e.fideles[b] \intersect reste \intersect en_marche
    IN [e EXCEPT !.utilise = [d \in Noeuds |-> @[d] + (IF d \in dns THEN 1 ELSE 0)],
                 !.repliques[b] = @ \union dns,
                 !.fideles[b] = IF source = {} THEN @ \ dns
                                ELSE @ \union (dns \intersect en_marche)]

\* traiter_panne: the node leaves every bloc's list before any bloc is copied.
TraiterPanne(d) ==
    /\ etat' = [etat EXCEPT ![d] = "DEAD"]
    /\ LET touches == SelectSeq([b \in Blocs |-> b], LAMBDA b : d \in repliques[b])
           f == [utilise |-> utilise, fideles |-> fideles, vivants |-> Vivants \ {d},
                 repliques |-> [b \in Blocs |-> repliques[b] \ {d}]]
       IN \E g \in {FoldLeft(Repliquer, f, touches)} :
            /\ utilise' = g.utilise /\ repliques' = g.repliques /\ fideles' = g.fideles
            /\ blocs' = [x \in Noeuds |-> blocs[x] \union
                            {b \in Blocs : x \in g.repliques[b]}]
    /\ UNCHANGED <<cluster, en_marche>>

\* A node stops with its disk; it comes back, and the NameNode hears of it.
Tomber(d) ==
    /\ en_marche' = en_marche \ {d}
    /\ UNCHANGED <<cluster, etat, blocs, utilise, repliques, fideles>>

RecevoirHeartbeat(d) ==
    /\ en_marche' = en_marche \union {d}
    /\ etat' = [etat EXCEPT ![d] = "ALIVE"]
    /\ UNCHANGED <<cluster, blocs, utilise, repliques, fideles>>

-----------------------------------------------------------------------------
Faire(o) ==
    \/ o.op = "creer" /\ CreerFichier(o.nb)
    \/ o.op = "tomber" /\ en_marche' = en_marche \ o.noeuds
       /\ UNCHANGED <<cluster, etat, blocs, utilise, repliques, fideles>>
    \/ o.op = "traiter" /\ TraiterPanne(o.noeud)

Derouler == taches # <<>> /\ Faire(Head(taches)) /\ taches' = Tail(taches)

\* The assumption on failures under which blocs stay readable: as many nodes fail at
\* once as the replication tolerates, in a cluster that can hold all the replicas without
\* them.  The code assumes it and nothing in it enforces it.
Tolerable(d) ==
    /\ Cardinality(NonDetectes \union {d}) < Facteur
    /\ Cardinality((Vivants \intersect en_marche) \ {d}) >= Facteur

Environnement ==
    /\ taches = <<>> /\ "pannes" \in Permis
    /\ \/ \E d \in Vivants \intersect en_marche : Tolerable(d) /\ Tomber(d)
       \/ \E d \in Noeuds \ en_marche : TraiterPanne(d)   \* once, or again
       \/ "retours" \in Permis /\ \E d \in Noeuds \ en_marche : RecevoirHeartbeat(d)
    /\ UNCHANGED taches

Next == Derouler \/ Environnement

Spec == Init /\ [][Next]_varsHDFS

-----------------------------------------------------------------------------
\* The scenarios of simulation.py: files of so many blocs of 128 MB.
Creer(nb) == <<[op |-> "creer", nb |-> nb]>>
Fichiers(n, nb) == [i \in 1..n |-> [op |-> "creer", nb |-> nb]]
Panne(noeuds) == <<[op |-> "tomber", noeuds |-> ToSet(noeuds)]>>
                   \o [i \in DOMAIN noeuds |-> [op |-> "traiter", noeud |-> noeuds[i]]]

ScenarioDecoupe == [racks |-> 3, par_rack |-> 3, ops |-> Creer(2) \o Creer(5) \o Creer(10)]
ScenarioRackAwareness == [racks |-> 4, par_rack |-> 4, ops |-> Fichiers(30, 1)]
ScenarioPanneDatanode == [racks |-> 3, par_rack |-> 4,
                          ops |-> Fichiers(4, 4) \o Panne(<<<<1, 1>>>>) \o Panne(<<<<1, 2>>>>)]
ScenarioPanneRack == [racks |-> 3, par_rack |-> 4,
                      ops |-> Fichiers(5, 3) \o Panne([i \in 1..4 |-> <<2, i>>])]
ScenarioLecture == [racks |-> 3, par_rack |-> 3, ops |-> Creer(6)]

-----------------------------------------------------------------------------
\* The map names nodes that have the bloc and are taken for alive, and the space
\* they have left is right.
CarteFidele ==
    /\ \A b \in Blocs : /\ Cardinality(repliques[b]) <= Facteur
                        /\ \A d \in repliques[b] : d \in Vivants /\ b \in blocs[d]
    /\ \A d \in Noeuds : utilise[d] >= Cardinality(blocs[d])

\* No bloc is lost, nor taken for one that is not, while fewer nodes than replicas
\* fail before the NameNode deals with them.
BlocsLisibles == \A b \in Blocs :
    /\ repliques[b] \intersect fideles[b] \intersect en_marche # {}
    /\ repliques[b] \intersect en_marche \subseteq fideles[b]

\* A bloc is created on two racks when there are.
CreationSurDeuxRacks == [][\A b \in DOMAIN repliques' \ Blocs :
    Cardinality({Rack(d) : d \in Vivants}) > 1
        => Cardinality({Rack(d) : d \in repliques'[b]}) > 1]_varsHDFS

\* A rack may stop: the other racks have a replica of every bloc.
SurvitAUnRack == \A b \in Blocs :
    NonDetectes = {} /\ Cardinality({Rack(d) : d \in Vivants}) > 1
        => Cardinality({Rack(d) : d \in repliques[b]}) > 1
=============================================================================
