----------------------------- MODULE MCVivacite -----------------------------
(***************************************************************************)
(* What must come about in the end, in one run.  As in the other families  *)
(* the initial state chooses a mechanism; the fairness of its threads is   *)
(* stated of its steps in its own scenario.                                *)
(***************************************************************************)
EXTENDS Integers, Sequences, FiniteSets, TLC

CONSTANTS Requetes, Cles, Payloads, Personne, Appelants, Sagas, Orchestrees, Ouvriers,
          Lecteurs

VARIABLES scenario,
          store, verrous, signales, vieilles, statut, resultat, pc, cle,
          payload, objet, issue, reponse, expirations,
          etat, ecoule, sondes_reussies, fenetre, vu, sain, periode, merite,
          echec,
          entrees, etat_saga, etape, etapes_ok, a_compenser, derniere,
          journal, ecrits, offsets, membres, assignation, activite, a_lire,
          depuis, lot, faits, traites, mouvements,
          strategie, file, tache, echeance, ouvrier, en_main, actif, comptes,
          queues, choisie, position, a_voir, tenu, executees, ouvert,
          source, cache, invalide, ecriture, meneurs, lecteur, protege,
          voulue, lue, au_depart,
          etat_gossip, generation, copie, voisins, contacte, recu, arretes, sursis,
          separes,
          en_ligne, etat_noeud, leader_id, en_election, attend_coordinator, courrier,
          lancements, attentes, reveils, orphelines, minuteurs, suite,
          catalog, checks, etat_sante, age, sante, emetteurs, lot_checks, essai, passes,
          avis, vue, retenu, lecture, parti, reste

varsIdempotence == <<store, verrous, signales, vieilles, statut, resultat, pc,
                     cle, payload, objet, issue, reponse, expirations>>
varsCircuit == <<etat, ecoule, sondes_reussies, fenetre, vu, sain, periode,
                 merite, echec>>
varsSaga == <<entrees, etat_saga, etape, etapes_ok, a_compenser, derniere>>
varsKafka == <<journal, ecrits, offsets, membres, assignation, activite,
               a_lire, depuis, lot, faits, traites, mouvements>>
varsFile == <<strategie, file, tache, echeance, ouvrier, en_main, actif,
              comptes>>
varsVol == <<queues, choisie, position, a_voir, tenu, executees, ouvert>>
varsCache == <<source, cache, invalide, ecriture, meneurs, lecteur, protege,
               voulue, lue, au_depart>>
varsGossip == <<etat_gossip, generation, copie, voisins, contacte, recu, arretes,
                sursis, separes>>
varsBully == <<en_ligne, etat_noeud, leader_id, en_election, attend_coordinator,
               courrier, lancements, attentes, reveils, orphelines, minuteurs, suite>>
varsDecouverte == <<catalog, checks, etat_sante, age, sante, emetteurs, lot_checks, essai,
                    passes, avis, vue, retenu, lecture, parti, reste>>
vars == <<scenario, varsIdempotence, varsCircuit, varsSaga, varsKafka,
          varsFile, varsVol, varsCache, varsGossip, varsBully, varsDecouverte>>

-----------------------------------------------------------------------------
\* The wait's timeout and the TTL never come before the handler's end.
I == INSTANCE Idempotence WITH Permis <- {}

\* Three callers that overlap; the service fails and recovers.
C == INSTANCE CircuitBreaker WITH taille_fenetre <- 3, min_requetes <- 2,
                                  seuil_echec_pct <- 50, nb_sondes <- 2,
                                  Permis <- {"concurrence"}

\* Sagas that overlap on the same services; the orchestrator's may fail anywhere.
S == INSTANCE Saga WITH Permis <- {"concurrence", "echec_notif"}

\* Two members of a group; one of them may crash or leave, none need do so.
K == INSTANCE Kafka WITH NbPartitions <- 2, Consommateurs <- {1, 2}, MaxLot <- 2,
                         Permis <- {}, MaxMessages <- 2, MaxMouvements <- 2

\* A queue whose producers wait without a deadline.
B == INSTANCE FileBornee WITH Taches <- 1..4, capacite <- 2,
                              Priorite <- [t \in 1..4 |-> (t + 1) \div 2],
                              Strategies <- {"block"}, Permis <- {}

\* A pool that is not stopped.
V == INSTANCE VolDeTravail WITH Travaux <- 1..3, Permis <- {}

\* Writes, expiries and failures while readers are under way.
T == INSTANCE Cache WITH Permis <- {"course", "expiration", "panne"}, MaxVersion <- 1

\* One write; the third node is cut off at times, the links are good otherwise; a round
\* goes to one neighbour, whichever it draws.
G == INSTANCE Gossip WITH Noeuds <- 1..3, Cles <- {"k1"}, Auteurs <- [c \in {"k1"} |-> {1}],
                          k <- 1, Coupures <- {{3}}, MaxEcritures <- 1, Permis <- {}

\* Two nodes; the greater stops, and comes back or not.
L0 == INSTANCE Bully WITH actif <- en_ligne, etat <- etat_noeud, Membres <- 1..2,
          Scenarios <- {<<>>}, Permis <- {}, MaxMinuteurs <- 2
L == INSTANCE Bully WITH actif <- en_ligne, etat <- etat_noeud, Membres <- 1..2,
         Scenarios <- {<<>>, L0!Op("arreter", {2}),
                       L0!Op("arreter", {2}) \o L0!Op("ressusciter", {2})},
         Permis <- {}, MaxMinuteurs <- 2

\* One instance that is checked and one that beats; one of them fails.
D0 == INSTANCE Decouverte WITH etat <- etat_sante, lot <- lot_checks, Services <- 1..2,
          Tags <- [i \in 1..2 |-> {}], Cles <- {{}}, Ttl <- 3, TtlCache <- 1,
          Clients <- {"c1"}, Permis <- {}, Scenarios <- {<<>>}
D == INSTANCE Decouverte WITH etat <- etat_sante, lot <- lot_checks, Services <- 1..2,
         Tags <- [i \in 1..2 |-> {}], Cles <- {{}}, Ttl <- 3, TtlCache <- 1,
         Clients <- {"c1"}, Permis <- {},
         Scenarios <- {D0!Op("http", 2) \o D0!Op("ttl", 1) \o D0!Attendre(1)
                         \o D0!Op("tomber", i) \o D0!Client("obtenir") : i \in 1..2}

Init ==
    /\ scenario \in {"idempotence", "circuit", "sagas", "kafka", "file", "vol",
                     "cache", "gossip", "bully", "decouverte"}
    /\ IF scenario = "bully" THEN L!Init ELSE L0!Init
    /\ IF scenario = "decouverte" THEN D!Init ELSE D0!Init
    /\ I!Init
    \* One request, whichever, may differ from the others.
    /\ \A r \in Requetes :
         \/ payload[r] = (CHOOSE p \in Payloads : TRUE)
         \/ (scenario = "idempotence" /\ r = (CHOOSE q \in Requetes : TRUE))
    /\ C!Init /\ S!Init /\ K!Init /\ B!Init /\ V!Init /\ T!Init /\ G!Init

DansIdempotence(A) == scenario = "idempotence" /\ A
DansCircuit(A) == scenario = "circuit" /\ A
DansSagas(A) == scenario = "sagas" /\ A
DansKafka(A) == scenario = "kafka" /\ A
DansFile(A) == scenario = "file" /\ A
DansVol(A) == scenario = "vol" /\ A
DansCache(A) == scenario = "cache" /\ A
DansGossip(A) == scenario = "gossip" /\ A
DansBully(A) == scenario = "bully" /\ A
DansDecouverte(A) == scenario = "decouverte" /\ A

\* The variables of the mechanisms that are not the scenario's.
Fixe(nom, v) == IF scenario = nom THEN TRUE ELSE UNCHANGED v

Next ==
    /\ \/ DansIdempotence(I!Next) \/ DansCircuit(C!Next) \/ DansSagas(S!Next)
       \/ DansKafka(K!Next) \/ DansFile(B!Next) \/ DansVol(V!Next)
       \/ DansCache(T!Next) \/ DansGossip(G!Next) \/ DansBully(L!Next)
       \/ DansDecouverte(D!Next)
    /\ UNCHANGED scenario
    /\ Fixe("idempotence", varsIdempotence) /\ Fixe("circuit", varsCircuit)
    /\ Fixe("sagas", varsSaga) /\ Fixe("kafka", varsKafka)
    /\ Fixe("file", varsFile) /\ Fixe("vol", varsVol)
    /\ Fixe("cache", varsCache) /\ Fixe("gossip", varsGossip)
    /\ Fixe("bully", varsBully) /\ Fixe("decouverte", varsDecouverte)

Spec == Init /\ [][Next]_vars

\* The threads of the scenario go on: handlers return, callers call and their
\* calls end, the circuit's timeout passes; the threads of a saga answer, members
\* of a group keep polling, workers keep taking, TTLs pass, the writer that has
\* written invalidates; gossip rounds begin, go on and are answered.  Elections that
\* are begun go on, messages arrive and waits end, whatever else happens again and again
\* meanwhile; the registry's loops, its watchers' threads and its clients go on.
FairSpec ==
    /\ Spec
    /\ \A r \in Requetes : WF_varsIdempotence(DansIdempotence(I!Etape(r)))
    /\ \A a \in Appelants : WF_varsCircuit(DansCircuit(C!Appeler(a) \/ C!Repondre(a)))
    /\ WF_varsCircuit(DansCircuit(C!Expirer))
    /\ \A s \in Sagas : WF_varsSaga(DansSagas(S!Avancer(s)))
    /\ \A c \in {1, 2} : WF_varsKafka(DansKafka(K!Boucle(c)))
    /\ \A t \in 1..4 : WF_varsFile(DansFile(B!Reprendre(t)))
    /\ \A w \in Ouvriers :
         /\ WF_varsFile(DansFile(B!Dequeue(w) \/ B!Traiter(w) \/ B!Renoncer(w)))
         /\ WF_varsVol(DansVol(V!Travailler(w)))
    /\ \A t \in 1..3 : WF_varsVol(DansVol(V!Deposer(t)))
    /\ \A r \in Lecteurs : WF_varsCache(DansCache(T!Avancer(r)))
    /\ \A k \in Cles : WF_varsCache(DansCache(T!Expirer(k)))
                       /\ WF_varsCache(DansCache(T!Invalider(k)))
    /\ \A n \in 1..3 : WF_varsGossip(DansGossip(G!Tour(n)))
    /\ \A n \in 1..2 :
         /\ WF_varsBully(DansBully(L!LancerElection(n)))
         /\ WF_varsBully(DansBully(L!OkRecu(n)))
         /\ SF_varsBully(DansBully(L!TimeoutOk(n)))
         /\ SF_varsBully(DansBully(L!TimeoutCoordinator(n)))
         /\ SF_varsBully(DansBully(L!LeaderSilencieux(n)))
    /\ \A m \in L!Messages :
         WF_varsBully(DansBully(m \in courrier /\ L!Livrer(m)))
    /\ WF_varsDecouverte(DansDecouverte(D!Derouler))
    /\ WF_varsDecouverte(DansDecouverte(D!Tick))
    /\ WF_varsDecouverte(DansDecouverte(D!CopierChecks \/ D!AppliquerCheck
                                         \/ \E i \in 1..2 : D!ExecuterCheck(i)))
    /\ WF_varsDecouverte(DansDecouverte(D!BoucleTtl))
    /\ WF_varsDecouverte(DansDecouverte(\E n \in DOMAIN avis : D!Rappeler(n)))
    /\ \A i \in 1..2 : WF_varsDecouverte(DansDecouverte(D!Heartbeat(i)))
    /\ WF_varsDecouverte(DansDecouverte(D!Interroger("c1") \/ D!Retenir("c1")))

-----------------------------------------------------------------------------
\* Idempotence: every request is answered.  Cache: every reader is, and what is cached
\* gets fresh once the writes have ended.
ChacunRepond == /\ scenario = "idempotence" => I!ChacunRepond
                /\ scenario = "cache" => T!LecteurRepond /\ T!FinitFrais

\* The circuit of a service that has recovered ends up closed; the nodes of a cluster
\* end up with its greatest live node for leader; an instance that fails ends up where
\* nobody resolves it.
Retablissement == /\ scenario = "circuit" => C!Retablissement
                  /\ scenario = "bully" => L!PlusGrandElu
                  /\ scenario = "decouverte" => D!PanneRetiree

\* Every saga comes to an end, every message of a topic is processed while the group
\* keeps a member, every task of the blocking queue is, and of the pool is executed.
TousTraites == /\ scenario = "sagas" => S!SagaTerminee
               /\ scenario = "kafka" => K!ToutEstTraite
               /\ scenario = "file" => B!RienNeSePerd
               /\ scenario = "vol" => V!ToutEstExecute

\* Gossip: what was written comes to every node once partitions have ended.
Propagation == scenario = "gossip" => G!Propagation
=============================================================================
