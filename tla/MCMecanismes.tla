---------------------------- MODULE MCMecanismes -----------------------------
(***************************************************************************)
(* Three families of mechanisms, in one run: streams, queues and caches;   *)
(* what services are built from; and the mechanisms whose simulations are  *)
(* played, each of which is given the scenarios of its simulation.py and   *)
(* small concurrent programmes that the simulation has not.  They share    *)
(* nothing: the initial state chooses one (scenario), the others are idle. *)
(* The module is an instance of Idempotence: neither the wait nor the TTL  *)
(* ends before the handler, and finished entries expire.                   *)
(***************************************************************************)
EXTENDS Idempotence, Sequences, TLC

CONSTANTS Ouvriers, Lecteurs,
          RequeteNommee,   \* the request that is named first
          Appelants, Sagas, Orchestrees

VARIABLES scenario,
          actif, etat, leader_id, en_election, attend_coordinator, courrier,
          lancements, attentes, reveils, orphelines, minuteurs, suite,
          catalog, checks, etat_sante, age, sante, emetteurs, lot, essai, passes,
          avis, vue, retenu, lecture, parti, reste,
          vie, historique, silence, phase, releve, sommeil, delais, en_panne, pannes,
          programme, fait, compteur, evenements, en_cours, messages, connus,
          tous_ids, groupes, temps, store_cap, ecritures, replications, fusions,
          verrous_cap, cp, decidees, statut_cap, confirmes, derniere, reconcilies,
          operations,
          cluster, etat_datanode, blocs, utilise, repliques, en_marche, fideles, taches,
          epsilon, derives, heure, lenteurs, phases, fils, txs, donnees, journaux,
          vivantes,
          repartiteurs, capacite, actifs, connexions, tours, acceptes, choisis, instant,
          clients,
          rpm, politiques, instants, seaux, accordes, comptes, decisions, appels,
          minutes, emis, revokes, porte, signatures, audit, verdicts, acces,
          date, entrees_spiffe, federes, documents, agents_spire, pods,
          horloge, spans, recus, compteurs, conserves, processus,
          millis, total, echecs, actives, latences, journal, empans, alertes, agents,
          journal_kafka, ecrits, offsets, membres, assignation, activite,
          a_lire, depuis, lot_kafka, faits, traites, mouvements,
          strategie, file, tache, echeance, ouvrier, en_main, actif_file, comptes_file,
          source, cache, invalide, ecriture, meneurs, lecteur, protege,
          voulue, lue, au_depart,
          algo, maintenant, compte, repere, horodates, admis,
          flot, max_event_t, fenetres, emises, sessions, fermees,
          queues, choisie, position, a_voir, tenu, executees, ouvert,
          etat_circuit, ecoule, sondes_reussies, fenetre, vu, sain, periode, merite, echec,
          entrees_saga, etat_saga, etape, etapes_ok, a_compenser, derniere_saga

varsBully == <<actif, etat, leader_id, en_election, attend_coordinator, courrier,
               lancements, attentes, reveils, orphelines, minuteurs, suite>>
varsDecouverte == <<catalog, checks, etat_sante, age, sante, emetteurs, lot, essai,
                    passes, avis, vue, retenu, lecture, parti, reste>>
varsHeartbeat == <<vie, historique, silence, phase, releve, sommeil, delais, en_panne,
                   pannes>>
varsLamport == <<programme, fait, compteur, evenements, en_cours, messages, connus>>
varsCap == <<tous_ids, groupes, temps, store_cap, ecritures, replications, fusions,
             verrous_cap, cp, decidees, statut_cap, confirmes, derniere, reconcilies,
             operations>>
varsHDFS == <<cluster, etat_datanode, blocs, utilise, repliques, en_marche, fideles,
              taches>>
varsSpanner == <<epsilon, derives, heure, lenteurs, phases, fils, txs, donnees, journaux,
                 vivantes>>
varsEquilibrage == <<repartiteurs, capacite, actifs, connexions, tours, acceptes, choisis,
                     instant, clients>>
varsPasserelle == <<rpm, politiques, instants, seaux, accordes, comptes, decisions,
                    appels>>
varsZeroTrust == <<minutes, emis, revokes, porte, signatures, audit, verdicts, acces>>
varsSpiffe == <<date, entrees_spiffe, federes, documents, agents_spire, pods>>
varsTraces == <<horloge, spans, recus, compteurs, conserves, processus>>
varsObservabilite == <<millis, total, echecs, actives, latences, journal, empans, alertes,
                       agents>>
varsKafka == <<journal_kafka, ecrits, offsets, membres, assignation, activite,
               a_lire, depuis, lot_kafka, faits, traites, mouvements>>
varsFile == <<strategie, file, tache, echeance, ouvrier, en_main, actif_file,
              comptes_file>>
varsCache == <<source, cache, invalide, ecriture, meneurs, lecteur, protege,
               voulue, lue, au_depart>>
varsLimiteur == <<algo, maintenant, compte, repere, horodates, admis>>
varsFlink == <<flot, max_event_t, fenetres, emises, sessions, fermees>>
varsVol == <<queues, choisie, position, a_voir, tenu, executees, ouvert>>
varsCircuit == <<etat_circuit, ecoule, sondes_reussies, fenetre, vu, sain, periode,
                 merite, echec>>
varsSaga == <<entrees_saga, etat_saga, etape, etapes_ok, a_compenser, derniere_saga>>
varsMecanismes ==
        <<scenario, varsBully, varsDecouverte, varsHeartbeat, varsLamport, varsCap,
          varsHDFS, varsSpanner, varsEquilibrage, varsPasserelle, varsZeroTrust,
          varsSpiffe, varsTraces, varsObservabilite, varsKafka, varsFile, varsCache,
          varsLimiteur, varsFlink, varsVol,
          vars, varsCircuit, varsSaga>>

-----------------------------------------------------------------------------
\* Of each mechanism, an instance that has nothing to do and names the scenarios, and
\* the one that is checked.

\* Bully: three nodes.
B0 == INSTANCE Bully WITH Membres <- 1..3, Scenarios <- {<<>>}, Permis <- {},
                          MaxMinuteurs <- 2
B == INSTANCE Bully WITH Membres <- 1..3, Permis <- {}, MaxMinuteurs <- 2,
         Scenarios <- {B0!ElectionInitiale, B0!MortDuLeader, B0!ResurrectionLeader,
                       B0!PannesMultiples({1})}

\* Discovery: besides, two instances to which two things happen, then a third.
D0 == INSTANCE Decouverte WITH etat <- etat_sante, Services <- 1..5, Clients <- {"c1"},
          Tags <- [i \in 1..5 |-> {}], Cles <- {{}}, Ttl <- 3, TtlCache <- 1,
          Permis <- {}, Scenarios <- {<<>>}
Coups == {D0!Op(op, i) : op \in {"desenregistrer", "tomber"}, i \in {1, 2}}
           \union {D0!Client(op) : op \in {"obtenir", "rafraichir", "invalider"}}
           \union {D0!Attendre(1)}
D == INSTANCE Decouverte WITH etat <- etat_sante, Services <- 1..5, Clients <- {"c1"},
         Tags <- [i \in 1..5 |-> {}], Cles <- {{}}, Ttl <- 3, TtlCache <- 1,
         Permis <- {},
         Scenarios <- {D0!ScenarioBase, D0!ScenarioHealthChecks, D0!ScenarioWatch,
                       D0!ScenarioCache}
             \union {D0!Op("http", 2) \o D0!Op("ttl", 1) \o a \o b \o c :
                        a, b \in Coups,
                        c \in {D0!Client("obtenir"), D0!Client("rafraichir"),
                               D0!Attendre(1)}}

\* Heartbeats: one node whose delays vary; two that fail one after the other.
H0 == INSTANCE Heartbeat WITH programme <- pannes, Surveilles <- {1}, Reguliers <- {2},
          Conservateur <- 20, Memoire <- 3, MaxSilence <- 45, Pannes <- {<<>>}
H == INSTANCE Heartbeat WITH programme <- pannes, Surveilles <- {1},
         Reguliers <- {2, 3}, Conservateur <- 20, Memoire <- 3, MaxSilence <- 45,
         Pannes <- {H0!ClusterSain, H0!PanneFranche(1), H0!PanneLente(1),
                    H0!Resurrection(1)}
HDeux == INSTANCE Heartbeat WITH programme <- pannes, Surveilles <- {1, 2},
             Reguliers <- {2}, Conservateur <- 20, Memoire <- 3, MaxSilence <- 45,
             Pannes <- {H0!Cascade(1, 2)}

\* Lamport: besides, two processes that two threads each share.
L0 == INSTANCE Lamport WITH Programmes <- {<<>>}
Partage == <<L0!Interne("p") \o <<L0!Op("ENVOI", "p", "m")>>,
             L0!Interne("p") \o <<L0!Op("ATTENTE", "q", "m")>>,
             L0!Interne("q") \o <<L0!Op("ENVOI", "q", "n")>>,
             <<L0!Op("ATTENTE", "p", "n")>> \o L0!Interne("p")>>
L == INSTANCE Lamport WITH Programmes <- {L0!SolutionLamport, L0!ECommerce,
                                          L0!Concurrence, L0!Threads, Partage}

\* CAP: besides, any four writes and partitions, after which all nodes reconcile.
C0 == INSTANCE Cap WITH suite <- operations, store <- store_cap, verrous <- verrous_cap,
          statut <- statut_cap, Cles <- {"a", "b", "c"}, Permis <- {},
          Programmes <- {[noeuds |-> {1}, ops |-> <<>>]}
Actes == {C0!Ecrire(n, "a", n) : n \in 1..3}
           \union {C0!Partitionner({{1}, {2, 3}}), C0!Partitionner({}),
                    <<C0!Sur("lire", 1, "a", 0)>>, <<C0!Sur("cp_ecrire", 1, "a", 4)>>}
C == INSTANCE Cap WITH suite <- operations, store <- store_cap, verrous <- verrous_cap,
         statut <- statut_cap, Cles <- {"a", "b", "c"}, Permis <- {},
         Programmes <- {C0!ScenarioNormal("a"), C0!ScenarioPartition("a"),
                        C0!ScenarioDivergence("a"), C0!ScenarioGuerison("a", "b", "c")}
             \union {[noeuds |-> 1..3, ops |-> a \o b \o c \o C0!Partitionner({})
                                                 \o C0!ReconcilierTous(3)] :
                        a, b, c \in Actes}

\* HDFS: the scenarios, and two clusters whose nodes fail one after the other.
F0 == INSTANCE HDFS WITH etat <- etat_datanode, Facteur <- 3, Capacite <- 160,
          Permis <- {}, Clusters <- {[racks |-> 1, par_rack |-> 1, ops |-> <<>>]}
F == INSTANCE HDFS WITH etat <- etat_datanode, Facteur <- 3, Capacite <- 160,
         Permis <- {}, Clusters <- {F0!ScenarioDecoupe, F0!ScenarioRackAwareness,
                                    F0!ScenarioPanneDatanode, F0!ScenarioPanneRack,
                                    F0!ScenarioLecture}
FPannes == INSTANCE HDFS WITH etat <- etat_datanode, Facteur <- 3, Capacite <- 160,
               Permis <- {"pannes"},
               Clusters <- {[racks |-> 3, par_rack |-> 2,
                             ops |-> F0!Creer(1) \o F0!Creer(2)],
                            [racks |-> 2, par_rack |-> 3, ops |-> F0!Creer(2)]}

\* Spanner: besides, threads that write and read the same keys under clocks that differ.  The
\* shards of the keys are those MD5 gives.
ClesSpanner == {"alice", "bob", "carol", "dave", "solde:alice", "user:99", "user:100",
                "user:101"} \union {"user:" \o ToString(i) : i \in 0..9}
ShardDe == [c \in ClesSpanner |->
              CASE c \in {"alice", "dave", "user:100", "user:4", "user:8"} -> 0
                [] c \in {"solde:alice", "user:101", "user:1", "user:7", "user:9"} -> 1
                [] OTHER -> 2]
S0 == INSTANCE Spanner WITH Cles <- ClesSpanner, ShardDe <- ShardDe, Lenteurs <- 0,
          Programmes <- {[epsilon |-> 1, derives |-> <<>>, phases |-> <<<<>>>>]}
S == INSTANCE Spanner WITH Cles <- ClesSpanner, ShardDe <- ShardDe, Lenteurs <- 1,
         Programmes <-
           {S0!ScenarioTruetime, S0!ScenarioMvccSnapshot, S0!ScenarioPaxos,
            S0!ScenarioExternalConsistency, S0!ScenarioSynthese(2)}
           \union {[epsilon |-> 1, derives |-> d, phases |-> <<<<
                      <<S0!Tx(<<S0!Ecrire("alice", 1), S0!Ecrire("bob", 1)>>)>>,
                      <<S0!Tx(<<S0!Ecrire("bob", 2)>>), S0!Tx(<<S0!Ecrire("alice", 3)>>)>>
                    >>>>] : d \in {<<1, -1>>, <<-1, 1>>}}
           \union {[epsilon |-> 1, derives |-> <<0, 0>>, phases |-> <<<<
                      <<[S0!Tx(<<S0!Ecrire("alice", 1), S0!Ecrire("bob", 1)>>)
                           EXCEPT !.finit = {"COMMITTEE", "ANNULEE"}]>>,
                      <<S0!Tue(0), S0!Tue(0), S0!Tue(0)>>>>>>]}
           \union {[epsilon |-> 1, derives |-> <<1, -1>>, phases |-> <<<<
                      <<S0!Tx(<<S0!Ecrire("alice", 1), S0!Ecrire("bob", 1)>>)>>,
                      <<S0!Dort(3, TRUE), S0!Lectures(<<"alice", "bob">>, w),
                        S0!Tx(<<S0!Ecrire("bob", 2)>>)>>>>>>] :
                      w \in {<<>>, <<S0!Ecrire("bob", 4)>>}}

\* Load balancing: besides, two clients whose requests overlap while backends fail.
Hash == "ip1" :> 5 @@ "ip2" :> 7
E0 == INSTANCE Equilibrage WITH Hash <- Hash, Permis <- {},
          Programmes <- {[repartiteurs |-> <<>>, capacite |-> 1, clients |-> <<>>]}
Requete == E0!Requete(1, "ip1", "x", 0, {})
E == INSTANCE Equilibrage WITH Hash <- Hash, Permis <- {},
         Programmes <-
           {E0!ScenarioAlgosL4(a) : a \in E0!Algos \ {"IP_HASH"}}
           \union {E0!ScenarioRoutageChemin, E0!ScenarioCanary, E0!ScenarioFailover,
                   E0!ScenarioRateSticky}
           \union {[repartiteurs |-> <<l>>, capacite |-> 1,
                    clients |-> <<<<Requete>>, <<Requete, Requete>>, c>>] :
                l \in {E0!L4(a, <<"b1", "b2">>) : a \in E0!Algos}
                      \union {E0!L7(a, <<E0!Regle({"x"}, <<"b1">>)>>, <<"b2", "b3">>, 2) :
                                a \in {"ROUND_ROBIN", "LEAST_CONNECTIONS"}},
                c \in {<<[op |-> "tomber", backend |-> "b1"],
                         [op |-> "guerir", backend |-> "b1"]>>,
                       <<[op |-> "tomber", backend |-> "b1"],
                         [op |-> "tomber", backend |-> "b2"]>>,
                       <<[op |-> "attendre", duree |-> 1],
                         [op |-> "attendre", duree |-> 1], Requete>>}}
           \* Of layer 4 without a request; of layer 7 with an algorithm it has not.
           \union {[repartiteurs |-> <<l>>, capacite |-> 1,
                    clients |-> <<<<q>>, <<q, Requete>>,
                                  <<[op |-> "tomber", backend |-> "b1"]>>>>] :
                <<l, q>> \in {<<E0!L4("ROUND_ROBIN", <<"b1", "b2">>),
                                [Requete EXCEPT !.op = "tcp"]>>,
                              <<E0!L7("POWER_OF_TWO", <<>>, <<"b1", "b2">>, 0), Requete>>}}

\* Gateway: besides, an incident and requests that overlap, two in a minute allowed.
Sujets == {"alice", "bob", "admin", "expired", "charlie", "dave", "eve", "frank",
           "hacker", "svc", "client-test", "reports-service", "analytics-service"}
            \union {"user_" \o ToString(i) : i \in 0..4}
P0 == INSTANCE Passerelle WITH Sujets <- {}, Segments <- {},
          Programmes <- {[rpm |-> 1, clients |-> <<>>]}
Pause(d) == [op |-> "attendre", duree |-> d]
Appel(s, r, m, c) == P0!Traiter(s, r, {"payments:read"}, m, c, 0)
Rapport == P0!Traiter("reports-service", {"service"}, {"analytics:read"}, "GET",
                      "analytics", 0)
P == INSTANCE Passerelle WITH Sujets <- Sujets, Segments <- {"root", "v1"},
         Programmes <-
           {P0!ScenarioPipeline, P0!ScenarioPolitiques, P0!ScenarioRateLimiting,
            P0!ScenarioPolicyAsCode, P0!ScenarioAudit}
           \union {[rpm |-> 2,
                    clients |-> <<<<Rapport, x, Rapport>>, <<y, P0!Urgence, Rapport>>>>] :
                x \in {Pause(31), Appel("bob", {"user"}, "GET", "payments"),
                       Appel("bob", {"user"}, "GET", "fraud"),
                       [Rapport EXCEPT !.exp = 1]},
                y \in {Pause(30), Appel("bob", {"admin"}, "DELETE", "fraud"),
                       Appel("bob", {"user"}, "GET", "payments")}}

\* Zero trust: besides, calls during rotations and revocations.
ServicesMtls == {"payments", "analytics", "fraud", "billing", "recommendations", "rogue",
                 "admin", "compromised", "old", "fake"}
Z0 == INSTANCE ZeroTrust WITH heure <- minutes, Services <- {}, Programmes <- {<<>>}
Z == INSTANCE ZeroTrust WITH heure <- minutes, Services <- ServicesMtls,
         Programmes <-
           {Z0!ScenarioMtls, Z0!ScenarioPolitiques, Z0!ScenarioRotation,
            Z0!ScenarioLateral, Z0!ScenarioAudit,
            <<Z0!Agents(<<"payments", "analytics", "rogue">>)
                \o <<Z0!Appel("analytics", "payments", "GET", "users", ""),
                     [op |-> "attendre", duree |-> 61],
                     Z0!Appel("analytics", "payments", "GET", "users", "")>>,
              <<Z0!Rotation("analytics"), [op |-> "revoquer", service |-> "payments"],
                Z0!Emission("payments")>>,
              <<Z0!Appel("rogue", "payments", "GET", "users", "")>>>>}

\* SPIFFE: besides, workloads that ask while documents age and domains federate.
Domaines == {"prod", "analytics", "partner"}
NoeudsSpire == {"node-0", "node-1", "node-2", "hacker-node"}
I0 == INSTANCE Spiffe WITH agents <- agents_spire, entrees <- entrees_spiffe,
          Domaines <- {}, Noeuds <- {}, Deploiements <- {<<>>}
Demande(s) == I0!Demande("node-0", s, {"*"})
Minute == [op |-> "attendre", duree |-> 1]
I == INSTANCE Spiffe WITH agents <- agents_spire, entrees <- entrees_spiffe,
         Domaines <- Domaines, Noeuds <- NoeudsSpire,
         Deploiements <-
           {I0!ScenarioAttestation, I0!ScenarioRotation, I0!ScenarioSelecteurs,
            I0!ScenarioFederation, I0!ScenarioImposture,
            <<<<I0!Agent("node-0", "prod"),
                [I0!Entree("prod", "a", {"ns:a"}) EXCEPT !.entree.ttl = 3],
                [I0!Entree("prod", "b", {"sa:a"}) EXCEPT !.entree.id.domaine = "partner"],
                Demande({"ns:a", "sa:a"}), Demande({"ns:a", "sa:a"}),
                Demande({"ns:a", "sa:a"})>>,
              <<Minute, Minute, Minute, Minute>>,
              <<[op |-> "federer", un |-> "prod", autre |-> "analytics"],
                [op |-> "federer", un |-> "partner", autre |-> "prod"]>>,
              <<Demande({"ns:a"}), Demande({"ns:a"})>>>>}

\* Tracing: besides, two requests at once.
T0 == INSTANCE Traces WITH Programmes <- {<<>>}
T == INSTANCE Traces WITH Programmes <-
         {T0!ScenarioTraceSimple, T0!ScenarioParallele, T0!ScenarioErreur,
          T0!ScenarioLatence, T0!ScenarioSampling,
          <<<<[op |-> "lancer", fils |-> {2, 5}]>>,
            T0!Traiter("a", 1, "ctx", 20, {3, 4}, <<T0!Traiter("d", 1, "a", 10, {}, <<>>)>>),
            T0!Traiter("b", 1, "a", 10, {}, <<>>), T0!Traiter("c", 1, "a", 10, {}, <<>>),
            T0!Traiter("f", 2, "ctx", 20, {6}, <<>>),
            T0!Traiter("g", 2, "f", 10, {}, <<>>)>>}

\* Observability: besides, two requests while the alerts are evaluated.
Observes == {"payments", "catalog", "cart", "inventory", "notifier", "gateway",
             "database"}
O0 == INSTANCE Observabilite WITH Observes <- {}, Programmes <- {<<>>}
Relais(d) == O0!Requete(<<O0!AppelDe("gateway", "POST", 10, {FALSE}),
                          O0!AppelDe("database", "SELECT", d, {TRUE, FALSE})>>)
O == INSTANCE Observabilite WITH Observes <- Observes,
         Programmes <- {O0!ScenarioMetriquesEtLogs, O0!ScenarioTraces,
                        O0!ScenarioCorrelation, O0!ScenarioSLO,
                        <<<<Relais(10)>>, <<Relais(20)>>,
                          <<[op |-> "evaluer", service |-> "database"]>>>>}

\* Topics: two partitions, two members that come, go and crash.
K == INSTANCE Kafka WITH journal <- journal_kafka, lot <- lot_kafka,
         NbPartitions <- 2, Consommateurs <- {1, 2}, MaxLot <- 2, Permis <- {},
         MaxMessages <- 3, MaxMouvements <- 3

\* The same topic when old messages are purged.
KRetention == INSTANCE Kafka WITH journal <- journal_kafka, lot <- lot_kafka,
                  NbPartitions <- 2, Consommateurs <- {1, 2}, MaxLot <- 2,
                  Permis <- {"retention"}, MaxMessages <- 2, MaxMouvements <- 2

\* A bounded queue: four tasks of two priorities for two places, deadlines and stops.
File == INSTANCE FileBornee WITH actif <- actif_file, comptes <- comptes_file,
            Taches <- 1..4, capacite <- 2, Priorite <- [t \in 1..4 |-> (t + 1) \div 2],
            Strategies <- {"block", "drop_newest", "drop_oldest", "priority"},
            Permis <- {"delais", "arret"}

\* Work stealing: three tasks for the queues of two workers; the pool is stopped.
V == INSTANCE VolDeTravail WITH Travaux <- 1..3, Permis <- {"arret"}

\* A cache: writes while nobody reads, entries that expire while nobody reads.
Ca == INSTANCE Cache WITH Cles <- {"k1"}, Permis <- {}, MaxVersion <- 3

\* No writes.
CaLectures == INSTANCE Cache WITH Cles <- {"k1"}, Permis <- {}, MaxVersion <- 0

\* Everything at any time.
CaCourses == INSTANCE Cache WITH Cles <- {"k1"}, MaxVersion <- 2,
                 Permis <- {"course", "expiration", "delai", "panne"}

\* Rate limits: half a token in a tick, the windows of three ticks.
Li == INSTANCE Limiteur WITH limite <- 2, fenetre <- 3, Parts <- 2, parts_par_tick <- 1,
          Couts <- {1, 2}, MaxTicks <- 8, MaxAdmis <- 7

\* Stream windows: a stream in order.
Fl == INSTANCE Flink WITH Cles <- {"a", "b"}, taille <- 2, pas <- 1, gap <- 1,
          max_retard <- 1, Desordre <- 0, MaxTemps <- 5, MaxEvenements <- 5

\* Circuit breaker: one call at a time, and an operator.
Cb == INSTANCE CircuitBreaker WITH etat <- etat_circuit, taille_fenetre <- 4,
          min_requetes <- 3, seuil_echec_pct <- 50, nb_sondes <- 2,
          Permis <- {"operateur"}

\* Sagas one after the other on the same services.
Sa == INSTANCE Saga WITH entrees <- entrees_saga, derniere <- derniere_saga, Permis <- {}

\* Sagas that overlap on the same services.
SaEnsemble == INSTANCE Saga WITH entrees <- entrees_saga, derniere <- derniere_saga,
                  Permis <- {"concurrence"}

ASSUME /\ B!BullyAssumption /\ D!DecouverteAssumption /\ H!HeartbeatAssumption
       /\ HDeux!HeartbeatAssumption /\ L!LamportAssumption /\ C!CapAssumption
       /\ F!HDFSAssumption /\ FPannes!HDFSAssumption /\ S!SpannerAssumption
       /\ E!EquilibrageAssumption /\ P!PasserelleAssumption /\ Z!ZeroTrustAssumption
       /\ I!SpiffeAssumption /\ T!TracesAssumption /\ O!ObservabiliteAssumption
       /\ K!KafkaAssumption /\ KRetention!KafkaAssumption /\ File!FileAssumption
       /\ V!VolAssumption /\ Ca!CacheAssumption /\ CaLectures!CacheAssumption
       /\ CaCourses!CacheAssumption /\ Li!LimiteurAssumption /\ Fl!FlinkAssumption
       /\ Cb!CircuitAssumption /\ Sa!SagaAssumption /\ SaEnsemble!SagaAssumption

\* The first request has the first key and payload, which loses nothing: only whether
\* two of them are equal counts.  All have, in the scenarios of others.
CleEtPayloadNommes ==
    \A q \in Requetes : q = RequeteNommee \/ scenario # "idempotence" =>
        /\ cle[q] = (CHOOSE c \in Cles : TRUE)
        /\ payload[q] = (CHOOSE p \in Payloads : TRUE)

InitMecanismes ==
    /\ scenario \in {"bully", "decouverte", "heartbeat", "heartbeat_deux", "lamport",
                     "cap", "hdfs", "hdfs_pannes", "spanner", "equilibrage",
                     "passerelle", "zerotrust", "spiffe", "traces", "observabilite",
                     "kafka", "kafka_retention", "file", "vol", "cache",
                     "cache_lectures", "cache_courses", "limiteur", "flink",
                     "idempotence", "circuit", "sagas", "sagas_ensemble"}
    /\ IF scenario = "bully" THEN B!Init ELSE B0!Init
    /\ IF scenario = "decouverte" THEN D!Init ELSE D0!Init
    /\ CASE scenario = "heartbeat" -> H!Init
         [] scenario = "heartbeat_deux" -> HDeux!Init
         [] OTHER -> H0!Init
    /\ IF scenario = "lamport" THEN L!Init ELSE L0!Init
    /\ IF scenario = "cap" THEN C!Init ELSE C0!Init
    /\ CASE scenario = "hdfs" -> F!Init
         [] scenario = "hdfs_pannes" -> FPannes!Init
         [] OTHER -> F0!Init
    /\ IF scenario = "spanner" THEN S!Init ELSE S0!Init
    /\ IF scenario = "equilibrage" THEN E!Init ELSE E0!Init
    /\ IF scenario = "passerelle" THEN P!Init ELSE P0!Init
    /\ IF scenario = "zerotrust" THEN Z!Init ELSE Z0!Init
    /\ IF scenario = "spiffe" THEN I!Init ELSE I0!Init
    /\ IF scenario = "traces" THEN T!Init ELSE T0!Init
    /\ IF scenario = "observabilite" THEN O!Init ELSE O0!Init
    /\ K!Init
    /\ File!Init
    /\ V!Init
    /\ Ca!Init
    /\ Li!Init
    /\ Fl!Init
    /\ Init /\ CleEtPayloadNommes
    /\ Cb!Init
    /\ Sa!Init
    /\ scenario # "file" => strategie = "block"
    /\ scenario # "limiteur" => algo = "fixed_window"

\* The variables of the mechanisms that are idle.
Idle(noms, v) == IF scenario \in noms THEN TRUE ELSE UNCHANGED v
Fixe == /\ UNCHANGED scenario
        /\ Idle({"bully"}, varsBully)
        /\ Idle({"decouverte"}, varsDecouverte)
        /\ Idle({"heartbeat", "heartbeat_deux"}, varsHeartbeat)
        /\ Idle({"lamport"}, varsLamport)
        /\ Idle({"cap"}, varsCap)
        /\ Idle({"hdfs", "hdfs_pannes"}, varsHDFS)
        /\ Idle({"spanner"}, varsSpanner)
        /\ Idle({"equilibrage"}, varsEquilibrage)
        /\ Idle({"passerelle"}, varsPasserelle)
        /\ Idle({"zerotrust"}, varsZeroTrust)
        /\ Idle({"spiffe"}, varsSpiffe)
        /\ Idle({"traces"}, varsTraces)
        /\ Idle({"observabilite"}, varsObservabilite)
        /\ Idle({"kafka", "kafka_retention"}, varsKafka)
        /\ Idle({"file"}, varsFile)
        /\ Idle({"vol"}, varsVol)
        /\ Idle({"cache", "cache_lectures", "cache_courses"}, varsCache)
        /\ Idle({"limiteur"}, varsLimiteur)
        /\ Idle({"flink"}, varsFlink)
        /\ Idle({"idempotence"}, vars)
        /\ Idle({"circuit"}, varsCircuit)
        /\ Idle({"sagas", "sagas_ensemble"}, varsSaga)

NextMecanismes ==
    \/ scenario = "bully" /\ B!Next /\ Fixe
    \/ scenario = "decouverte" /\ D!Next /\ Fixe
    \/ scenario = "heartbeat" /\ H!Next /\ Fixe
    \/ scenario = "heartbeat_deux" /\ HDeux!Next /\ Fixe
    \/ scenario = "lamport" /\ L!Next /\ Fixe
    \/ scenario = "cap" /\ C!Next /\ Fixe
    \/ scenario = "hdfs" /\ F!Next /\ Fixe
    \/ scenario = "hdfs_pannes" /\ FPannes!Next /\ Fixe
    \/ scenario = "spanner" /\ S!Next /\ Fixe
    \/ scenario = "equilibrage" /\ E!Next /\ Fixe
    \/ scenario = "passerelle" /\ P!Next /\ Fixe
    \/ scenario = "zerotrust" /\ Z!Next /\ Fixe
    \/ scenario = "spiffe" /\ I!Next /\ Fixe
    \/ scenario = "traces" /\ T!Next /\ Fixe
    \/ scenario = "observabilite" /\ O!Next /\ Fixe
    \/ scenario = "kafka" /\ K!Next /\ Fixe
    \/ scenario = "kafka_retention" /\ KRetention!Next /\ Fixe
    \/ scenario = "file" /\ File!Next /\ Fixe
    \/ scenario = "vol" /\ V!Next /\ Fixe
    \/ scenario = "cache" /\ Ca!Next /\ Fixe
    \/ scenario = "cache_lectures" /\ CaLectures!Next /\ Fixe
    \/ scenario = "cache_courses" /\ CaCourses!Next /\ Fixe
    \/ scenario = "limiteur" /\ Li!Next /\ Fixe
    \/ scenario = "flink" /\ Fl!Next /\ Fixe
    \/ scenario = "idempotence" /\ Next /\ Fixe
    \/ scenario = "circuit" /\ Cb!Next /\ Fixe
    \/ scenario = "sagas" /\ Sa!Next /\ Fixe
    \/ scenario = "sagas_ensemble" /\ SaEnsemble!Next /\ Fixe

SpecMecanismes == InitMecanismes /\ [][NextMecanismes]_varsMecanismes

-----------------------------------------------------------------------------
\* Bully is typed; two leaders last no longer than a COORDINATOR on its way.
ScissionBreve == scenario = "bully" => B!TypeOK /\ B!ScissionBreve

\* Failure detection: the registry is typed, its watchers and its client's cache know
\* who is healthy; the monitor is typed, suspects who is silent and nobody else.
VuesFideles ==
    /\ scenario = "decouverte" =>
         D!TypeOK /\ D!ObservateursAJour /\ D!SilenceDetecte /\ D!CacheBorne
    /\ scenario = "heartbeat" => H!TypeOK /\ H!FauxPositif /\ H!DetectionBornee
    /\ scenario = "heartbeat_deux" =>
         HDeux!TypeOK /\ HDeux!FauxPositif /\ HDeux!DetectionBornee

\* Clocks: Lamport's are typed and his timestamps extend what happened before to one
\* order; Spanner is typed, its timestamps follow the order in which transactions end and
\* begin, and the versions are those of what was committed.
OrdreFidele ==
    /\ scenario = "lamport" =>
         L!TypeOK /\ L!ConditionHorloge /\ L!OrdreTotal /\ L!JournalOrdonne
    /\ scenario = "spanner" => S!TypeOK /\ S!CoherenceExterne /\ S!HistoriqueFidele

\* Copies: the nodes of CAP are typed, come to the last write and never wait for each
\* other; HDFS is typed, its map is that of the copies, and blocs stay readable.
CopiesFideles ==
    /\ scenario = "cap" => C!TypeOK /\ C!DerniereEcritureGagne /\ C!SansInterblocage
    /\ scenario = "hdfs" => F!TypeOK /\ F!CarteFidele /\ F!BlocsLisibles
    /\ scenario = "hdfs_pannes" =>
         FPannes!TypeOK /\ FPannes!CarteFidele /\ FPannes!BlocsLisibles

\* Entry points are typed; the balancer's connections, turns and rates are what they
\* count, and so are the gateway's buckets and statistics.
EntreeMesuree ==
    /\ scenario = "equilibrage" =>
         E!TypeOK /\ E!ConnexionsExactes /\ E!TourniquetEquitable /\ E!DebitParClient
    /\ scenario = "passerelle" => P!TypeOK /\ P!SeauBorne /\ P!ComptesJustes

\* Identities are typed; SPIFFE's documents are renewed in time, with an overlap, and
\* federation holds in both directions.
IdentitesSaines ==
    /\ scenario = "zerotrust" => Z!TypeOK
    /\ scenario = "spiffe" => /\ I!TypeOK /\ I!RenouvellementMesure
                              /\ I!RecouvrementSvid /\ I!FederationReciproque

\* What observes is typed; spans lie within their parents and are all there, metrics,
\* logs and traces agree.
ObservationsFideles ==
    /\ scenario = "traces" => T!TypeOK /\ T!SpansEmboites /\ T!CascadeComplete
    /\ scenario = "observabilite" => O!TypeOK /\ O!PiliersConcordants /\ O!LogsRelies

\* No step without its reason: a call is let through only if its identity and a policy
\* allow it, an alert is raised only by a threshold that was passed; a bloc is created on
\* two racks, and what a snapshot of Spanner has read stays; a full queue gives up what
\* its strategy says; a circuit closes after enough successful probes only.
PasJustifies ==
    /\ P!AccesFidele /\ Z!AccesDeDroit /\ O!AlerteJustifiee
    /\ S!PasseFige /\ F!CreationSurDeuxRacks /\ FPannes!CreationSurDeuxRacks
    /\ File!SacrificeConforme /\ Cb!FermetureMeritee

\* The simulations find what they say they will.
Constats ==
    /\ B!BilanBully /\ D!Constat /\ H!Bilan /\ C!Constat /\ S!Bilan /\ E!Bilan
    /\ P!BilanPasserelle /\ Z!BilanZeroTrust /\ I!BilanSpiffe
    /\ T!BilanTraces /\ O!BilanObservabilite

\* Kafka is typed; without retention, what is below the committed offset was
\* processed, and the messages of a partition are processed in order.
LivraisonOrdonnee ==
    /\ scenario \in {"kafka", "kafka_retention"} => K!TypeOK
    /\ scenario = "kafka" => K!AuMoinsUneFois /\ K!OrdreGaranti

\* The bounded queue is typed; every task is counted, and in one place; nobody
\* sleeps while there is what it waits for.  Work stealing is typed, and executes
\* every task at most once.
FilesSaines ==
    /\ scenario = "file" => File!TypeOK /\ File!Conservation /\ File!NulNeDortEnVain
    /\ scenario = "vol" => V!TypeOK /\ V!UneSeuleExecution

\* The cache is typed; one recomputation of a key at a time; without races, reads
\* after an invalidation are fresh; without writes and expiries, who waits gets the
\* value.
CacheFidele ==
    /\ scenario \in {"cache", "cache_lectures", "cache_courses"} =>
         Ca!TypeOK /\ CaCourses!UnSeulRecalcul
    /\ scenario \in {"cache", "cache_lectures"} => Ca!LectureFraiche
    /\ scenario = "cache_lectures" => CaLectures!ResultatPourTous

\* Rate limiting is typed, and admits no more than it says: of the two windows in any
\* window, of the two buckets in any length of time.  Stream windows are typed; of a
\* stream in order they are emitted once and whole, sessions are closed by the gap
\* alone, and every event is in as many sliding windows as the sizes say.
FenetresExactes ==
    /\ scenario = "limiteur" => Li!TypeOK /\ Li!BorneParFenetre /\ Li!BorneParDebit
    /\ scenario = "flink" => /\ Fl!TypeOK /\ Fl!FenetreUnique /\ Fl!SessionsSeparees
                             /\ Fl!AppartenanceGlissante

\* Idempotence, the breaker and sagas are typed.  A saga that was undone leaves nothing
\* of its own; of sagas that do not overlap all is done or nothing, and undone in the
\* reverse of the order.
EffetsExacts ==
    /\ TypeOK
    /\ scenario = "circuit" => Cb!TypeOK
    /\ scenario = "sagas" => Sa!ToutOuRien /\ Sa!EtapesEnPrefixe
    /\ scenario \in {"sagas", "sagas_ensemble"} => Sa!TypeOK /\ Sa!SagaDefaite
=============================================================================
