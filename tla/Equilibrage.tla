---------------------------- MODULE Equilibrage -----------------------------
(***************************************************************************)
(* Load balancing (jour16-load-balancing): balancers of layer 4, that know *)
(* the address of the client, and of layer 7, that know the request, in    *)
(* front of backends that stop, come back and refuse above their capacity. *)
(*                                                                         *)
(* Between the choice of a backend and its call anything may happen.  The  *)
(* counts of connections are read at once; time passes in the scenarios.   *)
(***************************************************************************)
EXTENDS Integers, Sequences, FiniteSets, SequencesExt, FiniteSetsExt

CONSTANTS Hash,       \* of each client_ip, hashlib.md5
          Programmes, \* the balancers, the capacity, what each client does
          Permis

EquilibrageAssumption ==
    /\ \A ip \in DOMAIN Hash : Hash[ip] \in Nat
    /\ \A p \in Programmes : p.capacite \in Nat \ {0}
    \* Requests of one address that the limiter counts at the same time.
    /\ Permis \subseteq {"rafales"}

VARIABLES
    repartiteurs,  \* of each balancer: its kind and algorithm, its rules and its pool
    capacite,      \* of the backends
    actifs,        \* the backends with _actif
    connexions,    \* _connexions_actives of each backend
    tours,         \* _rr_idx of each balancer
    acceptes,      \* _rate_limits: the times of the accepted requests, by address
    choisis,       \* how often each balancer has chosen each backend since the last
                   \* change of what it may choose
    instant,       \* time, in seconds
    clients        \* each client: where its request is and what it has still to do

varsEquilibrage == <<repartiteurs, capacite, actifs, connexions, tours, acceptes, choisis,
                     instant, clients>>

Pools(r) == {ToSet(g.pool) : g \in ToSet(r.regles)} \union {ToSet(r.defaut)}
Backends == UNION UNION {Pools(r) : r \in ToSet(repartiteurs)}
Algos == {"ROUND_ROBIN", "LEAST_CONNECTIONS", "IP_HASH", "RANDOM", "POWER_OF_TWO"}

TypeOK ==
    /\ \A r \in ToSet(repartiteurs) : r.couche \in {4, 7} /\ r.algo \in Algos
    /\ actifs \subseteq Backends /\ connexions \in [Backends -> Nat]
    /\ tours \in [DOMAIN repartiteurs -> Nat]
    /\ \A i \in DOMAIN clients :
         /\ clients[i].etape \in {"pret", "admis", "pool", "choisi", "traite"}
         /\ ToSet(clients[i].pool) \subseteq Backends

Init ==
    /\ \E p \in Programmes :
         /\ repartiteurs = p.repartiteurs /\ capacite = p.capacite
         /\ clients = [i \in DOMAIN p.clients |->
                          [suite |-> p.clients[i], etape |-> "pret", pool |-> <<>>]]
    /\ actifs = Backends
    /\ connexions = [b \in Backends |-> 0]
    /\ tours = [r \in DOMAIN repartiteurs |-> 0]
    /\ acceptes = [r \in DOMAIN repartiteurs |-> [ip \in DOMAIN Hash |-> <<>>]]
    /\ choisis = [r \in DOMAIN repartiteurs |-> [b \in Backends |-> 0]]
    /\ instant = 0

-----------------------------------------------------------------------------
Config == <<repartiteurs, capacite>>
Op(i) == Head(clients[i].suite)
Au(i, etape) == clients[i].etape = etape /\ clients[i].suite # <<>>
Suivre(i, c) == clients' = [clients EXCEPT ![i] = c]

\* The answer: a status, and the backend it comes from.
Repondre(i, statut, b) ==
    Suivre(i, [clients[i] EXCEPT !.etape = "pret", !.pool = <<>>, !.suite = Tail(@)])

Refuser(i, statut) == Repondre(i, statut, "")

\* _est_rate_limite: the window of the last second.
Fenetre(r, ip) == SelectSeq(acceptes[r][ip], LAMBDA t : t >= instant - 1)

EstLimite(r, ip) == repartiteurs[r].rps > 0 /\ Len(Fenetre(r, ip)) >= repartiteurs[r].rps

Noter(r, ip) == acceptes' = IF repartiteurs[r].rps = 0 THEN acceptes
                            ELSE [acceptes EXCEPT ![r][ip] = Append(Fenetre(r, ip), instant)]

\* acheminer begins: the count is looked at and then added to.
Admettre(i) ==
    /\ Au(i, "pret") /\ Op(i).op \in {"requete", "tcp"}
    /\ LET r == Op(i).par
           ip == Op(i).ip
       IN IF EstLimite(r, ip) THEN Refuser(i, 429) /\ UNCHANGED acceptes
          ELSE /\ Suivre(i, [clients[i] EXCEPT !.etape = "admis"])
               /\ IF "rafales" \in Permis THEN UNCHANGED acceptes ELSE Noter(r, ip)
    /\ UNCHANGED <<Config, actifs, connexions, tours, choisis, instant>>

\* _backends_sains, and _trouver_pool: the first rule that holds and has a backend that
\* is alive, or else the default pool.
Sains(pool) == SelectSeq(pool, LAMBDA b : b \in actifs)

Pool(r, req) ==
    LET regles == SelectSeq(repartiteurs[r].regles,
                            LAMBDA g : req.chemin \in g.si /\ Sains(g.pool) # <<>>)
    IN Sains(IF regles = <<>> THEN repartiteurs[r].defaut ELSE regles[1].pool)

TrouverPool(i) ==
    /\ Au(i, "admis")
    /\ IF "rafales" \in Permis THEN Noter(Op(i).par, Op(i).ip) ELSE UNCHANGED acceptes
    /\ LET pool == Pool(Op(i).par, Op(i)) IN
       IF pool = <<>> THEN Refuser(i, 503)
       ELSE Suivre(i, [clients[i] EXCEPT !.etape = "pool", !.pool = pool])
    /\ UNCHANGED <<Config, actifs, connexions, tours, choisis, instant>>

\* The algorithms; layer 7 does not know POWER_OF_TWO, and takes any backend.
MoinsCharges(s) == {b \in s : \A c \in s : connexions[b] <= connexions[c]}

Candidats(r, pool, ip) ==
    CASE repartiteurs[r].algo = "ROUND_ROBIN" -> {pool[(tours[r] % Len(pool)) + 1]}
      [] repartiteurs[r].algo = "IP_HASH" -> {pool[(Hash[ip] % Len(pool)) + 1]}
      [] repartiteurs[r].algo = "LEAST_CONNECTIONS" ->
           {SelectSeq(pool, LAMBDA b : b \in MoinsCharges(ToSet(pool)))[1]}
      [] repartiteurs[r].algo = "POWER_OF_TWO" /\ repartiteurs[r].couche = 4 ->
           IF Len(pool) < 2 THEN {pool[1]}
           ELSE UNION {MoinsCharges(p) : p \in kSubset(2, ToSet(pool))}
      [] OTHER -> ToSet(pool)

\* The index of layer 7 starts again at the length of the pool.
TourSuivant(r, pool) ==
    IF repartiteurs[r].algo # "ROUND_ROBIN" THEN tours[r]
    ELSE IF repartiteurs[r].couche = 4 THEN tours[r] + 1
    ELSE (tours[r] % Len(pool)) + 1

\* The pool that was found may be one of before a failure.
Compter(i, r, b) ==
    choisis' = [choisis EXCEPT ![r] = IF clients[i].pool = Pool(r, Op(i))
                                        THEN [@ EXCEPT ![b] = @ + 1] ELSE [c \in Backends |-> 0]]

Selectionner(i) ==
    /\ Au(i, "pool")
    /\ LET r == Op(i).par
           pool == clients[i].pool
       IN \E b \in Candidats(r, pool, Op(i).ip) :
            /\ tours' = [tours EXCEPT ![r] = TourSuivant(r, pool)]
            /\ Compter(i, r, b)
            /\ Suivre(i, [clients[i] EXCEPT !.etape = "choisi", !.pool = <<b>>])
    /\ UNCHANGED <<Config, actifs, connexions, acceptes, instant>>

\* Mutant: one connection more than the capacity.
Accepte_UneDeTrop(b) == b \in actifs /\ connexions[b] <= capacite

Accepte(b) == b \in actifs /\ connexions[b] < capacite

\* acheminer of layer 4 without a request: the backend is named and not called.
Designer(i) ==
    /\ Au(i, "choisi") /\ Op(i).op = "tcp"
    /\ Repondre(i, 200, clients[i].pool[1])
    /\ UNCHANGED <<Config, actifs, connexions, tours, acceptes, choisis, instant>>

\* BackendServer.traiter: in, and out after the time it takes.
Entrer(i) ==
    /\ Au(i, "choisi") /\ Op(i).op = "requete"
    /\ LET b == clients[i].pool[1] IN
       IF Accepte(b)
         THEN /\ connexions' = [connexions EXCEPT ![b] = @ + 1]
              /\ Suivre(i, [clients[i] EXCEPT !.etape = "traite"])
         ELSE Repondre(i, 503, b) /\ UNCHANGED connexions
    /\ UNCHANGED <<Config, actifs, tours, acceptes, choisis, instant>>

Sortir(i) ==
    /\ Au(i, "traite")
    /\ LET b == clients[i].pool[1] IN
       /\ connexions' = [connexions EXCEPT ![b] = @ - 1]
       /\ Repondre(i, 200, b)
    /\ UNCHANGED <<Config, actifs, tours, acceptes, choisis, instant>>

\* tomber and guerir, and the passing of time; degrader only makes a backend slower.
Controler(i) ==
    /\ Au(i, "pret") /\ Op(i).op \in {"tomber", "guerir", "attendre"}
    /\ CASE Op(i).op = "tomber" -> actifs' = actifs \ {Op(i).backend} /\ UNCHANGED instant
         [] Op(i).op = "guerir" -> actifs' = actifs \union {Op(i).backend} /\ UNCHANGED instant
         [] OTHER -> instant' = instant + Op(i).duree /\ UNCHANGED actifs
    /\ choisis' = IF actifs' = actifs THEN choisis
                  ELSE [r \in DOMAIN repartiteurs |-> [b \in Backends |-> 0]]
    /\ Suivre(i, [clients[i] EXCEPT !.suite = Tail(@)])
    /\ UNCHANGED <<Config, connexions, tours, acceptes>>

Avancer(i) == \/ Admettre(i) \/ TrouverPool(i) \/ Selectionner(i)
              \/ Designer(i) \/ Entrer(i) \/ Sortir(i) \/ Controler(i)

Next == \E i \in DOMAIN clients : Avancer(i)

Spec == Init /\ [][Next]_varsEquilibrage

-----------------------------------------------------------------------------
\* The scenarios of simulation.py, with fewer requests of each kind.
Requete(par, ip, chemin, statut, chez) ==
    [op |-> "requete", par |-> par, ip |-> ip, chemin |-> chemin, statut |-> statut,
     chez |-> chez]
L4(algo, pool) == [couche |-> 4, algo |-> algo, regles |-> <<>>, defaut |-> pool, rps |-> 0]
L7(algo, regles, pool, rps) ==
    [couche |-> 7, algo |-> algo, regles |-> regles, defaut |-> pool, rps |-> rps]
Regle(si, pool) == [si |-> si, pool |-> pool]
Trois == <<"b1", "b2", "b3">>

\* Requests at the same time, through each algorithm of layer 4.
ScenarioAlgosL4(algo) ==
    [repartiteurs |-> <<L4(algo, Trois)>>, capacite |-> 200, clients |->
        [i \in 1..3 |-> [j \in 1..2 |-> Requete(1, "ip1", "data", 200, ToSet(Trois))]]]

ScenarioRoutageChemin ==
    LET v1 == <<"java1", "java2", "java3">>
        v2 == <<"go1", "go2", "go3">>
        cdn == <<"cdn1", "cdn2">>
        Visite(chemin, pool) == Requete(1, "ip1", chemin, 200, ToSet(pool))
    IN [repartiteurs |-> <<L7("ROUND_ROBIN", <<Regle({"v1"}, v1), Regle({"v2"}, v2),
                                               Regle({"static"}, cdn)>>, <<"fallback">>, 0)>>,
        capacite |-> 100,
        clients |-> <<FlattenSeq([i \in 1..3 |->
            <<Visite("v1", v1), Visite("v2", v2), Visite("static", cdn),
              Visite("health", <<"fallback">>)>>])>>]

\* "testeur" has the header X-Canary, "dixieme" a user-id in the tenth that goes to v2.
ScenarioCanary ==
    LET v2 == <<"canary1", "canary2">> IN
    [repartiteurs |-> <<L7("ROUND_ROBIN", <<Regle({"testeur"}, v2), Regle({"dixieme"}, v2)>>,
                           Trois, 0)>>,
     capacite |-> 100,
     clients |-> <<FlattenSeq([i \in 1..4 |->
         <<Requete(1, "ip1", "dixieme", 200, ToSet(v2)),
           Requete(1, "ip2", "autre", 200, ToSet(Trois))>>])>>]

\* b2 stops; neither balancer sends it anything more.
ScenarioFailover ==
    LET Lot(chez) == [k \in 1..6 |-> Requete(IF k <= 3 THEN 1 ELSE 2, "ip1", "api", 200, chez)] IN
    [repartiteurs |-> <<L4("ROUND_ROBIN", Trois), L7("LEAST_CONNECTIONS", <<>>, Trois, 0)>>,
     capacite |-> 100,
     clients |-> <<Lot(ToSet(Trois)) \o <<[op |-> "tomber", backend |-> "b2"]>>
                     \o Lot({"b1", "b3"}) \o <<[op |-> "guerir", backend |-> "b2"]>>>>]

\* Five requests of twenty in a second; the same client is always with the same server.
ScenarioRateSticky ==
    LET Chez(ip) == {Trois[(Hash[ip] % 3) + 1]} IN
    [repartiteurs |-> <<L7("IP_HASH", <<>>, Trois, 5), L7("IP_HASH", <<>>, Trois, 0)>>,
     capacite |-> 100,
     clients |-> <<[k \in 1..20 |-> Requete(1, "ip1", "data", IF k <= 5 THEN 200 ELSE 429,
                                            IF k <= 5 THEN Chez("ip1") ELSE {""})]
                   \o FlattenSeq([k \in 1..2 |-> <<Requete(2, "ip1", "dash", 200, Chez("ip1")),
                                                   Requete(2, "ip2", "dash", 200, Chez("ip2"))>>])>>]

-----------------------------------------------------------------------------
\* Every connection is one of a request that is being served, whatever stops or comes
\* back in the meantime, and no backend serves more than its capacity.
ConnexionsExactes == \A b \in Backends :
    /\ connexions[b] <= capacite
    /\ connexions[b] = Cardinality({i \in DOMAIN clients :
                           clients[i].etape = "traite" /\ clients[i].pool = <<b>>})

\* Clients that ask at the same time do not take one another's turn.
TourniquetEquitable == \A r \in DOMAIN repartiteurs :
    repartiteurs[r].algo = "ROUND_ROBIN" /\ repartiteurs[r].couche = 4
    => LET n == {choisis[r][b] : b \in ToSet(Sains(repartiteurs[r].defaut))}
       IN n = {} \/ Max(n) - Min(n) <= 1

\* No address gets more than its share of any second.
DebitParClient == \A r \in DOMAIN repartiteurs, ip \in DOMAIN Hash :
    repartiteurs[r].rps > 0 =>
        Cardinality({k \in DOMAIN acceptes[r][ip] : acceptes[r][ip][k] >= instant - 1})
            <= repartiteurs[r].rps

\* What the scenarios say of the answers.
Statut(i) == IF clients[i].etape = "traite" THEN 200
             ELSE IF clients[i].etape = "pret" THEN 429 ELSE 503
Bilan == [][\A i \in DOMAIN clients :
    clients'[i].suite # clients[i].suite /\ Op(i).op = "requete" /\ Op(i).statut # 0
    => /\ Statut(i) = Op(i).statut
       /\ Op(i).statut = 200 => clients[i].pool[1] \in Op(i).chez]_varsEquilibrage
=============================================================================
