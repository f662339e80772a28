-------------------------------- MODULE Spiffe --------------------------------
(***************************************************************************)
(* SPIFFE / SPIRE (jour25-spiffe): the server of each trust domain keeps   *)
(* the entries (selectors -> identity) and signs SVIDs; the agents attest  *)
(* workloads, keep the SVIDs they got and renew one that has less than     *)
(* 34 % of its life left; servers federate.  The workloads of an agent ask *)
(* at once: the lookup of the entries is outside its lock, each SVID is    *)
(* obtained under it.                                                      *)
(*                                                                         *)
(* An SVID is an object that several hold (the cache, the workloads): it   *)
(* is named by its rank in documents.                                      *)
(***************************************************************************)
EXTENDS Integers, Sequences, FiniteSets, SequencesExt, TLC

CONSTANTS Domaines,    \* the trust domains
          Noeuds,      \* the nodes an agent may run on
          Deploiements \* each a sequence of workloads and operators, each what it does

SpiffeAssumption == \A p \in Deploiements : Len(p) > 0

VARIABLES
    date,       \* the clock
    entrees,    \* _entries of each server, in order
    federes,    \* the domains whose bundle each server has in _federes
    documents,  \* the SVIDs there are, forged ones among them
    agents,     \* of each node: its server, _atteste, _cache and _bundles
    pods        \* each workload or operator: what it does and the SVIDs it got

varsSpiffe == <<date, entrees, federes, documents, agents, pods>>

Identite(d, charge) == [domaine |-> d, charge |-> charge]

TypeOK ==
    /\ date \in Nat
    /\ \A d \in Domaines : federes[d] \subseteq Domaines \ {d}
    /\ \A k \in DOMAIN documents : documents[k].ca \in Domaines \union {"pirate"}
    /\ \A n \in Noeuds : \A id \in DOMAIN agents[n].cache :
         /\ agents[n].cache[id] \in DOMAIN documents
         /\ documents[agents[n].cache[id]].id = id /\ id.domaine = agents[n].serveur
    /\ \A i \in DOMAIN pods : /\ pods[i].etape \in {"pret", "sert", "retour"}
                              /\ ToSet(pods[i].recus) \subseteq DOMAIN documents

Init ==
    /\ date = 0
    /\ entrees = [d \in Domaines |-> <<>>]
    /\ federes = [d \in Domaines |-> {}]
    /\ documents = <<>>
    /\ agents = [n \in Noeuds |-> [serveur |-> "", atteste |-> FALSE, cache |-> <<>>, bundles |-> {}]]
    /\ \E p \in Deploiements : pods = [i \in DOMAIN p |->
           [suite |-> p[i], etape |-> "pret", aServir |-> <<>>, recus |-> <<>>]]

-----------------------------------------------------------------------------
EstValide(s) == s.emis <= date /\ date <= s.expire

\* pct_vie_restante < SEUIL_RENOUVELLEMENT * 100; the simulation makes a document older by
\* moving both its ends, here time goes on.
PeuDeVie(s, quand) ==
    100 * Max({s.expire - quand, 0}) < 34 * Max({s.expire - s.emis, 1})

\* SPIREServer.valider_svid
Valider(d, s) ==
    /\ EstValide(s)
    /\ s.domaine = d \/ s.domaine \in federes[d]
    /\ s.ca = s.domaine

\* SPIREServer.trouver_entries: those all of whose selectors the workload has.
TrouverEntries(d, selecteurs) ==
    SelectSeq(entrees[d], LAMBDA e : e.selecteurs \subseteq selecteurs)

\* SPIREServer.emettre_svid: nothing for an identity of another domain.
Signer(d, id, ttl, noeud) ==
    IF id.domaine # d THEN <<>>
    ELSE <<[id |-> id, domaine |-> d, ca |-> d, emis |-> date, expire |-> date + ttl,
            pour |-> noeud]>>

Emettre(d, id, ttl, noeud) == documents' = documents \o Signer(d, id, ttl, noeud)

-----------------------------------------------------------------------------
Op(i) == Head(pods[i].suite)
Au(i, etape) == pods[i].suite # <<>> /\ pods[i].etape = etape
Suivre(i, p) == pods' = [pods EXCEPT ![i] = p]
Finir(i) == Suivre(i, [pods[i] EXCEPT !.suite = Tail(@), !.etape = "pret"])

\* SPIREAgent.__init__: attester_agent accepts every node; the bundles are those of now.
Demarrer(i) ==
    /\ Au(i, "pret") /\ Op(i).op = "demarrer"
    /\ agents' = [agents EXCEPT ![Op(i).noeud] =
         [serveur |-> Op(i).serveur, atteste |-> TRUE, cache |-> <<>>,
          bundles |-> {Op(i).serveur} \union federes[Op(i).serveur]]]
    /\ Finir(i)
    /\ UNCHANGED <<date, entrees, federes, documents>>

EnregistrerEntry(i) ==
    /\ Au(i, "pret") /\ Op(i).op = "enregistrer"
    /\ entrees' = [entrees EXCEPT ![Op(i).serveur] = Append(@, Op(i).entree)]
    /\ Finir(i)
    /\ UNCHANGED <<date, federes, documents, agents>>

\* attester_et_delivrer: the entries of the workload, then an SVID for each.
Attester(i) ==
    /\ Au(i, "pret") /\ Op(i).op = "demander"
    /\ LET a == agents[Op(i).noeud]
           trouvees == IF a.atteste THEN TrouverEntries(a.serveur, Op(i).selecteurs) ELSE <<>>
       IN IF trouvees = <<>> THEN Suivre(i, [pods[i] EXCEPT !.suite = Tail(@), !.recus = <<>>])
          ELSE Suivre(i, [pods[i] EXCEPT !.etape = "sert", !.aServir = trouvees, !.recus = <<>>])
    /\ UNCHANGED <<date, entrees, federes, documents, agents>>

\* The documents of an entry: one, or none.
Livrer(i, ks) ==
    Suivre(i, [pods[i] EXCEPT !.aServir = Tail(@), !.recus = @ \o ks,
                 !.etape = IF Len(pods[i].aServir) = 1 THEN "pret" ELSE "sert",
                 !.suite = IF Len(pods[i].aServir) = 1 THEN Tail(@) ELSE @])

\* Mutant: compares the life that has passed with the threshold, not the life left.
DansLeCache_Ecoule(a, id) ==
    /\ id \in DOMAIN a.cache
    /\ LET s == documents[a.cache[id]] IN
         EstValide(s) /\ 100 * (date - s.emis) >= 34 * (s.expire - s.emis)

\* _obtenir_svid: of the cache, unless it has expired or is about to.
DansLeCache(a, id) ==
    /\ id \in DOMAIN a.cache
    /\ EstValide(documents[a.cache[id]]) /\ ~PeuDeVie(documents[a.cache[id]], date)

ObtenirSvid(i) ==
    /\ Au(i, "sert")
    /\ LET e == Head(pods[i].aServir)
           n == Op(i).noeud
       IN IF DansLeCache(agents[n], e.id)
            THEN /\ Livrer(i, <<agents[n].cache[e.id]>>)
                 /\ UNCHANGED <<documents, agents>>
            ELSE /\ Emettre(agents[n].serveur, e.id, e.ttl, n)
                 /\ IF documents' = documents THEN Livrer(i, <<>>) /\ UNCHANGED agents
                    ELSE /\ agents' = [agents EXCEPT ![n].cache =
                                         (e.id :> Len(documents')) @@ @]
                         /\ Livrer(i, <<Len(documents')>>)
    /\ UNCHANGED <<date, entrees, federes>>

\* federer: each server takes the bundle of the other, one after the other.
Federer(i) ==
    /\ Au(i, "pret") /\ Op(i).op = "federer"
    /\ federes' = [federes EXCEPT ![Op(i).un] = @ \union {Op(i).autre}]
    /\ Suivre(i, [pods[i] EXCEPT !.etape = "retour"])
    /\ UNCHANGED <<date, entrees, documents, agents>>

FedererRetour(i) ==
    /\ Au(i, "retour")
    /\ federes' = [federes EXCEPT ![Op(i).autre] = @ \union {Op(i).un}]
    /\ Finir(i)
    /\ UNCHANGED <<date, entrees, documents, agents>>

\* What else a scenario does: ask a server for an SVID or forge one, change its end, show
\* one to a server, wait.
Fabriquer(i) ==
    /\ Au(i, "pret") /\ Op(i).op \in {"emettre", "forger", "dater"}
    /\ CASE Op(i).op = "emettre" -> Emettre(Op(i).serveur, Op(i).id, 3600, "")
         [] Op(i).op = "forger" -> documents' = Append(documents,
              [id |-> Op(i).id, domaine |-> Op(i).id.domaine, ca |-> "pirate", emis |-> date,
               expire |-> date + 3600, pour |-> ""])
         [] OTHER -> documents' = [documents EXCEPT ![Op(i).document].expire = date + Op(i).dans]
    /\ Finir(i)
    /\ UNCHANGED <<date, entrees, federes, agents>>

Observer(i) ==
    /\ Au(i, "pret") /\ Op(i).op \in {"valider", "bilan", "attendre"}
    /\ date' = IF Op(i).op = "attendre" THEN date + Op(i).duree ELSE date
    /\ Finir(i)
    /\ UNCHANGED <<entrees, federes, documents, agents>>

Next == \E i \in DOMAIN pods :
    \/ Demarrer(i) \/ EnregistrerEntry(i) \/ Attester(i) \/ ObtenirSvid(i) \/ Federer(i)
    \/ FedererRetour(i) \/ Fabriquer(i) \/ Observer(i)

Spec == Init /\ [][Next]_varsSpiffe

-----------------------------------------------------------------------------
\* The scenarios of simulation.py.
Agent(n, d) == [op |-> "demarrer", noeud |-> n, serveur |-> d]
Entree(d, charge, selecteurs) == [op |-> "enregistrer", serveur |-> d,
    entree |-> [id |-> Identite(d, charge), selecteurs |-> selecteurs, ttl |-> 3600]]
Demande(n, selecteurs, attendu) ==
    [op |-> "demander", noeud |-> n, selecteurs |-> selecteurs, attendu |-> attendu]
Presenter(d, k, attendu) == [op |-> "valider", serveur |-> d, document |-> k, attendu |-> attendu]
Signature(d, charge) == [op |-> "emettre", serveur |-> d, id |-> Identite(d, charge)]

ScenarioAttestation == <<<<
    Agent("node-0", "prod"), Agent("node-1", "prod"),
    Entree("prod", "payments-service", {"ns:payments", "sa:payments"}),
    Entree("prod", "analytics-service", {"ns:analytics", "sa:analytics"}),
    Entree("prod", "fraud-detection", {"ns:fraud", "sa:fraud"}),
    Demande("node-0", {"ns:payments", "sa:payments"}, {"payments-service"}),
    Demande("node-0", {"ns:analytics", "sa:analytics"}, {"analytics-service"}),
    Demande("node-0", {"ns:fraud", "sa:fraud"}, {"fraud-detection"})>>>>

\* A life of seven units, an eighth look at it: one rotation, two SVIDs in all.
ScenarioRotation ==
    LET demande == Demande("node-0", {"ns:prod", "sa:payments"}, {"payments-service"}) IN
    << <<Agent("node-0", "prod"),
         Entree("prod", "payments-service", {"ns:prod", "sa:payments"}), demande,
         [op |-> "dater", document |-> 1, dans |-> 7]>>
       \o FlattenSeq([k \in 1..8 |-> <<[op |-> "attendre", duree |-> 1], demande>>])
       \o <<[op |-> "bilan", emis |-> 2]>> >>

ScenarioSelecteurs == <<<<
    Agent("node-0", "prod"),
    Entree("prod", "monitoring", {"ns:monitoring"}),
    Entree("prod", "payments-service", {"ns:payments", "sa:payments"}),
    Entree("prod", "payments-service-v2", {"ns:payments", "sa:payments", "version:v2"}),
    Entree("prod", "cron-job", {"uid:1000"}),
    Demande("node-0", {"ns:monitoring"}, {"monitoring"}),
    Demande("node-0", {"ns:payments", "sa:payments"}, {"payments-service"}),
    Demande("node-0", {"ns:payments", "sa:payments", "version:v2"},
            {"payments-service", "payments-service-v2"}),
    Demande("node-0", {"uid:1000"}, {"cron-job"}),
    Demande("node-0", {"ns:rogue", "sa:unknown"}, {})>>>>

\* A accepts B once they federate, never C.
ScenarioFederation == <<<<
    Agent("node-0", "prod"), Agent("node-1", "analytics"), Agent("node-2", "partner"),
    Entree("prod", "payments-service", {"ns:prod", "sa:payments"}),
    Entree("analytics", "analytics-service", {"ns:analytics", "sa:analytics"}),
    Entree("partner", "partner-api", {"ns:api", "sa:partner"}),
    Signature("prod", "payments-service"), Signature("analytics", "analytics-service"),
    Signature("partner", "partner-api"),
    Presenter("prod", 1, TRUE), Presenter("prod", 2, FALSE), Presenter("prod", 3, FALSE),
    [op |-> "federer", un |-> "prod", autre |-> "analytics"],
    Presenter("prod", 1, TRUE), Presenter("prod", 2, TRUE), Presenter("analytics", 1, TRUE),
    Presenter("prod", 3, FALSE)>>>>

\* The wrong namespace, the wrong account, a forged SVID, an expired one, a foreign agent.
ScenarioImposture == <<<<
    Agent("node-0", "prod"), Agent("node-1", "prod"),
    Entree("prod", "payments-service", {"ns:payments", "sa:payments"}),
    Demande("node-0", {"ns:payments", "sa:payments"}, {"payments-service"}),
    Demande("node-0", {"ns:compromised", "sa:payments"}, {}),
    Demande("node-0", {"ns:payments", "sa:default"}, {}),
    [op |-> "forger", id |-> Identite("prod", "payments-service")], Presenter("prod", 2, FALSE),
    [op |-> "dater", document |-> 1, dans |-> -1], Presenter("prod", 1, FALSE),
    Demande("hacker-node", {"ns:payments", "sa:payments"}, {})>>>>

-----------------------------------------------------------------------------
\* However many workloads ask at once, an agent has an identity signed again only when the
\* SVID before it had expired or had less than 34 % of its life left.
RenouvellementMesure == \A j, k \in DOMAIN documents :
    /\ j < k /\ documents[j].id = documents[k].id
    /\ documents[j].pour # "" /\ documents[j].pour = documents[k].pour
    => documents[k].emis > documents[j].expire \/ PeuDeVie(documents[j], documents[k].emis)

\* The SVID a workload got is accepted where it was signed, and in every domain federated
\* with that one, until it expires, whatever was renewed or federated since: no connection
\* is cut by a rotation.
RecouvrementSvid == \A i \in DOMAIN pods : \A k \in ToSet(pods[i].recus) :
    LET s == documents[k] IN EstValide(s) =>
      \A d \in Domaines : Valider(d, s) <=> d = s.domaine \/ s.domaine \in federes[d]

\* Two domains that are not federating right now trust each other or neither does.
FederationReciproque ==
    (\A i \in DOMAIN pods : pods[i].etape # "retour") =>
      \A d, e \in Domaines : d \in federes[e] <=> e \in federes[d]

\* What the scenarios show: the identities a workload gets, what a server says of an SVID.
BilanSpiffe == [][\A i \in DOMAIN pods : pods'[i].suite # pods[i].suite =>
    CASE Op(i).op = "demander" ->
           /\ Op(i).attendu \in {{"*"}, {documents'[k].id.charge : k \in ToSet(pods'[i].recus)}}
           /\ \A k \in ToSet(pods'[i].recus) : documents'[k].ca = agents[Op(i).noeud].serveur
      [] Op(i).op = "valider" -> Valider(Op(i).serveur, documents[Op(i).document]) = Op(i).attendu
      [] Op(i).op = "bilan" -> Len(documents) = Op(i).emis
      [] OTHER -> TRUE]_varsSpiffe
=============================================================================
