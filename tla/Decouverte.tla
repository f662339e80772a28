----------------------------- MODULE Decouverte -----------------------------
(***************************************************************************)
(* Service discovery (jour17-service-discovery): a registry under one      *)
(* lock, its two background loops, one thread for each call of a watcher,  *)
(* and clients that keep what they resolved.                               *)
(*                                                                         *)
(* The unit of time is the period of the TTL loop, 1 s.  In each, both     *)
(* loops make one pass, at any moment of it: the checks of the simulation  *)
(* have an intervalle_s of 0.3 to 1 s, so that each is due in every unit.  *)
(* A service_id is registered once.                                        *)
(***************************************************************************)
EXTENDS Integers, Sequences, FiniteSets, SequencesExt

CONSTANTS Services,   \* the service_ids of one service_nom
          Tags,       \* their tags
          Cles,       \* the sets of tags the clients ask for
          Ttl,        \* ttl_s of an instance
          TtlCache,   \* ttl_cache_s of the client
          Clients,    \* threads that share one ClientDecouverte
          Scenarios,  \* what is done, in order
          Permis

\* What the constants are.
DecouverteAssumption ==
    /\ Ttl \in Nat /\ TtlCache \in Nat
    /\ DOMAIN Tags = Services
    /\ \A s \in Scenarios : s \in Seq([op : STRING, sur : SUBSET Services])
    \* Threads of the watchers that overtake each other; clients that are paused.
    /\ Permis \subseteq {"desordre", "pause"}

VARIABLES
    catalog,     \* the service_ids of _catalog
    checks,      \* the kind of the check each has in _checks
    etat,        \* of every InstanceService, in the catalogue or not any more
    age,         \* age_s, in units
    sante,       \* what fn_check returns, that is how the process is
    emetteurs,   \* processes that send heartbeats
    lot, essai,  \* health checks: those copied and not run, the verdict to apply
    passes,      \* the loops that have made a pass in this unit
    avis, vue,   \* lists handed to threads of the watcher, what the last one saw
    retenu,      \* _cache of the client: a list and its age
    lecture,     \* per thread, the resolution it is in
    parti,       \* units since the instance left the catalogue
    reste        \* of the scenario

varsDecouverte == <<catalog, checks, etat, age, sante, emetteurs, lot, essai, passes,
                    avis, vue, retenu, lecture, parti, reste>>
registre == <<catalog, checks, etat, age>>
client == <<retenu, lecture>>

Actives == {i \in Services : checks[i] = "http"}
Rien == [quoi |-> "rien"]
Vieux == Ttl + 2
Inc(x, max) == IF x < max THEN x + 1 ELSE x
EntreeCache == [quoi : {"liste"}, instances : SUBSET Services, age : 0..TtlCache]

TypeOK ==
    /\ {catalog, lot, emetteurs, vue} \subseteq SUBSET Services
    /\ checks \in [Services -> {"aucun", "ttl", "http"}]
    /\ etat \in [Services -> {"passing", "critical"}]
    /\ age \in [Services -> 0..Vieux] /\ sante \in [Services -> BOOLEAN]
    /\ essai = Rien \/ essai.sur \in Services
    /\ passes \subseteq {"ttl", "checks"}
    /\ avis \in Seq(SUBSET Services)
    /\ retenu \in [Cles -> {Rien} \union EntreeCache]
    /\ \A c \in Clients : lecture[c].quoi \in {"rien", "demande", "reponse"}

Init ==
    /\ catalog = {} /\ checks = [i \in Services |-> "aucun"]
    /\ etat = [i \in Services |-> "passing"]
    /\ age = [i \in Services |-> 0]
    /\ sante = [i \in Services |-> TRUE]
    /\ emetteurs = {}
    /\ lot = {} /\ essai = Rien /\ passes = {}
    /\ avis = <<>> /\ vue = {}
    /\ retenu = [k \in Cles |-> Rien]
    /\ lecture = [c \in Clients |-> Rien]
    /\ parti = [i \in Services |-> 0]
    /\ reste \in Scenarios

-----------------------------------------------------------------------------
\* Mutant: the list is made before the change.
Notifier_Avant == avis' = Append(avis, catalog)

\* _notifier: a thread of its own for the watcher, with the list of now.
Notifier == avis' = Append(avis, catalog')

\* A thread runs the callback.  The list is of that time, the instances in it are
\* shared: their states are those of now.
Rappeler(n) ==
    /\ n \in DOMAIN avis /\ (n = 1 \/ "desordre" \in Permis)
    /\ vue' = {i \in avis[n] : etat[i] = "passing"}
    /\ avis' = RemoveAt(avis, n)
    /\ UNCHANGED <<registre, sante, emetteurs, lot, essai, passes, client, parti, reste>>

\* enregistrer, with a check or without.  The process of a TTL check sends
\* heartbeats, an HTTP check has a fn_check.
Enregistrer(i, check) ==
    /\ catalog' = catalog \union {i}
    /\ checks' = [checks EXCEPT ![i] = check]
    /\ emetteurs' = emetteurs \union {j \in {i} : check = "ttl"}
    /\ age' = [age EXCEPT ![i] = 0]
    /\ Notifier
    /\ UNCHANGED <<etat, sante, parti, client>>

Desenregistrer(i) ==
    /\ IF i \in catalog
         THEN /\ catalog' = catalog \ {i} /\ checks' = [checks EXCEPT ![i] = "aucun"]
              /\ Notifier
              /\ parti' = [parti EXCEPT ![i] = 0]
         ELSE UNCHANGED <<catalog, checks, avis, parti>>
    /\ emetteurs' = emetteurs \ {i}
    /\ UNCHANGED <<etat, age, sante, client>>

\* etat becomes e, which is told when it is a change.
Changer(i, e) ==
    /\ etat' = [etat EXCEPT ![i] = e]
    /\ UNCHANGED catalog
    /\ IF etat[i] # e THEN Notifier ELSE UNCHANGED avis

\* heartbeat, which the process sends in every unit while it runs.
Heartbeat(i) ==
    /\ i \in emetteurs /\ age[i] > 0
    /\ IF checks[i] # "aucun" /\ i \in catalog
         THEN age' = [age EXCEPT ![i] = 0] /\ Changer(i, "passing")
         ELSE UNCHANGED <<age, etat, avis, catalog>>
    /\ UNCHANGED <<checks, sante, emetteurs, lot, essai, passes, vue, client, parti, reste>>

-----------------------------------------------------------------------------
\* _boucle_health_checks copies the checks under the lock, runs each without it,
\* and takes the lock again for the verdict: the instance may be gone.
CopierChecks ==
    /\ lot = {} /\ essai = Rien /\ "checks" \notin passes
    /\ lot' = Actives
    /\ passes' = passes \union {c \in {"checks"} : lot' = {}}
    /\ UNCHANGED <<registre, sante, emetteurs, essai, avis, vue, client, parti, reste>>

ExecuterCheck(i) ==
    /\ i \in lot /\ essai = Rien
    /\ lot' = lot \ {i}
    /\ essai' = [quoi |-> "verdict", sur |-> i, sain |-> sante[i]]
    /\ UNCHANGED <<registre, sante, emetteurs, passes, avis, vue, client, parti, reste>>

AppliquerCheck ==
    /\ essai # Rien
    /\ essai' = Rien
    /\ passes' = passes \union {c \in {"checks"} : lot = {}}
    /\ IF essai.sur \in catalog
         THEN Changer(essai.sur, IF essai.sain THEN "passing" ELSE "critical")
         ELSE UNCHANGED <<etat, avis, catalog>>
    /\ UNCHANGED <<checks, age, sante, emetteurs, lot, vue, client, parti, reste>>

\* _boucle_ttl_expiration: one pass, under the lock; a notification for each.
Expires == {i \in catalog : age[i] > Ttl /\ etat[i] # "critical"}

BoucleTtl ==
    /\ "ttl" \notin passes
    /\ passes' = passes \union {"ttl"}
    /\ etat' = [i \in Services |-> IF i \in Expires THEN "critical" ELSE etat[i]]
    /\ avis' = avis \o [n \in 1..Cardinality(Expires) |-> catalog]
    /\ UNCHANGED <<catalog, checks, age, sante, emetteurs, lot, essai, vue, client,
                   parti, reste>>

-----------------------------------------------------------------------------
Resoudre(tags) == {i \in catalog : etat[i] = "passing" /\ tags \subseteq Tags[i]}

\* obtenir: a list that has not expired is returned, without a look at the states of
\* its instances; else the client asks without its lock and keeps the answer.
EnCache(k) == retenu[k] # Rien /\ retenu[k].age < TtlCache

Obtenir(c, k, forcer_refresh) ==
    /\ lecture[c] = Rien
    /\ lecture' = [lecture EXCEPT ![c] = IF EnCache(k) /\ ~forcer_refresh
                     THEN Rien ELSE [quoi |-> "demande", cle |-> k]]
    /\ UNCHANGED <<registre, sante, emetteurs, avis, retenu, parti>>

Interroger(c) ==
    /\ lecture[c].quoi = "demande"
    /\ lecture' = [lecture EXCEPT ![c] = [quoi |-> "reponse", cle |-> @.cle,
                                          instances |-> Resoudre(@.cle)]]
    /\ UNCHANGED <<registre, sante, emetteurs, lot, essai, passes, avis, vue, retenu,
                   parti, reste>>

Retenir(c) ==
    /\ lecture[c].quoi = "reponse"
    /\ retenu' = [retenu EXCEPT ![lecture[c].cle] =
           [quoi |-> "liste", instances |-> lecture[c].instances, age |-> 0]]
    /\ lecture' = [lecture EXCEPT ![c] = Rien]
    /\ UNCHANGED <<registre, sante, emetteurs, lot, essai, passes, avis, vue, parti, reste>>

InvaliderCache ==
    /\ retenu' = [k \in Cles |-> Rien]
    /\ UNCHANGED <<registre, sante, emetteurs, avis, lecture, parti>>

-----------------------------------------------------------------------------
\* A process stops, or its fn_check starts to fail; nobody deregisters it.
Tomber(i) ==
    /\ emetteurs' = emetteurs \ {i}
    /\ sante' = [sante EXCEPT ![i] = FALSE]
    /\ UNCHANGED <<registre, avis, client, parti>>

\* A unit passes: running processes have sent, loops have passed, calls have ended,
\* the watcher's threads have run.
Tick ==
    /\ avis = <<>>
    /\ passes = {"ttl", "checks"}
    /\ \A i \in emetteurs : age[i] = 0
    /\ IF reste = <<>> THEN UNCHANGED reste
       ELSE Head(reste).op = "attendre" /\ reste' = Tail(reste)
    /\ "pause" \in Permis \/ \A c \in Clients : lecture[c] = Rien
    /\ passes' = {}
    /\ age' = [i \in Services |-> IF i \in catalog THEN Inc(age[i], Vieux) ELSE age[i]]
    /\ parti' = [i \in Services |-> IF i \in catalog THEN 0 ELSE Inc(parti[i], TtlCache + 2)]
    /\ retenu' = [k \in Cles |-> IF retenu[k] = Rien THEN Rien
                                 ELSE [retenu[k] EXCEPT !.age = Inc(@, TtlCache)]]
    /\ UNCHANGED <<catalog, checks, etat, sante, emetteurs, lot, essai, avis, vue,
                   lecture>>

\* The next operation of the scenario; what it states of the registry is a property.
Faire(o) ==
    \/ o.op \in {"ttl", "http", "aucun"} /\ \E i \in o.sur : Enregistrer(i, o.op)
    \/ o.op = "desenregistrer" /\ \E i \in o.sur : Desenregistrer(i)
    \/ o.op = "tomber" /\ \E i \in o.sur : Tomber(i)
    \/ o.op = "obtenir" /\ \E c \in Clients, k \in Cles : Obtenir(c, k, FALSE)
    \/ o.op = "rafraichir" /\ \E c \in Clients, k \in Cles : Obtenir(c, k, TRUE)
    \/ o.op = "invalider" /\ InvaliderCache
    \/ /\ o.op = "constater" /\ \A c \in Clients : lecture[c] = Rien
       /\ UNCHANGED <<registre, sante, emetteurs, avis, client, parti>>

Derouler ==
    /\ reste # <<>>
    /\ Faire(Head(reste))
    /\ reste' = Tail(reste)
    /\ UNCHANGED <<lot, essai, passes, vue>>

Next ==
    \/ Derouler \/ Tick \/ CopierChecks \/ AppliquerCheck \/ BoucleTtl
    \/ \E n \in DOMAIN avis : Rappeler(n)
    \/ \E i \in Services : Heartbeat(i) \/ ExecuterCheck(i)
    \/ \E c \in Clients : Interroger(c) \/ Retenir(c)

Spec == Init /\ [][Next]_varsDecouverte

-----------------------------------------------------------------------------
\* The scenarios of simulation.py; those whose time matters wait units.
Op(op, i) == <<[op |-> op, sur |-> {i}]>>
Attendre(n) == [m \in 1..n |-> [op |-> "attendre", sur |-> {}]]
Constater(sains) == <<[op |-> "constater", sur |-> sains]>>
Client(op) == <<[op |-> op, sur |-> {}]>>

ScenarioBase == Op("aucun", 1) \o Op("aucun", 2) \o Op("aucun", 3)
                  \o Op("desenregistrer", 2) \o Constater({1, 3})

ScenarioHealthChecks == Op("ttl", 1) \o Op("http", 2) \o Attendre(1) \o Op("tomber", 2)
                          \o Attendre(2) \o Constater({1})
                          \o Op("tomber", 1) \o Attendre(Ttl + 2) \o Constater({})

ScenarioWatch == Op("http", 1) \o Op("http", 2) \o Attendre(1)
                   \o Op("http", 3) \o Op("http", 4) \o Attendre(1)
                   \o Op("desenregistrer", 3) \o Op("desenregistrer", 4)
                   \o Op("desenregistrer", 1) \o Op("http", 5) \o Attendre(1)
                   \o Constater({2, 5})

ScenarioCache == Op("http", 1) \o Op("http", 2) \o Op("http", 3)
                   \o Client("obtenir") \o Client("obtenir")
                   \o Op("desenregistrer", 2) \o Client("invalider")
                   \o Client("rafraichir") \o Constater({1, 3})

-----------------------------------------------------------------------------
\* Whatever changes the catalogue or a state is told: once the threads of the
\* watcher have run, it knows the healthy instances.
ObservateursAJour == avis = <<>> => vue = Resoudre({})

\* An instance that goes silent is resolved for one unit at most after its TTL; one
\* that beats, and can, is never taken out.
SilenceDetecte == \A i \in catalog \ Actives :
    /\ age[i] > Ttl /\ "ttl" \in passes => etat[i] = "critical"
    /\ age[i] <= Ttl => etat[i] = "passing"

\* What the client keeps and would return left the catalogue at most a TTL ago, or
\* during the call that kept it.
CacheBorne == \A k \in Cles : EnCache(k) =>
    \A i \in retenu[k].instances : i \in catalog \/ parti[i] <= retenu[k].age

\* A failing fn_check ends up taking the instance out for good.
PanneRetiree == \A i \in Services :
    <>[](~sante[i]) => <>[](i \notin Resoudre({}))

\* What the simulation counts: the instances that are resolved, and those the client
\* is given once it has asked again.
Constat == [][reste # <<>> /\ reste' # reste /\ Head(reste).op = "constater" =>
                 /\ Resoudre({}) = Head(reste).sur
                 /\ \A k \in Cles : EnCache(k) => retenu[k].instances \subseteq Head(reste).sur
             ]_varsDecouverte
=============================================================================
