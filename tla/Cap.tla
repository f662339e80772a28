-------------------------------- MODULE Cap ---------------------------------
(***************************************************************************)
(* CAP (jour8-cap): the same cluster as a CP store, whose nodes refuse     *)
(* without a majority, and as an AP store, whose nodes accept everything,  *)
(* replicate in threads and are reconciled by the last writer.             *)
(*                                                                         *)
(* The nodes of the CP store do not send one another what they write.      *)
(***************************************************************************)
EXTENDS Integers, Sequences, FiniteSets, SequencesExt, TLC

CONSTANTS Cles,
          Programmes,  \* the clusters, and what the clients do, in order
          Permis

\* What the constants are.
CapAssumption ==
    /\ \A p \in Programmes : IsFiniteSet(p.noeuds) /\ p.noeuds # {}
    \* Operations that overlap; clocks read twice in one tick.
    /\ Permis \subseteq {"concurrence", "egalite"}

VARIABLES
    tous_ids,     \* the nodes of the cluster
    groupes,      \* _partitions, none when the network is whole
    temps,        \* the clock of everybody
    store,        \* of the AP nodes: a value, its timestamp (0: none)
    ecritures,    \* AP writes that have read the clock and not taken the lock
    replications, \* threads in _repliquer_async, with the nodes they have still to call
    fusions,      \* calls of reconcilier, with the nodes they have still to read
    verrous,      \* locks that a reconcilier holds
    cp,           \* of the CP nodes: a value and its version
    decidees,     \* CP operations that have the quorum and not yet the lock
    statut,       \* of the last operation decided, and what was read or written last
    confirmes,    \* values acknowledged by the CP store, in order
    derniere,     \* of each key, the AP write with the greatest timestamp
    reconcilies,  \* nodes reconciled since the last write or change of the network
    suite         \* what the clients have still to do

varsCap == <<tous_ids, groupes, temps, store, ecritures, replications, fusions, verrous, cp,
             decidees, statut, confirmes, derniere, reconcilies, suite>>

Vide == [valeur |-> 0, ts |-> 0]

Noeuds == tous_ids

TypeOK ==
    /\ groupes \subseteq SUBSET Noeuds /\ temps \in Nat
    /\ \A n \in Noeuds, c \in Cles : store[n][c].ts \in 0..temps
    /\ \A f \in fusions : f.reste \subseteq Noeuds
    /\ verrous \subseteq Noeuds
    /\ decidees \subseteq [op : {"cp_ecrire", "cp_lire"}, noeud : Noeuds, cle : Cles, valeur : Nat]
    /\ statut.code \in {"OK", "ERREUR", "OBSOLETE"}

Init ==
    /\ \E p \in Programmes : tous_ids = p.noeuds /\ suite = p.ops
    /\ groupes = {} /\ temps = 0
    /\ store = [n \in Noeuds |-> [c \in Cles |-> Vide]]
    /\ ecritures = {} /\ replications = {} /\ fusions = {} /\ verrous = {}
    /\ cp = [n \in Noeuds |-> [c \in Cles |-> [valeur |-> 0, version |-> 0]]]
    /\ decidees = {} /\ statut = [code |-> "OK", valeur |-> 0]
    /\ confirmes = [c \in Cles |-> <<>>]
    /\ derniere = [c \in Cles |-> Vide] /\ reconcilies = {}

-----------------------------------------------------------------------------
PeutCommuniquer(a, b) == groupes = {} \/ \E g \in groupes : {a, b} \subseteq g
NoeudsVisibles(n) == {m \in Noeuds : PeutCommuniquer(n, m)}

\* Mutant: half of the nodes are enough.
AQuorum_Moitie(n) == Cardinality(NoeudsVisibles(n)) >= Cardinality(Noeuds) \div 2

\* _a_quorum: a majority of the nodes is visible.
AQuorum(n) == Cardinality(NoeudsVisibles(n)) >= Cardinality(Noeuds) \div 2 + 1

Ap == <<store, ecritures, replications, fusions, verrous, temps>>
Cp == <<cp, decidees, statut, confirmes>>
Traces == <<derniere, reconcilies>>

\* NoeudCP.ecrire and lire: the nodes in sight are counted before the lock is taken.
DeciderCP(op, n, c, v) ==
    /\ decidees' = decidees \union
           {o \in {[op |-> op, noeud |-> n, cle |-> c, valeur |-> v]} : AQuorum(n)}
    /\ statut' = [code |-> IF AQuorum(n) THEN "OK" ELSE "ERREUR", valeur |-> 0]
    /\ UNCHANGED <<groupes, Ap, cp, confirmes, Traces>>

\* The write, on this node only.
EcrireCP(o) ==
    /\ o.op = "cp_ecrire"
    /\ cp' = [cp EXCEPT ![o.noeud][o.cle] = [valeur |-> o.valeur, version |-> @.version + 1]]
    /\ confirmes' = [confirmes EXCEPT ![o.cle] = Append(@, o.valeur)]
    /\ statut' = [statut EXCEPT !.valeur = o.valeur]
    /\ decidees' = decidees \ {o}
    /\ UNCHANGED <<groupes, Ap, Traces, suite>>

LireCP(o) ==
    /\ o.op = "cp_lire"
    /\ statut' = [statut EXCEPT !.valeur = cp[o.noeud][o.cle].valeur]
    /\ decidees' = decidees \ {o}
    /\ UNCHANGED <<groupes, Ap, cp, confirmes, Traces, suite>>

-----------------------------------------------------------------------------
\* NoeudAP.ecrire: the clock is read before the lock is taken, and what is in the
\* store is not compared.
LireTemps(n, c, v) ==
    /\ temps' \in {temps + 1} \union (IF "egalite" \in Permis THEN {temps} \ {0} ELSE {})
    /\ ecritures' = ecritures \union {[noeud |-> n, cle |-> c,
                                       entree |-> [valeur |-> v, ts |-> temps']]}
    /\ derniere' = [derniere EXCEPT ![c] = [valeur |-> v, ts |-> temps']]
    /\ reconcilies' = {}
    /\ UNCHANGED <<groupes, store, replications, fusions, verrous, Cp>>

EcrireAP(e) ==
    /\ e.noeud \notin verrous
    /\ store' = [store EXCEPT ![e.noeud][e.cle] = e.entree]
    /\ ecritures' = ecritures \ {e}
    /\ replications' = replications \union
           {[de |-> e.noeud, reste |-> Noeuds \ {e.noeud}, cle |-> e.cle, entree |-> e.entree]}
    /\ UNCHANGED <<groupes, temps, fusions, verrous, Cp, Traces, suite>>

\* Mutant: what arrives replaces what is there.
PlusRecente_Toujours(e, n, c) == e

\* The greater timestamp stays.
PlusRecente(e, n, c) == IF e.ts > store[n][c].ts THEN e ELSE store[n][c]

\* _repliquer_async calls the nodes it sees when their turn comes.
Repliquer(r) ==
    /\ r.reste # {}
    /\ \E n \in r.reste :
         /\ \A m \in r.reste : n <= m
         /\ IF PeutCommuniquer(r.de, n)
              THEN /\ n \notin verrous
                   /\ store' = [store EXCEPT ![n][r.cle] = PlusRecente(r.entree, n, r.cle)]
              ELSE UNCHANGED store
         /\ replications' = (replications \ {r}) \union
                {s \in {[r EXCEPT !.reste = @ \ {n}]} : s.reste # {}}
    /\ UNCHANGED <<groupes, temps, ecritures, fusions, verrous, Cp, Traces, suite>>

\* NoeudAP.lire: always answered, and said to be old without a majority.
LireAP(n, c) ==
    /\ n \notin verrous
    /\ statut' = [code |-> IF AQuorum(n) THEN "OK" ELSE "OBSOLETE",
                  valeur |-> store[n][c].valeur]
    /\ UNCHANGED <<groupes, Ap, cp, decidees, confirmes, Traces>>

\* reconcilier: a pair is locked, then the node itself for each of its keys.
Reconcilier(n) ==
    /\ fusions' = fusions \union
           {[noeud |-> n, reste |-> Noeuds \ {n}, pair |-> n]}
    /\ UNCHANGED <<groupes, store, ecritures, replications, verrous, temps, Cp, Traces>>

VerrouillerPair(f) ==
    /\ f.pair = f.noeud
    /\ \E m \in f.reste \ verrous :
         /\ \A x \in f.reste : m <= x
         /\ verrous' = verrous \union {m}
         /\ fusions' = (fusions \ {f}) \union {[f EXCEPT !.pair = m]}
    /\ UNCHANGED <<groupes, temps, store, ecritures, replications, Cp, Traces, suite>>

Fusionner(f) ==
    /\ f.pair # f.noeud /\ f.noeud \notin verrous
    /\ store' = [store EXCEPT ![f.noeud] =
           [c \in Cles |-> PlusRecente(store[f.pair][c], f.noeud, c)]]
    /\ verrous' = verrous \ {f.pair}
    /\ fusions' = (fusions \ {f}) \union
           {g \in {[f EXCEPT !.reste = @ \ {f.pair}, !.pair = f.noeud]} : g.reste # {}}
    /\ reconcilies' = reconcilies \union {n \in {f.noeud} : f.reste = {f.pair}}
    /\ UNCHANGED <<groupes, temps, ecritures, replications, Cp, derniere, suite>>

-----------------------------------------------------------------------------
\* Operations follow one another, unless they may overlap; attendre is the time the
\* replication takes.
Calme == ecritures = {} /\ fusions = {} /\ decidees = {}

Faire(o) ==
    \/ o.op \in {"cp_ecrire", "cp_lire"} /\ DeciderCP(o.op, o.noeud, o.cle, o.valeur)
    \/ o.op = "ecrire" /\ LireTemps(o.noeud, o.cle, o.valeur)
    \/ o.op = "lire" /\ LireAP(o.noeud, o.cle)
    \/ o.op = "reconcilier" /\ Reconcilier(o.noeud)
    \/ /\ o.op = "partitionner"
       /\ groupes' = o.groupes   \* none: guerir
       /\ reconcilies' = {}
       /\ UNCHANGED <<Ap, Cp, derniere>>
    \/ o.op = "attendre" /\ replications = {} /\ UNCHANGED <<groupes, Ap, Cp, Traces>>

Derouler ==
    /\ suite # <<>>
    /\ "concurrence" \in Permis \/ Calme
    /\ Faire(Head(suite))
    /\ suite' = Tail(suite)

Next ==
    /\ \/ Derouler
       \/ \E o \in decidees : EcrireCP(o) \/ LireCP(o)
       \/ \E e \in ecritures : EcrireAP(e)
       \/ \E r \in replications : Repliquer(r)
       \/ \E f \in fusions : VerrouillerPair(f) \/ Fusionner(f)
    /\ UNCHANGED tous_ids

Spec == Init /\ [][Next]_varsCap

-----------------------------------------------------------------------------
\* The scenarios of simulation.py, with the clusters they create.  A CP operation says
\* how it must end, and so does a read of the AP store.
Sur(op, n, c, v) == [op |-> op, noeud |-> n, cle |-> c, valeur |-> v]
Ecrire(n, c, v) == <<Sur("ecrire", n, c, v)>>
EcrireEtFinir(n, c, v, code) == <<Sur("cp_ecrire", n, c, v) @@ [attendu |-> code]>>
LireEtFinir(n, c, code) == <<Sur("cp_lire", n, c, 0) @@ [attendu |-> code]>>
Lire(n, c, v, code) == <<Sur("lire", n, c, v) @@ [attendu |-> code]>>
Partitionner(g) == <<[op |-> "partitionner", groupes |-> g]>>
Attendre == <<[op |-> "attendre"]>>
ReconcilierTous(max) == [n \in 1..max |-> [op |-> "reconcilier", noeud |-> n]]

ScenarioNormal(c) ==
    [noeuds |-> 1..3,
     ops |-> EcrireEtFinir(1, c, 1000, "OK") \o LireEtFinir(2, c, "OK")
               \o Ecrire(1, c, 1000) \o Attendre \o Lire(2, c, 1000, "OK")]

ScenarioPartition(c) ==
    [noeuds |-> 1..5,
     ops |-> EcrireEtFinir(1, c, 100, "OK") \o Ecrire(1, c, 100) \o Attendre
               \o Partitionner({1..2, 3..5})
               \o EcrireEtFinir(1, c, 50, "ERREUR") \o Ecrire(1, c, 50) \o Attendre
               \o Partitionner({})]

ScenarioDivergence(c) ==
    [noeuds |-> 1..4,
     ops |-> Ecrire(1, c, 1) \o Attendre \o Partitionner({1..2, 3..4})
               \o Ecrire(1, c, 0) \o Ecrire(3, c, 0) \o Attendre \o Partitionner({})]

ScenarioGuerison(timeout, retries, max_conn) ==
    [noeuds |-> 1..4,
     ops |-> Ecrire(1, timeout, 30) \o Ecrire(1, retries, 3) \o Attendre
               \o Partitionner({1..2, 3..4})
               \o Ecrire(1, timeout, 60) \o Ecrire(3, timeout, 10)
               \o Ecrire(3, max_conn, 100) \o Attendre
               \o Partitionner({}) \o ReconcilierTous(4)]

-----------------------------------------------------------------------------
\* A CP operation is refused on the side that has no majority, and there only; an AP
\* read after the replication has the value.
Constat == [][suite # suite' /\ "attendu" \in DOMAIN Head(suite)
                => /\ statut'.code = Head(suite).attendu
                   /\ Head(suite).op = "lire" => statut'.valeur = Head(suite).valeur]_varsCap

\* Once every node has been reconciled after the last write, all hold the same
\* values, and of each key the one written last, whatever is still on its way.
DerniereEcritureGagne ==
    reconcilies = Noeuds => \A n \in Noeuds, c \in Cles : store[n][c] = derniere[c]

\* What the CP store reads is what it acknowledged last, wherever it is read.
LectureLineaire ==
    [][\A o \in decidees \ decidees' : o.op = "cp_lire"
         => statut'.valeur = Last(<<0>> \o confirmes[o.cle])]_varsCap

\* Nobody waits for a lock that waits for his.
SansInterblocage == ~ \E f, g \in fusions :
    /\ f.pair # f.noeud /\ g.pair # g.noeud
    /\ f.pair = g.noeud /\ g.pair = f.noeud
=============================================================================
