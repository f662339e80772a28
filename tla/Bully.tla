------------------------------- MODULE Bully --------------------------------
(***************************************************************************)
(* The Bully election (jour6-bully): every message is delivered by a       *)
(* thread of its own, every election is a thread that waits for an OK, and *)
(* after an OK one more waits for the COORDINATOR.  Neither a stop nor a   *)
(* COORDINATOR ends the threads that are under way.                        *)
(*                                                                         *)
(* Heartbeats are not messages here: a leader's silence can be noticed     *)
(* whenever it is not a leader at work.  Two equal messages on their way   *)
(* are one: the network takes 40 ms, a node sends one again after 100.     *)
(* So are two threads of one node that wait for replaced events, or that   *)
(* an OK has woken: they are to do the same.                               *)
(***************************************************************************)
EXTENDS Integers, Sequences, FiniteSets, FiniteSetsExt, TLAPS

CONSTANTS Membres,   \* naturals: Reseau.noeuds
          Scenarios, \* what is done to the cluster, in order
          Permis,
          MaxMinuteurs   \* bound: the timers of a node that are kept apart

Aucun == 0   \* leader_id = None

\* What a scenario does: stop some nodes, bring some back, wait for a leader, wait.
Operations == [op : {"arreter", "ressusciter", "leader", "attendre"},
               noeuds : SUBSET Membres]

\* What the constants are.
BullyAssumption ==
    /\ Membres \subseteq Nat \ {0} /\ IsFiniteSet(Membres) /\ Membres # {}
    /\ Scenarios \subseteq Seq(Operations)
    \* Losses; waits that end too early; scenarios that do not wait for a leader.
    /\ Permis \subseteq {"perte", "delai", "imprevu"}
    /\ MaxMinuteurs \in Nat \ {0}

VARIABLES
    actif,        \* _actif
    etat,
    leader_id,
    en_election,
    attend_coordinator,
    courrier,     \* the messages on their way
    lancements,   \* nodes a thread is about to call lancer_election of
    attentes,     \* nodes with a thread that waits for the event in _registre_ok
    reveils,      \* nodes with a thread that an OK has woken
    orphelines,   \* nodes with a thread that waits for an event that was replaced
    minuteurs,    \* how many threads of a node are in _timeout_coordinator
    suite         \* what the scenario has still to do

varsBully == <<actif, etat, leader_id, en_election, attend_coordinator, courrier,
               lancements, attentes, reveils, orphelines, minuteurs, suite>>

Message(type, n, m) == [type |-> type, expediteur |-> n, destinataire |-> m]
Messages == [type : {"ELECTION", "OK", "COORDINATOR"},
             expediteur : Membres, destinataire : Membres]

\* Mutant: a new leader tells the smaller nodes only.
Autres_Inferieurs(n) == {m \in Membres : m < n}

Autres(n) == Membres \ {n}
Superieurs(n) == {m \in Membres : m > n}
Vivants == {n \in Membres : actif[n]}
Chef == CHOOSE n \in Vivants : \A m \in Vivants : m <= n

TypeOK ==
    /\ actif \in [Membres -> BOOLEAN]
    /\ etat \in [Membres -> {"NORMAL", "ELECTION", "LEADER", "MORT"}]
    /\ leader_id \in [Membres -> Membres \union {Aucun}]
    /\ {en_election, attend_coordinator} \subseteq [Membres -> BOOLEAN]
    /\ courrier \subseteq Messages
    /\ {lancements, attentes, reveils, orphelines} \subseteq SUBSET Membres
    /\ minuteurs \in [Membres -> 0..MaxMinuteurs]
    /\ suite \in Seq(Operations)

\* Every node runs and is about to lead an election, as the scenarios start.
Init ==
    /\ actif = [n \in Membres |-> TRUE]
    /\ etat = [n \in Membres |-> "NORMAL"]
    /\ leader_id = [n \in Membres |-> Aucun]
    /\ en_election = [n \in Membres |-> FALSE]
    /\ attend_coordinator = [n \in Membres |-> FALSE]
    /\ courrier = {}
    /\ lancements = Membres
    /\ attentes = {}
    /\ reveils = {}
    /\ orphelines = {}
    /\ minuteurs = [n \in Membres |-> 0]
    /\ suite \in Scenarios

-----------------------------------------------------------------------------
\* Reseau.envoyer, of one message to each of some nodes.
Envoyer(type, n, dest) ==
    \E perdus \in IF "perte" \in Permis THEN SUBSET dest ELSE {{}} :
        courrier' = courrier \union {Message(type, n, m) : m \in dest \ perdus}

\* _se_proclamer_coordinateur, which does not look at _actif.  What a thread is
\* about to send after the lock, and what waits for its latency, are on their way.
SeProclamer(n) ==
    /\ etat' = [etat EXCEPT ![n] = "LEADER"]
    /\ leader_id' = [leader_id EXCEPT ![n] = n]
    /\ en_election' = [en_election EXCEPT ![n] = FALSE]
    /\ attend_coordinator' = [attend_coordinator EXCEPT ![n] = FALSE]
    /\ Envoyer("COORDINATOR", n, Autres(n))

\* lancer_election, up to its wait: the greatest node wins at once.
LancerElection(n) ==
    /\ n \in lancements
    /\ lancements' = lancements \ {n}
    /\ IF en_election[n]
         THEN UNCHANGED <<etat, leader_id, en_election, attend_coordinator, courrier,
                          attentes, orphelines>>
       ELSE IF Superieurs(n) = {}
         THEN SeProclamer(n) /\ UNCHANGED <<attentes, orphelines>>
       ELSE /\ en_election' = [en_election EXCEPT ![n] = TRUE]
            /\ etat' = [etat EXCEPT ![n] = "ELECTION"]
            /\ Envoyer("ELECTION", n, Superieurs(n))
            /\ attentes' = attentes \union {n}
            /\ orphelines' = orphelines \union ({n} \cap attentes)
            /\ UNCHANGED <<leader_id, attend_coordinator>>
    /\ UNCHANGED <<actif, reveils, minuteurs, suite>>

\* The wait has ended with an OK: another thread waits for the COORDINATOR.
OkRecu(n) ==
    /\ n \in reveils
    /\ reveils' = reveils \ {n}
    /\ attend_coordinator' = [attend_coordinator EXCEPT ![n] = TRUE]
    /\ minuteurs' = [minuteurs EXCEPT ![n] = IF @ < MaxMinuteurs THEN @ + 1 ELSE @]
    /\ UNCHANGED <<actif, etat, leader_id, en_election, courrier, lancements,
                   attentes, orphelines, suite>>

\* attendre_leader: one leader, whom every live node follows.
LeaderStable == \E l \in Vivants :
    /\ {n \in Vivants : etat[n] = "LEADER"} = {l}
    /\ \A n \in Vivants : leader_id[n] = l

\* Deliveries take 40 ms, the shortest wait 400: unless waits may end too early
\* ("delai"), what is on its way arrives before one ends.
Calme == courrier = {} /\ lancements = {} /\ reveils = {}

\* attendre_leader looks every 100 ms, which is oftener too.
Observe == suite # <<>> /\ Head(suite).op = "leader" /\ LeaderStable

Echu == "delai" \in Permis \/ (Calme /\ ~Observe)

\* The wait ends without one.  An event that was replaced is never set.
TimeoutOk(n) ==
    /\ Echu
    /\ \/ /\ n \in attentes
          /\ attentes' = attentes \ {n}
          /\ UNCHANGED orphelines
       \/ /\ n \in orphelines
          /\ orphelines' = orphelines \ {n}
          /\ UNCHANGED attentes
    /\ SeProclamer(n)
    /\ UNCHANGED <<actif, lancements, reveils, minuteurs, suite>>

\* _timeout_coordinator: the election starts again, whether the COORDINATOR came
\* or not.
TimeoutCoordinator(n) ==
    /\ minuteurs[n] > 0 /\ Echu
    /\ minuteurs' = [minuteurs EXCEPT ![n] = @ - 1]
    /\ IF actif[n]
         THEN /\ lancements' = lancements \union {n}
              /\ en_election' = [en_election EXCEPT ![n] = @ /\ ~attend_coordinator[n]]
              /\ attend_coordinator' = [attend_coordinator EXCEPT ![n] = FALSE]
         ELSE UNCHANGED <<lancements, en_election, attend_coordinator>>
    /\ UNCHANGED <<actif, etat, leader_id, courrier, attentes, reveils, orphelines,
                   suite>>

\* _boucle_principale: the leader has been silent for TIMEOUT_LEADER, longer than
\* the waits that began before it was one.
LeaderSilencieux(n) ==
    /\ actif[n] /\ etat[n] = "NORMAL" /\ leader_id[n] # Aucun
    /\ LET l == leader_id[n] IN
         \/ "delai" \in Permis
         \/ /\ Calme /\ n \notin attentes \union orphelines /\ minuteurs[n] = 0
            /\ ~actif[l] \/ etat[l] # "LEADER"
    /\ leader_id' = [leader_id EXCEPT ![n] = Aucun]
    /\ lancements' = lancements \union {n}
    /\ UNCHANGED <<actif, etat, en_election, attend_coordinator, courrier, attentes,
                   reveils, orphelines, minuteurs, suite>>

-----------------------------------------------------------------------------
\* recevoir, in the thread that delivers: who is stopped ignores everything.
Recevoir(msg, reponse) ==
    /\ courrier' = (courrier \ {msg}) \union reponse
    /\ UNCHANGED <<actif, orphelines, minuteurs, suite>>

Ignorer(msg) ==
    /\ ~actif[msg.destinataire]
    /\ Recevoir(msg, {})
    /\ UNCHANGED <<etat, leader_id, en_election, attend_coordinator, lancements, attentes,
                   reveils>>

OnElection(msg) == LET n == msg.destinataire IN
    /\ actif[n] /\ msg.type = "ELECTION"
    /\ \/ Recevoir(msg, {Message("OK", n, msg.expediteur)})
       \/ "perte" \in Permis /\ Recevoir(msg, {})
    /\ lancements' = lancements \union {m \in {n} : ~en_election[n]}
    /\ UNCHANGED <<etat, leader_id, en_election, attend_coordinator, attentes, reveils>>

OnOk(msg) == LET n == msg.destinataire IN
    /\ actif[n] /\ msg.type = "OK"
    /\ Recevoir(msg, {})
    /\ reveils' = reveils \union ({n} \cap attentes)
    /\ attentes' = attentes \ {n}
    /\ UNCHANGED <<etat, leader_id, en_election, attend_coordinator, lancements>>

\* Whoever says so is the leader, a smaller node too.
OnCoordinator(msg) == LET n == msg.destinataire IN
    /\ actif[n] /\ msg.type = "COORDINATOR"
    /\ Recevoir(msg, {})
    /\ leader_id' = [leader_id EXCEPT ![n] = msg.expediteur]
    /\ etat' = [etat EXCEPT ![n] = "NORMAL"]
    /\ en_election' = [en_election EXCEPT ![n] = FALSE]
    /\ attend_coordinator' = [attend_coordinator EXCEPT ![n] = FALSE]
    /\ UNCHANGED <<lancements, attentes, reveils>>

-----------------------------------------------------------------------------
Arreter(noeuds) ==
    /\ actif' = [n \in Membres |-> actif[n] /\ n \notin noeuds]
    /\ etat' = [n \in Membres |-> IF n \in noeuds THEN "MORT" ELSE etat[n]]
    /\ UNCHANGED <<leader_id, en_election, lancements>>

Ressusciter(noeuds) ==
    /\ actif' = [n \in Membres |-> actif[n] \/ n \in noeuds]
    /\ etat' = [n \in Membres |-> IF n \in noeuds THEN "NORMAL" ELSE etat[n]]
    /\ leader_id' = [n \in Membres |-> IF n \in noeuds THEN Aucun ELSE leader_id[n]]
    /\ en_election' = [n \in Membres |-> en_election[n] /\ n \notin noeuds]
    /\ lancements' = lancements \union noeuds

\* The scenario goes on when there is a leader, and sleeps longer than deliveries take.
Derouler ==
    /\ suite # <<>>
    /\ "imprevu" \in Permis \/ LeaderStable
    /\ Head(suite).op = "attendre" => Calme
    /\ CASE Head(suite).op = "arreter" -> Arreter(Head(suite).noeuds)
         [] Head(suite).op = "ressusciter" -> Ressusciter(Head(suite).noeuds)
         [] OTHER -> UNCHANGED <<actif, etat, leader_id, en_election, lancements>>
    /\ suite' = Tail(suite)
    /\ UNCHANGED <<attend_coordinator, courrier, attentes, reveils, orphelines, minuteurs>>

Livrer(msg) ==
    \/ Ignorer(msg) \/ OnElection(msg) \/ OnOk(msg) \/ OnCoordinator(msg)

Fil(n) ==
    \/ LancerElection(n) \/ OkRecu(n) \/ TimeoutOk(n)
    \/ TimeoutCoordinator(n) \/ LeaderSilencieux(n)

Next ==
    \/ \E n \in Membres : Fil(n)
    \/ \E msg \in courrier : Livrer(msg)
    \/ Derouler

Spec == Init /\ [][Next]_varsBully

\* Threads go on, messages arrive.  A wait ends in time whatever else happens
\* again and again meanwhile.
Equite ==
    /\ \A n \in Membres :
         /\ WF_varsBully(LancerElection(n)) /\ WF_varsBully(OkRecu(n))
         /\ SF_varsBully(TimeoutOk(n)) /\ SF_varsBully(TimeoutCoordinator(n))
         /\ SF_varsBully(LeaderSilencieux(n))
    /\ \A msg \in Messages : WF_varsBully(msg \in courrier /\ Livrer(msg))

-----------------------------------------------------------------------------
\* The scenarios of simulation.py, for any number of nodes: what is done, and the
\* leader that is expected after it.  That a node which is brought back leads in the end
\* is PlusGrandElu: an old wait of another may proclaim that one first.
Op(op, noeuds) == <<[op |-> op, noeuds |-> noeuds]>>
Grand == Max(Membres)
Suivant == Max(Membres \ {Grand})

ElectionInitiale == Op("leader", {Grand})
MortDuLeader == Op("leader", {Grand}) \o Op("arreter", {Grand}) \o Op("leader", {Suivant})
ResurrectionLeader == Op("arreter", {Grand}) \o Op("leader", {Suivant})
                        \o Op("attendre", {}) \o Op("ressusciter", {Grand})
PannesMultiples(survivants) ==
    Op("leader", {Grand}) \o Op("arreter", Membres \ survivants)
      \o Op("leader", {Max(survivants)})

-----------------------------------------------------------------------------
\* The leader that emerges is the one each scenario expects.
BilanBully == [][suite # <<>> /\ suite' # suite /\ Head(suite).op = "leader" =>
                    \A l \in Head(suite).noeuds : etat[l] = "LEADER"]_varsBully

\* Two live nodes are leaders only while one's COORDINATOR is on its way to the
\* other: the split ends with it, whatever old elections still run.
ScissionBreve ==
    "perte" \notin Permis =>
        \A n, m \in Vivants : n # m /\ etat[n] = "LEADER" /\ etat[m] = "LEADER" =>
            {Message("COORDINATOR", n, m), Message("COORDINATOR", m, n)} \cap courrier # {}

\* "Elit toujours le noeud vivant avec le plus grand ID": in the end nobody follows
\* anyone else, and everyone follows it again and again.
PlusGrandElu ==
    /\ <>[](\A n \in Vivants : leader_id[n] \in {Aucun, Chef})
    /\ \A n \in Membres : []<>(actif[n] => leader_id[n] = Chef)

-----------------------------------------------------------------------------
\* Every action keeps the types.
THEOREM TypeCorrect ==
  ASSUME BullyAssumption
  PROVE  Spec => []TypeOK
<1>1. Init => TypeOK
  BY DEF Init, TypeOK, BullyAssumption, Messages
<1>2. ASSUME TypeOK, [Next]_varsBully
      PROVE  TypeOK'
  <2> USE <1>2 DEF TypeOK
  <2>0. \A type \in {"ELECTION", "OK", "COORDINATOR"}, n \in Membres, m \in Membres :
           Message(type, n, m) \in Messages
    BY DEF Message, Messages
  <2>1. ASSUME NEW type \in {"ELECTION", "OK", "COORDINATOR"}, NEW n \in Membres,
               NEW dest \in SUBSET Membres, Envoyer(type, n, dest)
        PROVE  courrier' \subseteq Messages
    BY <2>0, <2>1 DEF Envoyer
  <2>2. ASSUME NEW n \in Membres, SeProclamer(n)
        PROVE  /\ etat' \in [Membres -> {"NORMAL", "ELECTION", "LEADER", "MORT"}]
               /\ leader_id' \in [Membres -> Membres \union {Aucun}]
               /\ en_election' \in [Membres -> BOOLEAN]
               /\ attend_coordinator' \in [Membres -> BOOLEAN]
               /\ courrier' \subseteq Messages
    <3>1. courrier' \subseteq Messages
      <4>1. Envoyer("COORDINATOR", n, Autres(n)) /\ Autres(n) \in SUBSET Membres
        BY <2>2 DEF SeProclamer, Autres
      <4>2. QED
        BY <2>1, <4>1
    <3>2. QED
      BY <2>2, <3>1 DEF SeProclamer
  <2>3. ASSUME NEW n \in Membres, LancerElection(n)
        PROVE  TypeOK'
    <3>1. CASE en_election[n]
      BY <2>3, <3>1 DEF LancerElection
    <3>2. CASE ~en_election[n] /\ Superieurs(n) = {}
      BY <2>2, <2>3, <3>2 DEF LancerElection
    <3>3. CASE ~en_election[n] /\ Superieurs(n) # {}
      <4>1. courrier' \subseteq Messages
        BY <2>1, <2>3, <3>3 DEF LancerElection, Superieurs
      <4>2. {attentes', orphelines', lancements'} \subseteq SUBSET Membres
        BY <2>3, <3>3 DEF LancerElection
      <4>3. /\ en_election' \in [Membres -> BOOLEAN]
            /\ etat' \in [Membres -> {"NORMAL", "ELECTION", "LEADER", "MORT"}]
        BY <2>3, <3>3 DEF LancerElection
      <4>4. UNCHANGED <<leader_id, attend_coordinator, actif, reveils, minuteurs, suite>>
        BY <2>3, <3>3 DEF LancerElection
      <4>5. QED
        BY <4>1, <4>2, <4>3, <4>4
    <3>4. QED
      BY <3>1, <3>2, <3>3
  <2>4. ASSUME NEW n \in Membres, OkRecu(n)
        PROVE  TypeOK'
    <3>1. minuteurs' = [minuteurs EXCEPT ![n] = IF @ < MaxMinuteurs THEN @ + 1 ELSE @]
      BY <2>4 DEF OkRecu
    <3>2. minuteurs' \in [Membres -> 0..MaxMinuteurs]
      <4>1. minuteurs \in [Membres -> 0..MaxMinuteurs] /\ MaxMinuteurs \in Nat
        BY DEF BullyAssumption
      <4>2. (IF minuteurs[n] < MaxMinuteurs THEN minuteurs[n] + 1 ELSE minuteurs[n])
              \in 0..MaxMinuteurs
        <5>1. minuteurs[n] \in 0..MaxMinuteurs
          BY <4>1
        <5> HIDE DEF TypeOK
        <5>2. QED
          BY <4>1, <5>1
      <4> HIDE DEF TypeOK
      <4>3. QED
        BY <3>1, <4>1, <4>2
    <3>3. QED
      BY <2>4, <3>2 DEF OkRecu
  <2>5. ASSUME NEW n \in Membres, TimeoutOk(n)
        PROVE  TypeOK'
    BY <2>2, <2>5 DEF TimeoutOk
  <2>6. ASSUME NEW n \in Membres, TimeoutCoordinator(n)
        PROVE  TypeOK'
    <3>0. minuteurs' \in [Membres -> 0..MaxMinuteurs]
      <4>1. minuteurs' = [minuteurs EXCEPT ![n] = @ - 1] /\ minuteurs[n] > 0
        BY <2>6 DEF TimeoutCoordinator
      <4>2. minuteurs[n] \in 0..MaxMinuteurs /\ MaxMinuteurs \in Nat
        BY DEF BullyAssumption
      <4>3. minuteurs[n] - 1 \in 0..MaxMinuteurs
        BY <4>1, <4>2
      <4>4. QED
        BY <4>1, <4>3
    <3>1. CASE actif[n]
      <4>1. /\ en_election' \in [Membres -> BOOLEAN]
            /\ attend_coordinator' \in [Membres -> BOOLEAN]
        BY <2>6, <3>1, Zenon DEF TimeoutCoordinator
      <4>2. QED
        BY <2>6, <3>0, <3>1, <4>1 DEF TimeoutCoordinator
    <3>2. CASE ~actif[n]
      BY <2>6, <3>0, <3>2 DEF TimeoutCoordinator
    <3>3. QED
      BY <3>1, <3>2
  <2>7. ASSUME NEW n \in Membres, LeaderSilencieux(n)
        PROVE  TypeOK'
    BY <2>7 DEF LeaderSilencieux
  <2>8. ASSUME NEW msg \in courrier, Livrer(msg)
        PROVE  TypeOK'
    <3>1. /\ msg.expediteur \in Membres
          /\ msg.destinataire \in Membres
      BY DEF Messages
    <3>2. CASE Ignorer(msg)
      BY <3>2 DEF Ignorer, Recevoir
    <3>3. CASE OnElection(msg)
      <4>1. courrier' \subseteq Messages
        BY <2>0, <3>1, <3>3 DEF OnElection, Recevoir
      <4>2. QED
        BY <3>1, <3>3, <4>1 DEF OnElection, Recevoir
    <3>4. CASE OnOk(msg)
      BY <3>1, <3>4 DEF OnOk, Recevoir
    <3>5. CASE OnCoordinator(msg)
      BY <3>1, <3>5 DEF OnCoordinator, Recevoir
    <3>6. QED
      BY <2>8, <3>2, <3>3, <3>4, <3>5 DEF Livrer
  <2>9. CASE Derouler
    <3>1. /\ Head(suite) \in Operations
          /\ Tail(suite) \in Seq(Operations)
      BY <2>9 DEF Derouler
    <3>2. /\ Head(suite).op \in {"arreter", "ressusciter", "leader", "attendre"}
          /\ Head(suite).noeuds \subseteq Membres
      BY <3>1 DEF Operations
    <3>3. /\ suite' = Tail(suite)
          /\ UNCHANGED <<attend_coordinator, courrier, attentes, reveils, orphelines,
                         minuteurs>>
          /\ \/ Arreter(Head(suite).noeuds)
             \/ Ressusciter(Head(suite).noeuds)
             \/ UNCHANGED <<actif, etat, leader_id, en_election, lancements>>
      BY <2>9, <3>2 DEF Derouler
    <3>4. CASE Arreter(Head(suite).noeuds)
      BY <3>1, <3>3, <3>4 DEF Arreter
    <3>5. CASE Ressusciter(Head(suite).noeuds)
      BY <3>1, <3>2, <3>3, <3>5 DEF Ressusciter
    <3>6. QED
      BY <3>1, <3>3, <3>4, <3>5
  <2>10. CASE UNCHANGED varsBully
    BY <2>10 DEF varsBully
  <2>11. QED
    BY <1>2, <2>3, <2>4, <2>5, <2>6, <2>7, <2>8, <2>9, <2>10 DEF Next, Fil
<1>3. QED
  BY <1>1, <1>2, PTL DEF Spec

\* Two live leaders: the one that proclaimed itself last has a COORDINATOR on its way
\* to the other, whatever was stopped or brought back meanwhile.  A COORDINATOR that is
\* ignored goes to a node that is not live, and that one comes back as a follower.
THEOREM ScissionBreveCorrect ==
  ASSUME BullyAssumption
  PROVE  Spec => []ScissionBreve
<1>1. Init => ScissionBreve
  BY DEF Init, ScissionBreve, Vivants
<1>2. ASSUME TypeOK, ScissionBreve, [Next]_varsBully
      PROVE  ScissionBreve'
  <2> USE <1>2
  <2> SUFFICES ASSUME "perte" \notin Permis,
                      NEW n \in Membres, NEW m \in Membres, n # m,
                      actif'[n], actif'[m], etat'[n] = "LEADER", etat'[m] = "LEADER"
               PROVE  \/ Message("COORDINATOR", n, m) \in courrier'
                      \/ Message("COORDINATOR", m, n) \in courrier'
    BY DEF ScissionBreve, Vivants
  <2>0. \A p, q \in Membres : /\ Message("COORDINATOR", p, q).type = "COORDINATOR"
                              /\ Message("COORDINATOR", p, q).destinataire = q
    BY DEF Message
  <2>1. ASSUME actif[n], actif[m], etat[n] = "LEADER", etat[m] = "LEADER"
        PROVE  \/ Message("COORDINATOR", n, m) \in courrier
               \/ Message("COORDINATOR", m, n) \in courrier
    BY <2>1 DEF ScissionBreve, Vivants
  \* A node that proclaims itself tells everyone else.
  <2>2. ASSUME NEW p \in Membres, SeProclamer(p), actif' = actif
        PROVE  \/ Message("COORDINATOR", n, m) \in courrier'
               \/ Message("COORDINATOR", m, n) \in courrier'
    <3>1. courrier' = courrier \union {Message("COORDINATOR", p, q) : q \in Autres(p)}
      BY <2>2 DEF SeProclamer, Envoyer
    <3>2. \A q \in Membres \ {p} : /\ Message("COORDINATOR", p, q) \in courrier'
                                   /\ etat'[q] = etat[q]
      BY <2>2, <3>1 DEF SeProclamer, Autres, TypeOK
    <3>3. CASE n = p \/ m = p
      BY <3>2, <3>3
    <3>4. CASE n # p /\ m # p
      BY <2>1, <2>2, <3>1, <3>2, <3>4
    <3>5. QED
      BY <3>3, <3>4
  \* Who leads afterwards led before, and no COORDINATOR has been delivered.
  <2>3. ASSUME courrier \subseteq courrier', actif[n], actif[m], etat[n] = "LEADER",
               etat[m] = "LEADER"
        PROVE  \/ Message("COORDINATOR", n, m) \in courrier'
               \/ Message("COORDINATOR", m, n) \in courrier'
    BY <2>1, <2>3
  <2>4. ASSUME NEW p \in Membres, Fil(p)
        PROVE  \/ Message("COORDINATOR", n, m) \in courrier'
               \/ Message("COORDINATOR", m, n) \in courrier'
    <3>1. CASE LancerElection(p)
      <4>1. actif' = actif
        BY <3>1 DEF LancerElection
      <4>2. CASE en_election[p]
        BY <2>3, <3>1, <4>1, <4>2 DEF LancerElection
      <4>3. CASE ~en_election[p] /\ Superieurs(p) = {}
        BY <2>2, <3>1, <4>1, <4>3 DEF LancerElection
      <4>4. CASE ~en_election[p] /\ Superieurs(p) # {}
        <5>1. /\ etat' = [etat EXCEPT ![p] = "ELECTION"]
              /\ courrier \subseteq courrier'
          BY <3>1, <4>4 DEF LancerElection, Envoyer
        <5>2. etat[n] = "LEADER" /\ etat[m] = "LEADER"
          BY <5>1 DEF TypeOK
        <5>3. QED
          BY <2>3, <4>1, <5>1, <5>2
      <4>5. QED
        BY <4>2, <4>3, <4>4
    <3>2. CASE TimeoutOk(p)
      BY <2>2, <3>2 DEF TimeoutOk
    <3>3. CASE OkRecu(p) \/ TimeoutCoordinator(p) \/ LeaderSilencieux(p)
      BY <2>3, <3>3 DEF OkRecu, TimeoutCoordinator, LeaderSilencieux
    <3>4. QED
      BY <2>4, <3>1, <3>2, <3>3 DEF Fil
  <2>5. ASSUME NEW msg \in courrier, Livrer(msg)
        PROVE  \/ Message("COORDINATOR", n, m) \in courrier'
               \/ Message("COORDINATOR", m, n) \in courrier'
    <3>1. /\ actif' = actif
          /\ courrier \ {msg} \subseteq courrier'
      BY <2>5 DEF Livrer, Ignorer, OnElection, OnOk, OnCoordinator, Recevoir
    <3>2. CASE ~actif[msg.destinataire] /\ etat' = etat
      BY <2>0, <2>1, <3>1, <3>2
    <3>3. CASE msg.type # "COORDINATOR" /\ etat' = etat
      BY <2>0, <2>1, <3>1, <3>3
    <3>4. CASE OnCoordinator(msg)
      <4>1. /\ msg.destinataire \in Membres
            /\ etat' = [etat EXCEPT ![msg.destinataire] = "NORMAL"]
        BY <3>4 DEF OnCoordinator, TypeOK, Messages
      <4>2. /\ n # msg.destinataire /\ m # msg.destinataire
            /\ etat[n] = "LEADER" /\ etat[m] = "LEADER"
        BY <4>1 DEF TypeOK
      <4>3. QED
        BY <2>0, <2>1, <3>1, <4>2
    <3>5. QED
      BY <2>5, <3>2, <3>3, <3>4 DEF Livrer, Ignorer, OnElection, OnOk
  <2>6. CASE Derouler
    <3>1. \/ Arreter(Head(suite).noeuds)
          \/ Ressusciter(Head(suite).noeuds)
          \/ UNCHANGED <<actif, etat>>
      BY <2>6 DEF Derouler
    <3>2. courrier' = courrier
      BY <2>6 DEF Derouler
    <3>3. CASE Arreter(Head(suite).noeuds)
      BY <2>3, <3>2, <3>3 DEF Arreter
    <3>4. CASE Ressusciter(Head(suite).noeuds)
      BY <2>3, <3>2, <3>4 DEF Ressusciter
    <3>5. QED
      BY <2>3, <3>1, <3>2, <3>3, <3>4
  <2>7. CASE UNCHANGED varsBully
    BY <2>3, <2>7 DEF varsBully
  <2>8. QED
    BY <1>2, <2>4, <2>5, <2>6, <2>7 DEF Next
<1>3. QED
  BY TypeCorrect, <1>1, <1>2, PTL DEF Spec

=============================================================================
