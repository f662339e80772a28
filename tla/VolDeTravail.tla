---------------------------- MODULE VolDeTravail ----------------------------
(***************************************************************************)
(* WorkStealingPool of jour23-backpressure/backpressure.py: one queue and  *)
(* one lock for every worker, which takes the oldest of its own tasks and  *)
(* else the newest of a queue that holds more than one.                    *)
(*                                                                         *)
(* soumettre chooses a queue without locks and appends under its lock; a   *)
(* worker that steals locks the other queues one after the other.          *)
(* Permis: "arret", the pool may be stopped.                               *)
(***************************************************************************)
EXTENDS Integers, Sequences, FiniteSets

CONSTANTS Travaux, Ouvriers, Permis

\* What the constants are.
VolAssumption == Ouvriers # {} /\ Permis \subseteq {"arret"}

VARIABLES
    queues,    \* _queues
    choisie,   \* the queue that soumettre has chosen for a task, or none
    position,  \* where each worker's loop is
    a_voir,    \* the queues it has still to look into
    tenu,      \* the task it executes
    executees, \* the tasks that are done
    ouvert     \* _actif

varsVol == <<queues, choisie, position, a_voir, tenu, executees, ouvert>>

Init ==
    /\ queues = [w \in Ouvriers |-> <<>>]
    /\ choisie = [t \in Travaux |-> {}]
    /\ position = [w \in Ouvriers |-> "boucle"]
    /\ a_voir = [w \in Ouvriers |-> {}]
    /\ tenu = [w \in Ouvriers |-> {}]
    /\ executees = {}
    /\ ouvert = TRUE

Lieux(t) == [files |-> UNION {{w} \X {i \in DOMAIN queues[w] : queues[w][i] = t} :
                                    w \in Ouvriers},
             mains |-> {w \in Ouvriers : t \in tenu[w]}]

Soumis(t) == Lieux(t).files # {} \/ Lieux(t).mains # {} \/ t \in executees

-----------------------------------------------------------------------------
\* soumettre: the queue is chosen.
Choisir(t) ==
    /\ choisie[t] = {} /\ ~Soumis(t)
    /\ \E w \in Ouvriers :
         /\ \A v \in Ouvriers : Len(queues[w]) <= Len(queues[v])
         /\ choisie' = [choisie EXCEPT ![t] = {w}]
    /\ UNCHANGED <<queues, position, a_voir, tenu, executees, ouvert>>

\* soumettre: the append.
Deposer(t) ==
    /\ \E w \in choisie[t] : queues' = [queues EXCEPT ![w] = Append(@, t)]
    /\ choisie' = [choisie EXCEPT ![t] = {}]
    /\ UNCHANGED <<position, a_voir, tenu, executees, ouvert>>

\* The condition of _worker_loop, and the look into the worker's own queue.
Prendre(w) ==
    /\ position[w] = "boucle"
    /\ \/ ~ouvert /\ position' = [position EXCEPT ![w] = "fini"]
          /\ UNCHANGED <<queues, a_voir, tenu>>
       \/ /\ ouvert /\ queues[w] # <<>>
          /\ position' = [position EXCEPT ![w] = "execute"]
          /\ tenu' = [tenu EXCEPT ![w] = {Head(queues[w])}]
          /\ queues' = [queues EXCEPT ![w] = Tail(@)]
          /\ UNCHANGED a_voir
       \/ /\ ouvert /\ queues[w] = <<>>
          /\ position' = [position EXCEPT ![w] = "vole"]
          /\ a_voir' = [a_voir EXCEPT ![w] = Ouvriers \ {w}]
          /\ UNCHANGED <<queues, tenu>>
    /\ UNCHANGED <<choisie, executees, ouvert>>

\* What pop() leaves.
Delester(q) == SubSeq(q, 1, Len(q) - 1)

\* One turn of the stealing loop, or its end.
Voler(w) ==
    /\ position[w] = "vole"
    /\ \/ \E v \in a_voir[w] :
            IF Len(queues[v]) > 1
              THEN /\ tenu' = [tenu EXCEPT ![w] = {queues[v][Len(queues[v])]}]
                   /\ queues' = [queues EXCEPT ![v] = Delester(@)]
                   /\ position' = [position EXCEPT ![w] = "execute"]
                   /\ a_voir' = [a_voir EXCEPT ![w] = {}]
              ELSE /\ a_voir' = [a_voir EXCEPT ![w] = @ \ {v}]
                   /\ UNCHANGED <<queues, tenu, position>>
       \/ /\ a_voir[w] = {}
          /\ position' = [position EXCEPT ![w] = "boucle"]
          /\ UNCHANGED <<queues, tenu, a_voir>>
    /\ UNCHANGED <<choisie, executees, ouvert>>

\* Where the loop goes on after a task.
Reprise == "boucle"

\* The rest of the loop's body.
Executer(w) ==
    /\ position[w] = "execute"
    /\ executees' = executees \union tenu[w]
    /\ tenu' = [tenu EXCEPT ![w] = {}]
    /\ position' = [position EXCEPT ![w] = Reprise]
    /\ UNCHANGED <<queues, choisie, a_voir, ouvert>>

Arreter ==
    /\ "arret" \in Permis
    /\ ouvert
    /\ ouvert' = FALSE
    /\ UNCHANGED <<queues, choisie, position, a_voir, tenu, executees>>

Travailler(w) == Prendre(w) \/ Voler(w) \/ Executer(w)

Next ==
    \/ \E t \in Travaux : Choisir(t) \/ Deposer(t)
    \/ \E w \in Ouvriers : Travailler(w)
    \/ Arreter

Spec == Init /\ [][Next]_varsVol

-----------------------------------------------------------------------------
\* Type correctness.
TypeOK ==
    /\ queues \in [Ouvriers -> Seq(Travaux)]
    /\ choisie \in [Travaux -> SUBSET Ouvriers]
    /\ position \in [Ouvriers -> {"boucle", "vole", "execute", "fini"}]
    /\ a_voir \in [Ouvriers -> SUBSET Ouvriers]
    /\ tenu \in [Ouvriers -> SUBSET Travaux]
    /\ executees \subseteq Travaux
    /\ ouvert \in BOOLEAN

\* A task that was submitted is in one queue, in one worker's hands or done,
\* however takers and stealers meet, and a worker that ends holds none.
UneSeuleExecution == \A t \in Travaux :
    /\ Cardinality(Lieux(t).files) + Cardinality(Lieux(t).mains)
       + (IF t \in executees THEN 1 ELSE 0) <= 1
    /\ \A w \in Ouvriers : position[w] # "execute" => tenu[w] = {}

\* While the pool runs every task is executed, its own queue's last one too.
ToutEstExecute == \A t \in Travaux : choisie[t] # {} ~> t \in executees
=============================================================================
