----------------------------- MODULE FileBornee -----------------------------
(***************************************************************************)
(* QueueBornee and Worker of jour23-backpressure/backpressure.py: tasks    *)
(* that producers put in a bounded queue and workers take out.             *)
(*                                                                         *)
(* Producers and workers wait on one condition; what they do between two   *)
(* waits is one action.  A task is named by the call that submits it.  The *)
(* heap is not stable: among equal priorities it takes or ejects any.      *)
(*                                                                         *)
(* Permis: "delais", a producer's deadline may pass; "arret", workers may  *)
(* be stopped.                                                             *)
(***************************************************************************)
EXTENDS Integers, Sequences, FiniteSets, SequencesExt

CONSTANTS Taches, Ouvriers,
          capacite,
          Priorite,    \* Tache.priorite: the smaller, the sooner
          Strategies,  \* those the queue may be made with
          Permis

\* What the constants are.
FileAssumption ==
    /\ IsFiniteSet(Taches) /\ capacite \in Nat \ {0}
    /\ Priorite \in [Taches -> Nat]
    /\ Strategies \subseteq {"block", "drop_newest", "drop_oldest", "priority"}
    /\ Permis \subseteq {"delais", "arret"}

VARIABLES
    strategie,
    file,        \* _deque, or _heap in the order of arrival
    tache,       \* where each task is
    echeance,    \* the producers whose deadline has passed
    ouvrier,     \* where each worker's loop is
    en_main,     \* the task it took last
    actif,       \* Worker._actif
    comptes      \* QueueBornee.stats

varsFile == <<strategie, file, tache, echeance, ouvrier, en_main, actif, comptes>>

Pleine == Len(file) >= capacite
Occurrences(etats) == Cardinality({t \in Taches : tache[t] \in etats})

Init ==
    /\ strategie \in Strategies
    /\ file = <<>>
    /\ tache = [t \in Taches |-> "absente"]
    /\ echeance = {}
    /\ ouvrier = [w \in Ouvriers |-> "repos"]
    /\ en_main = [w \in Ouvriers |-> {}]
    /\ actif = [w \in Ouvriers |-> TRUE]
    /\ comptes = [entrees |-> 0, traitees |-> 0, perdues |-> 0]

-----------------------------------------------------------------------------
\* notify_all, for producers and for workers.
Reveillees(etats) == [t \in Taches |-> IF etats[t] = "bloquee" THEN "eveillee" ELSE etats[t]]
OuvriersReveilles(etats) == [w \in Ouvriers |-> IF etats[w] = "attend" THEN "eveille" ELSE etats[w]]

\* What _eject_worst may remove.
Pires == {i \in DOMAIN file :
             \A j \in DOMAIN file : Priorite[file[i]] >= Priorite[file[j]]}

\* The task enters behind what is left of the queue.
Entrer(t, reste) ==
    /\ file' = Append(reste, t)
    /\ tache' = Reveillees([x \in Taches |->
                    IF x = t THEN "en file"
                    ELSE IF x \in ToSet(file) \ ToSet(reste) THEN "ejectee"
                    ELSE tache[x]])
    /\ ouvrier' = OuvriersReveilles(ouvrier)

Refuser(t) ==
    /\ tache' = [tache EXCEPT ![t] = "refusee"]
    /\ UNCHANGED <<file, ouvrier>>

\* Mutant: what DROP_OLDEST ejects is not counted.
Perte_SansEjectees(n, p) ==
    comptes' = [comptes EXCEPT !.entrees = @ + n,
                               !.perdues = IF strategie = "drop_oldest" THEN @ ELSE @ + p]

\* The two counters of enqueue.
Perte(n, p) == comptes' = [comptes EXCEPT !.entrees = @ + n, !.perdues = @ + p]

\* BLOCK: one turn of the loop of enqueue.
Bloquer(t, n) ==
    /\ strategie = "block"
    /\ \/ ~Pleine /\ Entrer(t, file) /\ Perte(n, 0)
       \/ Pleine /\ t \in echeance /\ Refuser(t) /\ Perte(n, 1)
       \/ /\ Pleine /\ t \notin echeance
          /\ tache' = [tache EXCEPT ![t] = "bloquee"]
          /\ Perte(n, 0)
          /\ UNCHANGED <<file, ouvrier>>

RejeterNouvelle(t) ==
    /\ strategie = "drop_newest"
    /\ \/ ~Pleine /\ Entrer(t, file) /\ Perte(1, 0)
       \/ Pleine /\ Refuser(t) /\ Perte(1, 1)

RejeterAncienne(t) ==
    /\ strategie = "drop_oldest"
    /\ \/ ~Pleine /\ Entrer(t, file) /\ Perte(1, 0)
       \/ Pleine /\ Entrer(t, RemoveAt(file, 1)) /\ Perte(1, 1)

Prioriser(t) ==
    /\ strategie = "priority"
    /\ \/ ~Pleine /\ Entrer(t, file) /\ Perte(1, 0)
       \/ /\ Pleine
          /\ \E pire \in Pires :
               IF Priorite[t] < Priorite[file[pire]]
                 THEN Entrer(t, RemoveAt(file, pire)) /\ Perte(1, 1)
                 ELSE Refuser(t) /\ Perte(1, 1)

Enqueue(t) ==
    /\ tache[t] = "absente"
    /\ Bloquer(t, 1) \/ RejeterNouvelle(t) \/ RejeterAncienne(t) \/ Prioriser(t)
    /\ UNCHANGED <<strategie, echeance, en_main, actif>>

\* A producer that was woken looks again.
Reprendre(t) ==
    /\ tache[t] = "eveillee"
    /\ Bloquer(t, 0)
    /\ UNCHANGED <<strategie, echeance, en_main, actif>>

\* Its deadline passes, before or after it is notified.
Expirer(t) ==
    /\ "delais" \in Permis
    /\ tache[t] \in {"bloquee", "eveillee"}
    /\ t \notin echeance
    /\ echeance' = echeance \union {t}
    /\ tache' = [tache EXCEPT ![t] = "eveillee"]
    /\ UNCHANGED <<strategie, file, ouvrier, en_main, actif, comptes>>

-----------------------------------------------------------------------------
\* What _pop may return.
Prochaines ==
    IF strategie = "priority"
    THEN {i \in DOMAIN file :
             \A j \in DOMAIN file : Priorite[file[i]] <= Priorite[file[j]]}
    ELSE {1}

\* dequeue: at its start, or woken.
Dequeue(w) ==
    /\ (ouvrier[w] = "repos" /\ actif[w]) \/ ouvrier[w] = "eveille"
    /\ IF file = <<>>
         THEN /\ ouvrier' = [ouvrier EXCEPT ![w] = "attend"]
              /\ UNCHANGED <<file, tache, en_main, comptes>>
         ELSE \E i \in Prochaines :
              /\ file' = RemoveAt(file, i)
              /\ en_main' = [en_main EXCEPT ![w] = {file[i]}]
              /\ tache' = Reveillees([tache EXCEPT ![file[i]] = "prise"])
              /\ ouvrier' = OuvriersReveilles([ouvrier EXCEPT ![w] = "traite"])
              /\ comptes' = [comptes EXCEPT !.traitees = @ + 1]
    /\ UNCHANGED <<strategie, echeance, actif>>

\* The wait ends unnotified: dequeue returns None.
Renoncer(w) ==
    /\ ouvrier[w] = "attend"
    /\ ouvrier' = [ouvrier EXCEPT ![w] = "repos"]
    /\ UNCHANGED <<strategie, file, tache, echeance, en_main, actif, comptes>>

\* The rest of _boucle: the task's function, then the loop's condition.
Traiter(w) ==
    /\ ouvrier[w] = "traite"
    /\ ouvrier' = [ouvrier EXCEPT ![w] = "repos"]
    /\ tache' = [t \in Taches |-> IF t \in en_main[w] THEN "traitee" ELSE tache[t]]
    /\ en_main' = [en_main EXCEPT ![w] = {}]
    /\ UNCHANGED <<strategie, file, echeance, actif, comptes>>

Arreter(w) ==
    /\ "arret" \in Permis
    /\ actif[w]
    /\ actif' = [actif EXCEPT ![w] = FALSE]
    /\ UNCHANGED <<strategie, file, tache, echeance, ouvrier, en_main, comptes>>

Next ==
    \/ \E t \in Taches : Enqueue(t) \/ Reprendre(t) \/ Expirer(t)
    \/ \E w \in Ouvriers : Dequeue(w) \/ Renoncer(w) \/ Traiter(w) \/ Arreter(w)

Spec == Init /\ [][Next]_varsFile

-----------------------------------------------------------------------------
\* Type correctness.
TypeOK ==
    /\ strategie \in Strategies
    /\ file \in Seq(Taches) /\ Len(file) <= capacite
    /\ tache \in [Taches -> {"absente", "bloquee", "eveillee", "en file", "refusee",
                             "ejectee", "prise", "traitee"}]
    /\ echeance \subseteq Taches
    /\ ouvrier \in [Ouvriers -> {"repos", "attend", "eveille", "traite"}]
    /\ en_main \in [Ouvriers -> SUBSET Taches]
    /\ actif \in [Ouvriers -> BOOLEAN]
    /\ \A c \in DOMAIN comptes : comptes[c] \in 0..Cardinality(Taches)

\* stats: every task that was submitted is counted as lost, as taken, or it is
\* in the queue or waits to enter, and it is in one place.
Conservation ==
    /\ comptes.entrees = comptes.traitees + comptes.perdues + Len(file)
                         + Occurrences({"bloquee", "eveillee"})
    /\ comptes.perdues = Occurrences({"refusee", "ejectee"})
    /\ \A t \in Taches : (tache[t] = "en file")
                         <=> (\E i \in DOMAIN file : file[i] = t)

\* "Le producteur est bloque jusqu'a ce qu'il y ait de la place": nobody sleeps
\* on the condition while there is what it waits for.
NulNeDortEnVain ==
    /\ (\E t \in Taches : tache[t] = "bloquee") => Pleine
    /\ (\E w \in Ouvriers : ouvrier[w] = "attend") => file = <<>>

\* What each strategy gives up: BLOCK a task whose deadline has passed,
\* DROP_NEWEST the new one, DROP_OLDEST the oldest, PRIORITY none that is
\* better than one it keeps.
SacrificeConforme == [][
    \A t \in Taches : tache'[t] \in {"refusee", "ejectee"} /\ tache'[t] # tache[t] =>
        CASE strategie = "block"       -> t \in echeance /\ tache'[t] = "refusee"
          [] strategie = "drop_newest" -> tache'[t] = "refusee"
          [] strategie = "drop_oldest" -> tache'[t] = "ejectee" /\ t = Head(file)
          [] strategie = "priority"    ->
               \A i \in DOMAIN file' : Priorite[file'[i]] <= Priorite[t]
    ]_varsFile

\* BLOCK: "Aucune perte de donnees".  Every task is processed in the end.
RienNeSePerd == strategie = "block" =>
    \A t \in Taches : tache[t] # "absente" ~> tache[t] = "traitee"
=============================================================================
