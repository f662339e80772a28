------------------------------ MODULE Lamport -------------------------------
(***************************************************************************)
(* Lamport's clocks (jour3-lamport).  Threads call the operations of       *)
(* processes; an operation advances the clock under the clock's lock, then *)
(* puts the event in the journal under another: two threads of one process *)
(* may come to the second in the other order.                              *)
(*                                                                         *)
(* A scenario gives each thread the operations it calls, in order.         *)
(***************************************************************************)
EXTENDS Integers, Sequences, FiniteSetsExt, SequencesExt

CONSTANT Programmes   \* functions from threads to sequences of operations

Op(type, p, m) == [type |-> type, processus |-> p, message |-> m]

\* What the constants are.
LamportAssumption ==
    \A pr \in Programmes : \A th \in DOMAIN pr :
        /\ pr[th] \in Seq(ToSet(pr[th]))
        /\ \A o \in ToSet(pr[th]) : o.type \in {"INTERNE", "ENVOI", "RECEPTION", "ATTENTE"}

VARIABLES
    programme,
    fait,       \* per thread, how many of its operations have been called
    compteur,   \* of the clock of each process
    evenements, \* the journal of each process
    en_cours,   \* per thread, the event that is stamped and not in the journal yet
    messages,   \* those sent: the timestamp, and what happened before
    connus      \* per process, the events that happened before its next one

varsLamport == <<programme, fait, compteur, evenements, en_cours, messages, connus>>

Fils == DOMAIN programme
Processus == {op.processus : op \in UNION {ToSet(programme[th]) : th \in Fils}}
Prochaine(th) == programme[th][fait[th] + 1]
Utilise(th, p) == \E o \in ToSet(programme[th]) : o.processus = p

\* Every event with its timestamp, its process and those that happened before it.
Journaux == UNION {ToSet(evenements[p]) : p \in Processus}
Tous == Journaux \union UNION {en_cours[th] : th \in Fils}

TypeOK ==
    /\ programme \in Programmes
    /\ \A th \in Fils : fait[th] \in 0..Len(programme[th])
    /\ compteur \in [Processus -> Nat]
    /\ \A e \in Tous : e.processus \in Processus /\ e.timestamp \in Nat \ {0}
    /\ \A th \in Fils : \A e, f \in en_cours[th] : e = f

Init ==
    /\ programme \in Programmes
    /\ fait = [th \in Fils |-> 0]
    /\ compteur = [p \in Processus |-> 0]
    /\ evenements = [p \in Processus |-> <<>>]
    /\ en_cours = [th \in Fils |-> {}]
    /\ messages = {}
    /\ connus = [p \in Processus |-> {}]

-----------------------------------------------------------------------------
\* tick, and what it stamps; avant is what happened before besides what p knows.
Estampiller(th, p, t, avant) ==
    LET passe == connus[p] \union avant IN
    /\ compteur' = [compteur EXCEPT ![p] = t]
    /\ connus' = [connus EXCEPT ![p] = passe \union {<<th, fait[th]>>}]
    /\ en_cours' = [en_cours EXCEPT ![th] =
           {[nom |-> <<th, fait[th]>>, timestamp |-> t, processus |-> p, avant |-> passe]}]
    /\ fait' = [fait EXCEPT ![th] = @ + 1]
    /\ UNCHANGED <<programme, evenements>>

EvenementInterne(th) == LET o == Prochaine(th) IN
    /\ o.type = "INTERNE"
    /\ Estampiller(th, o.processus, compteur[o.processus] + 1, {})
    /\ UNCHANGED messages

\* preparer_message: the message goes out after the event is in the journal.
PreparerMessage(th) == LET o == Prochaine(th) IN
    /\ o.type = "ENVOI"
    /\ Estampiller(th, o.processus, compteur[o.processus] + 1, {})
    /\ messages' = messages \union
           {[nom |-> o.message, timestamp |-> compteur'[o.processus],
             avant |-> connus'[o.processus], par |-> th]}

\* Mutant: the clock takes the time of the message, even when its own is later.
Avance_SansMax(p, t) == t + 1

\* HorlogeLamport.recevoir: past both clocks.
Avance(p, t) == Max({compteur[p], t}) + 1

\* recevoir_message, of a message that has gone out.
RecevoirMessage(th) == LET o == Prochaine(th) IN
    /\ o.type \in {"RECEPTION", "ATTENTE"}
    /\ \E m \in messages :
         /\ m.nom = o.message /\ (m.par = th \/ en_cours[m.par] = {})
         /\ Estampiller(th, o.processus, Avance(o.processus, m.timestamp), m.avant)
    /\ UNCHANGED messages

\* A thread that polls for a message may give up.
Renoncer(th) ==
    /\ Prochaine(th).type = "ATTENTE"
    /\ fait' = [fait EXCEPT ![th] = @ + 1]
    /\ UNCHANGED <<programme, compteur, evenements, en_cours, messages, connus>>

\* _enregistrer.
Enregistrer(th) ==
    /\ \E e \in en_cours[th] :
         evenements' = [evenements EXCEPT ![e.processus] = Append(@, e)]
    /\ en_cours' = [en_cours EXCEPT ![th] = {}]
    /\ UNCHANGED <<programme, fait, compteur, messages, connus>>

Next == \E th \in Fils :
    \/ Enregistrer(th)
    \/ /\ en_cours[th] = {} /\ fait[th] < Len(programme[th])
       /\ \/ EvenementInterne(th) \/ PreparerMessage(th)
          \/ RecevoirMessage(th) \/ Renoncer(th)

Spec == Init /\ [][Next]_varsLamport

-----------------------------------------------------------------------------
\* The scenarios of simulation.py: all but the last have one thread.
Interne(p) == <<Op("INTERNE", p, "")>>
Echange(p, q, m) == <<Op("ENVOI", p, m), Op("RECEPTION", q, m)>>

SolutionLamport == <<Interne("Paris") \o Echange("Paris", "Tokyo", "compte_sync")
                       \o Interne("Tokyo")>>

ECommerce == <<Interne("api") \o Echange("api", "paiement", "PAYER")
                 \o Interne("paiement") \o Interne("paiement")
                 \o Echange("paiement", "api", "PAIEMENT_OK")
                 \o Echange("api", "stock", "RESERVER")
                 \o Interne("stock") \o Interne("stock")
                 \o Echange("stock", "livraison", "EXPEDIER")
                 \o Interne("livraison") \o Interne("livraison")
                 \o Echange("livraison", "api", "LIVRAISON_PLANIFIEE") \o Interne("api")>>

Concurrence == <<Interne("A") \o Interne("A") \o Interne("B") \o Interne("B")
                   \o Echange("A", "B", "SYNC") \o Interne("B")>>

Threads ==
    <<Interne("p1") \o <<Op("ENVOI", "p1", "HEARTBEAT")>> \o Interne("p1"),
      Interne("p2") \o <<Op("ATTENTE", "p2", "HEARTBEAT")>> \o Interne("p2"),
      Interne("p3") \o <<Op("ATTENTE", "p3", "HEARTBEAT"), Op("ENVOI", "p3", "ACK")>>>>

-----------------------------------------------------------------------------
\* What happened before has a smaller timestamp.
ConditionHorloge == \A e, f \in Tous : e.nom \in f.avant => e.timestamp < f.timestamp

\* No two events have the same timestamp and process: sorted, they are in one order
\* only, in which an event comes after all that happened before it.
OrdreTotal == \A e, f \in Tous :
    e.timestamp = f.timestamp /\ e.processus = f.processus => e = f

\* The journal of a process that one thread uses is in the order of its timestamps.
JournalOrdonne == \A p \in Processus :
    (\A th, tg \in Fils : Utilise(th, p) /\ Utilise(tg, p) => th = tg) =>
        \A i, j \in DOMAIN evenements[p] :
            i < j => evenements[p][i].timestamp < evenements[p][j].timestamp
=============================================================================
