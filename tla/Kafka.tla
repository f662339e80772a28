------------------------------- MODULE Kafka -------------------------------
(***************************************************************************)
(* A topic and a consumer group of jour22-kafka/kafka.py: partitions that  *)
(* are appended to, members that come and go, the loop every member runs   *)
(* (consommer, process, commiter_offsets, as simulation.py writes it).     *)
(*                                                                         *)
(* consommer takes the assignment under the group's lock, reads committed  *)
(* offsets without it and logs under their partition's lock: these are     *)
(* three actions, and rebalances, commits and appends come between them.   *)
(*                                                                         *)
(* Permis: "retention", purger_anciens is called on a topic whose messages *)
(* get old.                                                                *)
(***************************************************************************)
EXTENDS Integers, Sequences, FiniteSets
LOCAL INSTANCE Functions

CONSTANTS NbPartitions,
          Consommateurs,  \* naturals, in the order of their names
          MaxLot,         \* max_messages
          Permis,
          MaxMessages,    \* bound: messages produced
          MaxMouvements   \* bound: members that join, leave or crash

Partitions == 0..NbPartitions - 1

\* What the constants are.
KafkaAssumption ==
    /\ NbPartitions \in Nat \ {0} /\ MaxLot \in Nat \ {0}
    /\ Consommateurs \subseteq Nat /\ IsFiniteSet(Consommateurs)
    /\ Permis \subseteq {"retention"}
    /\ MaxMessages \in Nat /\ MaxMouvements \in Nat

VARIABLES
    journal,      \* Partition._log: messages with their offset and their rank
    ecrits,       \* history: messages ever produced on the partition
    offsets,      \* ConsumerGroup._offsets
    membres,
    assignation,
    activite,     \* where a member's loop is
    a_lire,       \* the partitions consommer has still to read
    depuis,       \* the committed offset it has read
    lot,          \* the messages it has collected
    faits,        \* how many of them are processed
    traites,      \* history: ranks that some member has processed
    mouvements

varsKafka == <<journal, ecrits, offsets, membres, assignation, activite, a_lire,
               depuis, lot, faits, traites, mouvements>>
groupe == <<membres, assignation, mouvements>>
boucle == <<activite, a_lire, depuis, lot, faits>>

Init ==
    /\ journal = [p \in Partitions |-> <<>>]
    /\ ecrits = [p \in Partitions |-> 0]
    /\ offsets = [p \in Partitions |-> 0]
    /\ membres = {}
    /\ assignation = [c \in Consommateurs |-> {}]
    /\ activite = [c \in Consommateurs |-> "repos"]
    /\ a_lire = [c \in Consommateurs |-> {}]
    /\ depuis = [c \in Consommateurs |-> 0]
    /\ lot = [c \in Consommateurs |-> <<>>]
    /\ faits = [c \in Consommateurs |-> 0]
    /\ traites = [p \in Partitions |-> {}]
    /\ mouvements = 0

-----------------------------------------------------------------------------
Produits == FoldFunction(LAMBDA a, b : a + b, 0, ecrits)

\* Topic.produire and Partition.produire, on the partition that the key's hash
\* or the round robin gives.
Produire(p) ==
    /\ Produits < MaxMessages
    /\ journal' = [journal EXCEPT ![p] =
                     Append(@, [offset |-> Len(@), rang |-> ecrits[p] + 1])]
    /\ ecrits' = [ecrits EXCEPT ![p] = @ + 1]
    /\ UNCHANGED <<offsets, groupe, boucle, traites>>

\* purger_anciens: the timestamps of a log are in its order.
Purger(p) ==
    /\ "retention" \in Permis
    /\ \E n \in 1..Len(journal[p]) :
         journal' = [journal EXCEPT ![p] = SubSeq(@, n + 1, Len(@))]
    /\ UNCHANGED <<ecrits, offsets, groupe, boucle, traites>>

\* The position of a member among the sorted ones.
Place(c, M) == Cardinality({m \in M : m < c})

\* _rebalancer: partitions in turn to the sorted members.
Rebalancer(M) ==
    [c \in Consommateurs |->
        {p \in Partitions : c \in M /\ p % Cardinality(M) = Place(c, M)}]

Rejoindre(c) ==
    /\ mouvements < MaxMouvements
    /\ c \notin membres
    /\ membres' = membres \union {c}
    /\ assignation' = Rebalancer(membres')
    /\ mouvements' = mouvements + 1
    /\ UNCHANGED <<journal, ecrits, offsets, boucle, traites>>

\* A group left by its last member has no assignment.
Quitter(c) ==
    /\ mouvements < MaxMouvements
    /\ c \in membres
    /\ membres' = membres \ {c}
    /\ assignation' = Rebalancer(membres')
    /\ mouvements' = mouvements + 1
    /\ UNCHANGED <<journal, ecrits, offsets, boucle, traites>>

-----------------------------------------------------------------------------
\* consommer: partitions_de.
Demander(c) ==
    /\ activite[c] = "repos"
    /\ assignation[c] # {}
    /\ activite' = [activite EXCEPT ![c] = "lecture"]
    /\ a_lire' = [a_lire EXCEPT ![c] = assignation[c]]
    /\ UNCHANGED <<journal, ecrits, offsets, groupe, depuis, lot, faits, traites>>

Premiere(S) == CHOOSE p \in S : \A q \in S : p <= q

\* consommer: the committed offset of the next partition.
LireOffset(c) ==
    /\ activite[c] = "lecture"
    /\ a_lire[c] # {}
    /\ activite' = [activite EXCEPT ![c] = "offset_lu"]
    /\ depuis' = [depuis EXCEPT ![c] = offsets[Premiere(a_lire[c])]]
    /\ UNCHANGED <<journal, ecrits, offsets, groupe, a_lire, lot, faits, traites>>

\* Partition.lire: offsets are positions.
Lire(p, debut) ==
    LET fin == IF debut + MaxLot < Len(journal[p]) THEN debut + MaxLot
               ELSE Len(journal[p])
    IN  [i \in 1..fin - debut |->
            [partition |-> p, offset |-> journal[p][debut + i].offset,
             rang |-> journal[p][debut + i].rang]]

LirePartition(c) ==
    LET p == Premiere(a_lire[c]) IN
    /\ activite[c] = "offset_lu"
    /\ a_lire' = [a_lire EXCEPT ![c] = @ \ {p}]
    /\ lot' = [lot EXCEPT ![c] = @ \o Lire(p, depuis[c])]
    /\ activite' = [activite EXCEPT ![c] =
         IF a_lire'[c] # {} THEN "lecture"
         ELSE IF lot'[c] # <<>> THEN "traitement" ELSE "repos"]
    /\ depuis' = [depuis EXCEPT ![c] = 0]
    /\ UNCHANGED <<journal, ecrits, offsets, groupe, faits, traites>>

\* The member processes the next message of its batch.
Traiter(c) ==
    LET m == lot[c][faits[c] + 1] IN
    /\ activite[c] = "traitement"
    /\ faits[c] < Len(lot[c])
    /\ faits' = [faits EXCEPT ![c] = @ + 1]
    /\ traites' = [traites EXCEPT ![m.partition] = @ \union {m.rang}]
    /\ UNCHANGED <<journal, ecrits, offsets, groupe, activite, a_lire, depuis, lot>>

Suivants(msgs, p) == {msgs[i].offset + 1 : i \in {j \in DOMAIN msgs : msgs[j].partition = p}}

\* Mutant: the whole batch is committed once it has begun.
ACommiter_ToutLeLot(c) == lot[c]

\* The offsets given are those after the messages processed.
ACommiter(c) == SubSeq(lot[c], 1, faits[c])

\* commiter_offsets: every offset moves forward, whoever owns the partition.
Avancer(c) ==
    offsets' = [p \in Partitions |->
        CHOOSE o \in {offsets[p]} \union Suivants(ACommiter(c), p) :
            \A q \in {offsets[p]} \union Suivants(ACommiter(c), p) : q <= o]

\* After every message, or at the end of the batch.
Commiter(c) ==
    /\ activite[c] = "traitement"
    /\ faits[c] > 0
    /\ Avancer(c)
    /\ IF faits[c] = Len(lot[c])
         THEN /\ activite' = [activite EXCEPT ![c] = "repos"]
              /\ lot' = [lot EXCEPT ![c] = <<>>]
              /\ faits' = [faits EXCEPT ![c] = 0]
         ELSE UNCHANGED <<activite, lot, faits>>
    /\ UNCHANGED <<journal, ecrits, groupe, a_lire, depuis, traites>>

\* The member's process dies and starts again; its place in the group stays.
Tomber(c) ==
    /\ mouvements < MaxMouvements
    /\ activite[c] # "repos"
    /\ mouvements' = mouvements + 1
    /\ activite' = [activite EXCEPT ![c] = "repos"]
    /\ a_lire' = [a_lire EXCEPT ![c] = {}]
    /\ depuis' = [depuis EXCEPT ![c] = 0]
    /\ lot' = [lot EXCEPT ![c] = <<>>]
    /\ faits' = [faits EXCEPT ![c] = 0]
    /\ UNCHANGED <<journal, ecrits, offsets, membres, assignation, traites>>

Boucle(c) == Demander(c) \/ LireOffset(c) \/ LirePartition(c) \/ Traiter(c)
             \/ (Commiter(c) /\ faits[c] = Len(lot[c]))

Next ==
    \/ \E p \in Partitions : Produire(p) \/ Purger(p)
    \/ \E c \in Consommateurs :
         \/ Rejoindre(c) \/ Quitter(c) \/ Tomber(c)
         \/ Demander(c) \/ LireOffset(c) \/ LirePartition(c) \/ Traiter(c)
         \/ Commiter(c)

Spec == Init /\ [][Next]_varsKafka

-----------------------------------------------------------------------------
\* Type correctness.
TypeOK ==
    /\ ecrits \in [Partitions -> Nat] /\ offsets \in [Partitions -> Nat]
    /\ \A p \in Partitions : offsets[p] <= ecrits[p]
    /\ membres \subseteq Consommateurs
    /\ assignation \in [Consommateurs -> SUBSET Partitions]
    /\ activite \in [Consommateurs -> {"repos", "lecture", "offset_lu", "traitement"}]
    /\ \A c \in Consommateurs : faits[c] \in 0..Len(lot[c])
    /\ \A p \in Partitions : \A m \in {journal[p][i] : i \in DOMAIN journal[p]} :
          m.offset \in Nat /\ m.rang \in 1..ecrits[p]

\* "At-least-once : pas de pertes": a message below the committed offset of its
\* partition, which nobody will be given, was processed, whoever committed.
AuMoinsUneFois == \A p \in Partitions : \A i \in 1..Len(journal[p]) :
    i <= offsets[p] => journal[p][i].rang \in traites[p]

\* "meme clef -> meme partition -> ordre garanti": the messages of a partition
\* are processed for the first time in their order, across rebalances and
\* crashes.
OrdreGaranti == \A p \in Partitions : traites[p] = 1..Cardinality(traites[p])

\* A group that keeps a member processes all that is produced.
ToutEstTraite ==
    <>[](membres # {}) =>
        \A p \in Partitions, n \in 1..MaxMessages :
            ecrits[p] = n ~> n \in traites[p]
=============================================================================
