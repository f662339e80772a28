------------------------------- MODULE QuorumWR -----------------------------
(***************************************************************************)
(* Reads and writes of one key by quorums (jour9-quorum): every operation  *)
(* has a thread per replica, waits for W (or R) of them or for its         *)
(* timeout, and leaves the others running; a read starts the repair of     *)
(* what it found late.  A version is named by its timestamp.               *)
(***************************************************************************)
EXTENDS Integers, FiniteSets

CONSTANTS Noeuds, W, R,
          Lectures,
          MaxEcritures,  \* bound: the writes
          Permis

\* What the constants are.
QuorumAssumption ==
    /\ IsFiniteSet(Noeuds)
    /\ {W, R} \subseteq 1..Cardinality(Noeuds)
    /\ MaxEcritures \in Nat
    /\ Permis \subseteq {"delai", "panne"}  \* timeouts; replicas that do not answer

Ecritures == 1..MaxEcritures
Absente == 0    \* the replica has no version of the key
Attente == -1   \* the thread has not read yet

VARIABLES
    magasin,      \* NoeudReplique._store: the version each replica holds
    horloge,      \* time.time() at the last write
    ecriture,     \* where each call of ecrire is
    tentative,    \* its threads
    lecture,      \* where each call of lire is
    lu,           \* what its threads have read
    reponses,     \* toutes_reponses: the threads that have answered
    meilleure,    \* what it returned
    a_reparer,    \* the replicas _read_repair has still to look at, or none
    repares,      \* those it has looked at
    au_depart     \* history: the newest write acknowledged when it began

varsQuorum == <<magasin, horloge, ecriture, tentative, lecture, lu, reponses,
                meilleure, a_reparer, repares, au_depart>>
ecrivains == <<horloge, ecriture, tentative>>
lecteurs == <<lecture, lu, reponses, meilleure, a_reparer, repares, au_depart>>

TypeOK ==
    /\ magasin \in [Noeuds -> 0..MaxEcritures]
    /\ horloge \in 0..MaxEcritures
    /\ ecriture \in [Ecritures -> {"absente", "en cours", "ok", "timeout"}]
    /\ tentative \in [Ecritures -> [Noeuds -> {"attente", "confirmee", "echec"}]]
    /\ lecture \in [Lectures -> {"absente", "en cours", "ok", "timeout"}]
    /\ lu \in [Lectures -> [Noeuds -> -1..MaxEcritures]]
    /\ reponses \in [Lectures -> SUBSET Noeuds]
    /\ meilleure \in [Lectures -> 0..MaxEcritures]
    /\ a_reparer \in [Lectures -> BOOLEAN]
    /\ repares \in [Lectures -> SUBSET Noeuds]
    /\ au_depart \in [Lectures -> 0..MaxEcritures]

Init ==
    /\ magasin = [n \in Noeuds |-> Absente]
    /\ horloge = 0
    /\ ecriture = [e \in Ecritures |-> "absente"]
    /\ tentative = [e \in Ecritures |-> [n \in Noeuds |-> "attente"]]
    /\ lecture = [l \in Lectures |-> "absente"]
    /\ lu = [l \in Lectures |-> [n \in Noeuds |-> Attente]]
    /\ reponses = [l \in Lectures |-> {}]
    /\ meilleure = [l \in Lectures |-> Absente]
    /\ a_reparer = [l \in Lectures |-> FALSE]
    /\ repares = [l \in Lectures |-> {}]
    /\ au_depart = [l \in Lectures |-> 0]

-----------------------------------------------------------------------------
\* NoeudReplique.ecrire accepts strictly newer timestamps only.
PlusRecente(e, n) == e > magasin[n]

Ranger(e, n) == magasin' = [magasin EXCEPT ![n] = IF PlusRecente(e, n) THEN e ELSE @]

\* ecrire takes its timestamp and starts its threads.
Ecrire ==
    /\ horloge < MaxEcritures
    /\ horloge' = horloge + 1
    /\ ecriture' = [ecriture EXCEPT ![horloge'] = "en cours"]
    /\ UNCHANGED <<magasin, tentative, lecteurs>>

\* tenter_ecriture, also after the call has returned.
TenterEcriture(e, n) ==
    /\ ecriture[e] # "absente"
    /\ tentative[e][n] = "attente"
    /\ \/ tentative' = [tentative EXCEPT ![e][n] = "confirmee"] /\ Ranger(e, n)
       \/ /\ "panne" \in Permis
          /\ tentative' = [tentative EXCEPT ![e][n] = "echec"]
          /\ UNCHANGED magasin
    /\ UNCHANGED <<horloge, ecriture, lecteurs>>

\* Mutant: failures count as well.
Confirmations_Reponses(e) == {n \in Noeuds : tentative[e][n] # "attente"}

Confirmations(e) == {n \in Noeuds : tentative[e][n] = "confirmee"}

\* quorum_evt.wait: the quorum, or the timeout.
ConclureEcriture(e) ==
    /\ ecriture[e] = "en cours"
    /\ \/ /\ Cardinality(Confirmations(e)) >= W
          /\ ecriture' = [ecriture EXCEPT ![e] = "ok"]
       \/ /\ Cardinality(Confirmations(e)) < W
          /\ "delai" \in Permis \/ \A n \in Noeuds : tentative[e][n] # "attente"
          /\ ecriture' = [ecriture EXCEPT ![e] = "timeout"]
    /\ UNCHANGED <<magasin, horloge, tentative, lecteurs>>

-----------------------------------------------------------------------------
Acquittees == {0} \union {e \in Ecritures : ecriture[e] = "ok"}
PlusGrand(S) == CHOOSE x \in S : \A y \in S : y <= x

Lire(l) ==
    /\ lecture[l] = "absente"
    /\ lecture' = [lecture EXCEPT ![l] = "en cours"]
    /\ au_depart' = [au_depart EXCEPT ![l] = PlusGrand(Acquittees)]
    /\ UNCHANGED <<magasin, ecrivains, lu, reponses, meilleure, a_reparer, repares>>

\* tenter_lecture: the replica is read, or gives nothing.
TenterLecture(l, n) ==
    /\ lecture[l] # "absente"
    /\ lu[l][n] = Attente
    /\ \/ lu' = [lu EXCEPT ![l][n] = magasin[n]]
       \/ "panne" \in Permis /\ lu' = [lu EXCEPT ![l][n] = Absente]
    /\ UNCHANGED <<magasin, ecrivains, lecture, reponses, meilleure, a_reparer,
                   repares, au_depart>>

\* ... and its answer is added to the list.
Repondre(l, n) ==
    /\ lu[l][n] # Attente
    /\ n \notin reponses[l]
    /\ reponses' = [reponses EXCEPT ![l] = @ \union {n}]
    /\ UNCHANGED <<magasin, ecrivains, lecture, lu, meilleure, a_reparer, repares,
                   au_depart>>

\* Only answers with a version count.
Utiles(l) == {n \in reponses[l] : lu[l][n] # Absente}

\* Mutant: the oldest of the answers.
Meilleure_Ancienne(l) == CHOOSE v \in {lu[l][n] : n \in Utiles(l)} :
                            \A n \in Utiles(l) : v <= lu[l][n]

Meilleure(l) == PlusGrand({lu[l][n] : n \in Utiles(l)})

ConclureLecture(l) ==
    /\ lecture[l] = "en cours"
    /\ \/ /\ Cardinality(Utiles(l)) >= R
          /\ lecture' = [lecture EXCEPT ![l] = "ok"]
          /\ meilleure' = [meilleure EXCEPT ![l] = Meilleure(l)]
          /\ \E read_repair \in BOOLEAN :
               a_reparer' = [a_reparer EXCEPT ![l] = read_repair]
       \/ /\ Cardinality(Utiles(l)) < R
          /\ "delai" \in Permis \/ reponses[l] = Noeuds
          /\ lecture' = [lecture EXCEPT ![l] = "timeout"]
          /\ UNCHANGED <<meilleure, a_reparer>>
    /\ UNCHANGED <<magasin, ecrivains, lu, reponses, repares, au_depart>>

EnRetard(l, n) == lu[l][n] = Absente \/ lu[l][n] < meilleure[l]

\* _read_repair goes over the list, which may still grow.
Reparer(l, n) ==
    /\ a_reparer[l]
    /\ n \in reponses[l] \ repares[l]
    /\ repares' = [repares EXCEPT ![l] = @ \union {n}]
    /\ \/ /\ EnRetard(l, n)
          /\ Ranger(meilleure[l], n) \/ ("panne" \in Permis /\ UNCHANGED magasin)
       \/ ~EnRetard(l, n) /\ UNCHANGED magasin
    /\ UNCHANGED <<ecrivains, lecture, lu, reponses, meilleure, a_reparer, au_depart>>

FinirReparation(l) ==
    /\ a_reparer[l]
    /\ reponses[l] \subseteq repares[l]
    /\ a_reparer' = [a_reparer EXCEPT ![l] = FALSE]
    /\ UNCHANGED <<magasin, ecrivains, lecture, lu, reponses, meilleure, repares,
                   au_depart>>

-----------------------------------------------------------------------------
Next ==
    \/ Ecrire
    \/ \E e \in Ecritures : ConclureEcriture(e)
                            \/ (\E n \in Noeuds : TenterEcriture(e, n))
    \/ \E l \in Lectures : Lire(l) \/ ConclureLecture(l) \/ FinirReparation(l)
         \/ (\E n \in Noeuds : TenterLecture(l, n) \/ Repondre(l, n) \/ Reparer(l, n))

Spec == Init /\ [][Next]_varsQuorum

-----------------------------------------------------------------------------
\* What ecrire acknowledges stays on W replicas, whatever older writes and
\* repairs arrive after it.
EcritureDurable == \A e \in Ecritures : ecriture[e] = "ok" =>
    Cardinality({n \in Noeuds : magasin[n] >= e}) >= W

\* "W + R > N -> coherence forte (toute lecture voit la derniere ecriture)": a
\* read returns at least the newest write acknowledged when it began.
LectureForte == W + R > Cardinality(Noeuds) =>
    \A l \in Lectures : lecture[l] = "ok" => meilleure[l] >= au_depart[l]

\* "Repare silencieusement les noeuds en retard": when repairs are not lost, no
\* replica that answered stays behind what the read returned.
ReparationComplete == \A l \in Lectures : \A n \in repares[l] : magasin[n] >= meilleure[l]
=============================================================================
