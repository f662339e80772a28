----------------------------- MODULE RaftProofs -----------------------------
(***************************************************************************)
(* What TLAPS proves about Raft for every number of nodes, every set of    *)
(* commands and every bound, in three parts.                               *)
(*                                                                         *)
(* Elections: the types, and that a term has one leader.                   *)
(*                                                                         *)
(* Logs: log matching.  The inductive invariant speaks of what no variable *)
(* keeps: J[T], the log of the leader of term T when it was last seen      *)
(* leading, and M[T], that leader.  They are existentially quantified      *)
(* (HistoireInv): an election starts a J[T], soumettre extends it, and no  *)
(* other step changes them.                                                *)
(*                                                                         *)
(* Commits: when no successful answer of an earlier leadership is taken    *)
(* for a current one (SpecATemps), leaders hold the committed entries, no  *)
(* two nodes apply different ones, and none is ever rewritten.  J and M    *)
(* are the history of the second part.                                     *)
(***************************************************************************)
EXTENDS Raft, FiniteSetTheorems, SequenceTheorems, WellFoundedInduction, TLAPS

(***************************************************************************)
(* Part 1.  Elections.                                                     *)
(***************************************************************************)
-----------------------------------------------------------------------------
\* Two quorums of Cluster.quorum (n // 2 + 1) share a node.
LEMMA QuorumsSeCroisent ==
    ASSUME NEW Q1 \in SUBSET Noeuds, NEW Q2 \in SUBSET Noeuds,
           EstQuorum(Q1), EstQuorum(Q2)
    PROVE  Q1 \cap Q2 # {}
<1>1. IsFiniteSet(Noeuds)
  BY RaftAssumption
<1>2. /\ Cardinality(Noeuds) \in Nat
      /\ IsFiniteSet(Q1) /\ Cardinality(Q1) \in Nat
      /\ IsFiniteSet(Q2) /\ Cardinality(Q2) \in Nat
  BY <1>1, FS_CardinalityType, FS_Subset
<1>3. Cardinality(Q1) + Cardinality(Q2) > Cardinality(Noeuds)
  BY <1>2 DEF EstQuorum
<1> QED
  BY <1>1, <1>3, FS_MajoritiesIntersect

\* Writing a value of the right type keeps the type of a function.
LEMMA Ecriture ==
    ASSUME NEW S, NEW T, NEW f \in [S -> T], NEW x \in S, NEW v \in T
    PROVE  [f EXCEPT ![x] = v] \in [S -> T]
OBVIOUS

\* The fields of a message, by its type.
LEMMA ChampsRequestVote ==
    ASSUME TypeOK, NEW m \in msgs, m.type = "RequestVote"
    PROVE  /\ m.src \in Noeuds /\ m.dst \in Noeuds
           /\ m.term \in Nat
BY DEF TypeOK, Messages

LEMMA ChampsReponseVote ==
    ASSUME TypeOK, NEW m \in msgs, m.type = "ReponseVote"
    PROVE  /\ m.src \in Noeuds /\ m.dst \in Noeuds
           /\ m.pour \in Nat /\ m.term \in Nat
           /\ m.vote_accorde \in BOOLEAN
BY DEF TypeOK, Messages

LEMMA ChampsAppendEntries ==
    ASSUME TypeOK, NEW m \in msgs, m.type = "AppendEntries"
    PROVE  /\ m.src \in Noeuds /\ m.dst \in Noeuds /\ m.term \in Nat
           /\ m.prev_log_index \in Nat /\ m.prev_log_term \in Nat
           /\ m.entries \in Seq(Entrees) /\ m.leader_commit \in Nat
BY DEF TypeOK, Messages

LEMMA ChampsReponseAppend ==
    ASSUME TypeOK, NEW m \in msgs, m.type = "ReponseAppend"
    PROVE  /\ m.src \in Noeuds /\ m.dst \in Noeuds
           /\ m.pour \in Nat /\ m.term \in Nat
           /\ m.succes \in BOOLEAN /\ m.prev \in Nat /\ m.nb \in Nat
BY DEF TypeOK, Messages

LEMMA TypeVoteAu ==
    ASSUME TypeOK, NEW n \in Noeuds, NEW t \in Nat
    PROVE  VoteAu(n, t) \in Noeuds \union {Personne}
BY DEF TypeOK, VoteAu

LEMMA TypeDernierTerm ==
    ASSUME NEW l \in Seq(Entrees)
    PROVE  DernierTerm(l) \in Nat
<1>1. CASE l = <<>>
  BY <1>1 DEF DernierTerm
<1>2. CASE l # <<>>
  <2>1. Len(l) \in 1..Len(l)
    BY <1>2
  <2>2. l[Len(l)] \in Entrees
    BY <2>1
  <2> QED
    BY <1>2, <2>2 DEF DernierTerm, Entrees
<1> QED
  BY <1>1, <1>2

LEMMA TypeFusionner ==
    ASSUME NEW l \in Seq(Entrees), NEW e \in Seq(Entrees), NEW p \in Nat,
           p <= Len(l)
    PROVE  Fusionner(l, p, e) \in Seq(Entrees)
<1>1. SubSeq(l, 1, p) \in Seq(Entrees)
  BY SubSeqProperties
<1>2. SubSeq(l, 1, p) \o e \in Seq(Entrees)
  BY <1>1
<1> QED
  BY <1>2 DEF Fusionner

LEMMA TypeDevenirFollower ==
    ASSUME TypeOK, NEW n \in Noeuds, NEW t \in Nat, DevenirFollower(n, t)
    PROVE  /\ current_term' \in [Noeuds -> Nat]
           /\ voted_for' \in [Noeuds -> Noeuds \union {Personne}]
           /\ role' \in [Noeuds -> {"FOLLOWER", "CANDIDATE", "LEADER"}]
           /\ minuterie' \subseteq Noeuds
<1>1. current_term' \in [Noeuds -> Nat]
  BY DEF TypeOK, DevenirFollower
<1>2. voted_for' \in [Noeuds -> Noeuds \union {Personne}]
  BY DEF TypeOK, DevenirFollower
<1>3. role' \in [Noeuds -> {"FOLLOWER", "CANDIDATE", "LEADER"}]
  BY DEF TypeOK, DevenirFollower
<1>4. minuterie' \subseteq Noeuds
  BY DEF TypeOK, DevenirFollower, Rearmer
<1> QED
  BY <1>1, <1>2, <1>3, <1>4

-----------------------------------------------------------------------------
LEMMA TypeInit == Init => TypeOK
BY DEF Init, TypeOK

\* Every step keeps the types; one step per action.
LEMMA TypeNext == TypeOK /\ [Next]_vars => TypeOK'
<1> SUFFICES ASSUME TypeOK, [Next]_vars PROVE TypeOK'
  OBVIOUS
<1> USE RaftAssumption
<1>1. ASSUME NEW n \in Noeuds, TirerMinuterie(n)
      PROVE  TypeOK'
  BY <1>1 DEF TypeOK, TirerMinuterie, persistantes, meneur
<1>2. ASSUME NEW n \in Noeuds, DeclencherElection(n)
      PROVE  TypeOK'
  <2>1. CASE /\ current_term' = [current_term EXCEPT ![n] = current_term[n] + 1]
             /\ role' = [role EXCEPT ![n] = "CANDIDATE"]
             /\ voted_for' = [voted_for EXCEPT ![n] = n]
             /\ votes' = [votes EXCEPT ![n] = {n}]
             /\ scrutins' = scrutins \union {<<n, current_term[n] + 1>>}
    <3>1. current_term' \in [Noeuds -> Nat]
      BY <2>1 DEF TypeOK
    <3>2. role' \in [Noeuds -> {"FOLLOWER", "CANDIDATE", "LEADER"}]
      BY <2>1 DEF TypeOK
    <3>3. voted_for' \in [Noeuds -> Noeuds \union {Personne}]
      BY <2>1 DEF TypeOK
    <3>4. votes' \in [Noeuds -> SUBSET Noeuds]
      BY <2>1, {n} \in SUBSET Noeuds, Ecriture DEF TypeOK
    <3>5. scrutins' \subseteq Noeuds \X Nat
      BY <2>1, current_term[n] + 1 \in Nat DEF TypeOK
    <3> QED
      BY <1>2, <3>1, <3>2, <3>3, <3>4, <3>5 DEF TypeOK, DeclencherElection, meneur
  <2>2. CASE UNCHANGED <<role, current_term, voted_for, votes, scrutins>>
    BY <1>2, <2>2 DEF TypeOK, DeclencherElection, meneur
  <2> QED
    BY <1>2, <2>1, <2>2 DEF DeclencherElection
<1>3. ASSUME NEW n \in Noeuds, NEW t \in 1..MaxTerm, LancerVote(n, t)
      PROVE  TypeOK'
  <2>1. DernierTerm(log[n]) \in Nat /\ Len(log[n]) \in Nat
    BY TypeDernierTerm DEF TypeOK
  <2>2. msgs' \subseteq Messages
    <3>1. n \in Noeuds /\ t \in Nat /\ msgs \subseteq Messages
      BY DEF TypeOK
    <3>2. ASSUME NEW d \in Autres(n)
          PROVE  [type |-> "RequestVote", src |-> n, dst |-> d, term |-> t,
                  last_log_index |-> Len(log[n]),
                  last_log_term  |-> DernierTerm(log[n])] \in Messages
      BY <2>1, <3>1 DEF Messages, Autres
    <3> QED
      BY <1>3, <3>1, <3>2 DEF LancerVote
  <2> QED
    BY <1>3, <2>2 DEF TypeOK, LancerVote, persistantes, meneur
<1>4. ASSUME NEW n \in Noeuds, AnnulerMinuterie(n)
      PROVE  TypeOK'
  BY <1>4 DEF TypeOK, AnnulerMinuterie, persistantes, meneur
<1>5. ASSUME NEW n \in Noeuds, NEW c \in Commandes, Soumettre(n, c)
      PROVE  TypeOK'
  <2>1. [term |-> current_term[n], commande |-> c] \in Entrees
    BY DEF TypeOK, Entrees
  <2>2. log' \in [Noeuds -> Seq(Entrees)]
    BY <1>5, <2>1 DEF TypeOK, Soumettre
  <2> QED
    BY <1>5, <2>2 DEF TypeOK, Soumettre, meneur, minuteries
<1>6. ASSUME NEW n \in Noeuds, NEW d \in Autres(n), RepliquerVers(n, d)
      PROVE  TypeOK'
  <2> DEFINE prev == next_index[n][d] - 1
             pt == IF prev \in 1..Len(log[n]) THEN log[n][prev].term ELSE 0
             es == SubSeq(log[n], prev + 1, Len(log[n]))
  <2>1. d \in Noeuds /\ prev \in Nat
    <3>1. d \in Noeuds
      BY DEF Autres
    <3>2. next_index[n][d] \in Nat \ {0}
      BY <3>1 DEF TypeOK
    <3> QED
      BY <3>1, <3>2
  <2>2. pt \in Nat
    <3>1. log[n] \in Seq(Entrees)
      BY DEF TypeOK
    <3>2. ASSUME prev \in 1..Len(log[n]) PROVE log[n][prev] \in Entrees
      BY <3>1, <3>2
    <3> QED
      BY <3>2 DEF Entrees
  <2>3. es \in Seq(Entrees)
    <3>1. log[n] \in Seq(Entrees)
      BY DEF TypeOK
    <3>2. \A i \in prev + 1 .. Len(log[n]) : log[n][i] \in Entrees
      BY <3>1, <2>1
    <3> QED
      BY <3>1, <3>2, <2>1, SubSeqProperties
  <2>4. current_term[n] \in Nat /\ commit_index[n] \in Nat
    BY DEF TypeOK
  <2> DEFINE m == [type |-> "AppendEntries", src |-> n, dst |-> d,
                   term |-> current_term[n], prev_log_index |-> prev,
                   prev_log_term |-> pt, entries |-> es,
                   leader_commit |-> commit_index[n]]
  <2>5. m \in Messages
    <3> HIDE DEF prev, pt, es
    <3> QED
      BY <2>1, <2>2, <2>3, <2>4 DEF Messages
  <2>6. msgs' = msgs \union {m}
    BY <1>6 DEF RepliquerVers
  <2>7. msgs' \subseteq Messages
    BY <2>5, <2>6 DEF TypeOK
  <2> QED
    BY <1>6, <2>7 DEF TypeOK, RepliquerVers, persistantes, meneur, minuteries
<1>7. ASSUME NEW n \in Noeuds, Arreter(n)
      PROVE  TypeOK'
  BY <1>7 DEF TypeOK, Arreter, persistantes, meneur
<1>8. ASSUME NEW n \in Noeuds, Ressusciter(n)
      PROVE  TypeOK'
  BY <1>8 DEF TypeOK, Ressusciter, persistantes, meneur
<1>9. ASSUME NEW m \in msgs, RecevoirRequestVote(m)
      PROVE  TypeOK'
  <2> DEFINE n == m.dst
  <2>1. /\ m.src \in Noeuds /\ n \in Noeuds /\ m.term \in Nat
    BY <1>9, ChampsRequestVote DEF RecevoirRequestVote
  <2>2. VoteAu(n, m.term) \in Noeuds \union {Personne}
    BY <2>1, TypeVoteAu
  <2>3. /\ current_term' \in [Noeuds -> Nat]
        /\ role' \in [Noeuds -> {"FOLLOWER", "CANDIDATE", "LEADER"}]
    BY <1>9, <2>1 DEF TypeOK, RecevoirRequestVote
  <2>4. voted_for' \in [Noeuds -> Noeuds \union {Personne}]
    BY <1>9, <2>1, <2>2 DEF TypeOK, RecevoirRequestVote
  <2>5. minuterie' \subseteq Noeuds
    BY <1>9, <2>1 DEF TypeOK, RecevoirRequestVote, Rearmer
  <2>6. Accorde(m, n) \in BOOLEAN
    BY DEF Accorde
  <2>7. msgs' \subseteq Messages
    <3>1. ReponseVote(m, current_term'[n], Accorde(m, n)) \in Messages
      BY <2>1, <2>3, <2>6 DEF Messages, ReponseVote
    <3> QED
      BY <3>1, <1>9 DEF TypeOK, RecevoirRequestVote
  <2> QED
    BY <1>9, <2>3, <2>4, <2>5, <2>7 DEF TypeOK, RecevoirRequestVote, meneur
<1>10. ASSUME NEW m \in msgs, RecevoirReponseVote(m)
       PROVE  TypeOK'
  <2> DEFINE n == m.dst
  <2>1. m.src \in Noeuds /\ n \in Noeuds /\ m.term \in Nat
    BY <1>10, ChampsReponseVote DEF RecevoirReponseVote
  <2>2. CASE /\ m.term > current_term[n]
             /\ DevenirFollower(n, m.term)
             /\ UNCHANGED <<votes, meneur, annulations>>
    BY <1>10, <2>1, <2>2, TypeDevenirFollower
    DEF TypeOK, RecevoirReponseVote, meneur
  <2>3. CASE /\ votes' = [votes EXCEPT ![n] = @ \union {m.src}]
             /\ IF EstQuorum(votes'[n])
                  THEN /\ role' = [role EXCEPT ![n] = "LEADER"]
                       /\ next_index' = [next_index EXCEPT ![n] =
                                           [d \in Noeuds |-> Len(log[n]) + 1]]
                       /\ match_index' = [match_index EXCEPT ![n] =
                                            [d \in Noeuds |-> 0]]
                       /\ annulations' = annulations \union {n}
                  ELSE UNCHANGED <<role, meneur, annulations>>
             /\ UNCHANGED <<current_term, voted_for, minuterie>>
    <3>1. votes' \in [Noeuds -> SUBSET Noeuds]
      <4>1. votes[n] \union {m.src} \in SUBSET Noeuds
        BY <2>1 DEF TypeOK
      <4> QED
        BY <2>3, <4>1 DEF TypeOK
    <3>2. /\ role' \in [Noeuds -> {"FOLLOWER", "CANDIDATE", "LEADER"}]
          /\ annulations' \subseteq Noeuds
      BY <2>1, <2>3 DEF TypeOK
    <3>3. next_index' \in [Noeuds -> [Noeuds -> Nat \ {0}]]
      <4>1. Len(log[n]) + 1 \in Nat \ {0}
        <5>1. log[n] \in Seq(Entrees)
          BY <2>1 DEF TypeOK
        <5>2. Len(log[n]) \in Nat
          BY <5>1
        <5> QED
          BY <5>2
      <4> DEFINE f == [d \in Noeuds |-> Len(log[n]) + 1]
      <4>2. f \in [Noeuds -> Nat \ {0}]
        BY <4>1
      <4>3. \/ next_index' = [next_index EXCEPT ![n] = f]
            \/ next_index' = next_index
        BY <2>3 DEF meneur
      <4>4. next_index \in [Noeuds -> [Noeuds -> Nat \ {0}]]
        BY DEF TypeOK
      <4> HIDE DEF f
      <4>5. [next_index EXCEPT ![n] = f] \in [Noeuds -> [Noeuds -> Nat \ {0}]]
        BY <2>1, <4>2, <4>4, Ecriture
      <4> QED
        BY <4>3, <4>4, <4>5
    <3>4. match_index' \in [Noeuds -> [Noeuds -> Nat]]
      <4> DEFINE f == [d \in Noeuds |-> 0]
      <4>1. f \in [Noeuds -> Nat]
        OBVIOUS
      <4>2. \/ match_index' = [match_index EXCEPT ![n] = f]
            \/ match_index' = match_index
        BY <2>3 DEF meneur
      <4>3. match_index \in [Noeuds -> [Noeuds -> Nat]]
        BY DEF TypeOK
      <4> HIDE DEF f
      <4>4. [match_index EXCEPT ![n] = f] \in [Noeuds -> [Noeuds -> Nat]]
        BY <2>1, <4>1, <4>3, Ecriture
      <4> QED
        BY <4>2, <4>3, <4>4
    <3> QED
      BY <1>10, <2>3, <3>1, <3>2, <3>3, <3>4 DEF TypeOK, RecevoirReponseVote
  <2> QED
    BY <1>10, <2>2, <2>3 DEF RecevoirReponseVote
<1>11. ASSUME NEW m \in msgs, RecevoirAppendEntries(m)
       PROVE  TypeOK'
  <2> DEFINE n == m.dst
             recu == actif[n] /\ m.term >= current_term[n]
             ok == recu /\ Coherent(m, log[n])
  <2>1. /\ m.src \in Noeuds /\ n \in Noeuds /\ m.term \in Nat
        /\ m.prev_log_index \in Nat /\ m.entries \in Seq(Entrees)
        /\ m.leader_commit \in Nat
    BY <1>11, ChampsAppendEntries DEF RecevoirAppendEntries
  <2>2. VoteAu(n, m.term) \in Noeuds \union {Personne}
    BY <2>1, TypeVoteAu
  <2>3. /\ role' \in [Noeuds -> {"FOLLOWER", "CANDIDATE", "LEADER"}]
        /\ voted_for' \in [Noeuds -> Noeuds \union {Personne}]
        /\ current_term' \in [Noeuds -> Nat]
        /\ minuterie' \subseteq Noeuds
    <3>1. role' \in [Noeuds -> {"FOLLOWER", "CANDIDATE", "LEADER"}]
      BY <1>11 DEF TypeOK, RecevoirAppendEntries
    <3>2. voted_for' \in [Noeuds -> Noeuds \union {Personne}]
      <4>1. voted_for' = [voted_for EXCEPT ![n] = VoteAu(n, m.term)]
              \/ voted_for' = voted_for
        BY <1>11 DEF RecevoirAppendEntries
      <4> QED
        <5>1. voted_for \in [Noeuds -> Noeuds \union {Personne}]
          BY DEF TypeOK
        <5> QED
          BY <2>1, <2>2, <4>1, <5>1, Ecriture
    <3>3. current_term' \in [Noeuds -> Nat]
      BY <1>11, <2>1 DEF TypeOK, RecevoirAppendEntries
    <3>4. minuterie' \subseteq Noeuds
      <4>1. minuterie' = Rearmer(n) \/ minuterie' = minuterie
        BY <1>11 DEF RecevoirAppendEntries
      <4> QED
        BY <2>1, <4>1 DEF TypeOK, Rearmer
    <3> QED
      BY <3>1, <3>2, <3>3, <3>4
  <2>4. log' \in [Noeuds -> Seq(Entrees)] /\ commit_index' \in [Noeuds -> Nat]
    <3>1. CASE ok
      <4>1. log[n] \in Seq(Entrees) /\ m.prev_log_index <= Len(log[n])
        BY <2>1, <3>1 DEF Coherent, TypeOK
      <4>2. Fusionner(log[n], m.prev_log_index, m.entries) \in Seq(Entrees)
        BY <2>1, <4>1, TypeFusionner
      <4>3. log' = [log EXCEPT ![n] =
                      Fusionner(log[n], m.prev_log_index, m.entries)]
        BY <1>11, <3>1 DEF RecevoirAppendEntries
      <4>4. log' \in [Noeuds -> Seq(Entrees)]
        BY <4>2, <4>3 DEF TypeOK
      <4>5. Len(log'[n]) \in Nat
        BY <2>1, <4>4
      <4>6. AvancerCommit(commit_index[n], m.leader_commit, Len(log'[n]))
              \in Nat
        BY <2>1, <4>5 DEF AvancerCommit, TypeOK
      <4>7. commit_index' = [commit_index EXCEPT ![n] =
              AvancerCommit(commit_index[n], m.leader_commit, Len(log'[n]))]
        BY <1>11, <3>1 DEF RecevoirAppendEntries
      <4> QED
        BY <4>4, <4>6, <4>7 DEF TypeOK
    <3>2. CASE ~ok
      BY <1>11, <3>2 DEF TypeOK, RecevoirAppendEntries
    <3> QED
      BY <3>1, <3>2
  <2>5. msgs' \subseteq Messages
    <3>1. Len(m.entries) \in Nat /\ current_term'[n] \in Nat
      BY <2>1, <2>3
    <3>2. ok \in BOOLEAN
      BY DEF Coherent
    <3>3. ReponseAppend(m, current_term'[n], ok) \in Messages
      <4> HIDE DEF ok
      <4> QED
        BY <2>1, <3>1, <3>2 DEF Messages, ReponseAppend
    <3>4. msgs' = msgs \union {ReponseAppend(m, current_term'[n], ok)}
      BY <1>11 DEF RecevoirAppendEntries
    <3> QED
      BY <3>3, <3>4 DEF TypeOK
  <2> QED
    BY <1>11, <2>3, <2>4, <2>5 DEF TypeOK, RecevoirAppendEntries, meneur
<1>12. ASSUME NEW m \in msgs, RecevoirReponseAppend(m)
       PROVE  TypeOK'
  <2> DEFINE n == m.dst
  <2>1. /\ m.src \in Noeuds /\ n \in Noeuds /\ m.term \in Nat
        /\ m.prev \in Nat /\ m.nb \in Nat
    BY <1>12, ChampsReponseAppend DEF RecevoirReponseAppend
  <2>2. CASE /\ m.term > current_term[n]
             /\ DevenirFollower(n, m.term)
             /\ UNCHANGED <<commit_index, meneur>>
    BY <1>12, <2>1, <2>2, TypeDevenirFollower
    DEF TypeOK, RecevoirReponseAppend, meneur
  <2>3. CASE /\ match_index' = [match_index EXCEPT ![n][m.src] = m.prev + m.nb]
             /\ next_index' = [next_index EXCEPT ![n][m.src] =
                                 m.prev + m.nb + 1]
             /\ MajCommitIndex(n, match_index'[n])
             /\ UNCHANGED <<role, current_term, voted_for, minuterie>>
    <3>1. match_index' \in [Noeuds -> [Noeuds -> Nat]]
      <4>1. match_index \in [Noeuds -> [Noeuds -> Nat]]
        BY DEF TypeOK
      <4>2. m.prev + m.nb \in Nat
        BY <2>1
      <4>3. [match_index[n] EXCEPT ![m.src] = m.prev + m.nb] \in [Noeuds -> Nat]
        BY <2>1, <4>1, <4>2, Ecriture
      <4> QED
        BY <2>1, <2>3, <4>1, <4>3, Ecriture
    <3>2. next_index' \in [Noeuds -> [Noeuds -> Nat \ {0}]]
      <4>1. next_index \in [Noeuds -> [Noeuds -> Nat \ {0}]]
        BY DEF TypeOK
      <4>2. m.prev + m.nb + 1 \in Nat \ {0}
        BY <2>1
      <4>3. [next_index[n] EXCEPT ![m.src] = m.prev + m.nb + 1]
              \in [Noeuds -> Nat \ {0}]
        BY <2>1, <4>1, <4>2, Ecriture
      <4> QED
        BY <2>1, <2>3, <4>1, <4>3, Ecriture
    <3>3. commit_index' \in [Noeuds -> Nat]
      <4>1. Committables(n, match_index'[n]) \subseteq Nat
        BY <2>1 DEF Committables, TypeOK
      <4> QED
        BY <2>3, <4>1, <2>1 DEF MajCommitIndex, TypeOK
    <3> QED
      BY <1>12, <2>3, <3>1, <3>2, <3>3 DEF TypeOK, RecevoirReponseAppend
  <2>4. CASE /\ next_index' = [next_index EXCEPT ![n][m.src] = Reculer(m.prev)]
             /\ UNCHANGED <<role, current_term, voted_for, minuterie,
                            match_index, commit_index>>
    <3>1. Reculer(m.prev) \in Nat \ {0}
      BY <2>1 DEF Reculer
    <3>2. next_index' \in [Noeuds -> [Noeuds -> Nat \ {0}]]
      <4>1. [next_index[n] EXCEPT ![m.src] = Reculer(m.prev)]
              \in [Noeuds -> Nat \ {0}]
        BY <2>1, <3>1 DEF TypeOK
      <4> QED
        BY <2>4, <4>1 DEF TypeOK
    <3> QED
      BY <1>12, <2>4, <3>2 DEF TypeOK, RecevoirReponseAppend
  <2> QED
    BY <1>12, <2>2, <2>3, <2>4 DEF RecevoirReponseAppend
<1>13. CASE UNCHANGED vars
  BY <1>13 DEF TypeOK, vars, persistantes, meneur, minuteries
<1> QED
  BY <1>1, <1>2, <1>3, <1>4, <1>5, <1>6, <1>7, <1>8, <1>9, <1>10, <1>11,
     <1>12, <1>13 DEF Next, Locale, Reception

\* Type correctness of every reachable state.
THEOREM TypeCorrect == Spec => []TypeOK
BY TypeInit, TypeNext, PTL DEF Spec
-----------------------------------------------------------------------------
LEMMA ElectionInit == Init => ElectionInv
BY DEF Init, ElectionInv, VotesTenus, VoteUnique, VotePourSoi, VotesRecus,
       MeneurElu, Bulletins

\* A step that grants no vote, changes no term backwards and touches no
\* election keeps the invariant.
LEMMA HorsElection ==
    ASSUME ElectionInv, Bulletins' = Bulletins,
           UNCHANGED <<current_term, voted_for, votes>>,
           \A n \in Noeuds : role'[n] = role[n] \/ role'[n] = "FOLLOWER"
    PROVE  ElectionInv'
BY DEF ElectionInv, VotesTenus, VoteUnique, VotePourSoi, VotesRecus, MeneurElu

\* A node that learns of a later term becomes a follower without a vote.
LEMMA NouveauTerm ==
    ASSUME TypeOK, ElectionInv, Bulletins' = Bulletins, votes' = votes,
           NEW n \in Noeuds, NEW t \in Nat, t >= current_term[n],
           current_term' = [current_term EXCEPT ![n] = t],
           voted_for' = [voted_for EXCEPT ![n] = VoteAu(n, t)],
           role' = [role EXCEPT ![n] = "FOLLOWER"]
    PROVE  ElectionInv'
<1>1. \A m \in Bulletins : m.src \in Noeuds /\ m.pour \in Nat
  BY ChampsReponseVote DEF Bulletins
<1>2. VotesTenus'
  <2>1. ASSUME NEW m \in Bulletins, m.src = n
        PROVE  /\ m.pour <= t
               /\ m.pour = t => VoteAu(n, t) = m.dst
    <3>1. /\ m.pour \in Nat /\ current_term[n] \in Nat
          /\ m.pour <= current_term[n]
          /\ m.pour = current_term[n] => voted_for[n] = m.dst
      BY <1>1, <2>1 DEF TypeOK, ElectionInv, VotesTenus
    <3>2. m.pour <= t
      BY <3>1
    <3>3. ASSUME m.pour = t
          PROVE  VoteAu(n, t) = m.dst
      <4>1. t = current_term[n]
        BY <3>1, <3>3
      <4>2. ~(t > current_term[n])
        BY <3>1, <4>1
      <4> QED
        BY <3>1, <3>3, <4>1, <4>2 DEF VoteAu
    <3> QED
      BY <3>2, <3>3
  <2>2. /\ current_term'[n] = t /\ voted_for'[n] = VoteAu(n, t)
        /\ \A k \in Noeuds : k # n => /\ current_term'[k] = current_term[k]
                                      /\ voted_for'[k] = voted_for[k]
    BY DEF TypeOK
  <2>3. ASSUME NEW m \in Bulletins
        PROVE  /\ m.pour <= current_term'[m.src]
               /\ m.pour = current_term'[m.src] => voted_for'[m.src] = m.dst
    <3>1. CASE m.src = n
      BY <2>1, <2>2, <3>1
    <3>2. CASE m.src # n
      BY <1>1, <2>2, <3>2 DEF ElectionInv, VotesTenus
    <3> QED
      BY <3>1, <3>2
  <2> QED
    BY <2>3 DEF VotesTenus
<1>3. VoteUnique'
  BY DEF ElectionInv, VoteUnique
<1>4. \A k \in Noeuds : role'[k] # "FOLLOWER" =>
         /\ role[k] = role'[k]
         /\ current_term'[k] = current_term[k]
         /\ voted_for'[k] = voted_for[k]
  BY DEF TypeOK
<1>5. VotePourSoi'
  BY <1>4 DEF ElectionInv, VotePourSoi
<1>6. VotesRecus'
  BY <1>4 DEF ElectionInv, VotesRecus
<1>7. MeneurElu'
  BY <1>4 DEF ElectionInv, MeneurElu
<1> QED
  BY <1>2, <1>3, <1>5, <1>6, <1>7 DEF ElectionInv

\* Sending anything but a granted vote adds no ballot.
LEMMA SansBulletin ==
    ASSUME NEW S, msgs' = msgs \union S,
           \A m \in S : m.type # "ReponseVote" \/ ~m.vote_accorde
    PROVE  Bulletins' = Bulletins
BY DEF Bulletins

\* The step that starts an election.
LEMMA ElectionDeclencher ==
    ASSUME TypeOK, ElectionInv, NEW n \in Noeuds, DeclencherElection(n)
    PROVE  ElectionInv'
<1>1. Bulletins' = Bulletins
  BY DEF DeclencherElection, Bulletins
<1>2. CASE /\ role[n] # "LEADER"
           /\ current_term' = [current_term EXCEPT ![n] = @ + 1]
           /\ role' = [role EXCEPT ![n] = "CANDIDATE"]
           /\ voted_for' = [voted_for EXCEPT ![n] = n]
           /\ votes' = [votes EXCEPT ![n] = {n}]
  <2>1. \A m \in Bulletins : m.src \in Noeuds /\ m.pour \in Nat
    BY ChampsReponseVote DEF Bulletins
  <2>2. VotesTenus'
    <3>1. /\ current_term'[n] = current_term[n] + 1
          /\ \A k \in Noeuds : k # n => /\ current_term'[k] = current_term[k]
                                        /\ voted_for'[k] = voted_for[k]
      BY <1>2 DEF TypeOK
    <3>2. ASSUME NEW m \in Bulletins
          PROVE  /\ m.pour <= current_term'[m.src]
                 /\ m.pour = current_term'[m.src] => voted_for'[m.src] = m.dst
      <4>1. /\ m.pour <= current_term[m.src]
            /\ m.pour = current_term[m.src] => voted_for[m.src] = m.dst
        BY DEF ElectionInv, VotesTenus
      <4>2. CASE m.src = n
        <5>1. current_term[n] \in Nat /\ m.pour \in Nat
          BY <2>1 DEF TypeOK
        <5> QED
          BY <3>1, <4>1, <4>2, <5>1
      <4>3. CASE m.src # n
        BY <2>1, <3>1, <4>1, <4>3
      <4> QED
        BY <4>2, <4>3
    <3> QED
      BY <1>1, <3>2 DEF VotesTenus
  <2>3. VoteUnique'
    BY <1>1 DEF ElectionInv, VoteUnique
  <2>4. VotePourSoi' /\ MeneurElu'
    BY <1>2 DEF TypeOK, ElectionInv, VotePourSoi, MeneurElu
  <2>5. VotesRecus'
    <3> SUFFICES ASSUME NEW k \in Noeuds, role'[k] # "FOLLOWER",
                        NEW v \in votes'[k] \ {k}
                 PROVE  \E b \in Bulletins : /\ b.src = v /\ b.dst = k
                                            /\ b.pour = current_term'[k]
      BY <1>1 DEF VotesRecus
    <3>1. k # n
      BY <1>2 DEF TypeOK
    <3>2. /\ role[k] = role'[k] /\ votes[k] = votes'[k]
          /\ current_term[k] = current_term'[k]
      BY <1>2, <3>1 DEF TypeOK
    <3> QED
      BY <3>2 DEF ElectionInv, VotesRecus
  <2> QED
    BY <2>2, <2>3, <2>4, <2>5 DEF ElectionInv
<1>3. CASE UNCHANGED <<role, current_term, voted_for, votes>>
  BY <1>1, <1>3, HorsElection
<1> QED
  BY <1>2, <1>3 DEF DeclencherElection

\* The step that answers a RequestVote: a vote granted is the first of its
\* voter in that term, or repeats it.
LEMMA ElectionRequestVote ==
    ASSUME TypeOK, ElectionInv, NEW m \in msgs, RecevoirRequestVote(m)
    PROVE  ElectionInv'
<1> DEFINE n == m.dst
           r == ReponseVote(m, current_term'[n], Accorde(m, n))
<1>1. /\ m.src \in Noeuds /\ n \in Noeuds /\ m.term \in Nat
  BY ChampsRequestVote DEF RecevoirRequestVote
<1>2. msgs' = msgs \union {r} /\ votes' = votes
  BY DEF RecevoirRequestVote
<1>3. \A b \in Bulletins : b.src \in Noeuds /\ b.dst \in Noeuds /\ b.pour \in Nat
  BY ChampsReponseVote DEF Bulletins
<1>4. CASE ~Accorde(m, n)
  <2>1. Bulletins' = Bulletins
    <3>1. ~r.vote_accorde
      BY <1>4 DEF ReponseVote
    <3> HIDE DEF r
    <3> QED
      BY <1>2, <3>1 DEF Bulletins
  <2>2. CASE actif[n] /\ m.term > current_term[n]
    <3>1. /\ current_term' = [current_term EXCEPT ![n] = m.term]
          /\ voted_for' = [voted_for EXCEPT ![n] = VoteAu(n, m.term)]
          /\ role' = [role EXCEPT ![n] = "FOLLOWER"]
      BY <1>4, <2>2 DEF RecevoirRequestVote
    <3>2. m.term >= current_term[n]
      BY <1>1, <2>2 DEF TypeOK
    <3> QED
      BY <1>1, <1>2, <2>1, <3>1, <3>2, NouveauTerm
  <2>3. CASE ~(actif[n] /\ m.term > current_term[n])
    <3>1. UNCHANGED <<current_term, role>>
      BY <2>3 DEF RecevoirRequestVote
    <3>2. voted_for' = voted_for
      BY <1>1, <1>4, <2>3 DEF RecevoirRequestVote, VoteAu, TypeOK
    <3> QED
      BY <1>2, <2>1, <3>1, <3>2, HorsElection
  <2> QED
    BY <2>2, <2>3
<1>5. CASE Accorde(m, n)
  <2>1. Bulletins' = Bulletins \union {r}
    BY <1>2, <1>5 DEF Bulletins, ReponseVote
  <2>2. r.src = n /\ r.dst = m.src /\ r.pour = m.term
    BY DEF ReponseVote
  <2>3. /\ current_term' = [current_term EXCEPT ![n] = m.term]
        /\ voted_for' = [voted_for EXCEPT ![n] = m.src]
        /\ \A k \in Noeuds :
             \/ role'[k] = role[k] /\ (k = n => m.term = current_term[n])
             \/ role'[k] = "FOLLOWER"
    <3>1. actif[n] /\ m.term >= current_term[n] /\ current_term[n] \in Nat
      BY <1>1, <1>5 DEF Accorde, TypeOK
    <3>2. voted_for' = [voted_for EXCEPT ![n] = m.src]
      BY <1>5 DEF RecevoirRequestVote
    <3>3. CASE m.term > current_term[n]
      <4>1. /\ current_term' = [current_term EXCEPT ![n] = m.term]
            /\ role' = [role EXCEPT ![n] = "FOLLOWER"]
        BY <3>1, <3>3 DEF RecevoirRequestVote
      <4> QED
        BY <1>1, <3>2, <4>1 DEF TypeOK
    <3>4. CASE m.term = current_term[n]
      <4>1. UNCHANGED <<current_term, role>>
        BY <1>1, <3>1, <3>4 DEF RecevoirRequestVote
      <4> QED
        BY <1>1, <3>2, <3>4, <4>1 DEF TypeOK
    <3> QED
      BY <1>1, <3>1, <3>3, <3>4
  <2>4. m.term >= current_term[n] /\ current_term[n] \in Nat
    BY <1>1, <1>5 DEF Accorde, TypeOK
  \* No other candidate has n's vote in that term.
  <2>5. \A b \in Bulletins : b.src = n /\ b.pour = m.term => b.dst = m.src
    <3> SUFFICES ASSUME NEW b \in Bulletins, b.src = n, b.pour = m.term
                 PROVE  b.dst = m.src
      OBVIOUS
    <3>1. b.pour <= current_term[n]
      BY DEF ElectionInv, VotesTenus
    <3>2. b.pour = current_term[n] /\ voted_for[n] = b.dst
      BY <1>1, <2>4, <3>1 DEF ElectionInv, VotesTenus
    <3>3. voted_for[n] \in {Personne, m.src}
      BY <1>1, <1>5, <2>4, <3>2 DEF Accorde, VoteAu
    <3> QED
      BY <1>3, <3>2, <3>3, RaftAssumption
  <2>6. VotesTenus'
    <3> SUFFICES ASSUME NEW b \in Bulletins \union {r}
                 PROVE  /\ b.pour <= current_term'[b.src]
                        /\ b.pour = current_term'[b.src]
                             => voted_for'[b.src] = b.dst
      BY <2>1 DEF VotesTenus
    <3> HIDE DEF r
    <3>1. CASE b = r
      <4>1. current_term'[n] = m.term /\ voted_for'[n] = m.src
        BY <1>1, <2>3 DEF TypeOK
      <4> QED
        BY <1>1, <2>2, <3>1, <4>1
    <3>2. CASE b \in Bulletins /\ b.src = n
      <4>1. current_term'[n] = m.term /\ voted_for'[n] = m.src
        BY <1>1, <2>3 DEF TypeOK
      <4>2. b.pour <= current_term[n] /\ b.pour \in Nat
        BY <1>3, <3>2 DEF ElectionInv, VotesTenus
      <4>3. b.pour <= m.term
        BY <1>1, <2>4, <4>2
      <4> QED
        BY <2>5, <3>2, <4>1, <4>3
    <3>3. CASE b \in Bulletins /\ b.src # n
      BY <1>1, <1>3, <2>3, <3>3 DEF TypeOK, ElectionInv, VotesTenus
    <3> QED
      BY <3>1, <3>2, <3>3
  <2>7. VoteUnique'
    BY <2>1, <2>2, <2>5 DEF ElectionInv, VoteUnique
  <2>8. VotePourSoi'
    <3> SUFFICES ASSUME NEW k \in Noeuds, role'[k] # "FOLLOWER"
                 PROVE  voted_for'[k] = k
      BY DEF VotePourSoi
    <3>1. role[k] # "FOLLOWER" /\ voted_for[k] = k
      BY <2>3 DEF ElectionInv, VotePourSoi
    <3>2. CASE k = n
      <4>1. m.term = current_term[n]
        BY <2>3, <3>2
      <4>2. voted_for[n] \in {Personne, m.src}
        BY <1>5, <4>1, <2>4 DEF Accorde, VoteAu
      <4> QED
        BY <1>1, <2>3, <3>1, <3>2, <4>2, RaftAssumption DEF TypeOK
    <3>3. CASE k # n
      BY <1>1, <2>3, <3>1, <3>3 DEF TypeOK
    <3> QED
      BY <3>2, <3>3
  <2>9. VotesRecus' /\ MeneurElu'
    <3>1. \A k \in Noeuds : role'[k] # "FOLLOWER"
             => role[k] = role'[k] /\ current_term'[k] = current_term[k]
      BY <1>1, <2>3 DEF TypeOK
    <3> QED
      BY <1>2, <2>1, <3>1 DEF ElectionInv, VotesRecus, MeneurElu
  <2> QED
    BY <2>6, <2>7, <2>8, <2>9 DEF ElectionInv
<1> QED
  BY <1>4, <1>5

\* The step that counts a vote and may make a leader.
LEMMA ElectionReponseVote ==
    ASSUME TypeOK, ElectionInv, NEW m \in msgs, RecevoirReponseVote(m)
    PROVE  ElectionInv'
<1> DEFINE n == m.dst
<1>1. /\ m.src \in Noeuds /\ n \in Noeuds /\ m.term \in Nat /\ m.pour \in Nat
  BY ChampsReponseVote DEF RecevoirReponseVote
<1>2. Bulletins' = Bulletins
  BY DEF RecevoirReponseVote, Bulletins
<1>3. CASE /\ m.term > current_term[n]
           /\ DevenirFollower(n, m.term)
           /\ UNCHANGED votes
  <2>1. /\ m.term >= current_term[n]
        /\ current_term' = [current_term EXCEPT ![n] = m.term]
        /\ voted_for' = [voted_for EXCEPT ![n] = VoteAu(n, m.term)]
        /\ role' = [role EXCEPT ![n] = "FOLLOWER"]
    BY <1>1, <1>3 DEF DevenirFollower, VoteAu, TypeOK
  <2> QED
    BY <1>1, <1>2, <1>3, <2>1, NouveauTerm
<1>4. CASE /\ role[n] = "CANDIDATE"
           /\ current_term[n] = m.pour
           /\ m.vote_accorde
           /\ votes' = [votes EXCEPT ![n] = @ \union {m.src}]
           /\ IF EstQuorum(votes'[n])
                THEN role' = [role EXCEPT ![n] = "LEADER"]
                ELSE UNCHANGED role
           /\ UNCHANGED <<current_term, voted_for>>
  <2>1. m \in Bulletins
    BY <1>4 DEF Bulletins, RecevoirReponseVote
  <2>2. VotesTenus' /\ VoteUnique'
    BY <1>2, <1>4 DEF ElectionInv, VotesTenus, VoteUnique
  <2>3. \A k \in Noeuds : role'[k] # "FOLLOWER" => role[k] # "FOLLOWER"
    BY <1>1, <1>4 DEF TypeOK
  <2>4. VotePourSoi'
    BY <1>4, <2>3 DEF ElectionInv, VotePourSoi
  <2>5. VotesRecus'
    <3> SUFFICES ASSUME NEW k \in Noeuds, role'[k] # "FOLLOWER",
                        NEW v \in votes'[k] \ {k}
                 PROVE  \E b \in Bulletins : /\ b.src = v /\ b.dst = k
                                            /\ b.pour = current_term[k]
      BY <1>2, <1>4 DEF VotesRecus
    <3>1. CASE v \in votes[k]
      BY <2>3, <3>1 DEF ElectionInv, VotesRecus
    <3>2. CASE v \notin votes[k]
      <4>1. k = n /\ v = m.src
        BY <1>1, <1>4, <3>2 DEF TypeOK
      <4> QED
        BY <1>4, <2>1, <4>1
    <3> QED
      BY <3>1, <3>2
  <2>6. MeneurElu'
    <3> SUFFICES ASSUME NEW k \in Noeuds, role'[k] = "LEADER"
                 PROVE  EstQuorum(votes'[k])
      BY DEF MeneurElu, EstQuorum
    <3>1. CASE k = n
      BY <1>1, <1>4, <3>1 DEF TypeOK
    <3>2. CASE k # n
      BY <1>1, <1>4, <3>2 DEF TypeOK, ElectionInv, MeneurElu
    <3> QED
      BY <3>1, <3>2
  <2> QED
    BY <2>2, <2>4, <2>5, <2>6 DEF ElectionInv
<1> QED
  BY <1>3, <1>4 DEF RecevoirReponseVote, DansSonElection, meneur

\* Every step keeps the election invariant; one step per action.
LEMMA ElectionNext == TypeOK /\ ElectionInv /\ [Next]_vars => ElectionInv'
<1> SUFFICES ASSUME TypeOK, ElectionInv, [Next]_vars PROVE ElectionInv'
  OBVIOUS
<1>1. ASSUME NEW n \in Noeuds,
             TirerMinuterie(n) \/ AnnulerMinuterie(n)
      PROVE  ElectionInv'
  BY <1>1, HorsElection
  DEF TirerMinuterie, AnnulerMinuterie, persistantes, Bulletins
<1>2. ASSUME NEW n \in Noeuds, DeclencherElection(n)
      PROVE  ElectionInv'
  BY <1>2, ElectionDeclencher
<1>3. ASSUME NEW n \in Noeuds, NEW t \in 1..MaxTerm, LancerVote(n, t)
      PROVE  ElectionInv'
  <2>1. Bulletins' = Bulletins
    BY <1>3 DEF LancerVote, Bulletins
  <2> QED
    BY <1>3, <2>1, HorsElection DEF LancerVote, persistantes
<1>4. ASSUME NEW n \in Noeuds, NEW c \in Commandes, Soumettre(n, c)
      PROVE  ElectionInv'
  BY <1>4, HorsElection DEF Soumettre, Bulletins
<1>5. ASSUME NEW n \in Noeuds, NEW d \in Autres(n), RepliquerVers(n, d)
      PROVE  ElectionInv'
  <2>1. Bulletins' = Bulletins
    BY <1>5 DEF RepliquerVers, Bulletins
  <2> QED
    BY <1>5, <2>1, HorsElection DEF RepliquerVers, persistantes
<1>6. ASSUME NEW n \in Noeuds, Arreter(n) \/ Ressusciter(n)
      PROVE  ElectionInv'
  BY <1>6, HorsElection DEF Arreter, Ressusciter, persistantes, Bulletins, TypeOK
<1>7. ASSUME NEW m \in msgs, RecevoirRequestVote(m)
      PROVE  ElectionInv'
  BY <1>7, ElectionRequestVote
<1>8. ASSUME NEW m \in msgs, RecevoirReponseVote(m)
      PROVE  ElectionInv'
  BY <1>8, ElectionReponseVote
<1>9. ASSUME NEW m \in msgs, RecevoirAppendEntries(m)
      PROVE  ElectionInv'
  <2> DEFINE n == m.dst
  <2>1. n \in Noeuds /\ m.term \in Nat
    BY <1>9, ChampsAppendEntries DEF RecevoirAppendEntries
  <2>2. Bulletins' = Bulletins
    BY <1>9 DEF RecevoirAppendEntries, ReponseAppend, Bulletins
  <2>3. votes' = votes
    BY <1>9 DEF RecevoirAppendEntries
  <2>4. CASE actif[n] /\ m.term >= current_term[n]
    <3>1. /\ role' = [role EXCEPT ![n] = "FOLLOWER"]
          /\ voted_for' = [voted_for EXCEPT ![n] = VoteAu(n, m.term)]
          /\ current_term' = [current_term EXCEPT ![n] = m.term]
      BY <1>9, <2>4 DEF RecevoirAppendEntries
    <3> QED
      BY <2>1, <2>2, <2>3, <2>4, <3>1, NouveauTerm
  <2>5. CASE ~(actif[n] /\ m.term >= current_term[n])
    BY <1>9, <2>2, <2>3, <2>5, HorsElection DEF RecevoirAppendEntries
  <2> QED
    BY <2>4, <2>5
<1>10. ASSUME NEW m \in msgs, RecevoirReponseAppend(m)
       PROVE  ElectionInv'
  <2> DEFINE n == m.dst
  <2>1. n \in Noeuds /\ m.term \in Nat
    BY <1>10, ChampsReponseAppend DEF RecevoirReponseAppend
  <2>2. Bulletins' = Bulletins /\ votes' = votes
    BY <1>10 DEF RecevoirReponseAppend, Bulletins
  <2>3. CASE m.term > current_term[n] /\ DevenirFollower(n, m.term)
    <3>1. /\ m.term >= current_term[n]
          /\ current_term' = [current_term EXCEPT ![n] = m.term]
          /\ voted_for' = [voted_for EXCEPT ![n] = VoteAu(n, m.term)]
          /\ role' = [role EXCEPT ![n] = "FOLLOWER"]
      BY <2>1, <2>3 DEF DevenirFollower, VoteAu, TypeOK
    <3> QED
      BY <2>1, <2>2, <3>1, NouveauTerm
  <2>4. CASE UNCHANGED <<role, current_term, voted_for>>
    BY <2>2, <2>4, HorsElection
  <2> QED
    BY <1>10, <2>3, <2>4 DEF RecevoirReponseAppend
<1>11. CASE UNCHANGED vars
  BY <1>11, HorsElection DEF vars, persistantes, Bulletins
<1> QED
  BY <1>1, <1>2, <1>3, <1>4, <1>5, <1>6, <1>7, <1>8, <1>9, <1>10, <1>11
  DEF Next, Locale, Reception

\* Two leaders of a term would share a voter that gave that term two votes.
LEMMA UnSeulLeader == TypeOK /\ ElectionInv => ElectionSafety
<1> SUFFICES ASSUME TypeOK, ElectionInv,
                    NEW a \in Noeuds, NEW b \in Noeuds,
                    role[a] = "LEADER", role[b] = "LEADER",
                    current_term[a] = current_term[b], a # b
             PROVE  FALSE
  BY DEF ElectionSafety
<1>1. PICK q \in Noeuds : q \in votes[a] /\ q \in votes[b]
  <2>1. EstQuorum(votes[a]) /\ EstQuorum(votes[b])
    BY DEF ElectionInv, MeneurElu
  <2>2. votes[a] \in SUBSET Noeuds /\ votes[b] \in SUBSET Noeuds
    BY DEF TypeOK
  <2> QED
    BY <2>1, <2>2, QuorumsSeCroisent
<1>2. voted_for[a] = a /\ voted_for[b] = b
  BY DEF ElectionInv, VotePourSoi
<1>3. q # a => \E m \in Bulletins : m.src = q /\ m.dst = a
                                  /\ m.pour = current_term[a]
  BY <1>1 DEF ElectionInv, VotesRecus
<1>4. q # b => \E m \in Bulletins : m.src = q /\ m.dst = b
                                  /\ m.pour = current_term[a]
  BY <1>1 DEF ElectionInv, VotesRecus
<1>5. CASE q = a
  BY <1>2, <1>4, <1>5 DEF ElectionInv, VotesTenus
<1>6. CASE q = b
  BY <1>2, <1>3, <1>6 DEF ElectionInv, VotesTenus
<1>7. CASE q # a /\ q # b
  BY <1>3, <1>4, <1>7 DEF ElectionInv, VoteUnique
<1> QED
  BY <1>5, <1>6, <1>7

\* The bookkeeping of votes holds in every reachable state.
THEOREM ElectionInvCorrect == Spec => []ElectionInv
<1>1. Init => TypeOK /\ ElectionInv
  BY TypeInit, ElectionInit
<1>2. TypeOK /\ ElectionInv /\ [Next]_vars => (TypeOK /\ ElectionInv)'
  BY TypeNext, ElectionNext
<1> QED
  BY <1>1, <1>2, PTL DEF Spec

\* "un seul leader par term" (raft.py), for every cluster, whatever is lost,
\* delayed, repeated or restarted.
THEOREM ElectionSafetyCorrect == Spec => []ElectionSafety
BY TypeCorrect, ElectionInvCorrect, UnSeulLeader, PTL

(***************************************************************************)
(* Part 2.  Logs.                                                          *)
(***************************************************************************)
Journaux == [Nat -> Seq(Entrees)]
Meneurs  == [Nat -> Noeuds \union {Personne}]

-----------------------------------------------------------------------------
\* k and l have the same first i entries.
Commun(k, l, i) == /\ i <= Len(k)
                   /\ i <= Len(l)
                   /\ \A j \in 1..i : k[j] = l[j]

\* Every entry of l was appended by the leader of its term, and what is before
\* it in l is what was before it in that leader's log.
Conforme(l, J, t) == \A i \in 1..Len(l) : /\ l[i].term \in 1..t
                                          /\ Commun(l, J[l[i].term], i)

Appels == {m \in msgs : m.type = "AppendEntries"}

-----------------------------------------------------------------------------
\* n was elected in term T by a quorum and stays bound by its own vote.
Elu(n, T) ==
    /\ T > 0
    /\ T <= current_term[n]
    /\ T = current_term[n] => role[n] # "CANDIDATE" /\ voted_for[n] = n
    /\ \A b \in Bulletins : b.src = n /\ b.pour = T => b.dst = n
    /\ \E Q \in SUBSET Noeuds :
         /\ EstQuorum(Q)
         /\ \A q \in Q \ {n} :
              \E b \in Bulletins : b.src = q /\ b.dst = n /\ b.pour = T

ElusInv(M) ==
    /\ \A T \in Nat : M[T] # Personne => Elu(M[T], T)
    /\ \A n \in Noeuds : role[n] = "LEADER" => M[current_term[n]] = n
    /\ \A n \in Noeuds : role[n] = "CANDIDATE" => current_term[n] > 0

\* Logs, of nodes and of history.
JournauxInv(J, M) ==
    /\ \A n \in Noeuds : Conforme(log[n], J, current_term[n])
    /\ \A T \in Nat : Conforme(J[T], J, T)
    /\ \A T \in Nat : M[T] = Personne => J[T] = <<>>
    /\ \A n \in Noeuds : role[n] = "LEADER" => J[current_term[n]] = log[n]

\* A call carries a part of its leader's log that ends it, unless next_index
\* had gone past the log.
AuDela(m) == /\ m.prev_log_index > 0
             /\ m.prev_log_term = 0
             /\ m.entries = <<>>

Extrait(m, l) ==
    /\ m.prev_log_index + Len(m.entries) <= Len(l)
    /\ m.prev_log_index > 0 => m.prev_log_term = l[m.prev_log_index].term
    /\ \A i \in 1..Len(m.entries) : m.entries[i] = l[m.prev_log_index + i]

AppelsInv(J, M) ==
    \A m \in Appels : /\ M[m.term] = m.src
                      /\ m.dst # m.src
                      /\ AuDela(m) \/ Extrait(m, J[m.term])

LogInv(J, M) == ElusInv(M) /\ JournauxInv(J, M) /\ AppelsInv(J, M)

-----------------------------------------------------------------------------
\* Types.
LEMMA TypeEntree ==
    ASSUME NEW l \in Seq(Entrees), NEW i \in 1..Len(l)
    PROVE  l[i] \in Entrees /\ l[i].term \in Nat
<1>1. l[i] \in Entrees
  OBVIOUS
<1> QED
  BY <1>1 DEF Entrees

LEMMA TypeJournal ==
    ASSUME NEW J \in Journaux, NEW T \in Nat
    PROVE  J[T] \in Seq(Entrees)
BY DEF Journaux

\* Common prefixes.
LEMMA CommunReduit ==
    ASSUME NEW k \in Seq(Entrees), NEW l \in Seq(Entrees), NEW i \in Nat,
           NEW j \in Nat, j <= i, Commun(k, l, i)
    PROVE  Commun(k, l, j)
BY DEF Commun

LEMMA CommunTransitif ==
    ASSUME NEW k \in Seq(Entrees), NEW l \in Seq(Entrees),
           NEW m \in Seq(Entrees), NEW i \in Nat,
           Commun(k, l, i), Commun(l, m, i)
    PROVE  Commun(k, m, i)
BY DEF Commun

LEMMA CommunSymetrique ==
    ASSUME NEW k \in Seq(Entrees), NEW l \in Seq(Entrees), NEW i \in Nat,
           Commun(k, l, i)
    PROVE  Commun(l, k, i)
BY DEF Commun

\* The first p entries of l, followed by e.
LEMMA Remplacement ==
    ASSUME NEW l \in Seq(Entrees), NEW e \in Seq(Entrees), NEW p \in Nat,
           p <= Len(l)
    PROVE  LET s == SubSeq(l, 1, p) \o e IN
           /\ s \in Seq(Entrees) /\ Len(s) = p + Len(e)
           /\ \A i \in 1..p : s[i] = l[i]
           /\ \A i \in 1..Len(e) : s[p + i] = e[i]
<1> DEFINE a == SubSeq(l, 1, p)
<1>1. a \in Seq(Entrees) /\ Len(a) = p /\ \A i \in 1..p : a[i] = l[i]
  OBVIOUS
<1> HIDE DEF a
<1>2. /\ a \o e \in Seq(Entrees)
      /\ Len(a \o e) = Len(a) + Len(e)
      /\ \A i \in 1..Len(a) + Len(e) :
           (a \o e)[i] = IF i <= Len(a) THEN a[i] ELSE e[i - Len(a)]
  BY <1>1, ConcatProperties
<1>3. \A i \in 1..p : (a \o e)[i] = l[i]
  BY <1>1, <1>2
<1>4. ASSUME NEW i \in 1..Len(e) PROVE (a \o e)[p + i] = e[i]
  <2>1. p + i \in 1..Len(a) + Len(e) /\ ~(p + i <= Len(a))
        /\ (p + i) - Len(a) = i
    BY <1>1
  <2> QED
    BY <1>2, <2>1
<1> QED
  BY <1>1, <1>2, <1>3, <1>4 DEF a

LEMMA CommunEgal ==
    ASSUME NEW k \in Seq(Entrees), NEW l \in Seq(Entrees), NEW i \in Nat,
           Commun(k, l, i)
    PROVE  SubSeq(k, 1, i) = SubSeq(l, 1, i)
<1>1. /\ SubSeq(k, 1, i) \in Seq(Entrees) /\ Len(SubSeq(k, 1, i)) = i
      /\ \A j \in 1..i : SubSeq(k, 1, i)[j] = k[j]
  BY DEF Commun
<1>2. /\ SubSeq(l, 1, i) \in Seq(Entrees) /\ Len(SubSeq(l, 1, i)) = i
      /\ \A j \in 1..i : SubSeq(l, 1, i)[j] = l[j]
  BY DEF Commun
<1> QED
  BY <1>1, <1>2, SeqEqual DEF Commun

\* Conforming logs.
LEMMA ConformeTerm ==
    ASSUME NEW l \in Seq(Entrees), NEW J \in Journaux, NEW t \in Nat,
           NEW u \in Nat, t <= u, Conforme(l, J, t)
    PROVE  Conforme(l, J, u)
BY DEF Conforme

LEMMA ConformeEgal ==
    ASSUME NEW k \in Seq(Entrees), NEW l \in Seq(Entrees), NEW J \in Journaux,
           NEW t \in Nat, NEW u \in Nat, Conforme(k, J, t), Conforme(l, J, u),
           NEW i \in Nat \ {0}, i <= Len(k), i <= Len(l),
           k[i].term = l[i].term
    PROVE  Commun(k, l, i)
<1>1. i \in 1..Len(k) /\ i \in 1..Len(l)
  OBVIOUS
<1>2. k[i].term \in Nat
  BY <1>1, TypeEntree
<1>3. J[k[i].term] \in Seq(Entrees)
  BY <1>2, TypeJournal
<1>4. Commun(k, J[k[i].term], i) /\ Commun(l, J[k[i].term], i)
  BY <1>1 DEF Conforme
<1>5. Commun(J[k[i].term], l, i)
  BY <1>3, <1>4, CommunSymetrique
<1> QED
  BY <1>3, <1>4, <1>5, CommunTransitif

LEMMA ConformeCroissant ==
    ASSUME NEW l \in Seq(Entrees), NEW J \in Journaux, NEW t \in Nat,
           Conforme(l, J, t), \A T \in Nat : Conforme(J[T], J, T),
           NEW j \in 1..Len(l), NEW i \in 1..j
    PROVE  l[i].term <= l[j].term
<1> DEFINE T == l[j].term
<1>1. T \in Nat
  BY TypeEntree
<1>2. Commun(l, J[T], j)
  BY DEF Conforme
<1>3. i \in 1..Len(J[T]) /\ l[i] = J[T][i]
  BY <1>2 DEF Commun
<1>4. J[T][i].term <= T
  BY <1>1, <1>3 DEF Conforme
<1> QED
  BY <1>3, <1>4

LEMMA ConformePrefixe ==
    ASSUME NEW k \in Seq(Entrees), NEW l \in Seq(Entrees), NEW J \in Journaux,
           NEW t \in Nat, Conforme(l, J, t), Commun(k, l, Len(k))
    PROVE  Conforme(k, J, t)
<1> SUFFICES ASSUME NEW i \in 1..Len(k)
             PROVE  k[i].term \in 1..t /\ Commun(k, J[k[i].term], i)
  BY DEF Conforme
<1>1. i \in 1..Len(l) /\ k[i] = l[i]
  BY DEF Commun
<1>2. l[i].term \in 1..t /\ Commun(l, J[l[i].term], i)
  BY <1>1 DEF Conforme
<1>3. J[l[i].term] \in Seq(Entrees) /\ l[i].term \in Nat
  BY <1>1, TypeEntree, TypeJournal
<1>4. Commun(k, l, i)
  BY CommunReduit
<1> QED
  BY <1>1, <1>2, <1>3, <1>4, CommunTransitif

\* The merge of a call's entries into a log that passed the consistency
\* check: it ends up with the leader's entries, and keeps whatever it already
\* had in common with the leader's log.
LEMMA Fusion ==
    ASSUME NEW J \in Journaux, NEW l \in Seq(Entrees), NEW t \in Nat,
           Conforme(l, J, t),
           NEW U \in Nat, Conforme(J[U], J, U),
           NEW m, m.prev_log_index \in Nat, m.entries \in Seq(Entrees),
           AuDela(m) \/ Extrait(m, J[U]), Coherent(m, l)
    PROVE  LET r == Fusionner(l, m.prev_log_index, m.entries)
               x == m.prev_log_index + Len(m.entries)
           IN  /\ Extrait(m, J[U])
               /\ r \in Seq(Entrees)
               /\ Commun(r, J[U], x)
               /\ r = l \/ Len(r) = x
               /\ \A c \in Nat : Commun(l, J[U], c) => Commun(r, J[U], c)
<1> DEFINE p == m.prev_log_index
           e == m.entries
           x == p + Len(e)
           r == Fusionner(l, p, e)
           g == J[U]
           s == SubSeq(l, 1, p) \o e
<1>1. p <= Len(l) /\ p \in Nat /\ Len(e) \in Nat /\ x \in Nat
  BY DEF Coherent
<1>2. g \in Seq(Entrees)
  BY DEF Journaux
<1>3. Extrait(m, g)
  <2>1. CASE p > 0 /\ m.prev_log_term = 0
    <3>1. p \in 1..Len(l)
      BY <1>1, <2>1
    <3>2. l[p].term > 0
      BY <3>1 DEF Conforme
    <3> QED
      BY <2>1, <3>2 DEF Coherent
  <2> QED
    BY <2>1 DEF AuDela
<1>4. Commun(l, g, p)
  <2>1. CASE p = 0
    BY <1>2, <2>1 DEF Commun
  <2>2. CASE p > 0
    <3>1. l[p].term = g[p].term /\ p <= Len(g)
      BY <1>1, <1>2, <1>3, <2>2 DEF Coherent, Extrait
    <3> QED
      BY <1>1, <1>2, <2>2, <3>1, ConformeEgal
  <2> QED
    BY <1>1, <2>1, <2>2
<1>5. /\ s \in Seq(Entrees) /\ Len(s) = x
      /\ \A i \in 1..p : s[i] = l[i]
      /\ \A i \in 1..Len(e) : s[p + i] = e[i]
  BY <1>1, Remplacement
<1>6. Commun(s, g, x)
  <2>1. x <= Len(g)
    BY <1>3 DEF Extrait
  <2>2. ASSUME NEW i \in 1..x PROVE s[i] = g[i]
    <3>1. CASE i <= p
      BY <1>1, <1>4, <1>5, <3>1 DEF Commun
    <3>2. CASE i > p
      <4>1. i - p \in 1..Len(e) /\ p + (i - p) = i
        BY <1>1, <3>2
      <4>2. e[i - p] = g[p + (i - p)]
        BY <1>3, <4>1 DEF Extrait
      <4>3. s[p + (i - p)] = e[i - p]
        BY <1>5, <4>1
      <4> QED
        BY <4>1, <4>2, <4>3
    <3> QED
      BY <1>1, <3>1, <3>2
  <2> QED
    BY <1>5, <2>1, <2>2 DEF Commun
<1>7. CASE r = s /\ (x > Len(l) \/ \E i \in 1..x : i <= Len(l) /\ l[i] # g[i])
  <2>1. ASSUME NEW c \in Nat, Commun(l, g, c) PROVE Commun(s, g, c)
    <3>1. c <= x
      BY <1>1, <1>7, <2>1 DEF Commun
    <3> QED
      BY <1>1, <1>2, <1>5, <1>6, <3>1, CommunReduit
  <2> QED
    BY <1>3, <1>5, <1>6, <1>7, <2>1
<1>8. CASE r = l /\ x <= Len(l)
           /\ \A i \in 1..Len(e) : l[p + i].term = e[i].term
  <2>1. Commun(l, g, x)
    <3>1. CASE Len(e) = 0
      BY <1>1, <1>4, <3>1
    <3>2. CASE Len(e) > 0
      <4>1. Len(e) \in 1..Len(e) /\ x > 0 /\ x <= Len(g)
        BY <1>1, <1>3, <3>2 DEF Extrait
      <4>2. e[Len(e)] = g[x] /\ l[x].term = e[Len(e)].term
        BY <1>3, <1>8, <4>1 DEF Extrait
      <4> QED
        BY <1>1, <1>2, <1>8, <4>1, <4>2, ConformeEgal
    <3> QED
      BY <1>1, <3>1, <3>2
  <2> QED
    BY <1>3, <1>8, <2>1
<1> DEFINE conflits == {i \in 1..Len(e) : /\ p + i <= Len(l)
                                         /\ l[p + i].term # e[i].term}
<1>9. CASE conflits # {} \/ x > Len(l)
  <2>1. r = s
    BY <1>9 DEF Fusionner
  <2>2. CASE conflits # {}
    <3>1. PICK i \in 1..Len(e) : p + i <= Len(l) /\ l[p + i].term # e[i].term
      BY <2>2
    <3>2. e[i] = g[p + i] /\ p + i \in 1..x
      BY <1>1, <1>3 DEF Extrait
    <3> QED
      BY <1>7, <2>1, <3>1, <3>2
  <2> QED
    BY <1>7, <1>9, <2>1, <2>2
<1>10. CASE conflits = {} /\ ~(x > Len(l))
  <2>1. r = l
    BY <1>10 DEF Fusionner
  <2>2. ASSUME NEW i \in 1..Len(e) PROVE l[p + i].term = e[i].term
    <3>1. p + i <= Len(l)
      BY <1>1, <1>10
    <3> QED
      BY <1>10, <3>1
  <2> QED
    BY <1>1, <1>8, <1>10, <2>1, <2>2
<1> QED
  BY <1>9, <1>10

-----------------------------------------------------------------------------
\* What every step does to terms, votes and roles.
Avance ==
    /\ msgs \subseteq msgs'
    /\ \A n \in Noeuds :
         /\ current_term[n] <= current_term'[n]
         /\ current_term[n] = current_term'[n] =>
              /\ voted_for[n] # Personne => voted_for'[n] = voted_for[n]
              /\ role'[n] = "CANDIDATE" => role[n] = "CANDIDATE"
    /\ \A b \in Bulletins' : b \in Bulletins \/ b.pour = current_term'[b.src]

\* No step but the one that counts the last vote makes a leader.
NeNommePas ==
    \A n \in Noeuds : role'[n] = "LEADER" =>
        role[n] = "LEADER" /\ current_term'[n] = current_term[n]

LEMMA AvanceSansTerme ==
    ASSUME TypeOK, UNCHANGED <<current_term, voted_for, role>>,
           msgs \subseteq msgs', Bulletins' = Bulletins
    PROVE  Avance /\ NeNommePas
<1>1. \A n \in Noeuds : current_term[n] \in Nat
  BY DEF TypeOK
<1> QED
  BY <1>1 DEF Avance, NeNommePas

LEMMA AvanceTerme ==
    ASSUME TypeOK, NEW n \in Noeuds, NEW t \in Nat, t >= current_term[n],
           current_term' = [current_term EXCEPT ![n] = t],
           voted_for' = [voted_for EXCEPT ![n] = VoteAu(n, t)],
           role' = [role EXCEPT ![n] = "FOLLOWER"],
           msgs \subseteq msgs', Bulletins' = Bulletins
    PROVE  Avance /\ NeNommePas
<1>1. ASSUME NEW k \in Noeuds
      PROVE  /\ current_term[k] <= current_term'[k]
             /\ current_term[k] = current_term'[k] =>
                  /\ voted_for[k] # Personne => voted_for'[k] = voted_for[k]
                  /\ role'[k] = "CANDIDATE" => role[k] = "CANDIDATE"
             /\ role'[k] = "LEADER" =>
                  role[k] = "LEADER" /\ current_term'[k] = current_term[k]
  <2>1. current_term[k] \in Nat
    BY DEF TypeOK
  <2>2. CASE k = n
    <3>1. current_term'[k] = t /\ voted_for'[k] = VoteAu(k, t)
          /\ role'[k] = "FOLLOWER"
      BY <2>2 DEF TypeOK
    <3> QED
      BY <2>1, <2>2, <3>1 DEF VoteAu
  <2>3. CASE k # n
    BY <2>1, <2>3 DEF TypeOK
  <2> QED
    BY <2>2, <2>3
<1> QED
  BY <1>1 DEF Avance, NeNommePas

LEMMA AvanceRequestVote ==
    ASSUME TypeOK, NEW m \in msgs, RecevoirRequestVote(m)
    PROVE  Avance /\ NeNommePas
<1> DEFINE n == m.dst
           r == ReponseVote(m, current_term'[n], Accorde(m, n))
<1>1. m.src \in Noeuds /\ n \in Noeuds /\ m.term \in Nat
  BY ChampsRequestVote DEF RecevoirRequestVote
<1>2. msgs' = msgs \union {r}
  BY DEF RecevoirRequestVote
<1>3. r.src = n /\ r.pour = m.term /\ r.vote_accorde = Accorde(m, n)
  BY DEF ReponseVote
<1>4. current_term[n] \in Nat
  BY <1>1 DEF TypeOK
<1>5. Accorde(m, n) => current_term'[n] = m.term
  <2> SUFFICES ASSUME Accorde(m, n) PROVE current_term'[n] = m.term
    OBVIOUS
  <2>1. actif[n] /\ m.term >= current_term[n]
    BY DEF Accorde
  <2>2. CASE m.term > current_term[n]
    BY <1>1, <2>1, <2>2 DEF RecevoirRequestVote, TypeOK
  <2>3. CASE m.term = current_term[n]
    BY <1>1, <1>4, <2>3 DEF RecevoirRequestVote, TypeOK
  <2> QED
    BY <1>1, <1>4, <2>1, <2>2, <2>3
<1>6. ASSUME NEW b \in Bulletins'
      PROVE  b \in Bulletins \/ b.pour = current_term'[b.src]
  <2> HIDE DEF r
  <2>1. b \in msgs \/ b = r
    BY <1>2 DEF Bulletins
  <2> QED
    BY <1>3, <1>5, <2>1 DEF Bulletins
<1>7. ASSUME NEW k \in Noeuds
      PROVE  /\ current_term[k] <= current_term'[k]
             /\ current_term[k] = current_term'[k] =>
                  /\ voted_for[k] # Personne => voted_for'[k] = voted_for[k]
                  /\ role'[k] = "CANDIDATE" => role[k] = "CANDIDATE"
             /\ role'[k] = "LEADER" =>
                  role[k] = "LEADER" /\ current_term'[k] = current_term[k]
  <2>1. current_term[k] \in Nat
    BY DEF TypeOK
  <2>2. CASE k # n
    <3>1. current_term'[k] = current_term[k] /\ role'[k] = role[k]
      BY <1>1, <2>2 DEF RecevoirRequestVote, TypeOK
    <3>2. voted_for'[k] = voted_for[k]
      BY <1>1, <2>2 DEF RecevoirRequestVote, TypeOK
    <3> QED
      BY <2>1, <3>1, <3>2
  <2>3. CASE k = n /\ actif[n] /\ m.term > current_term[n]
    <3>1. current_term'[k] = m.term /\ role'[k] = "FOLLOWER"
      BY <1>1, <2>3 DEF RecevoirRequestVote, TypeOK
    <3> QED
      BY <1>1, <2>1, <2>3, <3>1
  <2>4. CASE k = n /\ ~(actif[n] /\ m.term > current_term[n])
    <3>1. UNCHANGED <<current_term, role>>
      BY <2>4 DEF RecevoirRequestVote
    <3>2. voted_for[n] # Personne => voted_for'[n] = voted_for[n]
      <4>1. CASE Accorde(m, n)
        <5>1. m.term = current_term[n]
          BY <1>1, <1>4, <2>4, <4>1 DEF Accorde
        <5>2. voted_for[n] \in {Personne, m.src}
          BY <1>1, <1>4, <4>1, <5>1 DEF Accorde, VoteAu
        <5> QED
          BY <1>1, <4>1, <5>2 DEF RecevoirRequestVote, TypeOK
      <4>2. CASE ~Accorde(m, n)
        BY <1>1, <1>4, <2>4, <4>2 DEF RecevoirRequestVote, TypeOK, VoteAu
      <4> QED
        BY <4>1, <4>2
    <3> QED
      BY <2>1, <2>4, <3>1, <3>2
  <2> QED
    BY <2>2, <2>3, <2>4
<1> QED
  BY <1>2, <1>6, <1>7 DEF Avance, NeNommePas

\* The step that elects n: it counts a vote of n's current election.
Elit(m) == /\ RecevoirReponseVote(m)
           /\ m.term <= current_term[m.dst]
           /\ EstQuorum(votes'[m.dst])

\* Every step goes forward; one step per action.
LEMMA PasAvance ==
    ASSUME TypeOK, [Next]_vars
    PROVE  Avance /\ (NeNommePas \/ \E m \in msgs : Elit(m))
<1>1. ASSUME NEW n \in Noeuds,
             TirerMinuterie(n) \/ AnnulerMinuterie(n)
      PROVE  Avance /\ NeNommePas
  BY <1>1, AvanceSansTerme
  DEF TirerMinuterie, AnnulerMinuterie, persistantes, Bulletins
<1>2. ASSUME NEW n \in Noeuds, DeclencherElection(n)
      PROVE  Avance /\ NeNommePas
  <2>1. msgs' = msgs /\ Bulletins' = Bulletins
    BY <1>2 DEF DeclencherElection, Bulletins
  <2>2. CASE /\ current_term' = [current_term EXCEPT ![n] = @ + 1]
             /\ role' = [role EXCEPT ![n] = "CANDIDATE"]
             /\ voted_for' = [voted_for EXCEPT ![n] = n]
    <3>1. ASSUME NEW k \in Noeuds
          PROVE  /\ current_term[k] <= current_term'[k]
                 /\ current_term[k] = current_term'[k] =>
                      /\ voted_for'[k] = voted_for[k]
                      /\ role'[k] = role[k]
                 /\ role'[k] = "LEADER" =>
                      role[k] = "LEADER" /\ current_term'[k] = current_term[k]
      <4>1. current_term[k] \in Nat
        BY DEF TypeOK
      <4> QED
        BY <2>2, <4>1 DEF TypeOK
    <3> QED
      BY <2>1, <3>1 DEF Avance, NeNommePas
  <2>3. CASE UNCHANGED <<role, current_term, voted_for, votes, scrutins>>
    BY <2>1, <2>3, AvanceSansTerme
  <2> QED
    BY <1>2, <2>2, <2>3 DEF DeclencherElection
<1>3. ASSUME NEW n \in Noeuds, NEW t \in 1..MaxTerm, LancerVote(n, t)
      PROVE  Avance /\ NeNommePas
  <2>1. Bulletins' = Bulletins
    BY <1>3 DEF LancerVote, Bulletins
  <2> QED
    BY <1>3, <2>1, AvanceSansTerme DEF LancerVote, persistantes
<1>4. ASSUME NEW n \in Noeuds, NEW c \in Commandes, Soumettre(n, c)
      PROVE  Avance /\ NeNommePas
  BY <1>4, AvanceSansTerme DEF Soumettre, Bulletins
<1>5. ASSUME NEW n \in Noeuds, NEW d \in Autres(n), RepliquerVers(n, d)
      PROVE  Avance /\ NeNommePas
  <2>1. Bulletins' = Bulletins
    BY <1>5 DEF RepliquerVers, Bulletins
  <2> QED
    BY <1>5, <2>1, AvanceSansTerme DEF RepliquerVers, persistantes
<1>6. ASSUME NEW n \in Noeuds, Arreter(n) \/ Ressusciter(n)
      PROVE  Avance /\ NeNommePas
  <2>1. /\ msgs' = msgs /\ Bulletins' = Bulletins
        /\ current_term' = current_term /\ voted_for' = voted_for
        /\ role' = [role EXCEPT ![n] = "FOLLOWER"]
    BY <1>6 DEF Arreter, Ressusciter, persistantes, Bulletins
  <2>2. \A k \in Noeuds : /\ role'[k] = role[k] \/ role'[k] = "FOLLOWER"
                          /\ current_term[k] \in Nat
    BY <2>1 DEF TypeOK
  <2> QED
    BY <2>1, <2>2 DEF Avance, NeNommePas
<1>7. ASSUME NEW m \in msgs, RecevoirRequestVote(m)
      PROVE  Avance /\ NeNommePas
  BY <1>7, AvanceRequestVote
<1>8. ASSUME NEW m \in msgs, RecevoirReponseVote(m)
      PROVE  Avance /\ (NeNommePas \/ Elit(m))
  <2> DEFINE n == m.dst
  <2>1. n \in Noeuds /\ m.term \in Nat /\ current_term[n] \in Nat
    BY <1>8, ChampsReponseVote DEF RecevoirReponseVote, TypeOK
  <2>2. msgs' = msgs /\ Bulletins' = Bulletins
    BY <1>8 DEF RecevoirReponseVote, Bulletins
  <2>3. CASE m.term > current_term[n] /\ DevenirFollower(n, m.term)
    <3>1. /\ m.term >= current_term[n]
          /\ current_term' = [current_term EXCEPT ![n] = m.term]
          /\ voted_for' = [voted_for EXCEPT ![n] = VoteAu(n, m.term)]
          /\ role' = [role EXCEPT ![n] = "FOLLOWER"]
      BY <2>1, <2>3 DEF DevenirFollower, VoteAu
    <3> QED
      BY <2>1, <2>2, <3>1, AvanceTerme
  <2>4. CASE /\ m.term <= current_term[n]
             /\ UNCHANGED <<current_term, voted_for>>
             /\ role' = [role EXCEPT ![n] = "LEADER"]
             /\ EstQuorum(votes'[n])
    <3>1. \A k \in Noeuds : /\ role'[k] = role[k] \/ role'[k] = "LEADER"
                            /\ current_term[k] \in Nat
      BY <2>4 DEF TypeOK
    <3>2. Avance
      BY <2>2, <2>4, <3>1 DEF Avance
    <3> QED
      BY <1>8, <2>4, <3>2 DEF Elit
  <2>5. CASE UNCHANGED <<current_term, voted_for, role>>
    BY <2>2, <2>5, AvanceSansTerme
  <2> QED
    BY <1>8, <2>3, <2>4, <2>5 DEF RecevoirReponseVote
<1>9. ASSUME NEW m \in msgs, RecevoirAppendEntries(m)
      PROVE  Avance /\ NeNommePas
  <2> DEFINE n == m.dst
  <2>1. n \in Noeuds /\ m.term \in Nat
    BY <1>9, ChampsAppendEntries DEF RecevoirAppendEntries
  <2>2. msgs \subseteq msgs' /\ Bulletins' = Bulletins
    BY <1>9 DEF RecevoirAppendEntries, ReponseAppend, Bulletins
  <2>3. CASE actif[n] /\ m.term >= current_term[n]
    <3>1. /\ role' = [role EXCEPT ![n] = "FOLLOWER"]
          /\ voted_for' = [voted_for EXCEPT ![n] = VoteAu(n, m.term)]
          /\ current_term' = [current_term EXCEPT ![n] = m.term]
      BY <1>9, <2>3 DEF RecevoirAppendEntries
    <3> QED
      BY <2>1, <2>2, <2>3, <3>1, AvanceTerme
  <2>4. CASE ~(actif[n] /\ m.term >= current_term[n])
    BY <1>9, <2>2, <2>4, AvanceSansTerme DEF RecevoirAppendEntries
  <2> QED
    BY <2>3, <2>4
<1>10. ASSUME NEW m \in msgs, RecevoirReponseAppend(m)
       PROVE  Avance /\ NeNommePas
  <2> DEFINE n == m.dst
  <2>1. n \in Noeuds /\ m.term \in Nat /\ current_term[n] \in Nat
    BY <1>10, ChampsReponseAppend DEF RecevoirReponseAppend, TypeOK
  <2>2. msgs' = msgs /\ Bulletins' = Bulletins
    BY <1>10 DEF RecevoirReponseAppend, Bulletins
  <2>3. CASE m.term > current_term[n] /\ DevenirFollower(n, m.term)
    <3>1. /\ m.term >= current_term[n]
          /\ current_term' = [current_term EXCEPT ![n] = m.term]
          /\ voted_for' = [voted_for EXCEPT ![n] = VoteAu(n, m.term)]
          /\ role' = [role EXCEPT ![n] = "FOLLOWER"]
      BY <2>1, <2>3 DEF DevenirFollower, VoteAu
    <3> QED
      BY <2>1, <2>2, <3>1, AvanceTerme
  <2>4. CASE UNCHANGED <<role, current_term, voted_for>>
    BY <2>2, <2>4, AvanceSansTerme
  <2> QED
    BY <1>10, <2>3, <2>4 DEF RecevoirReponseAppend
<1>11. CASE UNCHANGED vars
  BY <1>11, AvanceSansTerme DEF vars, persistantes, Bulletins
<1> QED
  BY <1>1, <1>2, <1>3, <1>4, <1>5, <1>6, <1>7, <1>8, <1>9, <1>10, <1>11
  DEF Next, Locale, Reception

-----------------------------------------------------------------------------
\* Leaders.
LEMMA TypeMeneur ==
    ASSUME NEW M \in Meneurs, NEW T \in Nat, M[T] # Personne
    PROVE  M[T] \in Noeuds
BY DEF Meneurs

LEMMA EluStable ==
    ASSUME TypeOK, TypeOK', ElectionInv', Avance,
           NEW n \in Noeuds, NEW T \in Nat, Elu(n, T)
    PROVE  Elu(n, T)'
<1>1. /\ current_term[n] \in Nat /\ current_term'[n] \in Nat
      /\ current_term[n] <= current_term'[n]
  BY DEF TypeOK, Avance
<1>2. T > 0 /\ T <= current_term'[n]
  BY <1>1 DEF Elu
<1>3. ASSUME T = current_term'[n]
      PROVE  role'[n] # "CANDIDATE" /\ voted_for'[n] = n
  <2>1. current_term[n] = current_term'[n]
    BY <1>1, <1>3 DEF Elu
  <2>2. role[n] # "CANDIDATE" /\ voted_for[n] = n
    BY <1>3, <2>1 DEF Elu
  <2> QED
    BY <2>1, <2>2, RaftAssumption DEF Avance
<1>4. ASSUME NEW b \in Bulletins', b.src = n, b.pour = T
      PROVE  b.dst = n
  <2>1. CASE b \in Bulletins
    BY <1>4, <2>1 DEF Elu
  <2>2. CASE b.pour = current_term'[b.src]
    <3>1. voted_for'[n] = b.dst
      BY <1>4, <2>2 DEF ElectionInv, VotesTenus
    <3> QED
      BY <1>3, <1>4, <2>2, <3>1
  <2> QED
    BY <2>1, <2>2 DEF Avance
<1>5. Bulletins \subseteq Bulletins'
  BY DEF Avance, Bulletins
<1>6. PICK Q \in SUBSET Noeuds :
         /\ EstQuorum(Q)
         /\ \A q \in Q \ {n} :
              \E b \in Bulletins : b.src = q /\ b.dst = n /\ b.pour = T
  BY DEF Elu
<1>7. \A q \in Q \ {n} :
        \E b \in Bulletins' : b.src = q /\ b.dst = n /\ b.pour = T
  BY <1>5, <1>6
<1>8. EstQuorum(Q)'
  BY <1>6 DEF EstQuorum
<1> QED
  BY <1>2, <1>3, <1>4, <1>7, <1>8 DEF Elu

LEMMA ElusStables ==
    ASSUME TypeOK, TypeOK', ElectionInv', Avance, NeNommePas,
           NEW M \in Meneurs, ElusInv(M)
    PROVE  ElusInv(M)'
<1>1. ASSUME NEW T \in Nat, M[T] # Personne PROVE Elu(M[T], T)'
  <2> DEFINE n == M[T]
  <2>1. n \in Noeuds
    BY <1>1, TypeMeneur
  <2>2. Elu(n, T)
    BY <1>1 DEF ElusInv
  <2> HIDE DEF n
  <2>3. Elu(n, T)'
    BY <2>1, <2>2, EluStable
  <2> QED
    BY <2>3 DEF n
<1>2. \A n \in Noeuds : role'[n] = "LEADER" => M[current_term'[n]] = n
  BY DEF NeNommePas, ElusInv
<1>3. ASSUME NEW n \in Noeuds, role'[n] = "CANDIDATE"
      PROVE  current_term'[n] > 0
  <2>1. current_term[n] \in Nat /\ current_term'[n] \in Nat
    BY DEF TypeOK
  <2> QED
    BY <1>3, <2>1 DEF Avance, ElusInv
<1> QED
  BY <1>1, <1>2, <1>3 DEF ElusInv

\* What an election changes.
LEMMA EffetElection ==
    ASSUME TypeOK, NEW m \in msgs, Elit(m)
    PROVE  /\ m.dst \in Noeuds
           /\ role[m.dst] = "CANDIDATE"
           /\ role' = [role EXCEPT ![m.dst] = "LEADER"]
           /\ match_index' = [match_index EXCEPT ![m.dst] =
                                [d \in Noeuds |-> 0]]
           /\ UNCHANGED <<persistantes, commit_index, scrutins, msgs>>
           /\ Bulletins' = Bulletins
<1>1. /\ m.dst \in Noeuds /\ m.term \in Nat /\ current_term[m.dst] \in Nat
  BY ChampsReponseVote DEF Elit, RecevoirReponseVote, TypeOK
<1> QED
  BY <1>1 DEF Elit, RecevoirReponseVote, DansSonElection, persistantes, Bulletins

\* The term of an election has no leader yet: the two quorums share a node,
\* whose one vote in that term is for both.
LEMMA TermeLibre ==
    ASSUME TypeOK, TypeOK', ElectionInv, ElectionInv',
           NEW M \in Meneurs, ElusInv(M), NEW m \in msgs, Elit(m)
    PROVE  M[current_term[m.dst]] = Personne
<1> DEFINE n == m.dst
           T == current_term[n]
           k == M[T]
<1> SUFFICES ASSUME k # Personne PROVE FALSE
  OBVIOUS
<1>1. /\ n \in Noeuds /\ role[n] = "CANDIDATE" /\ T \in Nat
      /\ role' = [role EXCEPT ![n] = "LEADER"]
      /\ current_term' = current_term /\ Bulletins' = Bulletins
  BY EffetElection DEF TypeOK, persistantes
<1>2. k \in Noeuds /\ Elu(k, T)
  BY <1>1, TypeMeneur DEF ElusInv
<1>3. k # n
  BY <1>1, <1>2 DEF Elu
<1>4. PICK Q \in SUBSET Noeuds :
         /\ EstQuorum(Q)
         /\ \A q \in Q \ {k} :
              \E b \in Bulletins : b.src = q /\ b.dst = k /\ b.pour = T
  BY <1>2 DEF Elu
<1>5. /\ votes'[n] \in SUBSET Noeuds /\ EstQuorum(votes'[n])
  BY <1>1 DEF TypeOK, Elit
<1>6. PICK q \in Noeuds : q \in Q /\ q \in votes'[n]
  BY <1>4, <1>5, QuorumsSeCroisent
<1>7. q # n => \E b \in Bulletins : b.src = q /\ b.dst = n /\ b.pour = T
  <2>1. role'[n] # "FOLLOWER"
    BY <1>1 DEF TypeOK
  <2> QED
    BY <1>1, <1>6, <2>1 DEF ElectionInv, VotesRecus
<1>8. voted_for[n] = n
  BY <1>1 DEF ElectionInv, VotePourSoi
<1>9. CASE q = n
  <2>1. PICK b \in Bulletins : b.src = n /\ b.dst = k /\ b.pour = T
    BY <1>3, <1>4, <1>6, <1>9
  <2> QED
    BY <1>3, <1>8, <2>1 DEF ElectionInv, VotesTenus
<1>10. CASE q = k
  <2>1. PICK b \in Bulletins : b.src = k /\ b.dst = n /\ b.pour = T
    BY <1>3, <1>7, <1>10
  <2> QED
    BY <1>2, <1>3, <2>1 DEF Elu
<1>11. CASE q # n /\ q # k
  BY <1>3, <1>4, <1>6, <1>7, <1>11 DEF ElectionInv, VoteUnique
<1> QED
  BY <1>9, <1>10, <1>11

LEMMA ElusElection ==
    ASSUME TypeOK, TypeOK', ElectionInv, ElectionInv', Avance,
           NEW M \in Meneurs, ElusInv(M), NEW m \in msgs, Elit(m),
           NEW N, N = [M EXCEPT ![current_term[m.dst]] = m.dst]
    PROVE  N \in Meneurs /\ ElusInv(N)'
<1> DEFINE n == m.dst
<1>0. PICK T \in Nat : T = current_term[n]
  BY EffetElection DEF TypeOK
<1>1. /\ n \in Noeuds /\ role[n] = "CANDIDATE"
      /\ role' = [role EXCEPT ![n] = "LEADER"]
      /\ current_term' = current_term /\ Bulletins' = Bulletins
  BY EffetElection DEF persistantes
<1>2. N \in Meneurs /\ N[T] = n /\ \A U \in Nat : U # T => N[U] = M[U]
  BY <1>0, <1>1 DEF Meneurs
<1>3. Elu(n, T)'
  <2>1. role'[n] = "LEADER" /\ role'[n] # "FOLLOWER"
    BY <1>1 DEF TypeOK
  <2>2. voted_for'[n] = n
    BY <1>1, <2>1 DEF ElectionInv, VotePourSoi
  <2>3. T > 0
    BY <1>0, <1>1 DEF ElusInv
  <2>4. \A b \in Bulletins' : b.src = n /\ b.pour = T => b.dst = n
    BY <1>0, <1>1, <2>2 DEF ElectionInv, VotesTenus
  <2>5. votes'[n] \in SUBSET Noeuds /\ EstQuorum(votes'[n])
    BY <1>1 DEF TypeOK, Elit
  <2>6. \A q \in votes'[n] \ {n} :
          \E b \in Bulletins' : b.src = q /\ b.dst = n /\ b.pour = T
    BY <1>0, <1>1, <2>1 DEF ElectionInv, VotesRecus
  <2>7. PICK Q \in SUBSET Noeuds :
           /\ EstQuorum(Q)
           /\ \A q \in Q \ {n} :
                \E b \in Bulletins' : b.src = q /\ b.dst = n /\ b.pour = T
    BY <2>5, <2>6
  <2> QED
    BY <1>0, <1>1, <2>1, <2>2, <2>3, <2>4, <2>7 DEF Elu, EstQuorum
<1>4. ASSUME NEW U \in Nat, N[U] # Personne PROVE Elu(N[U], U)'
  <2>1. CASE U = T
    BY <1>2, <1>3, <2>1
  <2>2. CASE U # T
    <3>1. PICK k \in Noeuds : k = M[U] /\ k = N[U]
      BY <1>2, <1>4, <2>2, TypeMeneur
    <3>2. Elu(k, U)
      BY <1>4, <3>1 DEF ElusInv
    <3>3. Elu(k, U)'
      BY <3>2, EluStable
    <3> QED
      BY <3>1, <3>3
  <2> QED
    BY <2>1, <2>2
<1>5. ASSUME NEW k \in Noeuds, role'[k] = "LEADER"
      PROVE  N[current_term'[k]] = k
  <2>1. CASE k = n
    BY <1>0, <1>1, <1>2, <2>1
  <2>2. CASE k # n
    <3>1. role[k] = "LEADER" /\ current_term[k] \in Nat
      BY <1>1, <1>5, <2>2 DEF TypeOK
    <3>2. M[current_term[k]] = k
      BY <3>1 DEF ElusInv
    <3>3. current_term[k] # T
      BY <1>0, <3>2, TermeLibre, RaftAssumption
    <3> QED
      BY <1>1, <1>2, <3>1, <3>2, <3>3
  <2> QED
    BY <2>1, <2>2
<1>6. ASSUME NEW k \in Noeuds, role'[k] = "CANDIDATE"
      PROVE  current_term'[k] > 0
  BY <1>1, <1>6 DEF TypeOK, ElusInv
<1> QED
  BY <1>2, <1>4, <1>5, <1>6 DEF ElusInv

-----------------------------------------------------------------------------
\* History only grows.
Prolonge(J, K) == \A T \in Nat : Commun(J[T], K[T], Len(J[T]))

LEMMA ConformeProlonge ==
    ASSUME NEW J \in Journaux, NEW K \in Journaux, Prolonge(J, K),
           NEW l \in Seq(Entrees), NEW t \in Nat, Conforme(l, J, t)
    PROVE  Conforme(l, K, t)
<1> SUFFICES ASSUME NEW i \in 1..Len(l)
             PROVE  l[i].term \in 1..t /\ Commun(l, K[l[i].term], i)
  BY DEF Conforme
<1> DEFINE T == l[i].term
<1>1. T \in 1..t /\ Commun(l, J[T], i)
  BY DEF Conforme
<1>2. T \in Nat /\ J[T] \in Seq(Entrees) /\ K[T] \in Seq(Entrees)
  BY TypeEntree, TypeJournal
<1>3. Commun(J[T], K[T], Len(J[T])) /\ i <= Len(J[T])
  BY <1>1, <1>2 DEF Prolonge, Commun
<1>4. Commun(J[T], K[T], i)
  BY <1>2, <1>3, CommunReduit
<1> QED
  BY <1>1, <1>2, <1>4, CommunTransitif

LEMMA ExtraitProlonge ==
    ASSUME NEW k \in Seq(Entrees), NEW l \in Seq(Entrees),
           Commun(k, l, Len(k)), NEW m, m.prev_log_index \in Nat,
           m.entries \in Seq(Entrees), Extrait(m, k)
    PROVE  Extrait(m, l)
<1>1. Len(k) \in Nat /\ Len(l) \in Nat /\ Len(m.entries) \in Nat
  OBVIOUS
<1>2. m.prev_log_index + Len(m.entries) <= Len(l)
  BY <1>1 DEF Commun, Extrait
<1>3. ASSUME m.prev_log_index > 0
      PROVE  m.prev_log_term = l[m.prev_log_index].term
  <2>1. m.prev_log_index \in 1..Len(k)
    BY <1>1, <1>3 DEF Extrait
  <2> QED
    BY <1>3, <2>1 DEF Commun, Extrait
<1>4. ASSUME NEW i \in 1..Len(m.entries)
      PROVE  m.entries[i] = l[m.prev_log_index + i]
  <2>1. m.prev_log_index + i \in 1..Len(k)
    BY <1>1 DEF Extrait
  <2> QED
    BY <2>1 DEF Commun, Extrait
<1> QED
  BY <1>2, <1>3, <1>4 DEF Extrait

-----------------------------------------------------------------------------
\* The steps that leave the logs alone.
LEMMA JournauxStables ==
    ASSUME TypeOK, TypeOK', Avance, NeNommePas, UNCHANGED log,
           NEW J \in Journaux, NEW M \in Meneurs, JournauxInv(J, M)
    PROVE  JournauxInv(J, M)'
<1>1. ASSUME NEW n \in Noeuds PROVE Conforme(log[n], J, current_term'[n])
  <2>1. /\ log[n] \in Seq(Entrees) /\ current_term[n] \in Nat
        /\ current_term'[n] \in Nat /\ current_term[n] <= current_term'[n]
        /\ Conforme(log[n], J, current_term[n])
    BY DEF TypeOK, Avance, JournauxInv
  <2> QED
    BY <2>1, ConformeTerm
<1>2. \A n \in Noeuds : Conforme(log[n], J, current_term[n])'
  BY <1>1 DEF Conforme, Commun
<1> QED
  BY <1>2 DEF JournauxInv, NeNommePas, Conforme, Commun

LEMMA LogOrdinaire ==
    ASSUME TypeOK, TypeOK', ElectionInv', Avance, NeNommePas,
           UNCHANGED log, Appels' = Appels,
           NEW J \in Journaux, NEW M \in Meneurs, LogInv(J, M)
    PROVE  LogInv(J, M)'
<1>1. ElusInv(M)' /\ JournauxInv(J, M)'
  BY ElusStables, JournauxStables DEF LogInv
<1>2. AppelsInv(J, M)'
  BY DEF LogInv, AppelsInv, AuDela, Extrait
<1> QED
  BY <1>1, <1>2 DEF LogInv

\* What follows the first p entries.
LEMMA Suite ==
    ASSUME NEW l \in Seq(Entrees), NEW p \in Nat, p <= Len(l)
    PROVE  /\ Len(SubSeq(l, p + 1, Len(l))) = Len(l) - p
           /\ \A i \in 1..Len(l) - p : SubSeq(l, p + 1, Len(l))[i] = l[p + i]
<1>1. \A i \in p + 1 .. Len(l) : l[i] \in Entrees
  OBVIOUS
<1>2. Len(l) \in Nat
  OBVIOUS
<1> DEFINE s == SubSeq(l, p + 1, Len(l))
<1>3. /\ Len(s) = IF p + 1 <= Len(l) THEN Len(l) - (p + 1) + 1 ELSE 0
      /\ \A i \in 1 .. Len(l) - (p + 1) + 1 : s[i] = l[p + 1 + i - 1]
  BY <1>1, <1>2, SubSeqProperties
<1> HIDE DEF s
<1>4. Len(s) = Len(l) - p /\ \A i \in 1..Len(l) - p : s[i] = l[p + i]
  BY <1>2, <1>3
<1> QED
  BY <1>4 DEF s

\* The call of a leader.
LEMMA LogRepliquer ==
    ASSUME TypeOK, TypeOK', ElectionInv', Avance, NeNommePas,
           NEW J \in Journaux, NEW M \in Meneurs, LogInv(J, M),
           NEW n \in Noeuds, NEW d \in Autres(n), RepliquerVers(n, d)
    PROVE  LogInv(J, M)'
<1> DEFINE prev == next_index[n][d] - 1
           l == log[n]
           pt == IF prev \in 1..Len(l) THEN l[prev].term ELSE 0
           es == SubSeq(l, prev + 1, Len(l))
           a == [type |-> "AppendEntries", src |-> n, dst |-> d,
                 term |-> current_term[n], prev_log_index |-> prev,
                 prev_log_term |-> pt, entries |-> es,
                 leader_commit |-> commit_index[n]]
<1>1. ElusInv(M)' /\ JournauxInv(J, M)'
  BY ElusStables, JournauxStables DEF LogInv, RepliquerVers, persistantes
<1>2. msgs' = msgs \union {a} /\ role[n] = "LEADER"
  BY DEF RepliquerVers
<1>3. /\ l \in Seq(Entrees) /\ Len(l) \in Nat /\ prev \in Nat /\ d # n
      /\ M[current_term[n]] = n /\ J[current_term[n]] = l
  <2>1. d \in Noeuds /\ d # n
    BY DEF Autres
  <2>2. next_index[n][d] \in Nat \ {0} /\ l \in Seq(Entrees)
    BY <2>1 DEF TypeOK
  <2> QED
    BY <1>2, <2>1, <2>2 DEF LogInv, ElusInv, JournauxInv
<1>4. AuDela(a) \/ Extrait(a, l)
  <2>1. CASE prev > Len(l)
    <3>1. pt = 0
      BY <1>3, <2>1
    <3>2. es = <<>>
      BY <1>3, <2>1, SubSeqEmpty
    <3> QED
      BY <1>3, <2>1, <3>1, <3>2 DEF AuDela
  <2>2. CASE prev <= Len(l)
    <3>1. Len(es) = Len(l) - prev /\ \A i \in 1..Len(es) : es[i] = l[prev + i]
      BY <1>3, <2>2, Suite
    <3>2. prev > 0 => pt = l[prev].term
      BY <1>3, <2>2
    <3> HIDE DEF es, pt, l, prev
    <3> QED
      BY <1>3, <2>2, <3>1, <3>2 DEF Extrait
  <2> QED
    BY <1>3, <2>1, <2>2
<1>5. AppelsInv(J, M)'
  <2> SUFFICES ASSUME NEW m \in Appels'
               PROVE  /\ M[m.term] = m.src
                      /\ m.dst # m.src
                      /\ AuDela(m) \/ Extrait(m, J[m.term])
    BY DEF AppelsInv, AuDela, Extrait
  <2>1. a.term = current_term[n] /\ a.src = n /\ a.dst = d
    OBVIOUS
  <2> HIDE DEF a, l
  <2>2. m = a \/ m \in Appels
    BY <1>2 DEF Appels
  <2>3. CASE m = a
    BY <1>3, <1>4, <2>1, <2>3
  <2>4. CASE m \in Appels
    BY <2>4 DEF LogInv, AppelsInv
  <2> QED
    BY <2>2, <2>3, <2>4
<1> QED
  BY <1>1, <1>5 DEF LogInv

\* The command a leader appends.
LEMMA EffetSoumettre ==
    ASSUME TypeOK, NEW n \in Noeuds, NEW c \in Commandes, Soumettre(n, c)
    PROVE  /\ log[n] \in Seq(Entrees) /\ log'[n] \in Seq(Entrees)
           /\ Len(log'[n]) = Len(log[n]) + 1
           /\ log'[n][Len(log[n]) + 1].term = current_term[n]
           /\ Commun(log[n], log'[n], Len(log[n]))
           /\ \A k \in Noeuds : k # n => log'[k] = log[k]
           /\ UNCHANGED <<role, current_term, commit_index, match_index,
                          scrutins, msgs>>
           /\ role[n] = "LEADER"
<1> DEFINE e == [term |-> current_term[n], commande |-> c]
<1>1. e \in Entrees /\ log[n] \in Seq(Entrees)
  BY DEF TypeOK, Entrees
<1>2. e.term = current_term[n]
  OBVIOUS
<1>3. log'[n] = Append(log[n], e) /\ \A k \in Noeuds : k # n => log'[k] = log[k]
  BY DEF Soumettre, TypeOK
<1>4. /\ UNCHANGED <<role, current_term, commit_index, match_index, scrutins,
                     msgs>>
      /\ role[n] = "LEADER"
  BY DEF Soumettre, meneur, minuteries
<1> HIDE DEF e
<1>5. /\ Append(log[n], e) \in Seq(Entrees)
      /\ Len(Append(log[n], e)) = Len(log[n]) + 1
      /\ \A j \in 1..Len(log[n]) : Append(log[n], e)[j] = log[n][j]
      /\ Append(log[n], e)[Len(log[n]) + 1] = e
  BY <1>1, AppendProperties
<1>6. Len(log[n]) \in Nat
  BY <1>1
<1>7. Commun(log[n], log'[n], Len(log[n]))
  BY <1>3, <1>5, <1>6 DEF Commun
<1> QED
  BY <1>1, <1>2, <1>3, <1>4, <1>5, <1>7

LEMMA LogSoumettre ==
    ASSUME TypeOK, TypeOK', ElectionInv', Avance, NeNommePas,
           NEW J \in Journaux, NEW M \in Meneurs, LogInv(J, M),
           NEW n \in Noeuds, NEW c \in Commandes, Soumettre(n, c),
           NEW K, K = [J EXCEPT ![current_term[n]] = log'[n]]
    PROVE  K \in Journaux /\ Prolonge(J, K) /\ LogInv(K, M)'
<1>1. PICK T \in Nat : T = current_term[n]
  BY DEF TypeOK
<1>2. PICK l \in Seq(Entrees) : l = log'[n]
  BY EffetSoumettre
<1>3. /\ UNCHANGED <<role, current_term, msgs>>
      /\ role[n] = "LEADER" /\ Commun(log[n], l, Len(log[n]))
      /\ Len(log[n]) \in Nat /\ log[n] \in Seq(Entrees)
  <2>1. Commun(log[n], log'[n], Len(log[n])) /\ log[n] \in Seq(Entrees)
        /\ UNCHANGED <<role, current_term, msgs>> /\ role[n] = "LEADER"
    BY EffetSoumettre
  <2> QED
    BY <1>2, <2>1
<1>4. /\ M[T] = n /\ J[T] = log[n] /\ T > 0 /\ M[T] # Personne
  BY <1>1, <1>3, RaftAssumption DEF LogInv, ElusInv, JournauxInv, Elu
<1>5. /\ K \in Journaux /\ K[T] = l
      /\ \A U \in Nat : U # T => K[U] = J[U]
  BY <1>1, <1>2 DEF Journaux
<1>6. Prolonge(J, K)
  <2> SUFFICES ASSUME NEW U \in Nat PROVE Commun(J[U], K[U], Len(J[U]))
    BY DEF Prolonge
  <2>1. J[U] \in Seq(Entrees)
    BY TypeJournal
  <2>2. CASE U = T
    BY <1>3, <1>4, <1>5, <2>2
  <2>3. CASE U # T
    BY <1>5, <2>1, <2>3 DEF Commun
  <2> QED
    BY <2>2, <2>3
<1>7. Conforme(l, K, T)
  <2> SUFFICES ASSUME NEW i \in 1..Len(l)
               PROVE  l[i].term \in 1..T /\ Commun(l, K[l[i].term], i)
    BY DEF Conforme
  <2>1. CASE i <= Len(log[n])
    <3>1. i \in 1..Len(log[n]) /\ l[i] = log[n][i]
      BY <1>3, <2>1 DEF Commun
    <3>2. Conforme(log[n], J, T)
      BY <1>1 DEF LogInv, JournauxInv
    <3>3. Conforme(log[n], K, T)
      BY <1>3, <1>5, <1>6, <3>2, ConformeProlonge
    <3>4. l[i].term \in 1..T /\ Commun(log[n], K[l[i].term], i)
      BY <3>1, <3>3 DEF Conforme
    <3>5. Commun(l, log[n], i)
      BY <1>3, <3>1 DEF Commun
    <3>6. K[l[i].term] \in Seq(Entrees)
      BY <1>5, TypeEntree, TypeJournal
    <3> QED
      BY <1>3, <3>4, <3>5, <3>6, CommunTransitif
  <2>2. CASE i = Len(log[n]) + 1
    <3>1. l[i].term = T
      BY <1>1, <1>2, <2>2, EffetSoumettre
    <3>2. Commun(l, l, i)
      BY DEF Commun
    <3> QED
      BY <1>4, <1>5, <3>1, <3>2
  <2>3. Len(l) = Len(log[n]) + 1
    BY <1>2, EffetSoumettre
  <2> QED
    BY <1>3, <2>1, <2>2, <2>3
<1>8. JournauxInv(K, M)'
  <2>1. ASSUME NEW k \in Noeuds PROVE Conforme(log[k], K, current_term[k])'
    <3>1. CASE k = n
      <4>1. Conforme(log'[k], K, current_term'[k])
        BY <1>1, <1>2, <1>3, <1>7, <3>1
      <4> QED
        BY <4>1 DEF Conforme, Commun
    <3>2. CASE k # n
      <4>1. log'[k] = log[k] /\ current_term'[k] = current_term[k]
            /\ log[k] \in Seq(Entrees) /\ current_term[k] \in Nat
        BY <1>3, <3>2 DEF Soumettre, TypeOK
      <4>2. Conforme(log[k], K, current_term[k])
        BY <1>5, <1>6, <4>1, ConformeProlonge DEF LogInv, JournauxInv
      <4> QED
        BY <4>1, <4>2 DEF Conforme, Commun
    <3> QED
      BY <3>1, <3>2
  <2>2. ASSUME NEW U \in Nat PROVE Conforme(K[U], K, U)
    <3>1. CASE U = T
      BY <1>5, <1>7, <3>1
    <3>2. CASE U # T
      <4>1. J[U] \in Seq(Entrees) /\ Conforme(J[U], J, U)
        BY TypeJournal DEF LogInv, JournauxInv
      <4> QED
        BY <1>5, <1>6, <3>2, <4>1, ConformeProlonge
    <3> QED
      BY <3>1, <3>2
  <2>3. \A U \in Nat : M[U] = Personne => K[U] = <<>>
    BY <1>4, <1>5 DEF LogInv, JournauxInv
  <2>4. ASSUME NEW k \in Noeuds, role'[k] = "LEADER"
        PROVE  K[current_term'[k]] = log'[k]
    <3>1. CASE k = n
      BY <1>1, <1>2, <1>3, <1>5, <3>1
    <3>2. CASE k # n
      <4>1. log'[k] = log[k] /\ role[k] = "LEADER" /\ current_term[k] \in Nat
        BY <1>3, <2>4, <3>2 DEF Soumettre, TypeOK
      <4>2. current_term[k] # T
        BY <1>4, <3>2, <4>1 DEF LogInv, ElusInv
      <4> QED
        BY <1>3, <1>5, <4>1, <4>2 DEF LogInv, JournauxInv
    <3> QED
      BY <3>1, <3>2
  <2> QED
    BY <2>1, <2>2, <2>3, <2>4 DEF JournauxInv, Conforme, Commun
<1>9. AppelsInv(K, M)'
  <2> SUFFICES ASSUME NEW m \in Appels
               PROVE  /\ M[m.term] = m.src
                      /\ m.dst # m.src
                      /\ AuDela(m) \/ Extrait(m, K[m.term])
    BY <1>3 DEF AppelsInv, AuDela, Extrait, Appels
  <2>1. /\ m.term \in Nat /\ m.prev_log_index \in Nat
        /\ m.entries \in Seq(Entrees)
    BY ChampsAppendEntries DEF Appels
  <2>2. /\ M[m.term] = m.src /\ m.dst # m.src
        /\ AuDela(m) \/ Extrait(m, J[m.term])
    BY DEF LogInv, AppelsInv
  <2>3. Commun(J[m.term], K[m.term], Len(J[m.term]))
    BY <1>6, <2>1 DEF Prolonge
  <2> QED
    BY <1>5, <2>1, <2>2, <2>3, TypeJournal, ExtraitProlonge
<1>10. ElusInv(M)'
  BY ElusStables DEF LogInv
<1> QED
  BY <1>5, <1>6, <1>8, <1>9, <1>10 DEF LogInv

\* An election opens the journal of its term with the log of who it elects.
LEMMA LogElection ==
    ASSUME TypeOK, TypeOK', ElectionInv, ElectionInv', Avance,
           NEW J \in Journaux, NEW M \in Meneurs, LogInv(J, M),
           NEW m \in msgs, Elit(m),
           NEW K, K = [J EXCEPT ![current_term[m.dst]] = log[m.dst]],
           NEW N, N = [M EXCEPT ![current_term[m.dst]] = m.dst]
    PROVE  /\ K \in Journaux /\ N \in Meneurs /\ Prolonge(J, K)
           /\ LogInv(K, N)'
<1> DEFINE n == m.dst
<1>1. /\ n \in Noeuds /\ role[n] = "CANDIDATE"
      /\ role' = [role EXCEPT ![n] = "LEADER"]
      /\ UNCHANGED <<current_term, log, msgs>>
  BY EffetElection DEF persistantes
<1>2. PICK T \in Nat : T = current_term[n]
  BY <1>1 DEF TypeOK
<1>3. PICK l \in Seq(Entrees) : l = log[n]
  BY <1>1 DEF TypeOK
<1>4. M[T] = Personne /\ J[T] = <<>>
  BY <1>2, TermeLibre DEF LogInv, JournauxInv
<1>5. /\ K \in Journaux /\ K[T] = l
      /\ \A U \in Nat : U # T => K[U] = J[U]
  BY <1>2, <1>3 DEF Journaux
<1>6. Prolonge(J, K)
  <2> SUFFICES ASSUME NEW U \in Nat PROVE Commun(J[U], K[U], Len(J[U]))
    BY DEF Prolonge
  <2>1. J[U] \in Seq(Entrees)
    BY TypeJournal
  <2>2. CASE U = T
    BY <1>4, <1>5, <2>2 DEF Commun
  <2>3. CASE U # T
    BY <1>5, <2>1, <2>3 DEF Commun
  <2> QED
    BY <2>2, <2>3
<1>7. N \in Meneurs /\ ElusInv(N)'
  BY ElusElection DEF LogInv
<1>8. N[T] = n /\ \A U \in Nat : U # T => N[U] = M[U]
  BY <1>1, <1>2 DEF Meneurs
<1>9. JournauxInv(K, N)'
  <2>1. ASSUME NEW k \in Noeuds PROVE Conforme(log[k], K, current_term[k])
    <3>1. log[k] \in Seq(Entrees) /\ current_term[k] \in Nat
          /\ Conforme(log[k], J, current_term[k])
      BY DEF LogInv, JournauxInv, TypeOK
    <3> QED
      BY <1>5, <1>6, <3>1, ConformeProlonge
  <2>2. ASSUME NEW U \in Nat PROVE Conforme(K[U], K, U)
    <3>1. CASE U = T
      BY <1>1, <1>2, <1>3, <1>5, <2>1, <3>1
    <3>2. CASE U # T
      <4>1. J[U] \in Seq(Entrees) /\ Conforme(J[U], J, U)
        BY TypeJournal DEF LogInv, JournauxInv
      <4> QED
        BY <1>5, <1>6, <3>2, <4>1, ConformeProlonge
    <3> QED
      BY <3>1, <3>2
  <2>3. \A U \in Nat : N[U] = Personne => K[U] = <<>>
    BY <1>1, <1>5, <1>8, RaftAssumption DEF LogInv, JournauxInv
  <2>4. ASSUME NEW k \in Noeuds, role'[k] = "LEADER"
        PROVE  K[current_term[k]] = log[k]
    <3>1. CASE k = n
      BY <1>2, <1>3, <1>5, <3>1
    <3>2. CASE k # n
      <4>1. role[k] = "LEADER" /\ current_term[k] \in Nat
        BY <1>1, <2>4, <3>2 DEF TypeOK
      <4>2. current_term[k] # T
        BY <1>4, <4>1, RaftAssumption DEF LogInv, ElusInv
      <4> QED
        BY <1>5, <4>1, <4>2 DEF LogInv, JournauxInv
    <3> QED
      BY <3>1, <3>2
  <2>5. \A k \in Noeuds : Conforme(log[k], K, current_term[k])'
    BY <1>1, <2>1 DEF Conforme, Commun
  <2> QED
    BY <1>1, <2>2, <2>3, <2>4, <2>5 DEF JournauxInv, Conforme, Commun
<1>10. AppelsInv(K, N)'
  <2> SUFFICES ASSUME NEW a \in Appels
               PROVE  /\ N[a.term] = a.src
                      /\ a.dst # a.src
                      /\ AuDela(a) \/ Extrait(a, K[a.term])
    BY <1>1 DEF AppelsInv, AuDela, Extrait, Appels
  <2>1. a.term \in Nat /\ a.src \in Noeuds
    BY ChampsAppendEntries DEF Appels
  <2>2. /\ M[a.term] = a.src /\ a.dst # a.src
        /\ AuDela(a) \/ Extrait(a, J[a.term])
    BY DEF LogInv, AppelsInv
  <2>3. a.term # T
    BY <1>4, <2>1, <2>2, RaftAssumption
  <2> QED
    BY <1>5, <1>8, <2>1, <2>2, <2>3
<1> QED
  BY <1>5, <1>6, <1>7, <1>9, <1>10 DEF LogInv

\* What a handled call does to the log of its destination.
LEMMA EffetAppel ==
    ASSUME TypeOK, NEW J \in Journaux, NEW M \in Meneurs, LogInv(J, M),
           NEW m \in msgs, RecevoirAppendEntries(m),
           m.term >= current_term[m.dst], Coherent(m, log[m.dst]),
           actif[m.dst]
    PROVE  LET n == m.dst
               l == log'[n]
               x == m.prev_log_index + Len(m.entries)
           IN  /\ n \in Noeuds /\ m.term \in Nat /\ x \in Nat
               /\ current_term'[n] = m.term
               /\ Extrait(m, J[m.term])
               /\ log[n] \in Seq(Entrees) /\ l \in Seq(Entrees)
               /\ \A k \in Noeuds : k # n => log'[k] = log[k]
               /\ Commun(l, J[m.term], x)
               /\ l = log[n] \/ Len(l) = x
               /\ \A c \in Nat : Commun(log[n], J[m.term], c)
                                   => Commun(l, J[m.term], c)
<1> DEFINE n == m.dst
           r == Fusionner(log[n], m.prev_log_index, m.entries)
<1>1. /\ n \in Noeuds /\ m.term \in Nat
      /\ m.prev_log_index \in Nat /\ m.entries \in Seq(Entrees)
      /\ m \in Appels
  BY ChampsAppendEntries DEF RecevoirAppendEntries, Appels
<1>2. /\ log[n] \in Seq(Entrees) /\ current_term[n] \in Nat
      /\ Conforme(log[n], J, current_term[n])
      /\ Conforme(J[m.term], J, m.term)
      /\ AuDela(m) \/ Extrait(m, J[m.term])
  BY <1>1 DEF TypeOK, LogInv, JournauxInv, AppelsInv
<1>3. /\ log' = [log EXCEPT ![n] = r]
      /\ current_term' = [current_term EXCEPT ![n] = m.term]
  BY DEF RecevoirAppendEntries
<1>4. /\ log'[n] = r /\ current_term'[n] = m.term
      /\ \A k \in Noeuds : k # n => log'[k] = log[k]
  BY <1>1, <1>3 DEF TypeOK
<1> DEFINE x == m.prev_log_index + Len(m.entries)
<1>5. /\ Extrait(m, J[m.term])
      /\ r \in Seq(Entrees)
      /\ Commun(r, J[m.term], x)
      /\ r = log[n] \/ Len(r) = x
      /\ \A c \in Nat : Commun(log[n], J[m.term], c) => Commun(r, J[m.term], c)
  BY <1>1, <1>2, Fusion
<1>6. x \in Nat
  BY <1>1
<1> HIDE DEF r
<1> QED
  BY <1>1, <1>2, <1>4, <1>5, <1>6

LEMMA LogAppel ==
    ASSUME TypeOK, TypeOK', ElectionInv', Avance, NeNommePas,
           NEW J \in Journaux, NEW M \in Meneurs, LogInv(J, M),
           NEW m \in msgs, RecevoirAppendEntries(m)
    PROVE  LogInv(J, M)'
<1> DEFINE n == m.dst
<1>1. Appels' = Appels
  BY DEF RecevoirAppendEntries, ReponseAppend, Appels
<1>2. CASE actif[n] /\ m.term >= current_term[n] /\ Coherent(m, log[n])
  <2>1. /\ n \in Noeuds /\ m.term \in Nat /\ current_term'[n] = m.term
        /\ log[n] \in Seq(Entrees) /\ log'[n] \in Seq(Entrees)
        /\ \A k \in Noeuds : k # n => log'[k] = log[k]
        /\ Commun(log'[n], J[m.term], m.prev_log_index + Len(m.entries))
        /\ \/ log'[n] = log[n]
           \/ Len(log'[n]) = m.prev_log_index + Len(m.entries)
    BY <1>2, EffetAppel
  <2>2. /\ current_term[n] \in Nat /\ Conforme(log[n], J, current_term[n])
        /\ J[m.term] \in Seq(Entrees) /\ Conforme(J[m.term], J, m.term)
    BY <2>1, TypeJournal DEF TypeOK, LogInv, JournauxInv
  <2>3. Conforme(log'[n], J, m.term)
    <3>1. CASE log'[n] = log[n]
      BY <1>2, <2>1, <2>2, <3>1, ConformeTerm
    <3>2. CASE Len(log'[n]) = m.prev_log_index + Len(m.entries)
      BY <2>1, <2>2, <3>2, ConformePrefixe
    <3> QED
      BY <2>1, <3>1, <3>2
  <2>4. ASSUME NEW k \in Noeuds PROVE Conforme(log'[k], J, current_term'[k])
    <3>1. CASE k = n
      BY <2>1, <2>3, <3>1
    <3>2. CASE k # n
      <4>1. /\ log[k] \in Seq(Entrees) /\ current_term[k] \in Nat
            /\ current_term'[k] \in Nat /\ current_term[k] <= current_term'[k]
            /\ Conforme(log[k], J, current_term[k])
        BY DEF TypeOK, Avance, LogInv, JournauxInv
      <4> QED
        BY <2>1, <3>2, <4>1, ConformeTerm
    <3> QED
      BY <3>1, <3>2
  <2>5. role'[n] # "LEADER"
    BY <1>2, <2>1 DEF RecevoirAppendEntries, TypeOK
  <2>6. \A k \in Noeuds : role'[k] = "LEADER" => J[current_term'[k]] = log'[k]
    BY <2>1, <2>5 DEF NeNommePas, LogInv, JournauxInv
  <2>7. \A k \in Noeuds : Conforme(log[k], J, current_term[k])'
    BY <2>4 DEF Conforme, Commun
  <2>8. JournauxInv(J, M)'
    BY <2>6, <2>7 DEF LogInv, JournauxInv, Conforme, Commun
  <2>9. ElusInv(M)'
    BY ElusStables DEF LogInv
  <2>10. AppelsInv(J, M)'
    BY <1>1 DEF LogInv, AppelsInv, AuDela, Extrait
  <2> QED
    BY <2>8, <2>9, <2>10 DEF LogInv
<1>3. CASE ~(actif[n] /\ m.term >= current_term[n] /\ Coherent(m, log[n]))
  <2>1. UNCHANGED log
    BY <1>3 DEF RecevoirAppendEntries
  <2> QED
    BY <1>1, <2>1, LogOrdinaire
<1> QED
  BY <1>2, <1>3

-----------------------------------------------------------------------------
\* A step keeps the history, extends it or opens a journal.
LEMMA LogPas ==
    ASSUME TypeOK, TypeOK', ElectionInv, ElectionInv', [Next]_vars,
           NEW J \in Journaux, NEW M \in Meneurs, LogInv(J, M)
    PROVE  \/ NeNommePas /\ LogInv(J, M)'
           \/ \E n \in Noeuds, c \in Commandes : Soumettre(n, c)
           \/ \E m \in msgs : Elit(m)
<1> SUFFICES ASSUME NeNommePas,
                    ~ \E n \in Noeuds, c \in Commandes : Soumettre(n, c)
             PROVE  LogInv(J, M)'
  BY PasAvance
<1>1. Avance
  BY PasAvance
<1>2. ASSUME NEW n \in Noeuds,
             TirerMinuterie(n) \/ AnnulerMinuterie(n) \/ DeclencherElection(n)
               \/ Arreter(n) \/ Ressusciter(n)
      PROVE  LogInv(J, M)'
  BY <1>1, <1>2, LogOrdinaire
  DEF TirerMinuterie, AnnulerMinuterie, DeclencherElection, Arreter,
      Ressusciter, persistantes, Appels
<1>3. ASSUME NEW n \in Noeuds, NEW t \in 1..MaxTerm, LancerVote(n, t)
      PROVE  LogInv(J, M)'
  <2>1. Appels' = Appels /\ UNCHANGED log
    BY <1>3 DEF LancerVote, persistantes, Appels
  <2> QED
    BY <1>1, <2>1, LogOrdinaire
<1>4. ASSUME NEW n \in Noeuds, NEW d \in Autres(n), RepliquerVers(n, d)
      PROVE  LogInv(J, M)'
  BY <1>1, <1>4, LogRepliquer
<1>5. ASSUME NEW m \in msgs, RecevoirRequestVote(m)
      PROVE  LogInv(J, M)'
  <2>1. Appels' = Appels /\ UNCHANGED log
    BY <1>5 DEF RecevoirRequestVote, ReponseVote, Appels
  <2> QED
    BY <1>1, <2>1, LogOrdinaire
<1>6. ASSUME NEW m \in msgs,
             RecevoirReponseVote(m) \/ RecevoirReponseAppend(m)
      PROVE  LogInv(J, M)'
  <2>1. Appels' = Appels /\ UNCHANGED log
    BY <1>6 DEF RecevoirReponseVote, RecevoirReponseAppend, Appels
  <2> QED
    BY <1>1, <2>1, LogOrdinaire
<1>7. ASSUME NEW m \in msgs, RecevoirAppendEntries(m)
      PROVE  LogInv(J, M)'
  BY <1>1, <1>7, LogAppel
<1>8. CASE UNCHANGED vars
  BY <1>1, <1>8, LogOrdinaire DEF vars, persistantes, Appels
<1> QED
  BY <1>2, <1>3, <1>4, <1>5, <1>6, <1>7, <1>8 DEF Next, Locale, Reception

\* The inductive invariant of the logs.
HistoireLog == \E J \in Journaux, M \in Meneurs : LogInv(J, M)

LEMMA JournalVide ==
    Init => \E J \in Journaux, M \in Meneurs :
               /\ LogInv(J, M)
               /\ \A T \in Nat : M[T] = Personne /\ J[T] = <<>>
<1> SUFFICES ASSUME Init
             PROVE  \E J \in Journaux, M \in Meneurs :
                       /\ LogInv(J, M)
                       /\ \A T \in Nat : M[T] = Personne /\ J[T] = <<>>
  OBVIOUS
<1> DEFINE J == [T \in Nat |-> <<>>]
           M == [T \in Nat |-> Personne]
<1>1. /\ J \in Journaux /\ M \in Meneurs
      /\ \A T \in Nat : M[T] = Personne /\ J[T] = <<>>
  BY EmptySeq DEF Journaux, Meneurs
<1>2. ElusInv(M)
  BY DEF ElusInv, Init
<1>3. JournauxInv(J, M)
  <2>1. \A t \in Nat : Conforme(<<>>, J, t)
    BY DEF Conforme
  <2> QED
    BY <2>1 DEF JournauxInv, Init
<1>4. AppelsInv(J, M)
  BY DEF AppelsInv, Appels, Init
<1> HIDE DEF J, M
<1> QED
  BY <1>1, <1>2, <1>3, <1>4 DEF LogInv

LEMMA HistoireLogInit == Init => HistoireLog
BY JournalVide DEF HistoireLog

LEMMA HistoireLogNext ==
    TypeOK /\ ElectionInv /\ HistoireLog /\ [Next]_vars
      /\ TypeOK' /\ ElectionInv' => HistoireLog'
<1> SUFFICES ASSUME TypeOK, ElectionInv, HistoireLog, [Next]_vars,
                    TypeOK', ElectionInv'
             PROVE  \E K \in Journaux, N \in Meneurs : LogInv(K, N)'
  BY DEF HistoireLog
<1>1. PICK J \in Journaux, M \in Meneurs : LogInv(J, M)
  BY DEF HistoireLog
<1>2. Avance
  BY PasAvance
<1>3. ASSUME NEW n \in Noeuds, NEW c \in Commandes, Soumettre(n, c)
      PROVE  \E K \in Journaux, N \in Meneurs : LogInv(K, N)'
  <2>1. PICK K : K = [J EXCEPT ![current_term[n]] = log'[n]]
    OBVIOUS
  <2>2. NeNommePas
    BY <1>3, EffetSoumettre DEF NeNommePas
  <2> QED
    BY <1>1, <1>2, <1>3, <2>1, <2>2, LogSoumettre
<1>4. ASSUME NEW m \in msgs, Elit(m)
      PROVE  \E K \in Journaux, N \in Meneurs : LogInv(K, N)'
  <2>1. PICK K : K = [J EXCEPT ![current_term[m.dst]] = log[m.dst]]
    OBVIOUS
  <2>2. PICK N : N = [M EXCEPT ![current_term[m.dst]] = m.dst]
    OBVIOUS
  <2> QED
    BY <1>1, <1>2, <1>4, <2>1, <2>2, LogElection
<1> QED
  BY <1>1, <1>3, <1>4, LogPas

\* Two logs that conform to one history match.
LEMMA HistoireLogMatching == TypeOK /\ HistoireLog => LogMatching
<1> SUFFICES ASSUME TypeOK, HistoireLog, NEW a \in Noeuds, NEW b \in Noeuds,
                    NEW i \in DOMAIN log[a] \cap DOMAIN log[b],
                    log[a][i].term = log[b][i].term
             PROVE  SubSeq(log[a], 1, i) = SubSeq(log[b], 1, i)
  BY DEF LogMatching
<1>1. PICK J \in Journaux, M \in Meneurs : LogInv(J, M)
  BY DEF HistoireLog
<1>2. /\ log[a] \in Seq(Entrees) /\ log[b] \in Seq(Entrees)
      /\ current_term[a] \in Nat /\ current_term[b] \in Nat
  BY DEF TypeOK
<1>3. i \in Nat \ {0} /\ i <= Len(log[a]) /\ i <= Len(log[b])
  BY <1>2
<1>4. Commun(log[a], log[b], i)
  BY <1>1, <1>2, <1>3, ConformeEgal DEF LogInv, JournauxInv
<1> QED
  BY <1>2, <1>4, CommunEgal

\* Log matching, for every cluster, whatever is lost, late, repeated or
\* restarted: the consistency check and the merge of recevoir_append_entries
\* keep equal terms at equal indexes behind equal logs.
THEOREM LogMatchingCorrect == Spec => []LogMatching
<1>1. Init => TypeOK /\ ElectionInv /\ HistoireLog
  BY TypeInit, ElectionInit, HistoireLogInit
<1>2. TypeOK /\ ElectionInv /\ HistoireLog /\ [Next]_vars
        => (TypeOK /\ ElectionInv /\ HistoireLog)'
  BY TypeNext, ElectionNext, HistoireLogNext
<1>3. TypeOK /\ ElectionInv /\ HistoireLog => LogMatching
  BY HistoireLogMatching
<1> QED
  BY <1>1, <1>2, <1>3, PTL DEF Spec

(***************************************************************************)
(* Part 3.  Commits.                                                       *)
(***************************************************************************)
-----------------------------------------------------------------------------
Demandes == {m \in msgs : m.type = "RequestVote"}
Succes   == {m \in msgs : m.type = "ReponseAppend" /\ m.succes}

Contient(l, T, k) == k <= Len(l) /\ l[k].term = T

\* q is known to hold, in its own log or by an answer, the entry of term T at
\* index k.
Acquitte(q, T, k, J, M) ==
    /\ k \in 1..Len(J[T])
    /\ J[T][k].term = T
    /\ \/ M[T] = q
       \/ \E r \in Succes : r.src = q /\ r.pour = T /\ k <= r.prev + r.nb

\* A leader of a term after T, up to t, has no entry of term T at index k.
Perdu(T, k, t, J, M) == \E U \in T+1..t : /\ M[U] # Personne
                                          /\ ~Contient(J[U], T, k)

Valide(T, k, J, M) ==
    \E Q \in SUBSET Noeuds : /\ EstQuorum(Q)
                             /\ \A q \in Q : Acquitte(q, T, k, J, M)

ReponsesInv(J, M) ==
    \A r \in Succes : /\ M[r.pour] = r.dst
                      /\ r.pour <= current_term[r.src]
                      /\ r.prev + r.nb <= Len(J[r.pour])

AcquitInv(J, M) ==
    \A q \in Noeuds, T \in Nat, k \in Nat : Acquitte(q, T, k, J, M) =>
        \/ Contient(log[q], T, k)
        \/ Perdu(T, k, current_term[q], J, M)

\* A candidate asks for votes with the log it will lead with.
DemandesInv ==
    /\ \A s \in scrutins : s[2] <= current_term[s[1]]
    /\ \A b \in Bulletins : b.pour <= current_term[b.dst]
    /\ \A m \in Demandes :
         /\ m.term <= current_term[m.src]
         /\ m.term = current_term[m.src] /\ role[m.src] = "CANDIDATE" =>
              /\ m.last_log_index = Len(log[m.src])
              /\ m.last_log_term = DernierTerm(log[m.src])

\* l holds every entry that q acknowledged in a term before U, or that entry
\* was already lost by a leader before U.
Reprise(l, q, U, J, M) ==
    \A T \in Nat, k \in Nat : T < U /\ Acquitte(q, T, k, J, M) =>
        \/ Contient(l, T, k)
        \/ Perdu(T, k, U - 1, J, M)

\* Who has voted for the candidate of an open election acknowledged nothing
\* the candidate misses.
Sincere(b, J, M) ==
    /\ M[b.pour] = Personne
    /\ role[b.dst] = "CANDIDATE"
    /\ current_term[b.dst] = b.pour
    => Reprise(log[b.dst], b.src, b.pour, J, M)

ScrutinsInv(J, M) == \A b \in Bulletins : Sincere(b, J, M)

\* The same of a leader and the quorum that elected it.
Repris(U, J, M) ==
    \E Q \in SUBSET Noeuds :
       /\ EstQuorum(Q)
       /\ \A q \in Q : U <= current_term[q] /\ Reprise(J[U], q, U, J, M)

MeneursInv(J, M) == \A U \in Nat : M[U] # Personne => Repris(U, J, M)

SuiviInv ==
    \A n \in Noeuds : role[n] = "LEADER" =>
        \A d \in Autres(n) : match_index[n][d] > 0 =>
            \E r \in Succes : /\ r.src = d
                              /\ r.pour = current_term[n]
                              /\ r.prev + r.nb = match_index[n][d]

\* The first c entries of l are, up to their last one, the entries a quorum
\* acknowledged in some term up to t.
Acquis(l, c, t, J, M) ==
    c > 0 => \E T \in Nat, k \in Nat : /\ T <= t
                                       /\ c <= k
                                       /\ Valide(T, k, J, M)
                                       /\ Commun(l, J[T], c)

AppelInv(m, J, M) ==
    /\ ~AuDela(m) => m.leader_commit <= m.prev_log_index + Len(m.entries)
    /\ Acquis(J[m.term], m.leader_commit, m.term, J, M)

CommitInv(J, M) ==
    /\ \A n \in Noeuds : Acquis(log[n], commit_index[n], current_term[n], J, M)
    /\ \A m \in Appels : AppelInv(m, J, M)

Durable(J, M) == /\ LogInv(J, M)
                 /\ ReponsesInv(J, M)
                 /\ AcquitInv(J, M)
                 /\ DemandesInv
                 /\ ScrutinsInv(J, M)
                 /\ MeneursInv(J, M)
                 /\ SuiviInv
                 /\ CommitInv(J, M)

-----------------------------------------------------------------------------
\* How history goes on: journals of elected leaders keep what they hold and
\* only get entries of their own term.
Suit(J, M, K, N) ==
    \A T \in Nat :
        /\ Commun(J[T], K[T], Len(J[T]))
        /\ M[T] # Personne =>
             /\ N[T] = M[T]
             /\ \A i \in 1..Len(K[T]) : i > Len(J[T]) => K[T][i].term = T

LEMMA SuitMeme ==
    ASSUME NEW J \in Journaux, NEW M \in Meneurs
    PROVE  Suit(J, M, J, M)
<1> SUFFICES ASSUME NEW T \in Nat
             PROVE  /\ Commun(J[T], J[T], Len(J[T]))
                    /\ \A i \in 1..Len(J[T]) : ~(i > Len(J[T]))
  BY DEF Suit
<1>1. J[T] \in Seq(Entrees)
  BY TypeJournal
<1> QED
  BY <1>1 DEF Commun

\* An entry lost stays lost.
LEMMA PerduSuit ==
    ASSUME NEW J \in Journaux, NEW K \in Journaux, NEW M \in Meneurs,
           NEW N \in Meneurs, Suit(J, M, K, N), NEW T \in Nat,
           NEW k \in Nat \ {0}, NEW t \in Int, NEW u \in Int, t <= u,
           Perdu(T, k, t, J, M)
    PROVE  Perdu(T, k, u, K, N)
<1>1. PICK U \in T+1..t : M[U] # Personne /\ ~Contient(J[U], T, k)
  BY DEF Perdu
<1>2. /\ U \in Nat /\ U \in T+1..u /\ U > T
      /\ J[U] \in Seq(Entrees) /\ K[U] \in Seq(Entrees)
      /\ Len(J[U]) \in Nat /\ Len(K[U]) \in Nat
  BY TypeJournal
<1>3. N[U] # Personne
  BY <1>1, <1>2 DEF Suit
<1>4. ASSUME Contient(K[U], T, k) PROVE FALSE
  <2>1. k \in 1..Len(K[U]) /\ K[U][k].term = T
    BY <1>2, <1>4 DEF Contient
  <2>2. CASE k > Len(J[U])
    <3>1. K[U][k].term = U
      BY <1>1, <1>2, <2>1, <2>2 DEF Suit
    <3> QED
      BY <1>2, <2>1, <3>1
  <2>3. CASE k <= Len(J[U])
    <3>1. Commun(J[U], K[U], Len(J[U])) /\ k \in 1..Len(J[U])
      BY <1>2, <2>1, <2>3 DEF Suit
    <3>2. J[U][k] = K[U][k]
      BY <3>1 DEF Commun
    <3> QED
      BY <1>1, <2>1, <2>3, <3>2 DEF Contient
  <2> QED
    BY <1>2, <2>2, <2>3
<1> QED
  BY <1>2, <1>3, <1>4 DEF Perdu

\* What an acknowledgement says of its term.
LEMMA AcquitteTerme ==
    ASSUME TypeOK, NEW J \in Journaux, NEW M \in Meneurs, LogInv(J, M),
           ReponsesInv(J, M), NEW q \in Noeuds, NEW T \in Nat, NEW k \in Nat,
           Acquitte(q, T, k, J, M)
    PROVE  /\ k \in Nat \ {0}
           /\ M[T] # Personne
           /\ T <= current_term[q]
           /\ Contient(J[T], T, k)
<1>1. k \in 1..Len(J[T]) /\ J[T] \in Seq(Entrees) /\ J[T][k].term = T
  BY TypeJournal DEF Acquitte
<1>2. J[T] # <<>>
  BY <1>1
<1>3. M[T] # Personne
  BY <1>2 DEF LogInv, JournauxInv
<1>4. T <= current_term[q]
  <2>1. CASE M[T] = q
    BY <1>3, <2>1 DEF LogInv, ElusInv, Elu
  <2>2. CASE \E r \in Succes : r.src = q /\ r.pour = T /\ k <= r.prev + r.nb
    BY <2>2 DEF ReponsesInv
  <2> QED
    BY <2>1, <2>2 DEF Acquitte
<1> QED
  BY <1>1, <1>3, <1>4 DEF Contient

LEMMA ContientCommun ==
    ASSUME NEW J \in Journaux, NEW l \in Seq(Entrees), NEW t \in Nat,
           Conforme(l, J, t), NEW T \in Nat, NEW k \in Nat \ {0},
           Contient(l, T, k)
    PROVE  Commun(l, J[T], k)
BY DEF Contient, Conforme

LEMMA CommunContient ==
    ASSUME NEW l \in Seq(Entrees), NEW g \in Seq(Entrees), NEW T \in Nat,
           NEW k \in Nat \ {0}, Commun(l, g, k), Contient(g, T, k)
    PROVE  Contient(l, T, k)
BY DEF Contient, Commun

\* Acknowledgements stay.
LEMMA AcquitteSuit ==
    ASSUME TypeOK, NEW J \in Journaux, NEW M \in Meneurs, LogInv(J, M),
           ReponsesInv(J, M), msgs \subseteq msgs',
           NEW K \in Journaux, NEW N \in Meneurs, Suit(J, M, K, N),
           NEW q \in Noeuds, NEW T \in Nat, NEW k \in Nat,
           Acquitte(q, T, k, J, M)
    PROVE  Acquitte(q, T, k, K, N)'
<1>1. M[T] # Personne
  BY AcquitteTerme
<1>2. /\ Commun(J[T], K[T], Len(J[T])) /\ N[T] = M[T]
      /\ J[T] \in Seq(Entrees) /\ K[T] \in Seq(Entrees)
  BY <1>1, TypeJournal DEF Suit
<1>3. k \in 1..Len(J[T]) /\ J[T][k].term = T
  BY DEF Acquitte
<1>4. k \in 1..Len(K[T]) /\ K[T][k].term = T
  BY <1>2, <1>3 DEF Commun
<1>5. Succes \subseteq Succes'
  BY DEF Succes
<1> QED
  BY <1>2, <1>4, <1>5 DEF Acquitte

LEMMA ValideSuit ==
    ASSUME TypeOK, NEW J \in Journaux, NEW M \in Meneurs, LogInv(J, M),
           ReponsesInv(J, M), msgs \subseteq msgs',
           NEW K \in Journaux, NEW N \in Meneurs, Suit(J, M, K, N),
           NEW T \in Nat, NEW k \in Nat, Valide(T, k, J, M)
    PROVE  Valide(T, k, K, N)'
<1>1. PICK Q \in SUBSET Noeuds :
         EstQuorum(Q) /\ \A q \in Q : Acquitte(q, T, k, J, M)
  BY DEF Valide
<1>2. \A q \in Q : Acquitte(q, T, k, K, N)'
  BY <1>1, AcquitteSuit
<1> QED
  BY <1>1, <1>2 DEF Valide, EstQuorum

LEMMA AcquisSuit ==
    ASSUME TypeOK, NEW J \in Journaux, NEW M \in Meneurs, LogInv(J, M),
           ReponsesInv(J, M), msgs \subseteq msgs',
           NEW K \in Journaux, NEW N \in Meneurs, Suit(J, M, K, N),
           NEW l \in Seq(Entrees), NEW g \in Seq(Entrees), NEW c \in Nat,
           NEW t \in Nat, NEW u \in Nat, t <= u,
           Acquis(l, c, t, J, M), Commun(g, l, c) \/ c = 0
    PROVE  Acquis(g, c, u, K, N)'
<1> SUFFICES ASSUME c > 0
             PROVE  \E T \in Nat, k \in Nat : /\ T <= u
                                              /\ c <= k
                                              /\ Valide(T, k, K, N)'
                                              /\ Commun(g, K[T], c)
  BY DEF Acquis, Commun
<1>1. PICK T \in Nat, k \in Nat : /\ T <= t
                                  /\ c <= k
                                  /\ Valide(T, k, J, M)
                                  /\ Commun(l, J[T], c)
  BY DEF Acquis
<1>2. /\ Commun(J[T], K[T], Len(J[T])) /\ c <= Len(J[T])
      /\ J[T] \in Seq(Entrees) /\ K[T] \in Seq(Entrees)
  BY <1>1, TypeJournal DEF Suit, Commun
<1>3. Commun(J[T], K[T], c)
  BY <1>2, CommunReduit
<1>4. Commun(g, J[T], c)
  BY <1>1, <1>2, CommunTransitif
<1>5. Commun(g, K[T], c)
  BY <1>2, <1>3, <1>4, CommunTransitif
<1>6. Valide(T, k, K, N)'
  BY <1>1, ValideSuit
<1> QED
  BY <1>1, <1>5, <1>6

\* A term without a leader loses nothing.
LEMMA PerduLibre ==
    ASSUME NEW J \in Journaux, NEW M \in Meneurs, NEW T \in Nat,
           NEW k \in Nat, NEW t \in Nat, NEW U \in Nat, t <= U,
           M[U] = Personne, Perdu(T, k, t, J, M)
    PROVE  Perdu(T, k, U - 1, J, M)
<1>1. PICK V \in T+1..t : M[V] # Personne /\ ~Contient(J[V], T, k)
  BY DEF Perdu
<1>2. V # U /\ V \in T+1..U-1
  BY <1>1
<1> QED
  BY <1>1, <1>2 DEF Perdu

-----------------------------------------------------------------------------
\* The parts of the invariant over any step, from what it adds.

LEMMA ReponsesSuite ==
    ASSUME TypeOK, TypeOK', Avance,
           NEW J \in Journaux, NEW M \in Meneurs, ReponsesInv(J, M),
           NEW K \in Journaux, NEW N \in Meneurs, Suit(J, M, K, N),
           \A r \in Succes' : \/ r \in Succes
                              \/ /\ N[r.pour] = r.dst
                                 /\ r.pour <= current_term'[r.src]
                                 /\ r.prev + r.nb <= Len(K[r.pour])
    PROVE  ReponsesInv(K, N)'
<1> SUFFICES ASSUME NEW r \in Succes'
             PROVE  /\ N[r.pour] = r.dst
                    /\ r.pour <= current_term'[r.src]
                    /\ r.prev + r.nb <= Len(K[r.pour])
  BY DEF ReponsesInv
<1>1. CASE r \in Succes
  <2>1. /\ r.src \in Noeuds /\ r.dst \in Noeuds /\ r.pour \in Nat
        /\ r.prev \in Nat /\ r.nb \in Nat
    BY <1>1, ChampsReponseAppend DEF Succes
  <2>2. /\ M[r.pour] = r.dst /\ M[r.pour] # Personne
        /\ r.pour <= current_term[r.src]
        /\ r.prev + r.nb <= Len(J[r.pour])
    BY <1>1, <2>1, RaftAssumption DEF ReponsesInv
  <2>3. /\ current_term[r.src] \in Nat /\ current_term'[r.src] \in Nat
        /\ current_term[r.src] <= current_term'[r.src]
    BY <2>1 DEF TypeOK, Avance
  <2>4. /\ J[r.pour] \in Seq(Entrees) /\ K[r.pour] \in Seq(Entrees)
        /\ Len(J[r.pour]) <= Len(K[r.pour]) /\ N[r.pour] = M[r.pour]
    BY <2>1, <2>2, TypeJournal DEF Suit, Commun
  <2>5. Len(J[r.pour]) \in Nat /\ Len(K[r.pour]) \in Nat
    BY <2>4
  <2> QED
    BY <2>1, <2>2, <2>3, <2>4, <2>5
<1> QED
  BY <1>1

\* Nothing new is acknowledged but what the acknowledger's log holds in its
\* term, and what was acknowledged leaves a log only if it was lost.
LEMMA AcquitSuite ==
    ASSUME TypeOK, TypeOK', Avance,
           NEW J \in Journaux, NEW M \in Meneurs, LogInv(J, M),
           ReponsesInv(J, M), AcquitInv(J, M),
           NEW K \in Journaux, NEW N \in Meneurs, Suit(J, M, K, N),
           \A q \in Noeuds, T \in Nat, k \in Nat : Acquitte(q, T, k, K, N)' =>
               \/ Acquitte(q, T, k, J, M)
               \/ Contient(log'[q], T, k),
           \A q \in Noeuds, T \in Nat, k \in Nat :
               Acquitte(q, T, k, J, M) /\ Contient(log[q], T, k) =>
                   \/ Contient(log'[q], T, k)
                   \/ Perdu(T, k, current_term'[q], K, N)
    PROVE  AcquitInv(K, N)'
<1> SUFFICES ASSUME NEW q \in Noeuds, NEW T \in Nat, NEW k \in Nat,
                    Acquitte(q, T, k, J, M)
             PROVE  \/ Contient(log'[q], T, k)
                    \/ Perdu(T, k, current_term'[q], K, N)
  BY DEF AcquitInv, Contient, Perdu
<1>1. CASE Contient(log[q], T, k)
  BY <1>1
<1>2. CASE Perdu(T, k, current_term[q], J, M)
  <2>1. /\ current_term[q] \in Nat /\ current_term'[q] \in Nat
        /\ current_term[q] <= current_term'[q]
    BY DEF TypeOK, Avance
  <2>2. k \in Nat \ {0}
    BY AcquitteTerme
  <2> QED
    BY <1>2, <2>1, <2>2, PerduSuit
<1> QED
  BY <1>1, <1>2 DEF AcquitInv

LEMMA RepriseSuite ==
    ASSUME TypeOK, NEW J \in Journaux, NEW M \in Meneurs, LogInv(J, M),
           ReponsesInv(J, M),
           NEW K \in Journaux, NEW N \in Meneurs, Suit(J, M, K, N),
           NEW q \in Noeuds, NEW U \in Nat, NEW l \in Seq(Entrees),
           NEW g \in Seq(Entrees), Commun(l, g, Len(l)),
           Reprise(l, q, U, J, M),
           \A T \in Nat, k \in Nat : T < U /\ Acquitte(q, T, k, K, N)' =>
               Acquitte(q, T, k, J, M)
    PROVE  Reprise(g, q, U, K, N)'
<1> SUFFICES ASSUME NEW T \in Nat, NEW k \in Nat, T < U,
                    Acquitte(q, T, k, J, M)
             PROVE  Contient(g, T, k) \/ Perdu(T, k, U - 1, K, N)
  BY DEF Reprise, Contient, Perdu
<1>1. k \in Nat \ {0}
  BY AcquitteTerme
<1>2. CASE Contient(l, T, k)
  <2>1. k \in 1..Len(l) /\ l[k].term = T
    BY <1>1, <1>2 DEF Contient
  <2> QED
    BY <2>1 DEF Commun, Contient
<1>3. CASE Perdu(T, k, U - 1, J, M)
  BY <1>1, <1>3, PerduSuit
<1> QED
  BY <1>2, <1>3 DEF Reprise

LEMMA MeneursSuite ==
    ASSUME TypeOK, TypeOK', Avance,
           NEW J \in Journaux, NEW M \in Meneurs, LogInv(J, M),
           ReponsesInv(J, M), MeneursInv(J, M),
           NEW K \in Journaux, NEW N \in Meneurs, Suit(J, M, K, N),
           \A q \in Noeuds, T \in Nat, k \in Nat : Acquitte(q, T, k, K, N)' =>
               Acquitte(q, T, k, J, M) \/ T = current_term'[q],
           NEW U \in Nat, M[U] # Personne
    PROVE  Repris(U, K, N)'
<1>1. PICK Q \in SUBSET Noeuds :
         /\ EstQuorum(Q)
         /\ \A q \in Q : U <= current_term[q] /\ Reprise(J[U], q, U, J, M)
  BY DEF MeneursInv, Repris
<1>2. ASSUME NEW q \in Q
      PROVE  U <= current_term'[q] /\ Reprise(K[U], q, U, K, N)'
  <2>1. /\ current_term[q] \in Nat /\ current_term'[q] \in Nat
        /\ current_term[q] <= current_term'[q]
        /\ U <= current_term[q]
    BY <1>1 DEF TypeOK, Avance
  <2>2. U <= current_term'[q]
    BY <2>1
  <2>3. /\ J[U] \in Seq(Entrees) /\ K[U] \in Seq(Entrees)
        /\ Commun(J[U], K[U], Len(J[U]))
    BY TypeJournal DEF Suit
  <2>4. \A T \in Nat, k \in Nat : T < U /\ Acquitte(q, T, k, K, N)' =>
            Acquitte(q, T, k, J, M)
    BY <2>1, <2>2
  <2>5. q \in Noeuds /\ Reprise(J[U], q, U, J, M)
    BY <1>1
  <2>6. PICK g \in Seq(Entrees) : g = K[U]
    BY <2>3
  <2>7. Reprise(g, q, U, K, N)'
    BY <2>3, <2>4, <2>5, <2>6, RepriseSuite
  <2>8. Reprise(K[U], q, U, K, N)'
    BY <2>6, <2>7 DEF Reprise, Contient
  <2> QED
    BY <2>2, <2>8
<1>3. EstQuorum(Q)'
  BY <1>1 DEF EstQuorum
<1> QED
  BY <1>2, <1>3 DEF Repris

LEMMA SincereSuite ==
    ASSUME TypeOK, TypeOK', ElectionInv', Avance,
           NEW J \in Journaux, NEW M \in Meneurs, LogInv(J, M),
           ReponsesInv(J, M), ScrutinsInv(J, M), DemandesInv,
           NEW K \in Journaux, NEW N \in Meneurs, Suit(J, M, K, N),
           \A q \in Noeuds, T \in Nat, k \in Nat : Acquitte(q, T, k, K, N)' =>
               Acquitte(q, T, k, J, M) \/ T = current_term'[q],
           \A n \in Noeuds : /\ role'[n] = "CANDIDATE"
                             /\ current_term'[n] = current_term[n]
                             => log'[n] = log[n],
           NEW b \in Bulletins
    PROVE  Sincere(b, K, N)'
<1> DEFINE n == b.dst
           q == b.src
           U == b.pour
<1>1. b \in msgs /\ b.type = "ReponseVote"
  BY DEF Bulletins
<1>2. n \in Noeuds /\ q \in Noeuds /\ U \in Nat /\ b \in Bulletins'
  BY <1>1, ChampsReponseVote DEF Avance, Bulletins
<1> SUFFICES ASSUME N[U] = Personne, role'[n] = "CANDIDATE",
                    current_term'[n] = U
             PROVE  Reprise(log[n], q, U, K, N)'
  BY DEF Sincere, Reprise, Contient, Perdu
<1>3. current_term[n] = U /\ role[n] = "CANDIDATE"
  <2>1. /\ current_term[n] \in Nat /\ current_term[n] <= current_term'[n]
        /\ U <= current_term[n]
    BY <1>2 DEF TypeOK, Avance, DemandesInv
  <2> QED
    BY <1>2, <2>1 DEF Avance
<1>4. log'[n] = log[n] /\ log[n] \in Seq(Entrees)
  BY <1>2, <1>3 DEF TypeOK
<1>5. M[U] = Personne
  BY <1>2 DEF Suit
<1>6. Reprise(log[n], q, U, J, M)
  BY <1>3, <1>5 DEF ScrutinsInv, Sincere
<1>7. U <= current_term'[q] /\ current_term'[q] \in Nat
  BY <1>2 DEF ElectionInv, VotesTenus, TypeOK
<1>8. \A T \in Nat, k \in Nat : T < U /\ Acquitte(q, T, k, K, N)' =>
          Acquitte(q, T, k, J, M)
  BY <1>2, <1>7
<1>9. PICK l \in Seq(Entrees) : l = log[n] /\ Commun(l, l, Len(l))
  BY <1>4 DEF Commun
<1>10. Reprise(l, q, U, K, N)'
  BY <1>2, <1>6, <1>8, <1>9, RepriseSuite
<1> QED
  BY <1>4, <1>9, <1>10 DEF Reprise, Contient, Perdu

LEMMA DemandesSuite ==
    ASSUME TypeOK, TypeOK', Avance, DemandesInv,
           \A s \in scrutins' : s \in scrutins \/ s[2] <= current_term'[s[1]],
           \A b \in Bulletins' : \/ b \in Bulletins
                                 \/ b.pour <= current_term'[b.dst],
           \A m \in Demandes' : \/ m \in Demandes
                                \/ /\ m.term <= current_term'[m.src]
                                   /\ m.last_log_index = Len(log'[m.src])
                                   /\ m.last_log_term = DernierTerm(log'[m.src]),
           \A n \in Noeuds : /\ role'[n] = "CANDIDATE"
                             /\ current_term'[n] = current_term[n]
                             => log'[n] = log[n]
    PROVE  DemandesInv'
<1>1. \A n \in Noeuds : /\ current_term[n] \in Nat /\ current_term'[n] \in Nat
                        /\ current_term[n] <= current_term'[n]
  BY DEF TypeOK, Avance
<1>2. ASSUME NEW s \in scrutins' PROVE s[2] <= current_term'[s[1]]
  <2>1. CASE s \in scrutins
    <3>1. s[1] \in Noeuds /\ s[2] \in Nat
      BY <2>1 DEF TypeOK
    <3>2. s[2] <= current_term[s[1]]
      BY <2>1 DEF DemandesInv
    <3> QED
      BY <1>1, <3>1, <3>2
  <2> QED
    BY <2>1
<1>3. ASSUME NEW b \in Bulletins' PROVE b.pour <= current_term'[b.dst]
  <2>1. CASE b \in Bulletins
    <3>1. b.dst \in Noeuds /\ b.pour \in Nat
      BY <2>1, ChampsReponseVote DEF Bulletins
    <3>2. b.pour <= current_term[b.dst]
      BY <2>1 DEF DemandesInv
    <3> QED
      BY <1>1, <3>1, <3>2
  <2> QED
    BY <2>1
<1>4. ASSUME NEW m \in Demandes'
      PROVE  /\ m.term <= current_term'[m.src]
             /\ m.term = current_term'[m.src] /\ role'[m.src] = "CANDIDATE" =>
                  /\ m.last_log_index = Len(log'[m.src])
                  /\ m.last_log_term = DernierTerm(log'[m.src])
  <2>1. CASE m \in Demandes
    <3>1. m.src \in Noeuds /\ m.term \in Nat
      BY <2>1, ChampsRequestVote DEF Demandes
    <3>2. m.term <= current_term[m.src]
      BY <2>1 DEF DemandesInv
    <3>3. m.term <= current_term'[m.src]
      BY <1>1, <3>1, <3>2
    <3>4. ASSUME m.term = current_term'[m.src], role'[m.src] = "CANDIDATE"
          PROVE  /\ m.last_log_index = Len(log'[m.src])
                 /\ m.last_log_term = DernierTerm(log'[m.src])
      <4>1. current_term'[m.src] = current_term[m.src]
        BY <1>1, <3>1, <3>2, <3>4
      <4>2. log'[m.src] = log[m.src] /\ role[m.src] = "CANDIDATE"
        BY <3>1, <3>4, <4>1 DEF Avance
      <4> QED
        BY <2>1, <3>4, <4>1, <4>2 DEF DemandesInv
    <3> QED
      BY <3>3, <3>4
  <2> QED
    BY <2>1
<1> QED
  BY <1>2, <1>3, <1>4 DEF DemandesInv

LEMMA SuiviSuite ==
    ASSUME Avance, SuiviInv,
           \A n \in Noeuds : role'[n] = "LEADER" =>
               /\ role[n] = "LEADER"
               /\ current_term'[n] = current_term[n]
               /\ match_index'[n] = match_index[n]
    PROVE  SuiviInv'
<1>1. Succes \subseteq Succes'
  BY DEF Avance, Succes
<1> QED
  BY <1>1 DEF SuiviInv, Autres

\* Committed entries.
LEMMA AppelSuite ==
    ASSUME TypeOK, NEW J \in Journaux, NEW M \in Meneurs, LogInv(J, M),
           ReponsesInv(J, M), CommitInv(J, M), msgs \subseteq msgs',
           NEW K \in Journaux, NEW N \in Meneurs, Suit(J, M, K, N),
           NEW m \in Appels
    PROVE  AppelInv(m, K, N)'
<1>1. m.term \in Nat /\ m.leader_commit \in Nat
  BY ChampsAppendEntries DEF Appels
<1>2. PICK t \in Nat, c \in Nat : t = m.term /\ c = m.leader_commit
  BY <1>1
<1>3. PICK l \in Seq(Entrees), g \in Seq(Entrees) : l = J[t] /\ g = K[t]
  BY <1>2, TypeJournal
<1>4. AppelInv(m, J, M)
  BY DEF CommitInv
<1>5. Acquis(l, c, t, J, M)
  BY <1>2, <1>3, <1>4 DEF AppelInv
<1>6. Commun(g, l, c) \/ c = 0
  <2> SUFFICES ASSUME c > 0 PROVE Commun(g, l, c)
    OBVIOUS
  <2>1. c <= Len(l)
    BY <1>5 DEF Acquis, Commun
  <2>2. Commun(l, g, Len(l))
    BY <1>3 DEF Suit
  <2> QED
    BY <2>1, <2>2 DEF Commun
<1>7. Acquis(g, c, t, K, N)'
  BY <1>5, <1>6, AcquisSuit
<1> QED
  BY <1>2, <1>3, <1>4, <1>7 DEF AppelInv, AuDela, Acquis, Commun

LEMMA NoeudSuite ==
    ASSUME TypeOK, TypeOK', Avance,
           NEW J \in Journaux, NEW M \in Meneurs, LogInv(J, M),
           ReponsesInv(J, M), CommitInv(J, M),
           NEW K \in Journaux, NEW N \in Meneurs, Suit(J, M, K, N),
           NEW n \in Noeuds, commit_index'[n] = commit_index[n],
           Commun(log'[n], log[n], commit_index[n])
    PROVE  Acquis(log[n], commit_index[n], current_term[n], K, N)'
<1>1. /\ log[n] \in Seq(Entrees) /\ log'[n] \in Seq(Entrees)
      /\ commit_index[n] \in Nat /\ current_term[n] \in Nat
      /\ current_term'[n] \in Nat /\ current_term[n] <= current_term'[n]
  BY DEF TypeOK, Avance
<1>2. PICK l \in Seq(Entrees), g \in Seq(Entrees), c \in Nat, t \in Nat,
           u \in Nat : /\ l = log[n] /\ g = log'[n] /\ c = commit_index[n]
                       /\ t = current_term[n] /\ u = current_term'[n]
  BY <1>1
<1>3. Acquis(l, c, t, J, M)
  BY <1>2 DEF CommitInv
<1>4. Commun(g, l, c) /\ t <= u
  BY <1>1, <1>2
<1>5. Acquis(g, c, u, K, N)'
  BY <1>3, <1>4, AcquisSuit DEF Avance
<1> QED
  BY <1>2, <1>5 DEF Acquis, Commun

\* A node's applied entries are in its log.
LEMMA AppliquesPresents ==
    ASSUME TypeOK, NEW J \in Journaux, NEW M \in Meneurs, CommitInv(J, M),
           NEW n \in Noeuds
    PROVE  /\ log[n] \in Seq(Entrees) /\ commit_index[n] \in Nat
           /\ commit_index[n] <= Len(log[n])
           /\ Commun(log[n], log[n], commit_index[n])
<1>1. log[n] \in Seq(Entrees) /\ commit_index[n] \in Nat
  BY DEF TypeOK
<1>2. Acquis(log[n], commit_index[n], current_term[n], J, M)
  BY DEF CommitInv
<1>3. commit_index[n] <= Len(log[n])
  BY <1>1, <1>2 DEF Acquis, Commun
<1> QED
  BY <1>1, <1>3 DEF Commun

-----------------------------------------------------------------------------
LEMMA PlusPetit ==
    ASSUME NEW S \in SUBSET Nat, S # {}
    PROVE  \E x \in S : \A y \in S : x <= y
<1>1. PICK x \in S : \A y \in S : ~(<<y, x>> \in OpToRel(<, Nat))
  BY NatLessThanWellFounded, WFMin
<1>2. \A y \in S : ~(y < x)
  BY <1>1 DEF OpToRel
<1> QED
  BY <1>2

\* Every leader of a later term has the entries a quorum acknowledged: the
\* first one that had not would have been elected by a node that acknowledged
\* them to begin with.
LEMMA ChefComplet ==
    ASSUME TypeOK, NEW J \in Journaux, NEW M \in Meneurs, LogInv(J, M),
           ReponsesInv(J, M), MeneursInv(J, M),
           NEW T \in Nat, NEW k \in Nat, NEW U \in Nat, Valide(T, k, J, M),
           T < U, M[U] # Personne
    PROVE  Contient(J[U], T, k)
<1> DEFINE S == {V \in Nat : /\ T < V
                             /\ M[V] # Personne
                             /\ ~Contient(J[V], T, k)}
<1> SUFFICES ASSUME S # {} PROVE FALSE
  OBVIOUS
<1>1. PICK V \in S : \A W \in S : V <= W
  BY PlusPetit
<1>2. PICK P \in SUBSET Noeuds :
         EstQuorum(P) /\ \A q \in P : Acquitte(q, T, k, J, M)
  BY DEF Valide
<1>3. PICK Q \in SUBSET Noeuds :
         EstQuorum(Q) /\ \A q \in Q : Reprise(J[V], q, V, J, M)
  BY <1>1 DEF MeneursInv, Repris
<1>4. PICK q \in Noeuds : q \in P /\ q \in Q
  BY <1>2, <1>3, QuorumsSeCroisent
<1>5. Perdu(T, k, V - 1, J, M)
  BY <1>1, <1>2, <1>3, <1>4 DEF Reprise
<1>6. PICK W \in T+1..V-1 : M[W] # Personne /\ ~Contient(J[W], T, k)
  BY <1>5 DEF Perdu
<1>7. W \in S /\ W < V /\ V \in Nat /\ W \in Nat
  BY <1>6
<1> QED
  BY <1>1, <1>7

\* Who acknowledged a committed entry has a term with a leader.
LEMMA ValideMeneur ==
    ASSUME TypeOK, NEW J \in Journaux, NEW M \in Meneurs, LogInv(J, M),
           ReponsesInv(J, M), NEW T \in Nat, NEW k \in Nat, Valide(T, k, J, M)
    PROVE  M[T] # Personne /\ Contient(J[T], T, k) /\ k > 0
<1>1. PICK P \in SUBSET Noeuds :
         EstQuorum(P) /\ \A q \in P : Acquitte(q, T, k, J, M)
  BY DEF Valide
<1>2. PICK q \in Noeuds : q \in P
  BY <1>1, QuorumsSeCroisent
<1>3. Acquitte(q, T, k, J, M)
  BY <1>1, <1>2
<1> QED
  BY <1>3, AcquitteTerme

\* What was committed in term T is, up to there, in the journal of any term
\* from T on that has a leader.
LEMMA AcquisTransmis ==
    ASSUME TypeOK, NEW J \in Journaux, NEW M \in Meneurs, LogInv(J, M),
           ReponsesInv(J, M), MeneursInv(J, M),
           NEW T \in Nat, NEW k \in Nat, NEW U \in Nat, Valide(T, k, J, M),
           T <= U, M[U] # Personne
    PROVE  Commun(J[U], J[T], k)
<1>1. k > 0 /\ Contient(J[T], T, k)
  BY ValideMeneur
<1>2. J[T] \in Seq(Entrees) /\ J[U] \in Seq(Entrees)
  BY TypeJournal
<1>3. CASE T = U
  BY <1>1, <1>2, <1>3 DEF Commun, Contient
<1>4. CASE T < U
  <2>1. Contient(J[U], T, k)
    BY <1>4, ChefComplet
  <2> QED
    BY <1>1, <1>2, <2>1, ContientCommun DEF LogInv, JournauxInv
<1> QED
  BY <1>3, <1>4

-----------------------------------------------------------------------------
\* No step takes back what a node applied.
Protege ==
    \A n \in Noeuds : /\ commit_index[n] <= commit_index'[n]
                      /\ Commun(log[n], log'[n], commit_index[n])

\* The steps that leave the logs alone and acknowledge nothing.
LEMMA DurableCalme ==
    ASSUME TypeOK, TypeOK', ElectionInv', Avance,
           NEW J \in Journaux, NEW M \in Meneurs, Durable(J, M),
           UNCHANGED log, Succes' = Succes
    PROVE  /\ ReponsesInv(J, M)'
           /\ AcquitInv(J, M)'
           /\ MeneursInv(J, M)'
           /\ \A b \in Bulletins : Sincere(b, J, M)'
           /\ \A m \in Appels : AppelInv(m, J, M)'
           /\ \A n \in Noeuds : commit_index'[n] = commit_index[n] =>
                Acquis(log[n], commit_index[n], current_term[n], J, M)'
           /\ UNCHANGED commit_index => Protege
<1>1. Suit(J, M, J, M)
  BY SuitMeme
<1>2. /\ LogInv(J, M) /\ ReponsesInv(J, M) /\ AcquitInv(J, M)
      /\ MeneursInv(J, M) /\ ScrutinsInv(J, M) /\ DemandesInv
      /\ CommitInv(J, M) /\ msgs \subseteq msgs'
  BY DEF Durable, Avance
<1>3. \A q \in Noeuds, T \in Nat, k \in Nat :
        Acquitte(q, T, k, J, M)' => Acquitte(q, T, k, J, M)
  BY DEF Acquitte
<1>4. ReponsesInv(J, M)'
  BY <1>1, <1>2, ReponsesSuite
<1>5. AcquitInv(J, M)'
  <2>1. \A q \in Noeuds, T \in Nat, k \in Nat : Acquitte(q, T, k, J, M)' =>
            Acquitte(q, T, k, J, M) \/ Contient(log'[q], T, k)
    BY <1>3
  <2>2. \A q \in Noeuds, T \in Nat, k \in Nat :
            Acquitte(q, T, k, J, M) /\ Contient(log[q], T, k) =>
                \/ Contient(log'[q], T, k)
                \/ Perdu(T, k, current_term'[q], J, M)
    OBVIOUS
  <2> QED
    BY <1>1, <1>2, <2>1, <2>2, AcquitSuite
<1>6. ASSUME NEW U \in Nat, M[U] # Personne PROVE Repris(U, J, M)'
  BY <1>1, <1>2, <1>3, <1>6, MeneursSuite
<1>7. \A b \in Bulletins : Sincere(b, J, M)'
  BY <1>1, <1>2, <1>3, SincereSuite
<1>8. \A m \in Appels : AppelInv(m, J, M)'
  BY <1>1, <1>2, AppelSuite
<1>9. ASSUME NEW n \in Noeuds
      PROVE  Commun(log[n], log'[n], commit_index[n])
             /\ Commun(log'[n], log[n], commit_index[n])
  <2>1. log'[n] = log[n]
    OBVIOUS
  <2>2. Commun(log[n], log[n], commit_index[n])
    BY <1>2, AppliquesPresents
  <2> QED
    BY <2>1, <2>2
<1>10. \A n \in Noeuds : commit_index'[n] = commit_index[n] =>
         Acquis(log[n], commit_index[n], current_term[n], J, M)'
  BY <1>1, <1>2, <1>9, NoeudSuite
<1>11. UNCHANGED commit_index => Protege
  BY <1>9 DEF Protege, TypeOK
<1>12. MeneursInv(J, M)'
  BY <1>6 DEF MeneursInv
<1> QED
  BY <1>4, <1>5, <1>7, <1>8, <1>10, <1>11, <1>12

\* A step of a node that says nothing of its log.
LEMMA DurableOrdinaire ==
    ASSUME TypeOK, TypeOK', ElectionInv', Avance,
           NEW J \in Journaux, NEW M \in Meneurs, Durable(J, M), LogInv(J, M)',
           UNCHANGED <<log, commit_index>>, Appels' = Appels, Succes' = Succes,
           Bulletins' = Bulletins,
           \A s \in scrutins' : s \in scrutins \/ s[2] <= current_term'[s[1]],
           \A m \in Demandes' : \/ m \in Demandes
                                \/ /\ m.term <= current_term'[m.src]
                                   /\ m.last_log_index = Len(log'[m.src])
                                   /\ m.last_log_term = DernierTerm(log'[m.src]),
           \A n \in Noeuds : role'[n] = "LEADER" =>
               /\ role[n] = "LEADER"
               /\ current_term'[n] = current_term[n]
               /\ match_index'[n] = match_index[n]
    PROVE  Durable(J, M)' /\ Protege
<1>1. /\ ReponsesInv(J, M)' /\ AcquitInv(J, M)' /\ MeneursInv(J, M)'
      /\ \A b \in Bulletins : Sincere(b, J, M)'
      /\ \A m \in Appels : AppelInv(m, J, M)'
      /\ \A n \in Noeuds :
           Acquis(log[n], commit_index[n], current_term[n], J, M)'
      /\ Protege
  BY DurableCalme
<1>2. ScrutinsInv(J, M)'
  BY <1>1 DEF ScrutinsInv
<1>3. CommitInv(J, M)'
  BY <1>1 DEF CommitInv
<1>4. DemandesInv'
  <2>1. DemandesInv
    BY DEF Durable
  <2>2. \A b \in Bulletins' : b \in Bulletins \/ b.pour <= current_term'[b.dst]
    OBVIOUS
  <2>3. \A n \in Noeuds : /\ role'[n] = "CANDIDATE"
                          /\ current_term'[n] = current_term[n]
                          => log'[n] = log[n]
    OBVIOUS
  <2> QED
    BY <2>1, <2>2, <2>3, DemandesSuite
<1>5. SuiviInv'
  BY SuiviSuite DEF Durable
<1> QED
  BY <1>1, <1>2, <1>3, <1>4, <1>5 DEF Durable

\* A log at least as up to date as g, in the sense of recevoir_request_vote,
\* has what g holds, unless a leader in between had lost it.
LEMMA PlusAJour ==
    ASSUME NEW J \in Journaux, NEW M \in Meneurs,
           \A V \in Nat : Conforme(J[V], J, V),
           \A V \in Nat : M[V] = Personne => J[V] = <<>>,
           NEW U \in Nat, M[U] = Personne,
           NEW t \in Nat, t <= U,
           NEW l \in Seq(Entrees), Conforme(l, J, U),
           NEW g \in Seq(Entrees), Conforme(g, J, t),
           \/ DernierTerm(l) > DernierTerm(g)
           \/ DernierTerm(l) = DernierTerm(g) /\ Len(l) >= Len(g),
           NEW T \in Nat, NEW k \in Nat \ {0}, Contient(g, T, k)
    PROVE  Contient(l, T, k) \/ Perdu(T, k, U - 1, J, M)
<1>1. /\ k \in 1..Len(g) /\ g[k].term = T
      /\ Len(g) \in 1..Len(g) /\ k \in 1..Len(g)
  BY DEF Contient
<1>2. /\ g[Len(g)].term \in Nat /\ T <= g[Len(g)].term /\ T \in 1..t
      /\ Commun(g, J[T], k)
  <2>1. g[k].term <= g[Len(g)].term
    BY <1>1, ConformeCroissant
  <2> QED
    BY <1>1, <2>1, TypeEntree DEF Conforme
<1>3. g # <<>> /\ DernierTerm(g) = g[Len(g)].term
  BY <1>1 DEF DernierTerm
<1>4. l # <<>>
  BY <1>2, <1>3 DEF DernierTerm
<1>5. /\ Len(l) \in 1..Len(l) /\ Len(l) \in Nat \ {0}
      /\ DernierTerm(l) = l[Len(l)].term
  BY <1>4 DEF DernierTerm
<1>6. PICK V \in 1..U : V = l[Len(l)].term
  BY <1>5 DEF Conforme
<1>7. Commun(l, J[V], Len(l)) /\ J[V] \in Seq(Entrees) /\ V \in Nat
  BY <1>5, <1>6, TypeJournal DEF Conforme
<1>8. M[V] # Personne
  <2>1. J[V] # <<>>
    BY <1>5, <1>7 DEF Commun
  <2> QED
    BY <1>7, <2>1
<1>9. V # U /\ V \in 1..U-1
  BY <1>6, <1>8
<1>10. CASE V = T
  <2>1. k \in 1..Len(l)
    BY <1>1, <1>2, <1>3, <1>5, <1>6, <1>10
  <2>2. l[k] = J[T][k] /\ g[k] = J[T][k]
    BY <1>1, <1>2, <1>7, <1>10, <2>1 DEF Commun
  <2> QED
    BY <1>1, <2>1, <2>2 DEF Contient
<1>11. CASE V # T
  <2>1. V > T
    BY <1>2, <1>3, <1>5, <1>6, <1>7, <1>11
  <2>2. CASE ~Contient(J[V], T, k)
    <3>1. V \in T+1..U-1
      BY <1>9, <2>1
    <3> QED
      BY <1>8, <2>2, <3>1 DEF Perdu
  <2>3. CASE Contient(J[V], T, k)
    <3>1. k \in 1..Len(J[V]) /\ J[V][k].term = T
      BY <1>7, <2>3 DEF Contient
    <3>2. CASE k <= Len(l)
      <4>1. k \in 1..Len(l) /\ l[k] = J[V][k]
        BY <1>7, <3>2 DEF Commun
      <4> QED
        BY <3>1, <4>1 DEF Contient
    <3>3. CASE Len(l) < k
      <4>1. Len(l) \in 1..k /\ J[V][Len(l)] = l[Len(l)]
        BY <1>5, <1>7, <3>3 DEF Commun
      <4>2. J[V][Len(l)].term <= J[V][k].term
        BY <1>7, <3>1, <4>1, ConformeCroissant
      <4> QED
        BY <1>6, <2>1, <3>1, <4>1, <4>2
    <3> QED
      BY <1>5, <3>2, <3>3
  <2> QED
    BY <2>2, <2>3
<1> QED
  BY <1>10, <1>11

\* A voter whose vote is asked with the candidate's log.
LEMMA VoteSincere ==
    ASSUME TypeOK, TypeOK', Avance,
           NEW J \in Journaux, NEW M \in Meneurs, Durable(J, M),
           UNCHANGED <<log, Succes>>,
           NEW m \in Demandes, m.term >= current_term[m.dst],
           LogAJour(m, m.dst),
           NEW b, b.src = m.dst, b.dst = m.src, b.pour = m.term
    PROVE  Sincere(b, J, M)'
<1> DEFINE n == m.dst
           c == m.src
           U == m.term
<1>1. n \in Noeuds /\ c \in Noeuds /\ U \in Nat
  BY ChampsRequestVote DEF Demandes
<1> SUFFICES ASSUME M[U] = Personne, role'[c] = "CANDIDATE",
                    current_term'[c] = U
             PROVE  Reprise(log[c], n, U, J, M)'
  BY DEF Sincere
<1>2. /\ LogInv(J, M) /\ ReponsesInv(J, M) /\ AcquitInv(J, M) /\ DemandesInv
  BY DEF Durable
<1>3. current_term[c] = U /\ role[c] = "CANDIDATE"
  <2>1. /\ current_term[c] \in Nat /\ current_term[c] <= current_term'[c]
        /\ U <= current_term[c]
    BY <1>1, <1>2 DEF TypeOK, Avance, DemandesInv
  <2> QED
    BY <1>1, <2>1 DEF Avance
<1>4. /\ m.last_log_index = Len(log[c])
      /\ m.last_log_term = DernierTerm(log[c])
  BY <1>2, <1>3 DEF DemandesInv
<1>5. PICK l \in Seq(Entrees), g \in Seq(Entrees), t \in Nat :
         l = log[c] /\ g = log[n] /\ t = current_term[n]
  BY <1>1 DEF TypeOK
<1>6. /\ Conforme(l, J, U) /\ Conforme(g, J, t) /\ t <= U
      /\ \A V \in Nat : Conforme(J[V], J, V)
      /\ \A V \in Nat : M[V] = Personne => J[V] = <<>>
  BY <1>1, <1>2, <1>3, <1>5 DEF LogInv, JournauxInv
<1>7. \/ DernierTerm(l) > DernierTerm(g)
      \/ DernierTerm(l) = DernierTerm(g) /\ Len(l) >= Len(g)
  BY <1>4, <1>5 DEF LogAJour
<1>8. ASSUME NEW T \in Nat, NEW k \in Nat, T < U, Acquitte(n, T, k, J, M)
      PROVE  Contient(l, T, k) \/ Perdu(T, k, U - 1, J, M)
  <2>1. k \in Nat \ {0}
    BY <1>1, <1>2, <1>8, AcquitteTerme
  <2>2. CASE Contient(g, T, k)
    BY <1>1, <1>6, <1>7, <2>1, <2>2, PlusAJour
  <2>3. CASE Perdu(T, k, t, J, M)
    BY <1>1, <1>6, <2>3, PerduLibre
  <2> QED
    BY <1>1, <1>2, <1>5, <1>8, <2>2, <2>3 DEF AcquitInv
<1>9. ASSUME NEW T \in Nat, NEW k \in Nat, T < U, Acquitte(n, T, k, J, M)'
      PROVE  Contient(l, T, k) \/ Perdu(T, k, U - 1, J, M)
  <2>1. Acquitte(n, T, k, J, M)
    BY <1>9 DEF Acquitte
  <2> QED
    BY <1>8, <1>9, <2>1
<1>10. log'[c] = l
  BY <1>5
<1> QED
  BY <1>9, <1>10 DEF Reprise, Contient, Perdu

LEMMA DurableRequestVote ==
    ASSUME TypeOK, TypeOK', ElectionInv', Avance, NeNommePas,
           NEW J \in Journaux, NEW M \in Meneurs, Durable(J, M), LogInv(J, M)',
           NEW m \in msgs, RecevoirRequestVote(m)
    PROVE  Durable(J, M)' /\ Protege
<1> DEFINE n == m.dst
<1>0. PICK r : r = ReponseVote(m, current_term'[n], Accorde(m, n))
  OBVIOUS
<1>1. /\ n \in Noeuds /\ m.src \in Noeuds /\ m.term \in Nat /\ m \in Demandes
  BY ChampsRequestVote DEF RecevoirRequestVote, Demandes
<1>2. /\ msgs' = msgs \union {r}
      /\ UNCHANGED <<log, commit_index, match_index, scrutins>>
  BY <1>0 DEF RecevoirRequestVote, meneur
<1>3. /\ r.type = "ReponseVote" /\ r.src = n /\ r.dst = m.src
      /\ r.pour = m.term /\ r.vote_accorde = Accorde(m, n)
  BY <1>0 DEF ReponseVote
<1>4. Appels' = Appels /\ Succes' = Succes /\ Demandes' = Demandes
  BY <1>2, <1>3 DEF Appels, Succes, Demandes
<1>5. Bulletins' \subseteq Bulletins \union {r}
  BY <1>2 DEF Bulletins
<1>6. Accorde(m, n) => Sincere(r, J, M)'
  BY <1>1, <1>2, <1>3, <1>4, VoteSincere DEF Accorde
<1>7. /\ ReponsesInv(J, M)' /\ AcquitInv(J, M)' /\ MeneursInv(J, M)'
      /\ \A b \in Bulletins : Sincere(b, J, M)'
      /\ \A a \in Appels : AppelInv(a, J, M)'
      /\ \A k \in Noeuds :
           Acquis(log[k], commit_index[k], current_term[k], J, M)'
      /\ Protege
  BY <1>2, <1>4, DurableCalme
<1>8. ScrutinsInv(J, M)'
  <2> SUFFICES ASSUME NEW b \in Bulletins' PROVE Sincere(b, J, M)'
    BY DEF ScrutinsInv
  <2>1. CASE b \in Bulletins
    BY <1>7, <2>1
  <2>2. CASE b = r
    BY <1>3, <1>6, <2>2 DEF Bulletins
  <2> QED
    BY <1>5, <2>1, <2>2
<1>9. CommitInv(J, M)'
  BY <1>4, <1>7 DEF CommitInv
<1>10. DemandesInv'
  <2>1. DemandesInv
    BY DEF Durable
  <2>2. r.pour <= current_term'[r.dst]
    <3>1. m.term <= current_term[m.src] /\ current_term[m.src] \in Nat
          /\ current_term[m.src] <= current_term'[m.src]
          /\ current_term'[m.src] \in Nat
      BY <1>1, <2>1 DEF DemandesInv, TypeOK, Avance
    <3> QED
      BY <1>1, <1>3, <3>1
  <2>3. \A b \in Bulletins' : b \in Bulletins \/ b.pour <= current_term'[b.dst]
    BY <1>5, <2>2
  <2> QED
    BY <1>2, <1>4, <2>1, <2>3, DemandesSuite
<1>11. SuiviInv'
  <2>1. \A k \in Noeuds : role'[k] = "LEADER" =>
          /\ role[k] = "LEADER"
          /\ current_term'[k] = current_term[k]
          /\ match_index'[k] = match_index[k]
    BY <1>2 DEF NeNommePas
  <2> QED
    BY <2>1, SuiviSuite DEF Durable
<1> QED
  BY <1>7, <1>8, <1>9, <1>10, <1>11 DEF Durable

\* A call promises no more than its leader applied.
LEMMA DurableRepliquer ==
    ASSUME TypeOK, TypeOK', ElectionInv', Avance, NeNommePas,
           NEW J \in Journaux, NEW M \in Meneurs, Durable(J, M), LogInv(J, M)',
           NEW n \in Noeuds, NEW d \in Autres(n), RepliquerVers(n, d)
    PROVE  Durable(J, M)' /\ Protege
<1>1. PICK p \in Nat, l \in Seq(Entrees), t \in Nat, c \in Nat :
         /\ p = next_index[n][d] - 1 /\ l = log[n]
         /\ t = current_term[n] /\ c = commit_index[n]
  <2>1. next_index[n][d] \in Nat \ {0}
    BY DEF TypeOK, Autres
  <2>2. next_index[n][d] - 1 \in Nat
    BY <2>1
  <2>3. /\ log[n] \in Seq(Entrees) /\ current_term[n] \in Nat
        /\ commit_index[n] \in Nat
    BY DEF TypeOK
  <2> QED
    BY <2>2, <2>3
<1> DEFINE es == SubSeq(l, p + 1, Len(l))
           pt == IF p \in 1..Len(l) THEN l[p].term ELSE 0
<1>2. PICK a : a = [type |-> "AppendEntries", src |-> n, dst |-> d,
                    term |-> t, prev_log_index |-> p, prev_log_term |-> pt,
                    entries |-> es, leader_commit |-> c]
  OBVIOUS
<1>3. /\ msgs' = msgs \union {a} /\ role[n] = "LEADER"
      /\ UNCHANGED <<role, current_term, log, commit_index, match_index,
                     scrutins>>
  BY <1>1, <1>2 DEF RepliquerVers, persistantes, meneur, minuteries
<1>4. /\ a.type = "AppendEntries" /\ a.term = t /\ a.prev_log_index = p
      /\ a.prev_log_term = pt /\ a.entries = es /\ a.leader_commit = c
  BY <1>2
<1>5. /\ Succes' = Succes /\ Demandes' = Demandes /\ Bulletins' = Bulletins
      /\ Appels' = Appels \union {a}
  BY <1>3, <1>4 DEF Appels, Succes, Demandes, Bulletins
<1>6. /\ ReponsesInv(J, M)' /\ AcquitInv(J, M)' /\ MeneursInv(J, M)'
      /\ \A b \in Bulletins : Sincere(b, J, M)'
      /\ \A m \in Appels : AppelInv(m, J, M)'
      /\ \A k \in Noeuds :
           Acquis(log[k], commit_index[k], current_term[k], J, M)'
      /\ Protege
  BY <1>3, <1>5, DurableCalme
<1>7. ~AuDela(a) => c <= p + Len(es)
  <2>1. c <= Len(l)
    BY <1>1, AppliquesPresents DEF Durable
  <2>2. CASE p <= Len(l)
    <3>1. Len(es) = Len(l) - p
      BY <2>2, Suite
    <3> HIDE DEF es
    <3> QED
      BY <2>1, <2>2, <3>1
  <2>3. CASE p > Len(l)
    <3>1. es = <<>>
      BY <2>3, SubSeqEmpty
    <3> QED
      BY <1>4, <2>3, <3>1 DEF AuDela
  <2> QED
    BY <2>2, <2>3
<1>8. AppelInv(a, J, M)'
  <2>1. Acquis(l, c, t, J, M)'
    BY <1>1, <1>3, <1>6 DEF Acquis
  <2>2. J[t] = l
    BY <1>1, <1>3 DEF Durable, LogInv, JournauxInv
  <2> HIDE DEF es
  <2> QED
    BY <1>4, <1>7, <2>1, <2>2 DEF AppelInv, AuDela, Acquis
<1>9. CommitInv(J, M)'
  BY <1>5, <1>6, <1>8 DEF CommitInv
<1>10. ScrutinsInv(J, M)'
  BY <1>5, <1>6 DEF ScrutinsInv
<1>11. DemandesInv'
  BY <1>3, <1>5, DemandesSuite DEF Durable
<1>12. SuiviInv'
  BY <1>3, SuiviSuite DEF Durable
<1> QED
  BY <1>6, <1>9, <1>10, <1>11, <1>12 DEF Durable

\* A successful answer to a call of the leader's own term.
LEMMA DurableReponse ==
    ASSUME TypeOK, TypeOK', ElectionInv', Avance,
           NEW J \in Journaux, NEW M \in Meneurs, Durable(J, M), LogInv(J, M)',
           NEW m \in Succes, m.pour >= current_term[m.dst],
           role[m.dst] = "LEADER", m.nb > 0,
           match_index' = [match_index EXCEPT ![m.dst][m.src] = m.prev + m.nb],
           MajCommitIndex(m.dst, match_index'[m.dst]),
           UNCHANGED <<role, current_term, log, scrutins, msgs>>
    PROVE  Durable(J, M)' /\ Protege
<1>1. PICK n \in Noeuds, d \in Noeuds, U \in Nat :
         n = m.dst /\ d = m.src /\ U = current_term[n]
  BY ChampsReponseAppend DEF Succes, TypeOK
<1>2. /\ m.pour \in Nat /\ m.prev \in Nat /\ m.nb \in Nat
  BY ChampsReponseAppend DEF Succes
<1>3. m.pour = U
  <2>1. M[m.pour] = n /\ M[m.pour] # Personne
    BY <1>1, RaftAssumption DEF Durable, ReponsesInv
  <2>2. m.pour <= U
    BY <1>1, <1>2, <2>1 DEF Durable, LogInv, ElusInv, Elu
  <2> QED
    BY <1>1, <1>2, <2>2
<1>4. /\ Succes' = Succes /\ Appels' = Appels /\ Demandes' = Demandes
      /\ Bulletins' = Bulletins
  BY DEF Succes, Appels, Demandes, Bulletins
<1>5. SuiviInv'
  <2> SUFFICES ASSUME NEW k \in Noeuds, role[k] = "LEADER",
                      NEW e \in Autres(k), match_index'[k][e] > 0
               PROVE  \E r \in Succes : /\ r.src = e
                                        /\ r.pour = current_term[k]
                                        /\ r.prev + r.nb = match_index'[k][e]
    BY <1>4 DEF SuiviInv, Autres
  <2>1. CASE k = n /\ e = d
    <3>1. match_index'[k][e] = m.prev + m.nb
      BY <1>1, <2>1 DEF TypeOK
    <3> QED
      BY <1>1, <1>3, <2>1, <3>1
  <2>2. CASE ~(k = n /\ e = d)
    <3>1. match_index'[k][e] = match_index[k][e]
      BY <1>1, <2>2 DEF TypeOK, Autres
    <3> QED
      BY <3>1 DEF Durable, SuiviInv
  <2> QED
    BY <2>1, <2>2
<1>6. /\ ReponsesInv(J, M)' /\ AcquitInv(J, M)' /\ MeneursInv(J, M)'
      /\ \A b \in Bulletins : Sincere(b, J, M)'
      /\ \A a \in Appels : AppelInv(a, J, M)'
      /\ \A k \in Noeuds : commit_index'[k] = commit_index[k] =>
           Acquis(log[k], commit_index[k], current_term[k], J, M)'
  BY <1>4, DurableCalme
<1>7. PICK l \in Seq(Entrees) : l = log[n]
  BY DEF TypeOK
<1> DEFINE h == match_index'[n]
<1>h. /\ commit_index[n] \in Nat /\ \A k \in Noeuds : h[k] \in Nat
  <2>1. /\ commit_index \in [Noeuds -> Nat]
        /\ match_index' \in [Noeuds -> [Noeuds -> Nat]]
    BY DEF TypeOK
  <2> QED
    BY <2>1
<1>8. PICK c \in {commit_index[n]} \union Committables(n, h) :
         commit_index' = [commit_index EXCEPT ![n] = c]
  BY <1>1 DEF MajCommitIndex
<1>9. commit_index'[n] = c /\ \A k \in Noeuds : k # n =>
         commit_index'[k] = commit_index[k]
  BY <1>8 DEF TypeOK
<1>10. ASSUME c \in Committables(n, h)
       PROVE  /\ c \in commit_index[n] + 1 .. Len(l)
              /\ Acquis(l, c, U, J, M)'
  <2>1. /\ c \in commit_index[n] + 1 .. Len(l)
        /\ \A j \in c..Len(l) : l[j].term = U
        /\ EstQuorum(Repliques(n, c, h))
    <3> HIDE DEF h
    <3> QED
      BY <1>1, <1>7, <1>10 DEF Committables
  <2>2. c \in Nat \ {0} /\ c \in 1..Len(l) /\ l[c].term = U
    BY <1>h, <2>1
  <2>3. J[U] = l /\ M[U] = n
    BY <1>1, <1>7 DEF Durable, LogInv, ElusInv, JournauxInv
  <2>4. PICK Q \in SUBSET Noeuds : Q = Repliques(n, c, h)
    BY DEF Repliques, Autres
  <2>5. ASSUME NEW q \in Q PROVE Acquitte(q, U, c, J, M)'
    <3>1. CASE q = n
      BY <2>1, <2>2, <2>3, <3>1 DEF Acquitte
    <3>2. CASE q # n
      <4>1. q \in Autres(n) /\ h[q] >= c
        BY <2>4, <3>2 DEF Repliques
      <4>2. h[q] \in Nat
        BY <1>h, <4>1 DEF Autres
      <4>3. role'[n] = "LEADER" /\ h[q] > 0
            /\ current_term'[n] = U
        BY <1>1, <2>2, <4>1, <4>2
      <4>4. PICK r \in Succes' : /\ r.src = q /\ r.pour = U
                                 /\ r.prev + r.nb = h[q]
        BY <1>5, <4>1, <4>3 DEF SuiviInv, Autres
      <4> QED
        BY <2>1, <2>2, <2>3, <4>1, <4>4 DEF Acquitte
    <3> QED
      BY <3>1, <3>2
  <2>6. Valide(U, c, J, M)'
    BY <2>1, <2>4, <2>5 DEF Valide, EstQuorum
  <2>7. Commun(l, J[U], c)
    BY <2>2, <2>3 DEF Commun
  <2> QED
    BY <2>1, <2>2, <2>6, <2>7 DEF Acquis
<1>11. ASSUME NEW k \in Noeuds
       PROVE  /\ commit_index[k] <= commit_index'[k]
              /\ Acquis(log[k], commit_index[k], current_term[k], J, M)'
  <2>1. CASE k = n /\ c \in Committables(n, h)
    <3>1. commit_index[n] <= commit_index'[n]
      BY <1>9, <1>10, <1>h, <2>1
    <3>2. log'[k] = l /\ current_term'[k] = U /\ commit_index'[k] = c
      BY <1>1, <1>7, <1>9, <2>1
    <3>3. Acquis(l, c, U, J, M)'
      BY <1>10, <2>1
    <3> QED
      BY <2>1, <3>1, <3>2, <3>3 DEF Acquis
  <2>2. CASE commit_index'[k] = commit_index[k]
    BY <1>6, <2>2 DEF TypeOK
  <2> QED
    BY <1>8, <1>9, <2>1, <2>2
<1>12. CommitInv(J, M)'
  BY <1>4, <1>6, <1>11 DEF CommitInv
<1>13. Protege
  BY <1>11, AppliquesPresents DEF Protege, Durable
<1>14. ScrutinsInv(J, M)'
  BY <1>4, <1>6 DEF ScrutinsInv
<1>15. DemandesInv'
  BY <1>4, DemandesSuite DEF Durable
<1> QED
  BY <1>5, <1>6, <1>12, <1>13, <1>14, <1>15 DEF Durable

\* A command appended by its leader.
LEMMA DurableSoumettre ==
    ASSUME TypeOK, TypeOK', ElectionInv', Avance, NeNommePas,
           NEW J \in Journaux, NEW M \in Meneurs, Durable(J, M),
           NEW n \in Noeuds, NEW c \in Commandes, Soumettre(n, c),
           NEW K, K = [J EXCEPT ![current_term[n]] = log'[n]]
    PROVE  K \in Journaux /\ Durable(K, M)' /\ Protege
<1>1. /\ LogInv(J, M) /\ ReponsesInv(J, M) /\ AcquitInv(J, M)
      /\ MeneursInv(J, M) /\ ScrutinsInv(J, M) /\ DemandesInv
      /\ CommitInv(J, M) /\ msgs \subseteq msgs'
  BY DEF Durable, Avance
<1>2. K \in Journaux /\ Prolonge(J, K) /\ LogInv(K, M)'
  BY <1>1, LogSoumettre
<1>3. PICK l \in Seq(Entrees), g \in Seq(Entrees), U \in Nat :
         l = log[n] /\ g = log'[n] /\ U = current_term[n]
  BY EffetSoumettre DEF TypeOK
<1>4. /\ Len(g) = Len(l) + 1 /\ g[Len(l) + 1].term = U
      /\ Commun(l, g, Len(l))
      /\ \A k \in Noeuds : k # n => log'[k] = log[k]
      /\ UNCHANGED <<role, current_term, commit_index, match_index,
                     scrutins, msgs>>
      /\ role[n] = "LEADER"
  BY <1>3, EffetSoumettre
<1>5. /\ K[U] = g /\ J[U] = l /\ M[U] = n
      /\ \A T \in Nat : T # U => K[T] = J[T]
  BY <1>1, <1>3, <1>4 DEF Journaux, LogInv, ElusInv, JournauxInv
<1>6. Suit(J, M, K, M)
  <2> SUFFICES ASSUME NEW T \in Nat
               PROVE  \A i \in 1..Len(K[T]) : i > Len(J[T]) => K[T][i].term = T
    BY <1>2 DEF Suit, Prolonge
  <2>1. Len(l) \in Nat /\ J[T] \in Seq(Entrees)
    BY TypeJournal
  <2> QED
    BY <1>4, <1>5, <2>1
<1>7. /\ Succes' = Succes /\ Appels' = Appels /\ Demandes' = Demandes
      /\ Bulletins' = Bulletins
  BY <1>4 DEF Succes, Appels, Demandes, Bulletins
<1>8. ReponsesInv(K, M)'
  BY <1>1, <1>2, <1>6, <1>7, ReponsesSuite
<1>9. ASSUME NEW q \in Noeuds, NEW T \in Nat, NEW k \in Nat,
             Acquitte(q, T, k, K, M)'
      PROVE  \/ Acquitte(q, T, k, J, M)
             \/ T = current_term'[q] /\ Contient(log'[q], T, k)
  <2>1. CASE T # U
    BY <1>5, <1>7, <1>9, <2>1 DEF Acquitte
  <2>2. CASE T = U /\ q = n
    BY <1>3, <1>4, <1>5, <1>9, <2>2 DEF Acquitte, Contient
  <2>3. CASE T = U /\ q # n
    <3>1. k \in 1..Len(g) /\ g[k].term = U
      BY <1>5, <1>9, <2>3 DEF Acquitte
    <3>2. PICK r \in Succes : r.src = q /\ r.pour = U /\ k <= r.prev + r.nb
      BY <1>5, <1>7, <1>9, <2>3 DEF Acquitte
    <3>3. /\ r.prev \in Nat /\ r.nb \in Nat /\ r.prev + r.nb <= Len(l)
      BY <1>1, <1>5, <3>2, ChampsReponseAppend DEF ReponsesInv, Succes
    <3>4. k \in 1..Len(l)
      BY <3>1, <3>2, <3>3
    <3>5. l[k].term = U
      BY <1>4, <3>1, <3>4 DEF Commun
    <3> QED
      BY <1>5, <2>3, <3>2, <3>4, <3>5 DEF Acquitte
  <2> QED
    BY <2>1, <2>2, <2>3
<1>10. ASSUME NEW q \in Noeuds, NEW T \in Nat, NEW k \in Nat,
              Acquitte(q, T, k, J, M), Contient(log[q], T, k)
       PROVE  Contient(log'[q], T, k)
  <2>1. CASE q = n
    <3>0. k \in Nat \ {0}
      BY <1>1, <1>10, AcquitteTerme
    <3>1. k \in 1..Len(l) /\ l[k].term = T
      BY <1>3, <1>10, <2>1, <3>0 DEF Contient
    <3>2. k \in 1..Len(g) /\ g[k].term = T
      BY <1>4, <3>1 DEF Commun
    <3> QED
      BY <1>3, <2>1, <3>2 DEF Contient
  <2>2. CASE q # n
    BY <1>4, <1>10, <2>2
  <2> QED
    BY <2>1, <2>2
<1>11. AcquitInv(K, M)'
  BY <1>1, <1>2, <1>6, <1>9, <1>10, AcquitSuite
<1>12. MeneursInv(K, M)'
  <2>1. \A q \in Noeuds, T \in Nat, k \in Nat : Acquitte(q, T, k, K, M)' =>
            Acquitte(q, T, k, J, M) \/ T = current_term'[q]
    BY <1>9
  <2>2. ASSUME NEW V \in Nat, M[V] # Personne PROVE Repris(V, K, M)'
    BY <1>1, <1>2, <1>6, <2>1, <2>2, MeneursSuite
  <2> QED
    BY <2>2 DEF MeneursInv
<1>13. \A k \in Noeuds : /\ role'[k] = "CANDIDATE"
                         /\ current_term'[k] = current_term[k]
                         => log'[k] = log[k]
  BY <1>4
<1>14. ScrutinsInv(K, M)'
  <2>1. \A q \in Noeuds, T \in Nat, k \in Nat : Acquitte(q, T, k, K, M)' =>
            Acquitte(q, T, k, J, M) \/ T = current_term'[q]
    BY <1>9
  <2>2. \A b \in Bulletins : Sincere(b, K, M)'
    BY <1>1, <1>2, <1>6, <1>13, <2>1, SincereSuite
  <2> QED
    BY <1>7, <2>2 DEF ScrutinsInv
<1>15. DemandesInv'
  BY <1>1, <1>4, <1>7, <1>13, DemandesSuite
<1>16. SuiviInv'
  BY <1>4, SuiviSuite DEF Durable
<1>17. ASSUME NEW k \in Noeuds
       PROVE  /\ Commun(log[k], log'[k], commit_index[k])
              /\ Commun(log'[k], log[k], commit_index[k])
  <2>1. /\ commit_index[k] <= Len(log[k]) /\ commit_index[k] \in Nat
        /\ log[k] \in Seq(Entrees)
        /\ Commun(log[k], log[k], commit_index[k])
    BY <1>1, AppliquesPresents
  <2>2. CASE k = n
    <3>1. Commun(l, g, commit_index[k])
      BY <1>3, <1>4, <2>1, <2>2, CommunReduit
    <3> QED
      BY <1>3, <2>1, <2>2, <3>1, CommunSymetrique
  <2>3. CASE k # n
    BY <1>4, <2>1, <2>3
  <2> QED
    BY <2>2, <2>3
<1>18. Protege
  BY <1>4, <1>17 DEF Protege, TypeOK
<1>19. CommitInv(K, M)'
  <2>1. \A k \in Noeuds :
          Acquis(log[k], commit_index[k], current_term[k], K, M)'
    BY <1>1, <1>2, <1>4, <1>6, <1>17, NoeudSuite
  <2>2. \A m \in Appels : AppelInv(m, K, M)'
    BY <1>1, <1>2, <1>6, AppelSuite
  <2> QED
    BY <1>7, <2>1, <2>2 DEF CommitInv
<1> QED
  BY <1>2, <1>8, <1>11, <1>12, <1>14, <1>15, <1>16, <1>18, <1>19 DEF Durable

\* An election: who elects, the winner included, acknowledged nothing that
\* the winner misses.
LEMMA DurableElection ==
    ASSUME TypeOK, TypeOK', ElectionInv, ElectionInv', Avance,
           NEW J \in Journaux, NEW M \in Meneurs, Durable(J, M),
           NEW m \in msgs, Elit(m),
           NEW K, K = [J EXCEPT ![current_term[m.dst]] = log[m.dst]],
           NEW N, N = [M EXCEPT ![current_term[m.dst]] = m.dst]
    PROVE  K \in Journaux /\ N \in Meneurs /\ Durable(K, N)' /\ Protege
<1>1. /\ LogInv(J, M) /\ ReponsesInv(J, M) /\ AcquitInv(J, M)
      /\ MeneursInv(J, M) /\ ScrutinsInv(J, M) /\ DemandesInv
      /\ CommitInv(J, M) /\ msgs \subseteq msgs'
  BY DEF Durable, Avance
<1>2. K \in Journaux /\ N \in Meneurs /\ Prolonge(J, K) /\ LogInv(K, N)'
  BY <1>1, LogElection
<1>3. /\ m.dst \in Noeuds /\ role[m.dst] = "CANDIDATE"
      /\ role' = [role EXCEPT ![m.dst] = "LEADER"]
      /\ match_index' = [match_index EXCEPT ![m.dst] = [d \in Noeuds |-> 0]]
      /\ UNCHANGED <<current_term, log, commit_index, scrutins, msgs>>
      /\ Bulletins' = Bulletins
  BY EffetElection DEF persistantes
<1>4. PICK n \in Noeuds, l \in Seq(Entrees), U \in Nat :
         n = m.dst /\ l = log[n] /\ U = current_term[n]
  BY <1>3 DEF TypeOK
<1>5. M[U] = Personne /\ J[U] = <<>>
  BY <1>1, <1>4, TermeLibre DEF LogInv, JournauxInv
<1>6. /\ K[U] = l /\ N[U] = n
      /\ \A T \in Nat : T # U => K[T] = J[T] /\ N[T] = M[T]
  BY <1>4 DEF Journaux, Meneurs
<1>7. Suit(J, M, K, N)
  <2> SUFFICES ASSUME NEW T \in Nat, M[T] # Personne
               PROVE  /\ N[T] = M[T]
                      /\ \A i \in 1..Len(K[T]) : ~(i > Len(J[T]))
    BY <1>2 DEF Suit, Prolonge
  <2>1. T # U /\ J[T] \in Seq(Entrees)
    BY <1>5, TypeJournal
  <2> QED
    BY <1>6, <2>1
<1>8. /\ Succes' = Succes /\ Appels' = Appels /\ Demandes' = Demandes
  BY <1>3 DEF Succes, Appels, Demandes
<1>9. ReponsesInv(K, N)'
  BY <1>1, <1>2, <1>7, <1>8, ReponsesSuite
<1>10. ASSUME NEW q \in Noeuds, NEW T \in Nat, NEW k \in Nat,
              Acquitte(q, T, k, K, N)'
       PROVE  Acquitte(q, T, k, J, M)
  <2>1. CASE T # U
    BY <1>6, <1>8, <1>10, <2>1 DEF Acquitte
  <2>2. CASE T = U
    <3>1. k \in 1..Len(l) /\ l[k].term = U
      BY <1>6, <1>10, <2>2 DEF Acquitte
    <3>2. Conforme(l, J, U)
      BY <1>1, <1>4 DEF LogInv, JournauxInv
    <3>3. k <= Len(J[U])
      BY <3>1, <3>2 DEF Conforme, Commun
    <3> QED
      BY <1>5, <3>1, <3>3
  <2> QED
    BY <2>1, <2>2
<1>11. AcquitInv(K, N)'
  <2>1. \A q \in Noeuds, T \in Nat, k \in Nat :
          Acquitte(q, T, k, J, M) /\ Contient(log[q], T, k) =>
              \/ Contient(log'[q], T, k)
              \/ Perdu(T, k, current_term'[q], K, N)
    BY <1>3
  <2> QED
    BY <1>1, <1>2, <1>7, <1>10, <2>1, AcquitSuite
<1>12. ASSUME NEW q \in votes'[n]
       PROVE  /\ q \in Noeuds
              /\ U <= current_term'[q]
              /\ Reprise(l, q, U, J, M)
  <2>1. q \in Noeuds
    BY DEF TypeOK
  <2>2. CASE q = n
    <3>1. ASSUME NEW T \in Nat, NEW k \in Nat, T < U, Acquitte(n, T, k, J, M)
          PROVE  Contient(l, T, k) \/ Perdu(T, k, U - 1, J, M)
      <4>1. CASE Contient(log[n], T, k)
        BY <1>4, <4>1
      <4>2. CASE Perdu(T, k, current_term[n], J, M)
        BY <1>4, <1>5, <4>2, PerduLibre
      <4> QED
        BY <1>1, <3>1, <4>1, <4>2 DEF AcquitInv
    <3> QED
      BY <1>3, <1>4, <2>2, <3>1 DEF Reprise
  <2>3. CASE q # n
    <3>1. role'[n] # "FOLLOWER"
      BY <1>3, <1>4 DEF TypeOK
    <3>2. PICK b \in Bulletins : b.src = q /\ b.dst = n /\ b.pour = U
      BY <1>3, <1>4, <2>1, <2>3, <3>1 DEF ElectionInv, VotesRecus
    <3>3. Reprise(l, q, U, J, M)
      BY <1>1, <1>3, <1>4, <1>5, <3>2 DEF ScrutinsInv, Sincere
    <3>4. U <= current_term'[q]
      BY <1>3, <3>2 DEF ElectionInv, VotesTenus
    <3> QED
      BY <2>1, <3>3, <3>4
  <2> QED
    BY <2>1, <2>2, <2>3
<1>13. Repris(U, K, N)'
  <2>1. PICK Q \in SUBSET Noeuds : Q = votes'[n] /\ EstQuorum(Q)
    BY <1>4 DEF TypeOK, Elit
  <2>2. Commun(l, l, Len(l))
    BY DEF Commun
  <2>3. ASSUME NEW q \in Q
        PROVE  U <= current_term'[q] /\ Reprise(K[U], q, U, K, N)'
    <3>1. q \in Noeuds /\ U <= current_term'[q] /\ Reprise(l, q, U, J, M)
      BY <1>12, <2>1
    <3>2. Reprise(l, q, U, K, N)'
      BY <1>1, <1>2, <1>7, <1>10, <2>2, <3>1, RepriseSuite
    <3> QED
      BY <1>6, <3>1, <3>2 DEF Reprise, Contient
  <2> QED
    BY <2>1, <2>3 DEF Repris, EstQuorum
<1>14. MeneursInv(K, N)'
  <2>1. \A q \in Noeuds, T \in Nat, k \in Nat : Acquitte(q, T, k, K, N)' =>
            Acquitte(q, T, k, J, M) \/ T = current_term'[q]
    BY <1>10
  <2>2. ASSUME NEW V \in Nat, N[V] # Personne, V # U PROVE Repris(V, K, N)'
    <3>1. M[V] # Personne
      BY <1>6, <2>2
    <3> QED
      BY <1>1, <1>2, <1>7, <2>1, <3>1, MeneursSuite
  <2>3. \A V \in Nat : N[V] # Personne => Repris(V, K, N)'
    BY <1>13, <2>2
  <2> QED
    BY <2>3 DEF MeneursInv
<1>15. ScrutinsInv(K, N)'
  <2>1. \A q \in Noeuds, T \in Nat, k \in Nat : Acquitte(q, T, k, K, N)' =>
            Acquitte(q, T, k, J, M) \/ T = current_term'[q]
    BY <1>10
  <2>2. \A b \in Bulletins : Sincere(b, K, N)'
    BY <1>1, <1>2, <1>3, <1>7, <2>1, SincereSuite
  <2> QED
    BY <1>3, <2>2 DEF ScrutinsInv
<1>16. DemandesInv'
  BY <1>1, <1>3, <1>8, DemandesSuite
<1>17. SuiviInv'
  <2> SUFFICES ASSUME NEW k \in Noeuds, role'[k] = "LEADER",
                      NEW d \in Autres(k), match_index'[k][d] > 0
               PROVE  \E r \in Succes : /\ r.src = d
                                        /\ r.pour = current_term[k]
                                        /\ r.prev + r.nb = match_index'[k][d]
    BY <1>3, <1>8 DEF SuiviInv, Autres
  <2>1. k # n
    <3>1. k = n => match_index'[k][d] = 0
      BY <1>3, <1>4 DEF TypeOK, Autres
    <3> QED
      BY <3>1
  <2>2. role[k] = "LEADER" /\ match_index'[k] = match_index[k]
    BY <1>3, <1>4, <2>1 DEF TypeOK
  <2> QED
    BY <2>2 DEF Durable, SuiviInv
<1>18. ASSUME NEW k \in Noeuds
       PROVE  /\ Commun(log[k], log'[k], commit_index[k])
              /\ Commun(log'[k], log[k], commit_index[k])
  BY <1>1, <1>3, AppliquesPresents
<1>19. Protege
  BY <1>3, <1>18 DEF Protege, TypeOK
<1>20. CommitInv(K, N)'
  <2>1. \A k \in Noeuds :
          Acquis(log[k], commit_index[k], current_term[k], K, N)'
    BY <1>1, <1>2, <1>3, <1>7, <1>18, NoeudSuite
  <2>2. \A a \in Appels : AppelInv(a, K, N)'
    BY <1>1, <1>2, <1>7, AppelSuite
  <2> QED
    BY <1>8, <2>1, <2>2 DEF CommitInv
<1> QED
  BY <1>2, <1>9, <1>11, <1>14, <1>15, <1>16, <1>17, <1>19, <1>20 DEF Durable

\* A call handled: it is acknowledged once the log has its entries, and what
\* its leader has in common with the log stays.
LEMMA DurableAppel ==
    ASSUME TypeOK, TypeOK', ElectionInv', Avance, NeNommePas,
           NEW J \in Journaux, NEW M \in Meneurs, Durable(J, M), LogInv(J, M)',
           NEW m \in msgs, RecevoirAppendEntries(m),
           m.term >= current_term[m.dst], Coherent(m, log[m.dst]),
           actif[m.dst]
    PROVE  Durable(J, M)' /\ Protege
<1>1. /\ LogInv(J, M) /\ ReponsesInv(J, M) /\ AcquitInv(J, M)
      /\ MeneursInv(J, M) /\ ScrutinsInv(J, M) /\ DemandesInv
      /\ CommitInv(J, M) /\ msgs \subseteq msgs'
  BY DEF Durable, Avance
<1>2. PICK n \in Noeuds, U \in Nat, x \in Nat, lc \in Nat :
         /\ n = m.dst /\ U = m.term /\ lc = m.leader_commit
         /\ x = m.prev_log_index + Len(m.entries)
  <2>1. /\ m.prev_log_index \in Nat /\ m.entries \in Seq(Entrees)
        /\ m.dst \in Noeuds /\ m.term \in Nat /\ m.leader_commit \in Nat
    BY ChampsAppendEntries DEF RecevoirAppendEntries
  <2>2. m.prev_log_index + Len(m.entries) \in Nat
    BY <2>1
  <2> QED
    BY <2>1, <2>2
<1>3. PICK l \in Seq(Entrees), g \in Seq(Entrees), t \in Nat :
         /\ l = log[n] /\ g = log'[n] /\ t = current_term[n] /\ t <= U
  BY <1>2 DEF TypeOK
<1>4. /\ current_term'[n] = U
      /\ Extrait(m, J[U])
      /\ \A k \in Noeuds : k # n => log'[k] = log[k]
      /\ Commun(g, J[U], x)
      /\ \A c \in Nat : Commun(l, J[U], c) => Commun(g, J[U], c)
  BY <1>1, <1>2, <1>3, EffetAppel
<1>5. m \in Appels /\ J[U] \in Seq(Entrees)
  BY TypeJournal DEF RecevoirAppendEntries, Appels
<1>6. /\ M[U] = m.src /\ M[U] # Personne
  BY <1>1, <1>2, <1>5, ChampsAppendEntries, RaftAssumption
  DEF LogInv, AppelsInv, Appels
<1>7. PICK r : r = ReponseAppend(m, current_term'[n], TRUE)
  OBVIOUS
<1>8. /\ msgs' = msgs \union {r}
      /\ role' = [role EXCEPT ![n] = "FOLLOWER"]
      /\ commit_index' = [commit_index EXCEPT ![n] = AvancerCommit(@, lc, Len(g))]
      /\ UNCHANGED <<match_index, scrutins>>
  BY <1>2, <1>3, <1>7 DEF RecevoirAppendEntries, meneur
<1>9. /\ r.type = "ReponseAppend" /\ r.succes /\ r.src = n /\ r.dst = m.src
      /\ r.pour = U /\ r.prev + r.nb = x
  BY <1>2, <1>7 DEF ReponseAppend
<1>10. /\ Succes' = Succes \union {r} /\ Appels' = Appels
       /\ Demandes' = Demandes /\ Bulletins' = Bulletins
  BY <1>8, <1>9 DEF Succes, Appels, Demandes, Bulletins
<1>11. Suit(J, M, J, M)
  BY SuitMeme
<1>12. ReponsesInv(J, M)'
  <2>1. /\ M[r.pour] = r.dst
        /\ r.pour <= current_term'[r.src]
        /\ r.prev + r.nb <= Len(J[r.pour])
    BY <1>2, <1>4, <1>6, <1>9 DEF Extrait
  <2> QED
    BY <1>1, <1>10, <1>11, <2>1, ReponsesSuite
<1>13. ASSUME NEW q \in Noeuds, NEW T \in Nat, NEW k \in Nat,
              Acquitte(q, T, k, J, M)'
       PROVE  \/ Acquitte(q, T, k, J, M)
              \/ T = current_term'[q] /\ Contient(log'[q], T, k)
  <2>1. CASE Acquitte(q, T, k, J, M)
    BY <2>1
  <2>2. CASE ~Acquitte(q, T, k, J, M)
    <3>1. /\ k \in 1..Len(J[T]) /\ J[T][k].term = T
          /\ q = n /\ T = U /\ k <= x
      BY <1>9, <1>10, <1>13, <2>2 DEF Acquitte
    <3>2. k <= Len(g) /\ g[k] = J[U][k]
      BY <1>4, <3>1 DEF Commun
    <3> QED
      BY <1>3, <1>4, <3>1, <3>2 DEF Contient
  <2> QED
    BY <2>1, <2>2
    \* What l has of a journal its leader agrees with, g has too.
<1>14. ASSUME NEW T \in Nat, NEW k \in Nat \ {0}, NEW c \in Nat, c <= k,
              Commun(l, J[T], c), Commun(J[U], J[T], k)
       PROVE  Commun(g, J[T], c)
  <2>1. J[T] \in Seq(Entrees)
    BY TypeJournal
  <2>2. Commun(J[U], J[T], c)
    BY <1>5, <1>14, <2>1, CommunReduit
  <2>3. Commun(J[T], J[U], c)
    BY <1>5, <2>1, <2>2, CommunSymetrique
  <2>4. Commun(l, J[U], c)
    BY <1>5, <1>14, <2>1, <2>3, CommunTransitif
  <2>5. Commun(g, J[U], c)
    BY <1>4, <2>4
  <2> QED
    BY <1>5, <2>1, <2>2, <2>5, CommunTransitif
<1>15. ASSUME NEW q \in Noeuds, NEW T \in Nat, NEW k \in Nat,
              Acquitte(q, T, k, J, M), Contient(log[q], T, k)
       PROVE  Contient(log'[q], T, k) \/ Perdu(T, k, current_term'[q], J, M)
  <2>1. CASE q # n
    BY <1>4, <1>15, <2>1
  <2>2. CASE q = n
    <3>1. k \in Nat \ {0} /\ T <= current_term[n] /\ Contient(J[T], T, k)
      BY <1>1, <1>15, <2>2, AcquitteTerme
    <3>2. T <= U /\ Contient(l, T, k) /\ J[T] \in Seq(Entrees)
      BY <1>3, <1>15, <2>2, <3>1, TypeJournal
    <3>3. Commun(l, J[T], k)
      BY <1>1, <1>3, <3>1, <3>2, ContientCommun DEF LogInv, JournauxInv
    <3>4. CASE Contient(J[U], T, k)
      <4>1. Commun(J[U], J[T], k)
        BY <1>1, <1>5, <3>1, <3>4, ContientCommun DEF LogInv, JournauxInv
      <4>2. Commun(g, J[T], k)
        BY <1>14, <3>1, <3>3, <4>1
      <4>3. Contient(g, T, k)
        BY <3>1, <3>2, <4>2, CommunContient
      <4> QED
        BY <1>3, <2>2, <4>3
    <3>5. CASE ~Contient(J[U], T, k)
      <4>1. T # U
        BY <3>1, <3>5
      <4>2. U \in T+1..U
        BY <3>2, <4>1
      <4> QED
        BY <1>4, <1>6, <2>2, <3>5, <4>2 DEF Perdu
    <3> QED
      BY <3>4, <3>5
  <2> QED
    BY <2>1, <2>2
<1>16. AcquitInv(J, M)'
  BY <1>1, <1>11, <1>13, <1>15, AcquitSuite
<1>17. \A q \in Noeuds, T \in Nat, k \in Nat : Acquitte(q, T, k, J, M)' =>
          Acquitte(q, T, k, J, M) \/ T = current_term'[q]
  BY <1>13
<1>18. MeneursInv(J, M)'
  <2>1. ASSUME NEW V \in Nat, M[V] # Personne PROVE Repris(V, J, M)'
    BY <1>1, <1>11, <1>17, <2>1, MeneursSuite
  <2> QED
    BY <2>1 DEF MeneursInv
<1>19. \A k \in Noeuds : /\ role'[k] = "CANDIDATE"
                         /\ current_term'[k] = current_term[k]
                         => log'[k] = log[k]
  BY <1>4, <1>8 DEF TypeOK
<1>20. ScrutinsInv(J, M)'
  <2>1. \A b \in Bulletins : Sincere(b, J, M)'
    BY <1>1, <1>11, <1>17, <1>19, SincereSuite
  <2> QED
    BY <1>10, <2>1 DEF ScrutinsInv
<1>21. DemandesInv'
  BY <1>1, <1>8, <1>10, <1>19, DemandesSuite
<1>22. SuiviInv'
  <2>1. \A k \in Noeuds : role'[k] = "LEADER" =>
          /\ role[k] = "LEADER"
          /\ current_term'[k] = current_term[k]
          /\ match_index'[k] = match_index[k]
    BY <1>8 DEF NeNommePas
  <2> QED
    BY <2>1, SuiviSuite DEF Durable
<1>23. PICK c \in Nat : c = commit_index[n] /\ c <= Len(l)
  BY <1>1, <1>3, AppliquesPresents
<1>24. Commun(g, l, c)
  <2>1. CASE c = 0
    BY <2>1 DEF Commun
  <2>2. CASE c > 0
    <3>1. Acquis(l, c, t, J, M)
      BY <1>1, <1>3, <1>23 DEF CommitInv
    <3>2. PICK T \in Nat, k \in Nat : /\ T <= t
                                      /\ c <= k
                                      /\ Valide(T, k, J, M)
                                      /\ Commun(l, J[T], c)
      BY <2>2, <3>1 DEF Acquis
    <3>3. T <= U /\ k \in Nat \ {0} /\ J[T] \in Seq(Entrees)
      BY <1>3, <2>2, <3>2, TypeJournal
    <3>4. Commun(J[U], J[T], k)
      BY <1>1, <1>6, <3>2, <3>3, AcquisTransmis
    <3>5. Commun(g, J[T], c)
      BY <1>14, <3>2, <3>3, <3>4
    <3>6. Commun(J[T], l, c)
      BY <3>2, <3>3, CommunSymetrique
    <3> QED
      BY <3>3, <3>5, <3>6, CommunTransitif
  <2> QED
    BY <2>1, <2>2
<1>25. lc <= x
  <2>1. ~AuDela(m)
    <3> SUFFICES ASSUME AuDela(m) PROVE FALSE
      OBVIOUS
    <3>1. m.prev_log_index \in 1..Len(J[U]) /\ J[U][m.prev_log_index].term = 0
      <4>1. m.prev_log_index \in Nat /\ Len(m.entries) = 0
        BY <1>5, ChampsAppendEntries DEF AuDela, Appels
      <4> QED
        BY <1>4, <4>1 DEF AuDela, Extrait
    <3>2. Conforme(J[U], J, U)
      BY <1>1 DEF LogInv, JournauxInv
    <3> QED
      BY <3>1, <3>2 DEF Conforme
  <2> QED
    BY <1>1, <1>2, <1>5, <2>1 DEF CommitInv, AppelInv
<1>26. /\ x <= Len(g) /\ commit_index'[n] = IF lc <= c THEN c ELSE lc
       /\ \A k \in Noeuds : k # n => commit_index'[k] = commit_index[k]
  <2>1. x <= Len(g)
    BY <1>4 DEF Commun
  <2> QED
    BY <1>8, <1>23, <1>25, <2>1 DEF TypeOK, AvancerCommit
<1>27. Protege
  <2> SUFFICES ASSUME NEW k \in Noeuds
               PROVE  /\ commit_index[k] <= commit_index'[k]
                      /\ Commun(log[k], log'[k], commit_index[k])
    BY DEF Protege
  <2>1. CASE k = n
    BY <1>3, <1>23, <1>24, <1>26, <2>1, CommunSymetrique
  <2>2. CASE k # n
    <3>1. Commun(log[k], log[k], commit_index[k]) /\ commit_index[k] \in Nat
      BY <1>1, AppliquesPresents
    <3> QED
      BY <1>4, <1>26, <2>2, <3>1
  <2> QED
    BY <2>1, <2>2
<1>28. CommitInv(J, M)'
  <2>1. ASSUME NEW k \in Noeuds
        PROVE  Acquis(log[k], commit_index[k], current_term[k], J, M)'
    <3>1. CASE k # n
      <4>1. Commun(log'[k], log[k], commit_index[k])
            /\ commit_index'[k] = commit_index[k]
        BY <1>1, <1>4, <1>26, <3>1, AppliquesPresents
      <4> QED
        BY <1>1, <1>11, <4>1, NoeudSuite
    <3>2. CASE k = n /\ lc <= c
      <4>1. Commun(log'[k], log[k], commit_index[k])
            /\ commit_index'[k] = commit_index[k]
        BY <1>3, <1>23, <1>24, <1>26, <3>2
      <4> QED
        BY <1>1, <1>11, <4>1, NoeudSuite
    <3>3. CASE k = n /\ ~(lc <= c)
      <4>1. Acquis(J[U], lc, U, J, M)
        BY <1>1, <1>2, <1>5 DEF CommitInv, AppelInv
      <4>2. Commun(g, J[U], lc)
        BY <1>4, <1>5, <1>25, CommunReduit
      <4>3. PICK h \in Seq(Entrees) : h = J[U]
        BY <1>5
      <4>4. Acquis(g, lc, U, J, M)'
        BY <1>1, <1>11, <4>1, <4>2, <4>3, AcquisSuit
      <4>5. log'[k] = g /\ commit_index'[k] = lc /\ current_term'[k] = U
        BY <1>3, <1>4, <1>26, <3>3
      <4> QED
        BY <4>4, <4>5 DEF Acquis
    <3> QED
      BY <3>1, <3>2, <3>3
  <2>2. \A a \in Appels : AppelInv(a, J, M)'
    BY <1>1, <1>11, AppelSuite
  <2> QED
    BY <1>10, <2>1, <2>2 DEF CommitInv
<1> QED
  BY <1>12, <1>16, <1>18, <1>20, <1>21, <1>22, <1>27, <1>28 DEF Durable

\* One step, when no late success is taken as current: history goes on, and
\* nothing applied is taken back.
LEMMA DurablePas ==
    ASSUME TypeOK, TypeOK', ElectionInv, ElectionInv', [NextATemps]_vars,
           NEW J \in Journaux, NEW M \in Meneurs, Durable(J, M)
    PROVE  Protege /\ \E K \in Journaux, N \in Meneurs : Durable(K, N)'
<1>1. [Next]_vars
  BY DEF NextATemps, Next
<1>2. Avance /\ (NeNommePas \/ \E m \in msgs : Elit(m))
  BY <1>1, PasAvance
<1>3. ASSUME NEW n \in Noeuds, NEW c \in Commandes, Soumettre(n, c)
      PROVE  Protege /\ \E K \in Journaux, N \in Meneurs : Durable(K, N)'
  <2>1. PICK K : K = [J EXCEPT ![current_term[n]] = log'[n]]
    OBVIOUS
  <2>2. NeNommePas
    BY <1>3, EffetSoumettre DEF NeNommePas
  <2> QED
    BY <1>2, <1>3, <2>1, <2>2, DurableSoumettre
<1>4. ASSUME NEW m \in msgs, Elit(m)
      PROVE  Protege /\ \E K \in Journaux, N \in Meneurs : Durable(K, N)'
  <2>1. PICK K : K = [J EXCEPT ![current_term[m.dst]] = log[m.dst]]
    OBVIOUS
  <2>2. PICK N : N = [M EXCEPT ![current_term[m.dst]] = m.dst]
    OBVIOUS
  <2> QED
    BY <1>2, <1>4, <2>1, <2>2, DurableElection
<1> SUFFICES ASSUME ~ \E n \in Noeuds, c \in Commandes : Soumettre(n, c),
                    ~ \E m \in msgs : Elit(m)
             PROVE  Protege /\ Durable(J, M)'
  BY <1>3, <1>4
<1>5. NeNommePas /\ LogInv(J, M)'
  BY <1>1, <1>2, LogPas DEF Durable
<1>6. ASSUME NEW n \in Noeuds,
             TirerMinuterie(n) \/ AnnulerMinuterie(n) \/ Arreter(n)
               \/ Ressusciter(n)
      PROVE  Protege /\ Durable(J, M)'
  <2>1. /\ UNCHANGED <<current_term, log, commit_index, match_index, scrutins,
                       msgs>>
    BY <1>6 DEF TirerMinuterie, AnnulerMinuterie, Arreter, Ressusciter,
                persistantes, meneur
  <2>2. /\ Appels' = Appels /\ Succes' = Succes /\ Bulletins' = Bulletins
        /\ Demandes' = Demandes
    BY <2>1 DEF Appels, Succes, Bulletins, Demandes
  <2> QED
    BY <1>2, <1>5, <2>1, <2>2, DurableOrdinaire DEF NeNommePas
<1>7. ASSUME NEW n \in Noeuds, DeclencherElection(n)
      PROVE  Protege /\ Durable(J, M)'
  <2>1. UNCHANGED <<log, commit_index, match_index, msgs>>
    BY <1>7 DEF DeclencherElection, meneur
  <2>2. /\ Appels' = Appels /\ Succes' = Succes /\ Bulletins' = Bulletins
        /\ Demandes' = Demandes
    BY <2>1 DEF Appels, Succes, Bulletins, Demandes
  <2>3. ASSUME NEW s \in scrutins'
        PROVE  s \in scrutins \/ s[2] <= current_term'[s[1]]
    <3>1. s \in scrutins \/ /\ s = <<n, current_term[n] + 1>>
                            /\ current_term' = [current_term EXCEPT ![n] = @ + 1]
      BY <1>7 DEF DeclencherElection
    <3> QED
      BY <3>1 DEF TypeOK
  <2> QED
    BY <1>2, <1>5, <2>1, <2>2, <2>3, DurableOrdinaire DEF NeNommePas
<1>8. ASSUME NEW n \in Noeuds, NEW t \in 1..MaxTerm, LancerVote(n, t)
      PROVE  Protege /\ Durable(J, M)'
  <2>1. UNCHANGED <<current_term, log, commit_index, match_index>>
    BY <1>8 DEF LancerVote, persistantes, meneur
  <2>2. /\ Appels' = Appels /\ Succes' = Succes /\ Bulletins' = Bulletins
    BY <1>8 DEF LancerVote, Appels, Succes, Bulletins
  <2>3. ASSUME NEW m \in Demandes'
        PROVE  \/ m \in Demandes
               \/ /\ m.term <= current_term'[m.src]
                  /\ m.last_log_index = Len(log'[m.src])
                  /\ m.last_log_term = DernierTerm(log'[m.src])
    <3>1. t <= current_term[n]
      <4>1. <<n, t>> \in scrutins /\ <<n, t>>[1] = n /\ <<n, t>>[2] = t
        BY <1>8 DEF LancerVote
      <4>2. \A s \in scrutins : s[2] <= current_term[s[1]]
        BY DEF Durable, DemandesInv
      <4> QED
        BY <4>1, <4>2
    <3>2. m \in Demandes \/ /\ m.src = n /\ m.term = t
                            /\ m.last_log_index = Len(log[n])
                            /\ m.last_log_term = DernierTerm(log[n])
      BY <1>8 DEF LancerVote, Demandes
    <3> QED
      BY <2>1, <3>1, <3>2
  <2>4. scrutins' \subseteq scrutins
    BY <1>8 DEF LancerVote
  <2> QED
    BY <1>2, <1>5, <2>1, <2>2, <2>3, <2>4, DurableOrdinaire DEF NeNommePas
<1>9. ASSUME NEW n \in Noeuds, NEW d \in Autres(n), RepliquerVers(n, d)
      PROVE  Protege /\ Durable(J, M)'
  BY <1>2, <1>5, <1>9, DurableRepliquer
<1>10. ASSUME NEW m \in msgs, RecevoirRequestVote(m)
       PROVE  Protege /\ Durable(J, M)'
  BY <1>2, <1>5, <1>10, DurableRequestVote
<1>11. ASSUME NEW m \in msgs, RecevoirReponseVote(m)
       PROVE  Protege /\ Durable(J, M)'
  <2>1. UNCHANGED <<log, commit_index, scrutins, msgs>>
    BY <1>11 DEF RecevoirReponseVote
  <2>2. /\ Appels' = Appels /\ Succes' = Succes /\ Bulletins' = Bulletins
        /\ Demandes' = Demandes
    BY <2>1 DEF Appels, Succes, Bulletins, Demandes
  <2>3. match_index' = match_index
    BY <1>11 DEF RecevoirReponseVote, Elit, meneur
  <2> QED
    BY <1>2, <1>5, <2>1, <2>2, <2>3, DurableOrdinaire DEF NeNommePas
<1>12. ASSUME NEW m \in msgs, RecevoirAppendEntries(m)
       PROVE  Protege /\ Durable(J, M)'
  <2> DEFINE n == m.dst
  <2>1. CASE actif[n] /\ m.term >= current_term[n] /\ Coherent(m, log[n])
    BY <1>2, <1>5, <1>12, <2>1, DurableAppel
  <2>2. CASE ~(actif[n] /\ m.term >= current_term[n] /\ Coherent(m, log[n]))
    <3>1. PICK r : r = ReponseAppend(m, current_term'[n], FALSE)
      OBVIOUS
    <3>2. /\ msgs' = msgs \union {r}
          /\ UNCHANGED <<log, commit_index, match_index, scrutins>>
      BY <1>12, <2>2, <3>1 DEF RecevoirAppendEntries, meneur
    <3>3. r.type = "ReponseAppend" /\ ~r.succes
      BY <3>1 DEF ReponseAppend
    <3>4. /\ Appels' = Appels /\ Succes' = Succes /\ Bulletins' = Bulletins
          /\ Demandes' = Demandes
      BY <3>2, <3>3 DEF Appels, Succes, Bulletins, Demandes
    <3> QED
      BY <1>2, <1>5, <3>2, <3>4, DurableOrdinaire DEF NeNommePas
  <2> QED
    BY <2>1, <2>2
<1>13. ASSUME NEW m \in msgs, ATemps(m), RecevoirReponseAppend(m)
       PROVE  Protege /\ Durable(J, M)'
  <2>1. UNCHANGED <<log, scrutins, msgs>> /\ m.type = "ReponseAppend"
    BY <1>13 DEF RecevoirReponseAppend
  <2>2. /\ Appels' = Appels /\ Succes' = Succes /\ Bulletins' = Bulletins
        /\ Demandes' = Demandes
    BY <2>1 DEF Appels, Succes, Bulletins, Demandes
  <2>3. CASE UNCHANGED <<commit_index, match_index>>
    BY <1>2, <1>5, <2>1, <2>2, <2>3, DurableOrdinaire DEF NeNommePas
  <2>4. CASE ~UNCHANGED <<commit_index, match_index>>
    <3>1. /\ m.succes /\ role[m.dst] = "LEADER" /\ m.nb > 0
          /\ match_index' = [match_index EXCEPT ![m.dst][m.src] = m.prev + m.nb]
          /\ MajCommitIndex(m.dst, match_index'[m.dst])
          /\ UNCHANGED <<role, current_term>>
      BY <1>13, <2>4 DEF RecevoirReponseAppend, meneur
    <3>2. m \in Succes /\ m.pour >= current_term[m.dst]
      BY <1>13, <2>1, <3>1 DEF Succes, ATemps
    <3> QED
      BY <1>2, <1>5, <2>1, <3>1, <3>2, DurableReponse
  <2> QED
    BY <2>3, <2>4
<1>14. CASE UNCHANGED vars
  <2>1. UNCHANGED <<role, current_term, log, commit_index, match_index,
                    scrutins, msgs>>
    BY <1>14 DEF vars, persistantes, meneur, minuteries
  <2>2. /\ Appels' = Appels /\ Succes' = Succes /\ Bulletins' = Bulletins
        /\ Demandes' = Demandes
    BY <2>1 DEF Appels, Succes, Bulletins, Demandes
  <2> QED
    BY <1>2, <1>5, <2>1, <2>2, DurableOrdinaire
<1> QED
  BY <1>6, <1>7, <1>8, <1>9, <1>10, <1>11, <1>12, <1>13, <1>14
  DEF NextATemps, Locale, Reception

-----------------------------------------------------------------------------
\* The inductive invariant of the committed entries.
Histoire == \E J \in Journaux, M \in Meneurs : Durable(J, M)

LEMMA HistoireInit == Init => Histoire
<1> SUFFICES ASSUME Init PROVE Histoire
  OBVIOUS
<1>1. PICK J \in Journaux, M \in Meneurs :
         /\ LogInv(J, M)
         /\ \A T \in Nat : M[T] = Personne /\ J[T] = <<>>
  BY JournalVide
<1>2. msgs = {} /\ scrutins = {}
  BY DEF Init
<1>3. Succes = {} /\ Demandes = {} /\ Appels = {} /\ Bulletins = {}
  BY <1>2 DEF Succes, Demandes, Appels, Bulletins
<1>4. \A q \in Noeuds, T \in Nat, k \in Nat : ~Acquitte(q, T, k, J, M)
  BY <1>1 DEF Acquitte
<1>5. ReponsesInv(J, M) /\ AcquitInv(J, M) /\ DemandesInv
      /\ ScrutinsInv(J, M) /\ MeneursInv(J, M)
  BY <1>1, <1>2, <1>3, <1>4
  DEF ReponsesInv, AcquitInv, DemandesInv, ScrutinsInv, MeneursInv
<1>6. SuiviInv
  BY DEF SuiviInv, Init
<1>7. CommitInv(J, M)
  BY <1>3 DEF CommitInv, Acquis, Init
<1> QED
  BY <1>1, <1>5, <1>6, <1>7 DEF Histoire, Durable

LEMMA HistoireNext ==
    TypeOK /\ ElectionInv /\ Histoire /\ [NextATemps]_vars
      /\ TypeOK' /\ ElectionInv' => Histoire' /\ Protege
<1> SUFFICES ASSUME TypeOK, ElectionInv, Histoire, [NextATemps]_vars,
                    TypeOK', ElectionInv'
             PROVE  /\ \E K \in Journaux, N \in Meneurs : Durable(K, N)'
                    /\ Protege
  BY DEF Histoire
<1>1. PICK J \in Journaux, M \in Meneurs : Durable(J, M)
  BY DEF Histoire
<1> QED
  BY <1>1, DurablePas

\* What two nodes applied, as far as both did.
LEMMA AccordAcquis ==
    ASSUME TypeOK, NEW J \in Journaux, NEW M \in Meneurs, Durable(J, M),
           NEW a \in Noeuds, NEW b \in Noeuds, NEW i \in Nat \ {0},
           i <= commit_index[a], i <= commit_index[b]
    PROVE  /\ i \in 1..Len(log[a]) /\ i \in 1..Len(log[b])
           /\ log[a][i] = log[b][i]
<1>1. /\ LogInv(J, M) /\ ReponsesInv(J, M) /\ MeneursInv(J, M)
      /\ CommitInv(J, M)
  BY DEF Durable
<1>2. PICK l \in Seq(Entrees), g \in Seq(Entrees), c \in Nat, d \in Nat :
         /\ l = log[a] /\ g = log[b]
         /\ c = commit_index[a] /\ d = commit_index[b]
  BY DEF TypeOK
<1>3. Acquis(l, c, current_term[a], J, M) /\ Acquis(g, d, current_term[b], J, M)
  BY <1>1, <1>2 DEF CommitInv
<1>4. PICK T \in Nat, k \in Nat :
         c <= k /\ Valide(T, k, J, M) /\ Commun(l, J[T], c)
  BY <1>2, <1>3 DEF Acquis
<1>5. PICK U \in Nat, j \in Nat :
         d <= j /\ Valide(U, j, J, M) /\ Commun(g, J[U], d)
  BY <1>2, <1>3 DEF Acquis
<1>6. l[i] = J[T][i] /\ g[i] = J[U][i] /\ i \in 1..Len(l) /\ i \in 1..Len(g)
  BY <1>2, <1>4, <1>5 DEF Commun
<1>7. M[T] # Personne /\ M[U] # Personne
  BY <1>1, <1>4, <1>5, ValideMeneur
<1>8. J[T][i] = J[U][i]
  <2>1. CASE T <= U
    <3>1. Commun(J[U], J[T], k)
      BY <1>1, <1>4, <1>7, <2>1, AcquisTransmis
    <3> QED
      BY <1>2, <1>4, <3>1 DEF Commun
  <2>2. CASE U <= T
    <3>1. Commun(J[T], J[U], j)
      BY <1>1, <1>5, <1>7, <2>2, AcquisTransmis
    <3> QED
      BY <1>2, <1>5, <3>1 DEF Commun
  <2> QED
    BY <2>1, <2>2
<1> QED
  BY <1>2, <1>6, <1>8

LEMMA HistoireMachine == TypeOK /\ Histoire => StateMachineSafety
<1> SUFFICES ASSUME TypeOK, Histoire, NEW a \in Noeuds, NEW b \in Noeuds,
                    NEW i \in 1..commit_index[a] \cap 1..commit_index[b]
             PROVE  /\ i \in DOMAIN log[a] \cap DOMAIN log[b]
                    /\ log[a][i] = log[b][i]
  BY DEF StateMachineSafety
<1>1. PICK J \in Journaux, M \in Meneurs : Durable(J, M)
  BY DEF Histoire
<1>2. /\ log[a] \in Seq(Entrees) /\ log[b] \in Seq(Entrees)
      /\ commit_index[a] \in Nat /\ commit_index[b] \in Nat
  BY DEF TypeOK
<1>3. i \in Nat \ {0} /\ i <= commit_index[a] /\ i <= commit_index[b]
  BY <1>2
<1>4. /\ i \in 1..Len(log[a]) /\ i \in 1..Len(log[b])
      /\ log[a][i] = log[b][i]
  BY <1>1, <1>3, AccordAcquis
<1> QED
  BY <1>2, <1>4

LEMMA HistoireComplete == TypeOK /\ Histoire => LeaderCompleteness
<1> SUFFICES ASSUME TypeOK, Histoire, NEW l \in Noeuds, NEW n \in Noeuds,
                    role[l] = "LEADER", current_term[l] >= current_term[n]
             PROVE  /\ commit_index[n] <= Len(log[l])
                    /\ SubSeq(log[l], 1, commit_index[n])
                         = SubSeq(log[n], 1, commit_index[n])
  BY DEF LeaderCompleteness
<1>1. PICK J \in Journaux, M \in Meneurs : Durable(J, M)
  BY DEF Histoire
<1>2. /\ LogInv(J, M) /\ ReponsesInv(J, M) /\ MeneursInv(J, M)
      /\ CommitInv(J, M)
  BY <1>1 DEF Durable
<1>3. PICK g \in Seq(Entrees), h \in Seq(Entrees), c \in Nat, U \in Nat,
           t \in Nat :
         /\ g = log[l] /\ h = log[n] /\ c = commit_index[n]
         /\ U = current_term[l] /\ t = current_term[n] /\ t <= U
  BY DEF TypeOK
<1>4. J[U] = g /\ M[U] = l /\ M[U] # Personne
  BY <1>2, <1>3, RaftAssumption DEF LogInv, ElusInv, JournauxInv
<1>5. Commun(g, h, c)
  <2>1. CASE c = 0
    BY <2>1 DEF Commun
  <2>2. CASE c > 0
    <3>1. Acquis(h, c, t, J, M)
      BY <1>2, <1>3 DEF CommitInv
    <3>2. PICK T \in Nat, k \in Nat :
             T <= t /\ c <= k /\ Valide(T, k, J, M) /\ Commun(h, J[T], c)
      BY <2>2, <3>1 DEF Acquis
    <3>3. T <= U /\ J[T] \in Seq(Entrees)
      BY <1>3, <3>2, TypeJournal
    <3>4. Commun(g, J[T], k)
      BY <1>2, <1>4, <3>2, <3>3, AcquisTransmis
    <3>5. Commun(g, J[T], c) /\ Commun(J[T], h, c)
      BY <3>2, <3>3, <3>4, CommunReduit, CommunSymetrique
    <3> QED
      BY <3>3, <3>5, CommunTransitif
  <2> QED
    BY <2>1, <2>2
<1>6. c <= Len(g)
  BY <1>5 DEF Commun
<1> QED
  BY <1>3, <1>5, <1>6, CommunEgal

LEMMA PasProtege ==
    ASSUME TypeOK, TypeOK', Protege
    PROVE  \A n \in Noeuds :
             /\ commit_index'[n] >= commit_index[n]
             /\ Len(log'[n]) >= commit_index[n]
             /\ SubSeq(log'[n], 1, commit_index[n])
                  = SubSeq(log[n], 1, commit_index[n])
<1> SUFFICES ASSUME NEW n \in Noeuds
             PROVE  /\ commit_index'[n] >= commit_index[n]
                    /\ Len(log'[n]) >= commit_index[n]
                    /\ SubSeq(log'[n], 1, commit_index[n])
                         = SubSeq(log[n], 1, commit_index[n])
  OBVIOUS
<1>1. /\ log[n] \in Seq(Entrees) /\ log'[n] \in Seq(Entrees)
      /\ commit_index[n] \in Nat /\ commit_index'[n] \in Nat
      /\ commit_index[n] <= commit_index'[n]
      /\ Commun(log[n], log'[n], commit_index[n])
  BY DEF TypeOK, Protege
<1>2. Len(log'[n]) >= commit_index[n]
  BY <1>1 DEF Commun
<1>3. SubSeq(log'[n], 1, commit_index[n]) = SubSeq(log[n], 1, commit_index[n])
  BY <1>1, CommunEgal
<1> QED
  BY <1>1, <1>2, <1>3

-----------------------------------------------------------------------------
\* The induction, for the behaviours where a success comes back in time.
LEMMA HistoireCorrecte ==
    SpecATemps => /\ [](TypeOK /\ ElectionInv /\ Histoire)
                  /\ [][Protege]_vars
<1>1. Init => TypeOK /\ ElectionInv /\ Histoire
  BY TypeInit, ElectionInit, HistoireInit
<1>2. ASSUME TypeOK, ElectionInv, Histoire, [NextATemps]_vars
      PROVE  TypeOK' /\ ElectionInv' /\ Histoire' /\ Protege
  <2>1. [Next]_vars
    BY <1>2 DEF NextATemps, Next
  <2>2. TypeOK' /\ ElectionInv'
    BY <1>2, <2>1, TypeNext, ElectionNext
  <2> QED
    BY <1>2, <2>2, HistoireNext
<1> QED
  BY <1>1, <1>2, PTL DEF SpecATemps

\* "Garantie : une commande committée ne peut JAMAIS être perdue"
\* (simulation.py): the entries a node applied are in the log of every leader
\* of its term or of a later one, for every cluster, whatever is lost,
\* repeated or restarted, as long as no success of an earlier leadership is
\* taken for a current one.
THEOREM LeaderCompletenessCorrect == SpecATemps => []LeaderCompleteness
BY HistoireCorrecte, HistoireComplete, PTL

\* No two nodes apply different commands at one index: _appliquer_log hands
\* the same sequence to every state machine.
THEOREM StateMachineSafetyCorrect == SpecATemps => []StateMachineSafety
BY HistoireCorrecte, HistoireMachine, PTL

\* No step takes back a commit index or rewrites an entry already applied:
\* what recevoir_append_entries cuts off a log was never committed.
THEOREM CommittedNeverRewrittenCorrect == SpecATemps => CommittedNeverRewritten
<1>1. TypeOK /\ TypeOK' /\ [Protege]_vars =>
        [\A n \in Noeuds :
           /\ commit_index'[n] >= commit_index[n]
           /\ Len(log'[n]) >= commit_index[n]
           /\ SubSeq(log'[n], 1, commit_index[n])
                = SubSeq(log[n], 1, commit_index[n])]_vars
  BY PasProtege
<1> QED
  BY <1>1, HistoireCorrecte, PTL DEF CommittedNeverRewritten
=============================================================================
