-------------------------------- MODULE Raft --------------------------------
(***************************************************************************)
(* The Raft cluster of jour7-raft/raft.py: NoeudRaft and Cluster.          *)
(*                                                                         *)
(* Every critical section taken under NoeudRaft._lock is one action.  An   *)
(* RPC is a thread that calls the destination's handler (or loses the      *)
(* call: Cluster._simuler_reseau) and later takes the caller's lock again  *)
(* to process the value returned, so a call and its answer are two         *)
(* messages and any number of critical sections may come between them.     *)
(*                                                                         *)
(* msgs only grows.  A call that is never handled is a lost call.  A       *)
(* RequestVote is handled at most once (one thread per election and        *)
(* destination); an AppendEntries stands for every heartbeat or submit     *)
(* thread that carries the same content, so it may be handled repeatedly.  *)
(***************************************************************************)
EXTENDS Integers, Sequences, FiniteSets

CONSTANTS Noeuds,       \* Cluster.noeuds
          Commandes,    \* what clients submit
          Faillibles,   \* the nodes arreter()/ressusciter() is called on
          Electables,   \* bound: the nodes whose election Timer may expire
          MaxTerm,      \* bound: no election starts beyond this term
          MaxLog,       \* bound: no command is submitted beyond this length
          MaxAppels,    \* bound: the distinct AppendEntries calls ever made
          Personne      \* voted_for = None

ASSUME RaftAssumption ==
    /\ IsFiniteSet(Noeuds)
    /\ Faillibles \subseteq Noeuds
    /\ Electables \subseteq Noeuds
    /\ Personne \notin Noeuds
    /\ MaxTerm \in Nat
    /\ MaxLog \in Nat
    /\ MaxAppels \in Nat

VARIABLES
    actif,          \* NoeudRaft._actif
    role,           \* NoeudRaft.role
    current_term,
    voted_for,
    log,
    commit_index,   \* and last_applied: _appliquer_log catches up at once
    next_index,
    match_index,
    votes,          \* who answered yes in the node's current election
    minuterie,      \* nodes whose election Timer is armed
    tirs,           \* nodes whose Timer fired, its thread not yet under lock
    scrutins,       \* <<node, term>>: _lancer_vote has not read the log yet
    annulations,    \* new leaders that still have to cancel their Timer
    msgs

persistantes == <<current_term, voted_for, log>>
minuteries   == <<minuterie, tirs, scrutins, annulations>>
meneur       == <<next_index, match_index>>
vars == <<actif, role, persistantes, commit_index, meneur, votes,
          minuteries, msgs>>

Entrees == [term : Nat, commande : Commandes]
Autres(n) == Noeuds \ {n}

\* Cluster.quorum
EstQuorum(s) == Cardinality(s) >= Cardinality(Noeuds) \div 2 + 1

DernierTerm(l) == IF l = <<>> THEN 0 ELSE l[Len(l)].term

-----------------------------------------------------------------------------
\* Cluster(n) followed by demarrer() on every node.
Init ==
    /\ actif        = [n \in Noeuds |-> TRUE]
    /\ role         = [n \in Noeuds |-> "FOLLOWER"]
    /\ current_term = [n \in Noeuds |-> 0]
    /\ voted_for    = [n \in Noeuds |-> Personne]
    /\ log          = [n \in Noeuds |-> <<>>]
    /\ commit_index = [n \in Noeuds |-> 0]
    /\ next_index   = [n \in Noeuds |-> [d \in Noeuds |-> 1]]
    /\ match_index  = [n \in Noeuds |-> [d \in Noeuds |-> 0]]
    /\ votes        = [n \in Noeuds |-> {}]
    /\ minuterie    = Noeuds
    /\ tirs         = {}
    /\ scrutins     = {}
    /\ annulations  = {}
    /\ msgs         = {}

-----------------------------------------------------------------------------
\* State transformers shared by the handlers.

\* _reset_election_timer, on the set of armed timers.
Rearmer(n) == IF actif[n] THEN minuterie \union {n} ELSE minuterie

\* _devenir_follower(t) where a term t above n's own was seen.
DevenirFollower(n, t) ==
    /\ current_term' = [current_term EXCEPT ![n] = t]
    /\ voted_for'    = [voted_for EXCEPT ![n] = Personne]
    /\ role'         = [role EXCEPT ![n] = "FOLLOWER"]
    /\ minuterie'    = Rearmer(n)

-----------------------------------------------------------------------------
\* Elections.

\* threading.Timer expires: its thread now waits for the node's lock, and a
\* cancel() no longer stops it.
TirerMinuterie(n) ==
    /\ n \in Electables
    /\ n \in minuterie
    /\ minuterie' = minuterie \ {n}
    /\ tirs' = tirs \union {n}
    /\ UNCHANGED <<actif, role, persistantes, commit_index, meneur, votes,
                   scrutins, annulations, msgs>>

DeclencherElection(n) ==
    /\ n \in tirs
    /\ current_term[n] < MaxTerm
    /\ tirs' = tirs \ {n}
    /\ \/ /\ actif[n]
          /\ role[n] # "LEADER"
          /\ current_term' = [current_term EXCEPT ![n] = @ + 1]
          /\ role'      = [role EXCEPT ![n] = "CANDIDATE"]
          /\ voted_for' = [voted_for EXCEPT ![n] = n]
          /\ votes'     = [votes EXCEPT ![n] = {n}]
          /\ scrutins'  = scrutins \union {<<n, current_term[n] + 1>>}
       \/ /\ ~actif[n] \/ role[n] = "LEADER"
          /\ UNCHANGED <<role, current_term, voted_for, votes, scrutins>>
    /\ UNCHANGED <<actif, log, commit_index, meneur, minuterie, annulations,
                   msgs>>

\* _lancer_vote reads the log in a second critical section, then starts one
\* thread per other node.
LancerVote(n, t) ==
    /\ <<n, t>> \in scrutins
    /\ scrutins' = scrutins \ {<<n, t>>}
    /\ msgs' = msgs \union
         {[type |-> "RequestVote", src |-> n, dst |-> d, term |-> t,
           last_log_index |-> Len(log[n]),
           last_log_term  |-> DernierTerm(log[n])] : d \in Autres(n)}
    /\ UNCHANGED <<actif, role, persistantes, commit_index, meneur, votes,
                   minuterie, tirs, annulations>>

\* Mutant: any candidate's log is accepted.
LogAJour_Toujours(m, n) == TRUE

\* The log comparison of recevoir_request_vote.
LogAJour(m, n) ==
    \/ m.last_log_term > DernierTerm(log[n])
    \/ /\ m.last_log_term = DernierTerm(log[n])
       /\ m.last_log_index >= Len(log[n])

\* The vote n has left once it has seen term t.
VoteAu(n, t) == IF t > current_term[n] THEN Personne ELSE voted_for[n]

\* Mutant: the vote already given in this term is not looked at.
Accorde_DejaVote(m, n) ==
    /\ actif[n]
    /\ m.term >= current_term[n]
    /\ LogAJour(m, n)

Accorde(m, n) ==
    /\ actif[n]
    /\ m.term >= current_term[n]
    /\ VoteAu(n, m.term) \in {Personne, m.src}
    /\ LogAJour(m, n)

ReponseVote(m, t, ok) ==
    [type |-> "ReponseVote", src |-> m.dst, dst |-> m.src,
     pour |-> m.term, term |-> t, vote_accorde |-> ok]

Traitee(m) == \E r \in msgs : /\ r.type = "ReponseVote"
                              /\ r.src = m.dst
                              /\ r.dst = m.src
                              /\ r.pour = m.term

RecevoirRequestVote(m) ==
    LET n == m.dst IN
    /\ m.type = "RequestVote"
    /\ ~Traitee(m)
    /\ IF actif[n] /\ m.term > current_term[n]
         THEN /\ role' = [role EXCEPT ![n] = "FOLLOWER"]
              /\ current_term' = [current_term EXCEPT ![n] = m.term]
         ELSE UNCHANGED <<role, current_term>>
    /\ voted_for' = [voted_for EXCEPT ![n] =
                       IF Accorde(m, n) THEN m.src
                       ELSE IF actif[n] THEN VoteAu(n, m.term) ELSE @]
    /\ minuterie' = IF Accorde(m, n) \/ m.term > current_term[n]
                      THEN Rearmer(n) ELSE minuterie
    /\ msgs' = msgs \union {ReponseVote(m, current_term'[n], Accorde(m, n))}
    /\ UNCHANGED <<actif, log, commit_index, meneur, votes, tirs, scrutins,
                   annulations>>

\* The recheck under lock: n is still the candidate of the election m answers.
DansSonElection(m, n) == role[n] = "CANDIDATE" /\ current_term[n] = m.pour

\* _envoyer_request_vote after the call returned, with _devenir_leader when
\* the quorum is reached.
RecevoirReponseVote(m) ==
    LET n == m.dst IN
    /\ m.type = "ReponseVote"
    /\ \/ /\ m.term > current_term[n]
          /\ DevenirFollower(n, m.term)
          /\ UNCHANGED <<votes, meneur, annulations>>
       \/ /\ m.term <= current_term[n]
          /\ DansSonElection(m, n)
          /\ m.vote_accorde
          /\ votes' = [votes EXCEPT ![n] = @ \union {m.src}]
          /\ IF EstQuorum(votes'[n])
               THEN /\ role' = [role EXCEPT ![n] = "LEADER"]
                    /\ next_index' = [next_index EXCEPT ![n] =
                                        [d \in Noeuds |-> Len(log[n]) + 1]]
                    /\ match_index' = [match_index EXCEPT ![n] =
                                         [d \in Noeuds |-> 0]]
                    /\ annulations' = annulations \union {n}
               ELSE UNCHANGED <<role, meneur, annulations>>
          /\ UNCHANGED <<current_term, voted_for, minuterie>>
    /\ UNCHANGED <<actif, log, commit_index, tirs, scrutins, msgs>>

\* The end of _devenir_leader runs outside the lock: the Timer it cancels is
\* whichever is armed by then.
AnnulerMinuterie(n) ==
    /\ n \in annulations
    /\ annulations' = annulations \ {n}
    /\ minuterie' = minuterie \ {n}
    /\ UNCHANGED <<actif, role, persistantes, commit_index, meneur, votes,
                   tirs, scrutins, msgs>>

-----------------------------------------------------------------------------
\* Log replication.

\* soumettre: the append; the threads it starts are RepliquerVers steps.
Soumettre(n, c) ==
    /\ role[n] = "LEADER"
    /\ Len(log[n]) < MaxLog
    /\ log' = [log EXCEPT ![n] =
                 Append(@, [term |-> current_term[n], commande |-> c])]
    /\ UNCHANGED <<actif, role, current_term, voted_for, commit_index, meneur,
                   votes, minuteries, msgs>>

\* The locked snapshot of _repliquer_vers, started by the heartbeat loop or by
\* soumettre.  next_index may point past the log (a stale answer): the term of
\* a previous entry that does not exist is sent as 0.
RepliquerVers(n, d) ==
    LET prev == next_index[n][d] - 1 IN
    /\ role[n] = "LEADER"
    /\ actif[n]
    /\ Cardinality({m \in msgs : m.type = "AppendEntries"}) < MaxAppels
    /\ msgs' = msgs \union
         {[type |-> "AppendEntries", src |-> n, dst |-> d,
           term |-> current_term[n],
           prev_log_index |-> prev,
           prev_log_term  |-> IF prev \in 1..Len(log[n])
                                THEN log[n][prev].term ELSE 0,
           entries |-> SubSeq(log[n], prev + 1, Len(log[n])),
           leader_commit |-> commit_index[n]]}
    /\ UNCHANGED <<actif, role, persistantes, commit_index, meneur, votes,
                   minuteries>>

\* Mutant: the term of the previous entry is not compared.
Coherent_SansTerm(m, l) == m.prev_log_index <= Len(l)

\* recevoir_append_entries: the consistency check on the previous entry.
Coherent(m, l) ==
    \/ m.prev_log_index = 0
    \/ /\ m.prev_log_index <= Len(l)
       /\ l[m.prev_log_index].term = m.prev_log_term

\* Mutant: a call always cuts the log behind its previous entry, so that an
\* old call handled late removes newer entries.
Fusionner_Coupe(l, prev, entries) == SubSeq(l, 1, prev) \o entries

\* The append loop: from the first entry whose term differs the suffix is
\* replaced, otherwise what is beyond the log is appended.
Fusionner(l, prev, entries) ==
    LET conflits == {i \in 1..Len(entries) :
                       /\ prev + i <= Len(l)
                       /\ l[prev + i].term # entries[i].term}
    IN  IF conflits # {} \/ prev + Len(entries) > Len(l)
          THEN SubSeq(l, 1, prev) \o entries
          ELSE l

\* A follower's commit index after a call: min(leader_commit, len(log)).
AvancerCommit(c, leader_commit, n) ==
    IF leader_commit <= c THEN c
    ELSE IF leader_commit <= n THEN leader_commit ELSE n

\* The answer, with what the caller's thread kept of its call in locals.
ReponseAppend(m, t, ok) ==
    [type |-> "ReponseAppend", src |-> m.dst, dst |-> m.src,
     pour |-> m.term, term |-> t, succes |-> ok,
     prev |-> m.prev_log_index, nb |-> Len(m.entries)]

RecevoirAppendEntries(m) ==
    LET n == m.dst
        recu == actif[n] /\ m.term >= current_term[n]
        ok   == recu /\ Coherent(m, log[n])
    IN
    /\ m.type = "AppendEntries"
    /\ IF recu
         THEN /\ role' = [role EXCEPT ![n] = "FOLLOWER"]
              /\ voted_for' = [voted_for EXCEPT ![n] = VoteAu(n, m.term)]
              /\ current_term' = [current_term EXCEPT ![n] = m.term]
              /\ minuterie' = Rearmer(n)
         ELSE UNCHANGED <<role, current_term, voted_for, minuterie>>
    /\ IF ok
         THEN /\ log' = [log EXCEPT ![n] =
                           Fusionner(@, m.prev_log_index, m.entries)]
              /\ commit_index' = [commit_index EXCEPT ![n] =
                   AvancerCommit(@, m.leader_commit, Len(log'[n]))]
         ELSE UNCHANGED <<log, commit_index>>
    /\ msgs' = msgs \union {ReponseAppend(m, current_term'[n], ok)}
    /\ UNCHANGED <<actif, meneur, votes, tirs, scrutins, annulations>>

\* _maj_commit_index: who is known to hold entry i.
\* Mutant: off by one.
Repliques_Decalees(n, i, match) ==
    {n} \union {d \in Autres(n) : match[d] >= i - 1}

Repliques(n, i, match) == {n} \union {d \in Autres(n) : match[d] >= i}

\* Entries of the current term are tried from the last one down, and the scan
\* stops at the first entry of another term.
Committables(n, match) ==
    {i \in commit_index[n] + 1 .. Len(log[n]) :
        /\ \A j \in i..Len(log[n]) : log[n][j].term = current_term[n]
        /\ EstQuorum(Repliques(n, i, match))}

MajCommitIndex(n, match) ==
    \E c \in {commit_index[n]} \union Committables(n, match) :
        /\ \A i \in Committables(n, match) : i <= c
        /\ commit_index' = [commit_index EXCEPT ![n] = c]

\* Mutant: no lower bound on next_index.
Reculer_SansBorne(prev) == prev

\* A refused call: one step back from the next_index it was made with.
Reculer(prev) == IF prev > 1 THEN prev ELSE 1

\* _repliquer_vers after the call returned.  The answer's term is compared
\* with the node's, but the term of the call (m.pour, a local of the thread)
\* is not: an answer to a call of an earlier leadership of the same node is
\* taken for a current one.
RecevoirReponseAppend(m) ==
    LET n == m.dst IN
    /\ m.type = "ReponseAppend"
    /\ \/ /\ m.term > current_term[n]
          /\ DevenirFollower(n, m.term)
          /\ UNCHANGED <<commit_index, meneur>>
       \/ /\ m.term <= current_term[n]
          /\ role[n] = "LEADER"
          /\ m.succes
          /\ m.nb > 0
          /\ match_index' = [match_index EXCEPT ![n][m.src] = m.prev + m.nb]
          /\ next_index' = [next_index EXCEPT ![n][m.src] = m.prev + m.nb + 1]
          /\ MajCommitIndex(n, match_index'[n])
          /\ UNCHANGED <<role, current_term, voted_for, minuterie>>
       \/ /\ m.term <= current_term[n]
          /\ role[n] = "LEADER"
          /\ ~m.succes
          /\ next_index' = [next_index EXCEPT ![n][m.src] = Reculer(m.prev)]
          /\ UNCHANGED <<role, current_term, voted_for, minuterie, match_index,
                         commit_index>>
    /\ UNCHANGED <<actif, log, votes, tirs, scrutins, annulations, msgs>>

-----------------------------------------------------------------------------
\* Stop and restart.  Everything but the role survives.

Arreter(n) ==
    /\ n \in Faillibles
    /\ actif[n]
    /\ actif' = [actif EXCEPT ![n] = FALSE]
    /\ role'  = [role EXCEPT ![n] = "FOLLOWER"]
    /\ minuterie' = minuterie \ {n}
    /\ UNCHANGED <<persistantes, commit_index, meneur, votes, tirs, scrutins,
                   annulations, msgs>>

Ressusciter(n) ==
    /\ ~actif[n]
    /\ actif' = [actif EXCEPT ![n] = TRUE]
    /\ role'  = [role EXCEPT ![n] = "FOLLOWER"]
    /\ minuterie' = minuterie \union {n}
    /\ UNCHANGED <<persistantes, commit_index, meneur, votes, tirs, scrutins,
                   annulations, msgs>>

-----------------------------------------------------------------------------
\* A step of a node on its own, and one that a call or an answer causes.
Locale(n) ==
    \/ TirerMinuterie(n)
    \/ DeclencherElection(n)
    \/ \E t \in 1..MaxTerm : LancerVote(n, t)
    \/ AnnulerMinuterie(n)
    \/ \E c \in Commandes : Soumettre(n, c)
    \/ \E d \in Autres(n) : RepliquerVers(n, d)
    \/ Arreter(n)
    \/ Ressusciter(n)

Reception(m) ==
    \/ RecevoirRequestVote(m)
    \/ RecevoirReponseVote(m)
    \/ RecevoirAppendEntries(m)
    \/ RecevoirReponseAppend(m)

Next == \/ \E n \in Noeuds : Locale(n)
        \/ \E m \in msgs : Reception(m)

Spec == Init /\ [][Next]_vars

\* The behaviours in which no successful answer reaches a node that has left
\* the term of the call: those the code would have if _repliquer_vers compared
\* the term of its call with the node's once the call has returned.
ATemps(m) == m.type = "ReponseAppend" /\ m.succes
               => m.pour >= current_term[m.dst]

NextATemps == \/ \E n \in Noeuds : Locale(n)
              \/ \E m \in msgs : ATemps(m) /\ Reception(m)

SpecATemps == Init /\ [][NextATemps]_vars

\* Threads run and, without loss (taux_perte = 0), calls and answers arrive.
Equite ==
    /\ \A n \in Noeuds :
         /\ WF_vars(TirerMinuterie(n))
         /\ WF_vars(DeclencherElection(n))
         /\ WF_vars(\E t \in 1..MaxTerm : LancerVote(n, t))
    /\ WF_vars(\E m \in msgs : RecevoirRequestVote(m))
    /\ WF_vars(\E m \in msgs : RecevoirReponseVote(m))

FairSpec == Spec /\ Equite

-----------------------------------------------------------------------------
\* Every variable has the type the code gives it.
Messages ==
    [type : {"RequestVote"}, src : Noeuds, dst : Noeuds, term : Nat,
     last_log_index : Nat, last_log_term : Nat]
    \union
    [type : {"ReponseVote"}, src : Noeuds, dst : Noeuds, pour : Nat,
     term : Nat, vote_accorde : BOOLEAN]
    \union
    [type : {"AppendEntries"}, src : Noeuds, dst : Noeuds, term : Nat,
     prev_log_index : Nat, prev_log_term : Nat, entries : Seq(Entrees),
     leader_commit : Nat]
    \union
    [type : {"ReponseAppend"}, src : Noeuds, dst : Noeuds, pour : Nat,
     term : Nat, succes : BOOLEAN, prev : Nat, nb : Nat]

TypeOK ==
    /\ actif \in [Noeuds -> BOOLEAN]
    /\ role \in [Noeuds -> {"FOLLOWER", "CANDIDATE", "LEADER"}]
    /\ current_term \in [Noeuds -> Nat]
    /\ voted_for \in [Noeuds -> Noeuds \union {Personne}]
    /\ log \in [Noeuds -> Seq(Entrees)]
    /\ commit_index \in [Noeuds -> Nat]
    /\ next_index \in [Noeuds -> [Noeuds -> Nat \ {0}]]
    /\ match_index \in [Noeuds -> [Noeuds -> Nat]]
    /\ votes \in [Noeuds -> SUBSET Noeuds]
    /\ minuterie \subseteq Noeuds
    /\ tirs \subseteq Noeuds
    /\ scrutins \subseteq Noeuds \X Nat
    /\ annulations \subseteq Noeuds
    /\ msgs \subseteq Messages

\* "un seul leader par term": two leaders of one term are the same node, even
\* when votes of several elections, step-downs and restarts interleave.
ElectionSafety ==
    \A a, b \in Noeuds :
        /\ role[a] = "LEADER"
        /\ role[b] = "LEADER"
        /\ current_term[a] = current_term[b]
        => a = b

\* Why ElectionSafety holds, as an inductive invariant.  A granted vote is an
\* answer that stays in msgs: it binds the voter in the term it was given in
\* (VotesTenus), it is the only one of that voter in that term (VoteUnique), a
\* candidate or leader has voted for itself (VotePourSoi), what it counts was
\* given to it in its term (VotesRecus), and a leader has counted a quorum.
Bulletins == {m \in msgs : m.type = "ReponseVote" /\ m.vote_accorde}

VotesTenus ==
    \A m \in Bulletins :
        /\ m.pour <= current_term[m.src]
        /\ m.pour = current_term[m.src] => voted_for[m.src] = m.dst

VoteUnique ==
    \A m1, m2 \in Bulletins :
        m1.src = m2.src /\ m1.pour = m2.pour => m1.dst = m2.dst

VotePourSoi == \A n \in Noeuds : role[n] # "FOLLOWER" => voted_for[n] = n

VotesRecus ==
    \A n \in Noeuds : role[n] # "FOLLOWER" =>
        \A v \in votes[n] \ {n} :
            \E m \in Bulletins : m.src = v /\ m.dst = n
                                /\ m.pour = current_term[n]

MeneurElu == \A n \in Noeuds : role[n] = "LEADER" => EstQuorum(votes[n])

\* The inductive invariant of the elections: no interleaving of votes,
\* step-downs and restarts breaks the bookkeeping of who voted for whom.
ElectionInv == /\ VotesTenus
               /\ VoteUnique
               /\ VotePourSoi
               /\ VotesRecus
               /\ MeneurElu

\* Log matching: two logs that hold an entry of the same term at the same
\* index agree on every entry up to it.  The AppendEntries consistency check
\* and the truncation loop maintain it.
LogMatching ==
    \A a, b \in Noeuds :
      \A i \in DOMAIN log[a] \cap DOMAIN log[b] :
        log[a][i].term = log[b][i].term
          => SubSeq(log[a], 1, i) = SubSeq(log[b], 1, i)

\* State machine safety: two nodes never apply different commands at one
\* index.
StateMachineSafety ==
    \A a, b \in Noeuds :
      \A i \in 1..commit_index[a] \cap 1..commit_index[b] :
        /\ i \in DOMAIN log[a] \cap DOMAIN log[b]
        /\ log[a][i] = log[b][i]

\* Leader completeness: what a node has committed is in the log of every
\* leader of a later term ("jamais de perte").
LeaderCompleteness ==
    \A l, n \in Noeuds :
        /\ role[l] = "LEADER"
        /\ current_term[l] >= current_term[n]
        => /\ commit_index[n] <= Len(log[l])
           /\ SubSeq(log[l], 1, commit_index[n])
                = SubSeq(log[n], 1, commit_index[n])

\* No step lowers a node's commit index, nor rewrites an entry it has already
\* applied to its state machine: the truncation of a conflicting suffix only
\* ever removes uncommitted entries.
CommittedNeverRewritten ==
    [][\A n \in Noeuds :
         /\ commit_index'[n] >= commit_index[n]
         /\ Len(log'[n]) >= commit_index[n]
         /\ SubSeq(log'[n], 1, commit_index[n])
              = SubSeq(log[n], 1, commit_index[n])]_vars

\* "Le timeout aléatoire est la clé de Raft : évite que tous les nœuds lancent
\* une élection simultanément" and "CANDIDATE → Lance une élection quand le
\* leader est silencieux": with every node up and no loss, elections go on
\* until a leader is elected (or the model's term bound is reached).
LeaderElected ==
    <>(\E n \in Noeuds : role[n] = "LEADER" \/ current_term[n] = MaxTerm)
=============================================================================
