------------------------------- MODULE MCRaft -------------------------------
(***************************************************************************)
(* The runs of Raft.  The initial state chooses one of four scenarios,     *)
(* each an instance of Raft with its own bounds, and keeps it; a fifth,    *)
(* with six terms, is guided (SpecReponses).                               *)
(*                                                                         *)
(* Vue identifies states that differ only in values no later step can read *)
(* (TLC's VIEW): the Timer of a node whose term has reached the bound,     *)
(* votes outside an election, indexes outside a leadership, and answers    *)
(* that are stale for good because a term never goes back.                 *)
(***************************************************************************)
EXTENDS Raft, FiniteSetsExt, TLC

CONSTANTS Premier,  \* the leader of term 1 in two scenarios, and the one that fails
          Second    \* the other node whose Timer expires

VARIABLE scenario

Utile(m) ==
    \/ m.type = "AppendEntries"
    \/ m.type = "RequestVote" /\ ~Traitee(m)
    \/ /\ m.type = "ReponseVote"
       /\ \/ m.term > current_term[m.dst]
          \/ /\ m.vote_accorde
             /\ role[m.dst] = "CANDIDATE"
             /\ m.pour = current_term[m.dst]
             /\ m.src \notin votes[m.dst]
    \/ /\ m.type = "ReponseAppend"
       /\ m.term > current_term[m.dst] \/ ~m.succes \/ m.nb > 0

EnElection(n) == role[n] = "CANDIDATE"
EnFonction(n) == role[n] = "LEADER"

VueSous(electables, max) ==
    LET PeutElire(n) == n \in electables /\ current_term[n] < max IN
    << actif, role, current_term, voted_for, log, commit_index,
       [n \in Noeuds |-> IF EnFonction(n)
                           THEN <<next_index[n], match_index[n]>> ELSE <<>>],
       [n \in Noeuds |-> IF EnElection(n) THEN votes[n] ELSE {}],
       {n \in minuterie : PeutElire(n)},
       {n \in tirs : PeutElire(n)},
       scrutins,
       {n \in annulations : PeutElire(n)},
       {m \in msgs : Utile(m)} >>

-----------------------------------------------------------------------------
\* Elections alone, three terms, every node may time out: nobody submits.
Scrutins == INSTANCE Raft WITH Faillibles <- {}, Electables <- Noeuds,
                               MaxTerm <- 3, MaxLog <- 0, MaxAppels <- 0

\* Two leaderships after the first, entries that are replicated or not.
Succession == INSTANCE Raft WITH Faillibles <- {}, Electables <- {Premier, Second},
                                 MaxTerm <- 3, MaxLog <- 2, MaxAppels <- 1

\* One leadership after the first; late and repeated calls of both.
Retards == INSTANCE Raft WITH Faillibles <- {}, Electables <- {Second},
                              MaxTerm <- 2, MaxLog <- 2, MaxAppels <- 3

\* From the start of the cluster, with a node that stops and comes back.
Pannes == INSTANCE Raft WITH Faillibles <- {Premier}, Electables <- {Premier, Second},
                             MaxTerm <- 2, MaxLog <- 1, MaxAppels <- 1

\* Six leaderships that alternate between two nodes.
Reponses == INSTANCE Raft WITH Faillibles <- {}, Electables <- {Premier, Second},
                               MaxTerm <- 6, MaxLog <- 2, MaxAppels <- 5

Vue ==
    << scenario,
       CASE scenario = "scrutins"   -> VueSous(Noeuds, 3)
         [] scenario = "succession" -> VueSous({Premier, Second}, 3)
         [] scenario = "retards"    -> VueSous({Second}, 2)
         [] scenario = "pannes"     -> VueSous({Premier, Second}, 2)
         [] scenario = "reponses"   -> VueSous({Premier, Second}, 6) >>

-----------------------------------------------------------------------------
\* The state after the first election when Premier timed out first and every
\* other node answered: where the replication runs start.
DemandesDeVote ==
    {[type |-> "RequestVote", src |-> Premier, dst |-> d, term |-> 1,
      last_log_index |-> 0, last_log_term |-> 0] : d \in Autres(Premier)}

InitMeneur ==
    /\ actif        = [n \in Noeuds |-> TRUE]
    /\ role         = [n \in Noeuds |-> IF n = Premier THEN "LEADER"
                                                      ELSE "FOLLOWER"]
    /\ current_term = [n \in Noeuds |-> 1]
    /\ voted_for    = [n \in Noeuds |-> Premier]
    /\ log          = [n \in Noeuds |-> <<>>]
    /\ commit_index = [n \in Noeuds |-> 0]
    /\ next_index   = [n \in Noeuds |-> [d \in Noeuds |-> 1]]
    /\ match_index  = [n \in Noeuds |-> [d \in Noeuds |-> 0]]
    /\ votes        = [n \in Noeuds |-> IF n = Premier THEN Noeuds ELSE {}]
    /\ minuterie    = Autres(Premier)
    /\ tirs         = {}
    /\ scrutins     = {}
    /\ annulations  = {}
    /\ msgs         = DemandesDeVote \union
                         {ReponseVote(m, 1, TRUE) : m \in DemandesDeVote}

InitScenarios ==
    \/ scenario \in {"succession", "retards"} /\ InitMeneur
    \/ scenario \in {"scrutins", "pannes"} /\ Init

NextScenarios ==
    \/ scenario = "scrutins" /\ Scrutins!Next /\ UNCHANGED scenario
    \/ scenario = "succession" /\ Succession!Next /\ UNCHANGED scenario
    \/ scenario = "retards" /\ Retards!Next /\ UNCHANGED scenario
    \/ scenario = "pannes" /\ Pannes!Next /\ UNCHANGED scenario

SpecScenarios == InitScenarios /\ [][NextScenarios]_<<vars, scenario>>

-----------------------------------------------------------------------------
\* Six terms are too many to explore: the behaviours of Reponses in which
\* Premier leads the odd terms and Second the even ones.  A Timer fires once its
\* predecessor's term is over (TermeFini) and its election is held at once.
\* Premier's log has at most two entries, Second's one, and the only calls are
\* those of term 3 to the third node and those of term 4 to Premier.
MeneurDu(t) == IF t % 2 = 1 THEN Premier ELSE Second
Terme == Max({current_term[n] : n \in Noeuds})

TermeFini ==
    /\ role[MeneurDu(Terme)] = "LEADER"
    /\ \A n \in Noeuds : current_term[n] = Terme
    /\ CASE Terme = 3 -> \A n \in Noeuds \ {Second} : Len(log[n]) = 2
         [] Terme = 4 -> Len(log[Premier]) = 1
         [] OTHER     -> Len(log[MeneurDu(Terme)]) = IF Terme = 2 THEN 1 ELSE 2

Conduite ==
    /\ \A n \in tirs' \ tirs : TermeFini /\ n = MeneurDu(Terme + 1)
    /\ <<tirs, scrutins, annulations>> # <<{}, {}, {}>> =>
          <<tirs', scrutins', annulations'>> # <<tirs, scrutins, annulations>>
    /\ \A n \in Noeuds : role'[n] = "LEADER" =>
          Len(log'[n]) <= IF n = Premier THEN 2 ELSE 1
    /\ \A m \in msgs' : m.type = "AppendEntries" =>
          \/ m.term = 3 /\ m.dst \notin {Premier, Second}
          \/ m.term = 4 /\ m.dst = Premier

SpecReponses ==
    /\ scenario = "reponses" /\ InitMeneur
    /\ [][Reponses!Next /\ Conduite /\ UNCHANGED scenario]_<<vars, scenario>>
=============================================================================
