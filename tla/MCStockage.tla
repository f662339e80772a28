----------------------------- MODULE MCStockage -----------------------------
(***************************************************************************)
(* What stores data, in one run: the engines WAL, LSM and MVCC, and the    *)
(* event store.  They share nothing.                                       *)
(* The initial state chooses an engine with its bounds (moteur); the       *)
(* variables of the others keep their initial values, so the states are    *)
(* the sum of the engines' states.  The module is an instance of WAL:      *)
(* transactions on disjoint keys, checkpoints between them, a torn tail.   *)
(***************************************************************************)
EXTENDS WAL, FiniteSets, TLC

CONSTANTS ValeursLSM,   \* the values of LSM when nothing is deleted
          Ligne,        \* the key of MVCC
          Rien, Illisible,
          FilsComptes,  \* the threads of the event store
          Seul          \* and one of them

VARIABLES moteur,
          en_marche, repris, memtable, sequence, l0, l1, seq, disque,
          xid_courant, etat, isolation, actives, ecritures, appliquees,
          versions, xmax, rc, vac, lus, ordre,
          stream, snapshot, objets, phase_compte, commande, notifs, projection, types,
          a_rejouer

varsLSM  == <<en_marche, repris, memtable, sequence, l0, l1, seq, disque>>
varsMVCC == <<xid_courant, etat, isolation, actives, ecritures, appliquees,
              versions, xmax, rc, vac, lus, ordre>>
varsEvenements == <<stream, snapshot, objets, phase_compte, commande, notifs, projection,
                    types, a_rejouer>>
varsMoteurs == <<moteur, vars, varsLSM, varsMVCC, varsEvenements>>

-----------------------------------------------------------------------------
\* A longer log, for transactions one after the other (see NextMoteurs).
WSerie == INSTANCE WAL WITH MaxWal <- MaxWal + 1

\* Deletions; crashes between operations.
L == INSTANCE LSM WITH TailleMemtable <- 3, MaxL0 <- 3, MaxSeq <- 4, MaxEcrits <- 3,
                       Permis <- {"suppression"}

\* No deletion; crashes inside flushes and compactions.
LCrash == INSTANCE LSM WITH Valeurs <- ValeursLSM,
                            TailleMemtable <- 2, MaxL0 <- 3, MaxSeq <- 5,
                            MaxEcrits <- 2, Permis <- {"compaction", "dechirure"}

\* Commits that do not overlap, vacuum when nothing is active.
M == INSTANCE MVCC WITH Cles <- {Ligne}, Niveaux <- {"REPEATABLE_READ"},
                        Permis <- {}, Supprime <- TRUE, Nettoie <- TRUE, MaxXid <- 4

\* A READ COMMITTED reader among writers whose commits overlap.
MRC == INSTANCE MVCC WITH Cles <- {Ligne},
                          Niveaux <- {"READ_COMMITTED", "REPEATABLE_READ"},
                          Permis <- {"commits"}, Supprime <- FALSE,
                          Nettoie <- FALSE, MaxXid <- 4

\* The event store: two threads with a Compte each, a snapshot every other event.
Ev == INSTANCE Evenements WITH phase <- phase_compte, Fils <- FilsComptes,
          Montants <- {1}, Soldes <- {1}, SEUIL_SNAPSHOT <- 2, Permis <- {},
          MaxEvenements <- 3

\* One thread, two amounts, a longer stream to project and rebuild.
EvSeul == INSTANCE Evenements WITH phase <- phase_compte, Fils <- FilsComptes,
              Montants <- {1, 2}, Soldes <- {1}, SEUIL_SNAPSHOT <- 2, Permis <- {},
              MaxEvenements <- 4

ASSUME /\ Valeurs \subseteq ValeursLSM
       /\ WALAssumption /\ WSerie!WALAssumption
       /\ L!LSMAssumption /\ LCrash!LSMAssumption
       /\ M!MVCCAssumption /\ MRC!MVCCAssumption
       /\ Ev!EvenementsAssumption /\ EvSeul!EvenementsAssumption

\* MVCC after a first transaction that wrote the key and committed.
MVCCCharge ==
    /\ xid_courant = 1
    /\ etat = [x \in 1..4 |-> IF x = 1 THEN "COMMITTED" ELSE "LIBRE"]
    /\ isolation = [x \in 1..4 |-> "REPEATABLE_READ"]
    /\ actives = [x \in 1..4 |-> {}]
    /\ ecritures = [x \in 1..4 |-> [c \in {Ligne} |-> IF x = 1 THEN "ecrit" ELSE "rien"]]
    /\ appliquees = {}
    /\ versions = [c \in {Ligne} |-> <<1>>]
    /\ xmax = [c \in {Ligne} |-> [x \in 1..4 |-> 0]]
    /\ rc = M!Repos
    /\ vac = M!Repos
    /\ lus = [x \in 1..4 |-> [c \in {Ligne} |-> -1]]
    /\ ordre = <<1>>

InitMoteurs ==
    /\ moteur \in {"wal", "wal_serie", "lsm", "lsm_crash", "mvcc", "mvcc_rc",
                   "evenements", "evenements_seul"}
    /\ Init
    /\ L!Init
    /\ Ev!Init
    /\ MVCCCharge

NextMoteurs ==
    \/ /\ moteur = "wal" /\ Next
       /\ UNCHANGED <<moteur, varsLSM, varsMVCC, varsEvenements>>
    \/ /\ moteur = "wal_serie" /\ WSerie!Next /\ Cardinality(en_cours') <= 1
       /\ UNCHANGED <<moteur, varsLSM, varsMVCC, varsEvenements>>
    \/ /\ moteur = "lsm" /\ L!Next
       /\ UNCHANGED <<moteur, vars, varsMVCC, varsEvenements>>
    \/ /\ moteur = "lsm_crash" /\ LCrash!Next
       /\ UNCHANGED <<moteur, vars, varsMVCC, varsEvenements>>
    \/ /\ moteur = "mvcc" /\ M!Next
       /\ UNCHANGED <<moteur, vars, varsLSM, varsEvenements>>
    \/ /\ moteur = "mvcc_rc" /\ MRC!Next
       /\ UNCHANGED <<moteur, vars, varsLSM, varsEvenements>>
    \/ /\ moteur = "evenements" /\ Ev!Next
       /\ UNCHANGED <<moteur, vars, varsLSM, varsMVCC>>
    \/ /\ moteur = "evenements_seul" /\ EvSeul!Next
       /\ \A f \in FilsComptes \ {Seul} : phase_compte'[f] = "repos"
       /\ UNCHANGED <<moteur, vars, varsLSM, varsMVCC>>

SpecMoteurs == InitMoteurs /\ [][NextMoteurs]_varsMoteurs

Symetrie == Permutations(Tx) \union Permutations(Cles) \union Permutations(ValeursLSM)

\* MVCC without the reads that only Serialisable looks at.
Vue == <<moteur, vars, varsLSM, xid_courant, etat, isolation, actives, ecritures,
         appliquees, versions, xmax, rc, vac, ordre, varsEvenements>>

-----------------------------------------------------------------------------
\* The engines are typed.  A restart of LSM reads what it was reading, the MemTable
\* apart.  A transaction of MVCC reads the state of its begin, a READ COMMITTED read
\* returns what was committed during it, a key has one live version at most.  Aggregates
\* and snapshots of the event store are replays of prefixes of their stream, and the
\* projection ends at the balance.
LecturesIsolees ==
    /\ TypeOK
    /\ moteur \in {"lsm", "lsm_crash"} => LCrash!TypeOK /\ L!MemoireEgaleDisque
    /\ moteur \in {"mvcc", "mvcc_rc"} =>
           /\ MRC!TypeOK
           /\ M!SnapshotCorrect /\ MRC!LectureCommitee /\ M!ChaineVersions
    /\ moteur \in {"evenements", "evenements_seul"} =>
           /\ Ev!TypeOK
           /\ Ev!EtatRejoue /\ Ev!ProjectionExacte

\* MVCC: what a transaction reads stays what it reads.  LSM implements the key-value
\* store, and a file keeps its content until a compaction removes it.
LecturesFigees == M!SnapshotFige /\ LCrash!ImplementeMagasin /\ L!SSTableImmuable

\* The event store: the stream is a history of an account with atomic commands.
ImplementeCompte == EvSeul!ImplementeCompte
=============================================================================
