-------------------------------- MODULE MVCC --------------------------------
(***************************************************************************)
(* The multi-version store of jour26-mvcc/mvcc.py:                         *)
(* GestionnaireTransactions, Transaction, MoteurMVCC.                      *)
(*                                                                         *)
(* A transaction is its xid.  It writes a key at most once, at its commit, *)
(* so a version is named by its key and the xid that created it (xmin),    *)
(* and the value it holds is that xid; a read that finds nothing gives 0.  *)
(* There are two locks, taken one after the other: commit() applies the    *)
(* writes under the store's lock (Appliquer) and becomes committed under   *)
(* the manager's (Commiter); a READ COMMITTED read and vacuum() are        *)
(* several steps.  A read of the other levels is one step: every status it *)
(* looks at is that of a transaction that had ended at its begin.          *)
(* SERIALIZABLE is treated by the code as REPEATABLE_READ is.              *)
(*                                                                         *)
(* Permis says what may overlap:                                           *)
(*   "commits"   the two halves of several commits                         *)
(*   "debut_rc"  a begin and the two reads that make an RC snapshot        *)
(*   "vacuum"    vacuum() and an active transaction                        *)
(***************************************************************************)
EXTENDS Integers, Sequences, FiniteSets

CONSTANTS Cles,
          Niveaux,      \* the isolation levels in use
          Permis,
          Supprime,     \* BOOLEAN: keys are deleted
          Nettoie,      \* BOOLEAN: vacuum() is called
          MaxXid        \* bound: the transactions ever begun

\* What the constants are.
MVCCAssumption ==
    /\ Niveaux \subseteq {"READ_COMMITTED", "REPEATABLE_READ", "SERIALIZABLE"}
    /\ MaxXid \in Nat
    /\ Supprime \in BOOLEAN /\ Nettoie \in BOOLEAN

Xids == 1..MaxXid

VARIABLES
    xid_courant,
    etat,           \* GestionnaireTransactions._transactions, its states
    isolation,
    actives,        \* snapshot_actives; snapshot_xmax is the xid itself
    ecritures,      \* _ecritures and _suppressions
    appliquees,     \* transactions in commit(), between its two halves
    versions,       \* _versions: the xmin of the versions, in list order
    xmax,           \* by key and xmin
    rc,             \* the READ COMMITTED read in progress
    vac,            \* the vacuum in progress
    lus,            \* history: what the other levels have read
    ordre           \* history: the transactions in the order they applied

transactions == <<xid_courant, etat, isolation, actives, ecritures>>
donnees == <<versions, xmax>>
vars == <<transactions, appliquees, donnees, rc, vac, lus, ordre>>

Commitee(x) == etat[x] = "COMMITTED"
Actives == {x \in Xids : etat[x] = "ACTIVE"}
Ouverte(x) == x \in Actives /\ x \notin appliquees

-----------------------------------------------------------------------------
\* _version_visible: version v of c for x, with a snapshot (sa, sx).
Visible(c, v, x, sa, sx) ==
    /\ v = x \/ (v <= sx /\ v \notin sa /\ Commitee(v))
    /\ LET m == xmax[c][v]
       IN  m = 0 \/ (m # x /\ (m > sx \/ m \in sa \/ ~Commitee(m)))

\* _lire_avec_snapshot: the last visible version of the list.
Lecture(x, c) ==
    LET vus == {i \in 1..Len(versions[c]) :
                  Visible(c, versions[c][i], x, actives[x], x)}
    IN  IF vus = {} THEN 0
        ELSE versions[c][CHOOSE i \in vus : \A j \in vus : j <= i]

-----------------------------------------------------------------------------
Repos == [phase |-> "repos"]

Init ==
    /\ xid_courant = 0
    /\ etat = [x \in Xids |-> "LIBRE"]
    /\ isolation = [x \in Xids |-> "REPEATABLE_READ"]
    /\ actives = [x \in Xids |-> {}]
    /\ ecritures = [x \in Xids |-> [c \in Cles |-> "rien"]]
    /\ appliquees = {}
    /\ versions = [c \in Cles |-> <<>>]
    /\ xmax = [c \in Cles |-> [x \in Xids |-> 0]]
    /\ rc = Repos
    /\ vac = Repos
    /\ lus = [x \in Xids |-> [c \in Cles |-> -1]]
    /\ ordre = <<>>

\* nouvelle_transaction.
Begin(n) ==
    LET x == xid_courant + 1
    IN  /\ x <= MaxXid
        /\ rc.phase = "xmax" => "debut_rc" \in Permis
        /\ vac.phase # "repos" => "vacuum" \in Permis
        /\ xid_courant' = x
        /\ etat' = [etat EXCEPT ![x] = "ACTIVE"]
        /\ isolation' = [isolation EXCEPT ![x] = n]
        /\ actives' = [actives EXCEPT ![x] = Actives]
        /\ UNCHANGED <<ecritures, appliquees, donnees, rc, vac, lus, ordre>>

\* ecrire and supprimer.
Ecrire(x, c, e) ==
    /\ Ouverte(x)
    /\ rc.phase # "repos" => rc.tx # x
    /\ ecritures' = [ecritures EXCEPT ![x][c] = e]
    /\ UNCHANGED <<xid_courant, etat, isolation, actives, appliquees, donnees,
                   rc, vac, lus, ordre>>

\* lire, of a key the transaction has not written, above READ COMMITTED.
Lire(x, c) ==
    /\ Ouverte(x)
    /\ isolation[x] # "READ_COMMITTED"
    /\ ecritures[x][c] = "rien"
    /\ lus[x][c] = -1
    /\ lus' = [lus EXCEPT ![x][c] = Lecture(x, c)]
    /\ UNCHANGED <<transactions, appliquees, donnees, rc, vac, ordre>>

-----------------------------------------------------------------------------
Touche(x, c) == ecritures[x][c] # "rien"

\* The value of c for those who see the commits of the set s: that of the
\* last of them to have applied a write of c.
Dernier(c, s) ==
    LET p == {i \in 1..Len(ordre) : ordre[i] \in s /\ Touche(ordre[i], c)}
        x == ordre[CHOOSE i \in p : \A j \in p : j <= i]
    IN  IF p = {} \/ ecritures[x][c] = "supprime" THEN 0 ELSE x

Commitees == {x \in Xids : Commitee(x)}

\* lire under READ COMMITTED: first the active transactions, ...
LireRC(x, c) ==
    /\ Ouverte(x)
    /\ isolation[x] = "READ_COMMITTED"
    /\ ecritures[x][c] = "rien"
    /\ rc = Repos
    /\ rc' = [phase |-> "xmax", tx |-> x, cle |-> c, actives |-> Actives \ {x},
              fenetre |-> {Dernier(c, Commitees)}]
    /\ UNCHANGED <<transactions, appliquees, donnees, vac, lus, ordre>>

\* ... then the last xid and the list of versions, ...
XmaxRC ==
    /\ rc.phase = "xmax"
    /\ rc' = [phase |-> "parcours", tx |-> rc.tx, cle |-> rc.cle,
              actives |-> rc.actives, xmax |-> xid_courant,
              reste |-> versions[rc.cle], fenetre |-> rc.fenetre]
    /\ UNCHANGED <<transactions, appliquees, donnees, vac, lus, ordre>>

\* ... then the versions from the last one, until one is visible.
ParcoursRC ==
    /\ rc.phase = "parcours"
    /\ LET n == Len(rc.reste)
           fin(v) == [phase |-> "fini", tx |-> rc.tx, lu |-> v,
                      fenetre |-> rc.fenetre]
       IN  rc' = IF n = 0 THEN fin(0)
                 ELSE IF Visible(rc.cle, rc.reste[n], rc.tx, rc.actives, rc.xmax)
                 THEN fin(rc.reste[n])
                 ELSE [rc EXCEPT !.reste = SubSeq(rc.reste, 1, n - 1)]
    /\ UNCHANGED <<transactions, appliquees, donnees, vac, lus, ordre>>

FinRC ==
    /\ rc.phase = "fini"
    /\ rc' = Repos
    /\ UNCHANGED <<transactions, appliquees, donnees, vac, lus, ordre>>

-----------------------------------------------------------------------------
\* The live version _appliquer_ecritures marks: the last of the list.
Vivantes(c) == {i \in 1..Len(versions[c]) : xmax[c][versions[c][i]] = 0}

Marquer(x, c) ==
    IF ~Touche(x, c) \/ Vivantes(c) = {} THEN xmax[c]
    ELSE [xmax[c] EXCEPT ![versions[c][CHOOSE i \in Vivantes(c) :
                                         \A j \in Vivantes(c) : j <= i]] = x]

\* commit, first half: _appliquer_ecritures.
Appliquer(x) ==
    /\ Ouverte(x)
    /\ rc.phase # "repos" => rc.tx # x
    /\ appliquees # {} => "commits" \in Permis
    /\ appliquees' = appliquees \union {x}
    /\ xmax' = [c \in Cles |-> Marquer(x, c)]
    /\ versions' = [c \in Cles |-> IF ecritures[x][c] = "ecrit"
                                   THEN Append(versions[c], x)
                                   ELSE versions[c]]
    /\ ordre' = Append(ordre, x)
    /\ UNCHANGED <<transactions, rc, vac, lus>>

\* commit, second half: GestionnaireTransactions.commiter.
Commiter(x) ==
    /\ x \in appliquees
    /\ appliquees' = appliquees \ {x}
    /\ etat' = [etat EXCEPT ![x] = "COMMITTED"]
    /\ rc' = IF rc.phase \in {"xmax", "parcours"}
             THEN [rc EXCEPT !.fenetre =
                     @ \union {Dernier(rc.cle, Commitees \union {x})}]
             ELSE rc
    /\ UNCHANGED <<xid_courant, isolation, actives, ecritures, donnees, vac,
                   lus, ordre>>

Abort(x) ==
    /\ Ouverte(x)
    /\ rc.phase # "repos" => rc.tx # x
    /\ etat' = [etat EXCEPT ![x] = "ABORTED"]
    /\ UNCHANGED <<xid_courant, isolation, actives, ecritures, appliquees,
                   donnees, rc, vac, lus, ordre>>

-----------------------------------------------------------------------------
\* vacuum, its horizon: plus_vieux_xid_actif reads the active transactions
\* under the manager's lock and, if there is none, the last xid after it.
VacuumActives ==
    /\ Nettoie
    /\ vac = Repos
    /\ Actives # {} => "vacuum" \in Permis
    /\ vac' = [phase |-> "horizon", actives |-> Actives]
    /\ UNCHANGED <<transactions, appliquees, donnees, rc, lus, ordre>>

Horizon(a) == IF a = {} THEN xid_courant + 1
              ELSE CHOOSE x \in a : \A y \in a : x <= y

VacuumHorizon ==
    /\ vac.phase = "horizon"
    /\ vac' = [phase |-> "pret", horizon |-> Horizon(vac.actives)]
    /\ UNCHANGED <<transactions, appliquees, donnees, rc, lus, ordre>>

\* Mutant: the version that replaced an old one goes as well.
Obsolete_Vivante(c, v, h) ==
    xmax[c][v] < h /\ (xmax[c][v] = 0 \/ Commitee(xmax[c][v]))

Obsolete(c, v, h) ==
    xmax[c][v] # 0 /\ Commitee(xmax[c][v]) /\ xmax[c][v] < h

\* The list comprehension of vacuum: those of s that K keeps, in their order.
Garder(s, K) ==
    LET garde[i \in 0..Len(s)] == IF i = 0 THEN <<>>
                                 ELSE IF s[i] \in K THEN Append(garde[i - 1], s[i])
                                 ELSE garde[i - 1]
    IN  garde[Len(s)]

\* vacuum, under the store's lock.
VacuumNettoyer ==
    /\ vac.phase = "pret"
    /\ versions' = [c \in Cles |->
                      Garder(versions[c], {v \in Xids : ~Obsolete(c, v, vac.horizon)})]
    /\ vac' = Repos
    /\ UNCHANGED <<transactions, appliquees, xmax, rc, lus, ordre>>

Next ==
    \/ \E n \in Niveaux : Begin(n)
    \/ \E x \in Xids, c \in Cles : Ecrire(x, c, "ecrit") \/ Lire(x, c) \/ LireRC(x, c)
    \/ Supprime /\ \E x \in Xids, c \in Cles : Ecrire(x, c, "supprime")
    \/ XmaxRC \/ ParcoursRC \/ FinRC
    \/ \E x \in Xids : Appliquer(x) \/ Commiter(x) \/ Abort(x)
    \/ VacuumActives \/ VacuumHorizon \/ VacuumNettoyer

Spec == Init /\ [][Next]_vars

-----------------------------------------------------------------------------
Phases == {"repos", "xmax", "parcours", "fini", "horizon", "pret"}

\* Type correctness.
TypeOK ==
    /\ xid_courant \in 0..MaxXid
    /\ etat \in [Xids -> {"LIBRE", "ACTIVE", "COMMITTED", "ABORTED"}]
    /\ isolation \in [Xids -> Niveaux \union {"REPEATABLE_READ"}]
    /\ actives \in [Xids -> SUBSET Xids]
    /\ ecritures \in [Xids -> [Cles -> {"rien", "ecrit", "supprime"}]]
    /\ appliquees \in SUBSET Actives
    /\ versions \in [Cles -> Seq(Xids)]
    /\ xmax \in [Cles -> [Xids -> 0..MaxXid]]
    /\ rc.phase \in Phases /\ vac.phase \in Phases
    /\ lus \in [Xids -> [Cles -> -1..MaxXid]]
    /\ ordre \in Seq(Xids)

\* "un snapshot fige au moment de son BEGIN", "lectures stables garanties":
\* what an open transaction above READ COMMITTED would read of a key is the
\* same as long as it is open, whatever begins, commits, aborts or is cleaned.
SnapshotFige ==
    [][\A x \in Xids, c \in Cles :
         /\ x \in Actives /\ x \in Actives'
         /\ x \notin appliquees' /\ isolation[x] # "READ_COMMITTED"
         => Lecture(x, c)' = Lecture(x, c)]_vars

\* "T1 lit la version qui etait visible a son demarrage": what a transaction
\* reads is the last value applied by the transactions that had committed
\* when it began, none of an open one, and none that one of them replaced.
SnapshotCorrect ==
    \A x \in Xids, c \in Cles :
        Ouverte(x) /\ isolation[x] # "READ_COMMITTED" =>
            Lecture(x, c) =
                Dernier(c, {y \in Commitees : y < x /\ y \notin actives[x]})

\* "READ COMMITTED : voir les donnees commitees au moment de chaque requete":
\* a read returns the committed value of the key at some instant between its
\* first and its last step.
LectureCommitee == rc.phase = "fini" => rc.lu \in rc.fenetre

\* A key has at most one live version, the last of its list, and a version is
\* replaced by a transaction that has begun to commit.
ChaineVersions ==
    \A c \in Cles :
        /\ \A i \in 1..Len(versions[c]) : i < Len(versions[c]) =>
              xmax[c][versions[c][i]] # 0
        /\ \A i \in 1..Len(versions[c]) :
              LET m == xmax[c][versions[c][i]]
              IN  m # 0 => m \in appliquees \/ Commitee(m)

\* "SERIALIZABLE : transactions executees comme si elles etaient
\* sequentielles": some order of the committed transactions explains what
\* each of them read.
Ordres(s) == {o \in [1..Cardinality(s) -> s] :
                \A i, j \in 1..Cardinality(s) : i # j => o[i] # o[j]}

Explique(o, i) ==
    \A c \in Cles : lus[o[i]][c] # -1 =>
        LET p == {j \in 1..(i - 1) : Touche(o[j], c)}
            y == o[CHOOSE j \in p : \A k \in p : k <= j]
        IN  lus[o[i]][c] = IF p = {} \/ ecritures[y][c] = "supprime" THEN 0 ELSE y

Serialisable ==
    \E o \in Ordres(Commitees) : \A i \in 1..Cardinality(Commitees) : Explique(o, i)
=============================================================================
