-------------------------------- MODULE LSM ---------------------------------
(***************************************************************************)
(* The LSM engine of jour25-lsm/lsm.py: MemTable, SSTable, compacter and   *)
(* MoteurLSM.  MoteurLSM._lock serialises the operations; a write may      *)
(* flush and a flush may compact, all in one step.  Only L0 and L1 are     *)
(* ever filled (_compacter_niveau is called with 0 alone).                 *)
(*                                                                         *)
(* The engine reads the copy of a table it holds in memory; the file of    *)
(* the same table is read at start only.  A Bloom filter has no false      *)
(* negative and a false positive costs a search, so it changes no result   *)
(* and is left out.  The MemTable is not on disk at all.                   *)
(*                                                                         *)
(* Permis says what befalls the engine:                                    *)
(*   "recul"        a compaction meets a key whose newest entry has not    *)
(*                  the greatest sequence (each MemTable counts from 1)    *)
(*   "suite"        the engine flushes after a restart that found tables   *)
(*   "suppression"  keys are deleted                                       *)
(*   "compaction"   a crash can come inside a compaction                   *)
(*   "dechirure"    a crash can leave a partly written file                *)
(***************************************************************************)
EXTENDS Integers, Sequences, FiniteSets, Functions

CONSTANTS Cles, Valeurs,
          Absent,           \* None, the value of a tombstone
          Rien,             \* no entry under the key
          Illisible,        \* the content of a partly written file
          TailleMemtable,   \* TAILLE_MEMTABLE, in writes
          MaxL0,            \* MAX_L0_SSTABLES
          Permis,
          MaxSeq,           \* bound: the numbers files are given
          MaxEcrits         \* bound: the writes a MemTable takes

Entrees  == [valeur : Valeurs \union {Absent}, seq : Nat]
Contenus == [Cles -> Entrees \union {Rien}]
Tables   == [fichier : {0, 1} \X Nat, contenu : Contenus]
Vide     == [c \in Cles |-> Rien]

\* What the constants are.
LSMAssumption ==
    /\ Absent \notin Valeurs
    /\ Rien \notin Entrees /\ Illisible \notin Contenus
    /\ TailleMemtable \in Nat \ {0}
    /\ MaxL0 \in Nat \ {0}
    /\ MaxSeq \in Nat
    /\ MaxEcrits \in Nat

VARIABLES
    en_marche,          \* the process runs
    repris,         \* it found tables when it started
    memtable,       \* MemTable._donnees
    sequence,       \* MemTable._sequence
    l0, l1,         \* MoteurLSM._niveaux: [fichier, contenu], oldest first
    seq,            \* MoteurLSM._seq
    disque          \* <<level, number>> -> the content of the file

niveaux == <<l0, l1, seq>>
vars == <<en_marche, repris, memtable, sequence, niveaux, disque>>

-----------------------------------------------------------------------------
\* The entry found first, going from the last table of a level to the first.
Trouve(tables, c) ==
    LET r == {i \in 1..Len(tables) : tables[i].contenu[c] # Rien}
    IN  IF r = {} THEN Rien
        ELSE tables[CHOOSE i \in r : \A j \in r : j <= i].contenu[c]

LireNiveaux(a, b, c) ==
    IF Trouve(a, c) # Rien THEN Trouve(a, c) ELSE Trouve(b, c)

Valeur(e) == IF e = Rien THEN Absent ELSE e.valeur

\* lire: the MemTable, then the levels; a tombstone reads as None.
Lire(m, a, b) ==
    [c \in Cles |-> Valeur(IF m[c] # Rien THEN m[c] ELSE LireNiveaux(a, b, c))]

\* compacter: of the entries of a key the first one with the greatest
\* sequence stays, unless it is a tombstone.
Gardee(tables, c) ==
    LET r == {i \in 1..Len(tables) : tables[i].contenu[c] # Rien}
        s(i) == tables[i].contenu[c].seq
        g == CHOOSE i \in r : \A j \in r : \/ s(j) < s(i)
                                           \/ s(j) = s(i) /\ i <= j
    IN  IF r = {} \/ tables[g].contenu[c].valeur = Absent
        THEN Rien ELSE tables[g].contenu[c]

Fusion(tables) == [c \in Cles |-> Gardee(tables, c)]

\* _charger_sstables: the files of a level in the order of their names.
Charger(d, n) ==
    LET noms == {f[2] : f \in {g \in DOMAIN d : g[1] = n /\ d[g] # Illisible}}
    IN  [i \in 1..Cardinality(noms) |->
           LET k == CHOOSE k \in noms : Cardinality({j \in noms : j <= k}) = i
           IN  [fichier |-> <<n, k>>, contenu |-> d[<<n, k>>]]]

-----------------------------------------------------------------------------
Init ==
    /\ en_marche = TRUE
    /\ repris = FALSE
    /\ memtable = Vide
    /\ sequence = 0
    /\ l0 = <<>>
    /\ l1 = <<>>
    /\ seq = 0
    /\ disque = [f \in {} |-> Vide]

Poser(d, f, x) == [g \in DOMAIN d \union {f} |-> IF g = f THEN x ELSE d[g]]

\* _sauvegarder: depuis_memtable returns before it for an empty table.
Ecrit(d, t) ==
    IF t.contenu = Vide THEN d ELSE Poser(d, t.fichier, t.contenu)

Fichiers(tables) == {tables[i].fichier : i \in 1..Len(tables)}

\* _compacter_niveau(0) with the tables a of L0, the counter at n and the
\* files d: the new table, what it is made from, and the files it leaves
\* once the first k inputs are removed.
Entrants(a)  == a \o l1

Sortie(a, n) == [fichier |-> <<1, n + 1>>, contenu |-> Fusion(Entrants(a))]

Restants(a, n, d, k) ==
    LET e == Ecrit(d, Sortie(a, n))
    IN  Restrict(e, DOMAIN e \ Fichiers(SubSeq(Entrants(a), 1, k)))

\* No older entry of a key has the sequence of its newest one, or a greater.
EnOrdre(a) ==
    \A c \in Cles, t \in Range(Entrants(a)) :
        \/ t.contenu[c] \in {Rien, LireNiveaux(a, l1, c)}
        \/ t.contenu[c].seq < LireNiveaux(a, l1, c).seq

PeutCompacter(a, n) ==
    /\ n < MaxSeq
    /\ ~EnOrdre(a) => "recul" \in Permis

CompacterNiveau(a, n, d) ==
    /\ PeutCompacter(a, n)
    /\ l0' = <<>>
    /\ l1' = <<Sortie(a, n)>>
    /\ seq' = n + 1
    /\ disque' = Restants(a, n, d, Len(Entrants(a)))

\* Mutant: the counter is not used.
TableDe_SansCompteur(m) == [fichier |-> <<0, 1>>, contenu |-> m]

\* _flush: the table of the entries m.
TableDe(m) == [fichier |-> <<0, seq + 1>>, contenu |-> m]

PeutVider == seq < MaxSeq /\ (repris => "suite" \in Permis)

\* _flush of the entries m.
Flush(m) ==
    /\ PeutVider
    /\ memtable' = Vide
    /\ sequence' = 0
    /\ LET a == Append(l0, TableDe(m))
           d == Ecrit(disque, TableDe(m))
       IN  IF Len(a) >= MaxL0
           THEN CompacterNiveau(a, seq + 1, d)
           ELSE /\ l0' = a
                /\ seq' = seq + 1
                /\ disque' = d
                /\ UNCHANGED l1

\* MemTable.ecrire.
Inserer(c, v) == [memtable EXCEPT ![c] = [valeur |-> v, seq |-> sequence + 1]]

PeutEcrire == en_marche /\ sequence < MaxEcrits

Retenir(c, v) ==
    /\ memtable' = Inserer(c, v)
    /\ sequence' = sequence + 1
    /\ UNCHANGED <<niveaux, disque>>

Ecrire(c, v) ==
    /\ PeutEcrire
    /\ IF sequence + 1 >= TailleMemtable
       THEN Flush(Inserer(c, v))
       ELSE Retenir(c, v)
    /\ UNCHANGED <<en_marche, repris>>

\* supprimer never flushes.
Supprimer(c) ==
    /\ "suppression" \in Permis
    /\ PeutEcrire
    /\ Retenir(c, Absent)
    /\ UNCHANGED <<en_marche, repris>>

Vider ==
    /\ en_marche
    /\ memtable # Vide
    /\ Flush(memtable)
    /\ UNCHANGED <<en_marche, repris>>

CompacterL0 ==
    /\ en_marche
    /\ Len(l0) >= 2
    /\ repris => "suite" \in Permis
    /\ CompacterNiveau(l0, seq, disque)
    /\ UNCHANGED <<en_marche, repris, memtable, sequence>>

-----------------------------------------------------------------------------
\* The process dies; what it held in memory is gone.
Arret ==
    /\ en_marche
    /\ en_marche' = FALSE
    /\ repris' = FALSE
    /\ memtable' = Vide
    /\ sequence' = 0
    /\ l0' = <<>>
    /\ l1' = <<>>
    /\ seq' = 0

Crash == Arret /\ UNCHANGED disque

\* What _flush may be called with: the MemTable, by flush, or the MemTable and
\* the entry that fills it, by ecrire.
AVider ==
    ({memtable} \ {Vide}) \union
    {Inserer(e[1], e[2]) :
       e \in {x \in Cles \X Valeurs : PeutEcrire /\ sequence + 1 >= TailleMemtable}}

\* The files once the compaction is interrupted: k of its inputs are removed.
CompactionCoupee(a, n, d) ==
    /\ PeutCompacter(a, n)
    /\ \E k \in 0..Len(Entrants(a)) : disque' = Restants(a, n, d, k)

\* Inside a compaction called by compacter_l0, or by a flush whose own file is
\* complete.
CrashCompaction ==
    /\ "compaction" \in Permis
    /\ repris => "suite" \in Permis
    /\ Arret
    /\ \/ /\ Len(l0) >= 2
          /\ CompactionCoupee(l0, seq, disque)
       \/ /\ Len(l0) + 1 >= MaxL0
          /\ \E m \in AVider :
               CompactionCoupee(Append(l0, TableDe(m)), seq + 1, Ecrit(disque, TableDe(m)))

\* Inside a flush of the entries m: its file is partly written, or complete, or
\* the file of the compaction it calls is partly written.
FlushCoupe(m) ==
    \/ disque' = Poser(disque, <<0, seq + 1>>, Illisible)
    \/ disque' = Ecrit(disque, TableDe(m))
    \/ /\ Len(l0) + 1 >= MaxL0
       /\ PeutCompacter(Append(l0, TableDe(m)), seq + 1)
       /\ disque' = Poser(Ecrit(disque, TableDe(m)), <<1, seq + 2>>, Illisible)

\* Inside the write of a file, by a flush or by compacter_l0.
CrashFichier ==
    /\ "dechirure" \in Permis
    /\ PeutVider
    /\ Arret
    /\ \/ \E m \in AVider : FlushCoupe(m)
       \/ /\ Len(l0) >= 2
          /\ disque' = Poser(disque, <<1, seq + 1>>, Illisible)

\* A file that is not JSON stops __init__ with an exception.
Redemarrer ==
    /\ ~en_marche
    /\ \A f \in DOMAIN disque : disque[f] # Illisible
    /\ en_marche' = TRUE
    /\ repris' = (disque # [f \in {} |-> Vide])
    /\ l0' = Charger(disque, 0)
    /\ l1' = Charger(disque, 1)
    /\ UNCHANGED <<memtable, sequence, seq, disque>>

Next ==
    \/ \E c \in Cles, v \in Valeurs : Ecrire(c, v)
    \/ \E c \in Cles : Supprimer(c)
    \/ Vider \/ CompacterL0
    \/ Crash \/ CrashCompaction \/ CrashFichier
    \/ Redemarrer

Spec == Init /\ [][Next]_vars

-----------------------------------------------------------------------------
\* Type correctness of the engine's memory and of its files.
TypeOK ==
    /\ en_marche \in BOOLEAN
    /\ repris \in BOOLEAN
    /\ memtable \in Contenus
    /\ sequence \in Nat
    /\ l0 \in Seq(Tables)
    /\ l1 \in Seq(Tables)
    /\ seq \in Nat
    /\ DOMAIN disque \subseteq {0, 1} \X Nat
    /\ \A f \in DOMAIN disque : disque[f] \in Contenus \union {Illisible}

Lecture == Lire(memtable, l0, l1)

\* What a restart would read in the files d: in L0 if the key is there, else in
\* L1, the file with the greatest number.
LireDisque(d) ==
    [c \in Cles |->
       LET avec == {f \in DOMAIN d : d[f] # Illisible /\ d[f][c] # Rien}
           recent(f, g) == f[1] < g[1] \/ (f[1] = g[1] /\ f[2] >= g[2])
       IN  IF avec = {} THEN Absent
           ELSE d[CHOOSE f \in avec : \A g \in avec : recent(f, g)][c].valeur]

LectureDisque == LireDisque(disque)

\* The engine implements the key-value store: a read returns the last value
\* written (the tables' newest version of the key), flushes and compactions
\* do not show, and a crash goes back to the last flush.
Promis == INSTANCE Magasin
            WITH etat  <- IF en_marche THEN Lecture ELSE LectureDisque,
                 sauve <- LectureDisque,
                 Tx <- {}, Inchangee <- Absent, en_cours <- {}, tampon <- [t \in {} |-> <<>>]

ImplementeMagasin == Promis!Spec

\* "SSTable : fichier immutable": a file that exists keeps its content until
\* a compaction removes it.
SSTableImmuable ==
    [][\A f \in DOMAIN disque \intersect DOMAIN disque' :
         disque'[f] = disque[f]]_vars

\* The files are the tables the engine reads, each under its own name: a
\* restart reads what the engine was reading, but for the MemTable.
MemoireEgaleDisque ==
    en_marche => LET pleines == {t \in Range(l0 \o l1) : t.contenu # Vide}
             IN  /\ DOMAIN disque = {t.fichier : t \in pleines}
                 /\ \A t \in pleines : disque[t.fichier] = t.contenu
=============================================================================
