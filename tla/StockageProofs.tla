--------------------------- MODULE StockageProofs ---------------------------
(***************************************************************************)
(* What TLAPS proves about the storage engines of MCStockage: WAL, which   *)
(* the module extends, for every set of keys, values and transactions and  *)
(* every length of the log, then, as instances, MVCC, for every number of  *)
(* transactions and keys, and LSM, for every size of its tables.           *)
(*                                                                         *)
(* WAL. The types hold in every usage, the numbering of the entries unless *)
(* the engine writes on a file with a torn entry. That the recovery finds  *)
(* the committed state whenever the process dies, and that the engine      *)
(* implements the durable store, needs the usage in which it keeps that    *)
(* promise: besides, no checkpoint while a transaction is open, no key     *)
(* written by two open transactions, no identifier begun twice. A crash    *)
(* may tear an entry all the same.                                         *)
(*                                                                         *)
(* MVCC. The types hold in every usage; that a transaction reads what had  *)
(* committed when it began, and keeps reading it, needs that commits do    *)
(* not overlap and that vacuum() runs alone.                               *)
(*                                                                         *)
(* LSM. That it implements the key-value store needs that sequences grow   *)
(* with age where a key is compacted, that nothing is flushed after a      *)
(* restart that found tables, and that no crash comes inside a compaction  *)
(* if keys are deleted. A crash inside the write of a file may come.       *)
(***************************************************************************)
EXTENDS WAL, FiniteSetTheorems, SequenceTheorems, WellFoundedInduction, TLAPS

CONSTANTS Niveaux, PermisMVCC, Supprime, Nettoie, MaxXid,
          Rien, Illisible, TailleMemtable, MaxL0, PermisLSM, MaxSeq, MaxEcrits
VARIABLES xid_courant, etat, isolation, actives, ecritures, appliquees, versions, xmax, rc,
          vac, lus, ordre,
          en_marche, repris, memtable, sequence, l0, l1, seq, disque

\* Each with its own constants and variables, but for the keys and the values.
M == INSTANCE MVCC WITH Permis <- PermisMVCC
Ls == INSTANCE LSM WITH Permis <- PermisLSM

-----------------------------------------------------------------------------
\* The inductive invariant.

TypeInv == TypeOK /\ (actif => suivant >= 1)

Saine(w) == \A i \in 1..Len(w) : w[i].type # "DECHIREE"

\* The entries that decode.
Longueur(w) == IF Saine(w) THEN Len(w) ELSE Len(w) - 1

\* Only the last entry can be torn; the others are numbered from 1, across
\* restarts.
Numerotee(w) ==
    /\ \A i \in 1..Len(w) : w[i].type = "DECHIREE" => w[i] = Dechiree /\ i = Len(w)
    /\ \A i \in 1..Longueur(w) : w[i].lsn = i

NumInv ==
    /\ Numerotee(wal)
    /\ actif => suivant = Longueur(wal) + 1
    /\ ckpt # Aucun => ckpt.lsn <= Longueur(wal)

\* The entry i of w changes the key c.
Modifie(w, i, c) == w[i].type \in {"WRITE", "DELETE"} /\ w[i].cle = c

\* What t has written in w is after the checkpoint k, and not committed.
OuverteApres(w, k, t) ==
    \A i \in 1..Len(w) : w[i].tx = t => w[i].type # "COMMIT" /\ (k # Aucun => k.lsn < i)

\* The dictionary e of t has the last write of each of its keys in w, and nobody
\* has written the key since.
DerniersEcrits(w, t, e) ==
    \A c \in Cles :
        IF e[c] = Inchangee
        THEN \A i \in 1..Len(w) : Modifie(w, i, c) => w[i].tx # t
        ELSE \E i \in 1..Len(w) :
               /\ Modifie(w, i, c) /\ w[i].tx = t
               /\ w[i].valeur = e[c]
               /\ \A j \in 1..Len(w) : Modifie(w, j, c) => j <= i

OuvertesInv ==
    /\ ~actif => en_cours = {} /\ tampon = [t \in Tx |-> Vierge]
    /\ \A t \in en_cours : OuverteApres(wal, ckpt, t) /\ DerniersEcrits(wal, t, tampon[t])

\* The log alone gives the same state as the log and the checkpoint; while the
\* process runs it is the one in memory.
EtatInv == Recovery(wal, Aucun) = Recovery(wal, ckpt) /\ RecuperationFidele

-----------------------------------------------------------------------------
\* Operators.

\* A bounded set of positions has a last one.
LEMMA MaxExiste ==
    ASSUME NEW n \in Nat, NEW r \in SUBSET (1..n), r # {}
    PROVE  \E i \in r : \A j \in r : j <= i
<1> DEFINE R == OpToRel(<, Nat)
           T == {n - i : i \in r}
<1>1. IsWellFoundedOn(R, Nat)
  BY NatLessThanWellFounded
<1>2. T \subseteq Nat /\ T # {}
  <2>1. \A i \in r : n - i \in Nat
    OBVIOUS
  <2> HIDE DEF R
  <2> QED
    BY <2>1
<1>3. PICK x \in T : \A y \in T : <<y, x>> \notin R
  <2> HIDE DEF R, T
  <2> QED
    BY <1>1, <1>2, WFMin
<1>4. \A y \in T : ~(y < x)
  BY <1>2, <1>3 DEF OpToRel
<1>5. PICK i \in r : x = n - i
  OBVIOUS
<1> QED
  BY <1>4, <1>5

LEMMA MaxUnique ==
    ASSUME NEW r, NEW i \in r, \A j \in r : j <= i /\ j \in Nat
    PROVE  (CHOOSE m \in r : \A j \in r : j <= m) = i
<1>1. \A m \in r : (\A j \in r : j <= m) => m = i
  OBVIOUS
<1> QED
  BY <1>1

\* The entry that wins is one of those the redo loop applies.
LEMMA DernierRedo ==
    ASSUME NEW w \in Seq(Entrees), NEW k, NEW c, Redo(w, k, c) # {}
    PROVE  LET r == Redo(w, k, c)
           IN  (CHOOSE i \in r : \A j \in r : j <= i) \in r
<1>1. Redo(w, k, c) \in SUBSET (1..Len(w)) /\ Len(w) \in Nat
  BY DEF Redo, Rejouees, Lisibles
<1>2. \E i \in Redo(w, k, c) : \A j \in Redo(w, k, c) : j <= i
  BY <1>1, MaxExiste
<1> QED
  BY <1>2

\* A recovery ends in a state.
LEMMA RecoveryType ==
    ASSUME NEW w \in Seq(Entrees), NEW k \in [lsn : Nat, etat : Etats] \union {Aucun}
    PROVE  Recovery(w, k) \in Etats
<1> SUFFICES ASSUME NEW c \in Cles
             PROVE  Recovery(w, k)[c] \in Contenus
  BY DEF Recovery, Etats
<1> DEFINE i == CHOOSE i \in Redo(w, k, c) : \A j \in Redo(w, k, c) : j <= i
<1>1. CASE Redo(w, k, c) # {}
  <2>0. i \in Redo(w, k, c)
    BY <1>1, DernierRedo
  <2>1. i \in 1..Len(w)
    <3> HIDE DEF i
    <3> QED
      BY <2>0 DEF Redo, Rejouees, Lisibles
  <2>2. w[i] \in Entrees
    BY <2>1
  <2>3. Recovery(w, k)[c] = w[i].valeur
    BY <1>1 DEF Recovery
  <2> QED
    BY <2>2, <2>3 DEF Entrees
<1>2. CASE Redo(w, k, c) = {}
  BY <1>2 DEF Recovery, Etats, Contenus
<1> QED
  BY <1>1, <1>2

\* lire_tout stops at the torn entry, the last one.
LEMMA Lus ==
    ASSUME NEW w \in Seq(Entrees), Numerotee(w)
    PROVE  /\ Longueur(w) \in 0..Len(w)
           /\ Lisibles(w) = 1..Longueur(w)
           /\ \A i \in 1..Longueur(w) : w[i].type # "DECHIREE"
<1>1. CASE Saine(w)
  BY <1>1 DEF Longueur, Saine, Lisibles
<1>2. CASE ~Saine(w)
  <2>1. PICK i \in 1..Len(w) : w[i].type = "DECHIREE"
    BY <1>2 DEF Saine
  <2>2. i = Len(w) /\ \A j \in 1..(Len(w) - 1) : w[j].type # "DECHIREE"
    BY <2>1 DEF Numerotee
  <2> QED
    BY <1>2, <2>1, <2>2 DEF Longueur, Lisibles
<1> QED
  BY <1>1, <1>2

\* The next number continues the file.
LEMMA Dernier ==
    ASSUME NEW w \in Seq(Entrees), Numerotee(w)
    PROVE  DernierLsn(w) = Longueur(w)
<1>1. Longueur(w) \in Nat /\ Lisibles(w) = 1..Longueur(w)
  BY Lus
<1>2. CASE Longueur(w) = 0
  BY <1>1, <1>2 DEF DernierLsn
<1>3. CASE Longueur(w) # 0
  <2>1. (CHOOSE i \in 1..Longueur(w) : i + 1 \notin 1..Longueur(w)) = Longueur(w)
    BY <1>1, <1>3
  <2>2. DernierLsn(w) = w[Longueur(w)].lsn
    BY <1>1, <1>3, <2>1 DEF DernierLsn
  <2> QED
    BY <1>1, <1>3, <2>2 DEF Numerotee
<1> QED
  BY <1>2, <1>3

\* The recovery looks at what follows the checkpoint.
LEMMA ApresCkpt ==
    ASSUME NEW w \in Seq(Entrees), Numerotee(w),
           NEW k, k # Aucun => k.lsn \in Nat
    PROVE  Rejouees(w, k) = {i \in 1..Longueur(w) : k # Aucun => k.lsn < i}
<1>1. /\ Longueur(w) \in Nat /\ Lisibles(w) = 1..Longueur(w)
      /\ \A i \in 1..Longueur(w) : w[i].lsn = i
  BY Lus DEF Numerotee
<1> QED
  BY <1>1 DEF Rejouees, DebutRejeu

\* Appending an entry that decodes to a file without a torn one.
LEMMA Ajout ==
    ASSUME NEW w \in Seq(Entrees), Numerotee(w), Saine(w),
           NEW e \in Entrees, e.type # "DECHIREE", e.lsn = Len(w) + 1
    PROVE  /\ Append(w, e) \in Seq(Entrees) /\ Len(Append(w, e)) = Len(w) + 1
           /\ \A i \in 1..Len(w) : Append(w, e)[i] = w[i]
           /\ Append(w, e)[Len(w) + 1] = e
           /\ Numerotee(Append(w, e)) /\ Saine(Append(w, e))
<1> DEFINE v == Append(w, e)
<1>1. /\ v \in Seq(Entrees) /\ Len(v) = Len(w) + 1
      /\ \A i \in 1..Len(w) : v[i] = w[i]
      /\ v[Len(w) + 1] = e
  OBVIOUS
<1> HIDE DEF v
<1>2. Saine(v)
  BY <1>1 DEF Saine
<1>3. Numerotee(v)
  BY <1>1, <1>2 DEF Numerotee, Saine, Longueur
<1> QED
  BY <1>1, <1>2, <1>3 DEF v

\* A crash in the write of an entry.
LEMMA AjoutDechire ==
    ASSUME NEW w \in Seq(Entrees), Numerotee(w), Saine(w)
    PROVE  /\ Append(w, Dechiree) \in Seq(Entrees)
           /\ Numerotee(Append(w, Dechiree))
           /\ Longueur(Append(w, Dechiree)) = Longueur(w)
           /\ \A i \in 1..Len(w) : Append(w, Dechiree)[i] = w[i]
<1> DEFINE v == Append(w, Dechiree)
<1>0. Dechiree \in Entrees /\ Dechiree.type = "DECHIREE"
  BY DEF Dechiree, Entree, Entrees, Contenus
<1>1. /\ v \in Seq(Entrees) /\ Len(v) = Len(w) + 1
      /\ \A i \in 1..Len(w) : v[i] = w[i]
      /\ v[Len(w) + 1] = Dechiree
  BY <1>0
<1> HIDE DEF v
<1>2. ~Saine(v)
  BY <1>0, <1>1 DEF Saine
<1>3. Longueur(v) = Len(w) /\ Longueur(w) = Len(w)
  BY <1>1, <1>2 DEF Longueur
<1>4. Numerotee(v)
  BY <1>1, <1>3 DEF Numerotee, Saine
<1> QED
  BY <1>1, <1>3, <1>4 DEF v

-----------------------------------------------------------------------------
\* Types, in every usage.

LEMMA TypeInit ==
    ASSUME Init
    PROVE  TypeInv
BY DEF Init, TypeInv, TypeOK, Etats, Contenus, Vide, Vierge

\* A crash empties the memory.
LEMMA TypeArret ==
    ASSUME Arret
    PROVE  /\ donnees' \in Etats /\ en_cours' \subseteq Tx /\ suivant' \in Nat
           /\ tampon' \in [Tx -> [Cles -> Contenus \union {Inchangee}]]
           /\ actif' = FALSE
BY DEF Arret, Etats, Contenus, Vide, Vierge

\* What an operation appends is an entry.
LEMMA TypeJournaliser ==
    ASSUME TypeInv, actif,
           NEW type \in {"BEGIN", "WRITE", "DELETE", "COMMIT", "ABORT", "CHECKPOINT"},
           NEW tx \in Tx \union {Systeme}, NEW cle \in Cles \union {Aucun},
           NEW valeur \in Contenus, Journaliser(type, tx, cle, valeur)
    PROVE  /\ Entree(suivant, type, tx, cle, valeur) \in Entrees
           /\ wal' \in Seq(Entrees) /\ suivant' \in Nat /\ suivant' >= 1
<1>1. Entree(suivant, type, tx, cle, valeur) \in Entrees
  BY DEF Entree, Entrees, TypeInv, TypeOK
<1> QED
  BY <1>1 DEF Journaliser, TypeInv, TypeOK

LEMMA TypeFermer ==
    ASSUME TypeInv, NEW t \in Tx, Fermer(t)
    PROVE  /\ en_cours' \subseteq Tx
           /\ tampon' \in [Tx -> [Cles -> Contenus \union {Inchangee}]]
BY DEF Fermer, TypeInv, TypeOK, Vierge

\* Every step preserves the types.
LEMMA TypePas ==
    ASSUME WALAssumption, TypeInv, [Next]_vars
    PROVE  TypeInv'
<1> USE DEF memoire
<1>0. Absent \in Contenus
  BY DEF Contenus
<1>1. ASSUME NEW t \in Tx, Begin(t)
      PROVE  TypeInv'
  <2>1. wal' \in Seq(Entrees) /\ suivant' \in Nat /\ suivant' >= 1
    BY <1>0, <1>1, TypeJournaliser DEF Begin
  <2> QED
    BY <1>1, <2>1 DEF Begin, TypeInv, TypeOK, Vierge
<1>2. ASSUME NEW t \in Tx, Commit(t)
      PROVE  TypeInv'
  <2>1. wal' \in Seq(Entrees) /\ suivant' \in Nat /\ suivant' >= 1
    BY <1>0, <1>2, TypeJournaliser DEF Commit
  <2>2. Appliquer(donnees, tampon[t]) \in Etats
    BY DEF Appliquer, TypeInv, TypeOK, Etats
  <2> QED
    BY <1>2, <2>1, <2>2, TypeFermer DEF Commit, TypeInv, TypeOK
<1>3. ASSUME NEW t \in Tx, Abort(t)
      PROVE  TypeInv'
  <2>1. wal' \in Seq(Entrees) /\ suivant' \in Nat /\ suivant' >= 1
    BY <1>0, <1>3, TypeJournaliser DEF Abort
  <2> QED
    BY <1>3, <2>1, TypeFermer DEF Abort, TypeInv, TypeOK
<1>4. ASSUME NEW t \in Tx, NEW c \in Cles, NEW v \in Contenus, Ecrire(t, c, v)
      PROVE  TypeInv'
  <2>1. wal' \in Seq(Entrees) /\ suivant' \in Nat /\ suivant' >= 1
    BY <1>4, TypeJournaliser DEF Ecrire
  <2> QED
    BY <1>4, <2>1 DEF Ecrire, TypeInv, TypeOK
<1>5. CASE Checkpoint
  <2>1. wal' \in Seq(Entrees) /\ suivant' \in Nat /\ suivant' >= 1
    BY <1>0, <1>5, TypeJournaliser DEF Checkpoint, PeutCheckpoint
  <2>2. Instantane \in [lsn : Nat, etat : Etats]
    BY <1>5 DEF Checkpoint, PeutCheckpoint, Instantane, TypeInv, TypeOK
  <2> QED
    BY <1>5, <2>1, <2>2 DEF Checkpoint, TypeInv, TypeOK
<1>6. CASE Crash
  BY <1>6, TypeArret DEF Crash, TypeInv, TypeOK
<1>7. CASE CrashCheckpoint
  <2>1. Instantane \in [lsn : Nat, etat : Etats]
    BY <1>7 DEF CrashCheckpoint, PeutCheckpoint, Instantane, TypeInv, TypeOK
  <2> QED
    BY <1>7, <2>1, TypeArret DEF CrashCheckpoint, TypeInv, TypeOK
<1>8. CASE CrashEcriture
  <2>1. Dechiree \in Entrees
    BY DEF Dechiree, Entree, Entrees, Contenus
  <2> QED
    BY <1>8, <2>1, TypeArret DEF CrashEcriture, TypeInv, TypeOK
<1>9. CASE Redemarrer
  <2>1. Recovery(wal, ckpt) \in Etats
    BY RecoveryType DEF TypeInv, TypeOK
  <2>2. DernierLsn(wal) \in Nat
    <3>1. CASE Lisibles(wal) = {}
      BY <3>1 DEF DernierLsn
    <3>2. CASE Lisibles(wal) # {}
      <4>1. Lisibles(wal) \in SUBSET (1..Len(wal)) /\ Len(wal) \in Nat
        BY DEF Lisibles, TypeInv, TypeOK
      <4>2. \E i \in Lisibles(wal) : \A j \in Lisibles(wal) : j <= i
        BY <3>2, <4>1, MaxExiste
      <4>3. \E i \in Lisibles(wal) : i + 1 \notin Lisibles(wal)
        BY <4>1, <4>2
      <4>4. PICK i \in 1..Len(wal) : DernierLsn(wal) = wal[i].lsn
        BY <3>2, <4>1, <4>3 DEF DernierLsn
      <4>5. wal[i] \in Entrees
        BY DEF TypeInv, TypeOK
      <4> QED
        BY <4>4, <4>5 DEF Entrees
    <3> QED
      BY <3>1, <3>2
  <2> QED
    BY <1>9, <2>1, <2>2 DEF Redemarrer, Reprise, TypeInv, TypeOK
<1>10. CASE UNCHANGED vars
  BY <1>10 DEF vars, TypeInv, TypeOK
<1> QED
  BY <1>1, <1>2, <1>3, <1>4, <1>5, <1>6, <1>7, <1>8, <1>9, <1>10 DEF Next

-----------------------------------------------------------------------------
\* Numbers, unless the engine writes after a torn entry.

LEMMA NumInit ==
    ASSUME Init
    PROVE  NumInv
BY DEF Init, NumInv, Numerotee, Longueur, Saine

\* An operation appends the next entry to a file without a torn one.
LEMMA NumJournaliser ==
    ASSUME TypeInv, NumInv, "suite" \notin Permis, actif,
           NEW type \in {"BEGIN", "WRITE", "DELETE", "COMMIT", "ABORT", "CHECKPOINT"},
           NEW tx \in Tx \union {Systeme}, NEW cle \in Cles \union {Aucun},
           NEW valeur \in Contenus, Journaliser(type, tx, cle, valeur)
    PROVE  /\ Saine(wal) /\ suivant = Len(wal) + 1
           /\ Entree(Len(wal) + 1, type, tx, cle, valeur) \in Entrees
           /\ wal' = Append(wal, Entree(Len(wal) + 1, type, tx, cle, valeur))
           /\ Numerotee(wal')
           /\ Longueur(wal) = Len(wal) /\ Longueur(wal') = Len(wal) + 1
           /\ suivant' = Longueur(wal') + 1
<1>1. Saine(wal)
  BY DEF Journaliser, PeutEcrire, NumInv, Numerotee, Saine
<1>2. Longueur(wal) = Len(wal) /\ suivant = Len(wal) + 1
  BY <1>1 DEF Longueur, NumInv
<1> DEFINE e == Entree(Len(wal) + 1, type, tx, cle, valeur)
<1>3. wal' = Append(wal, e) /\ suivant' = suivant + 1
  BY <1>2 DEF Journaliser
<1>4. e \in Entrees /\ e.type # "DECHIREE" /\ e.lsn = Len(wal) + 1
  BY <1>2, TypeJournaliser DEF Entree
<1>5. wal \in Seq(Entrees) /\ Numerotee(wal) /\ Len(wal) \in Nat
  BY DEF TypeInv, TypeOK, NumInv
<1> HIDE DEF e
<1>6. Numerotee(wal') /\ Saine(wal') /\ Len(wal') = Len(wal) + 1
  BY <1>1, <1>3, <1>4, <1>5, Ajout
<1>7. Longueur(wal') = Len(wal) + 1
  BY <1>6 DEF Longueur
<1> QED
  BY <1>1, <1>2, <1>3, <1>4, <1>5, <1>6, <1>7 DEF e

\* Every step preserves the numbers.
LEMMA NumPas ==
    ASSUME WALAssumption, "suite" \notin Permis, TypeInv, NumInv, [Next]_vars
    PROVE  NumInv'
<1> USE DEF memoire
<1>0. /\ Absent \in Contenus /\ wal \in Seq(Entrees) /\ Longueur(wal) \in Nat
      /\ ckpt # Aucun => ckpt.lsn \in Nat
  BY Lus DEF Contenus, TypeInv, TypeOK, NumInv
<1>1. ASSUME NEW t \in Tx, Begin(t) \/ Commit(t) \/ Abort(t)
      PROVE  NumInv'
  <2>1. PICK type \in {"BEGIN", "COMMIT", "ABORT"} : Journaliser(type, t, Aucun, Absent)
    BY <1>1 DEF Begin, Commit, Abort
  <2>2. actif /\ UNCHANGED <<actif, ckpt>>
    BY <1>1 DEF Begin, Commit, Abort
  <2>3. /\ Numerotee(wal') /\ suivant' = Longueur(wal') + 1
        /\ Longueur(wal') = Longueur(wal) + 1
    BY <1>0, <2>1, <2>2, NumJournaliser
  <2> QED
    BY <1>0, <2>2, <2>3 DEF NumInv
<1>2. ASSUME NEW t \in Tx, NEW c \in Cles, NEW v \in Contenus, Ecrire(t, c, v)
      PROVE  NumInv'
  <2>1. /\ Numerotee(wal') /\ suivant' = Longueur(wal') + 1
        /\ Longueur(wal') = Longueur(wal) + 1
    BY <1>0, <1>2, NumJournaliser DEF Ecrire
  <2> QED
    BY <1>0, <1>2, <2>1 DEF Ecrire, NumInv
<1>3. CASE Checkpoint
  <2>1. /\ Numerotee(wal') /\ suivant' = Longueur(wal') + 1
        /\ Longueur(wal') = Longueur(wal) + 1
    BY <1>0, <1>3, NumJournaliser DEF Checkpoint, PeutCheckpoint
  <2>2. ckpt'.lsn = Longueur(wal)
    BY <1>0, <1>3 DEF Checkpoint, PeutCheckpoint, Instantane, NumInv
  <2> QED
    BY <1>0, <1>3, <2>1, <2>2 DEF Checkpoint, NumInv
<1>4. CASE Crash
  BY <1>4 DEF Crash, Arret, NumInv
<1>5. CASE CrashCheckpoint
  <2>1. ckpt'.lsn = Longueur(wal)
    BY <1>0, <1>5 DEF CrashCheckpoint, PeutCheckpoint, Instantane, NumInv
  <2> QED
    BY <1>0, <1>5, <2>1 DEF CrashCheckpoint, Arret, NumInv
<1>6. CASE CrashEcriture
  <2>1. Saine(wal)
    BY <1>6 DEF CrashEcriture, PeutEcrire, NumInv, Numerotee, Saine
  <2>2. Numerotee(wal') /\ Longueur(wal') = Longueur(wal)
    BY <1>0, <1>6, <2>1, AjoutDechire DEF CrashEcriture, NumInv
  <2> QED
    BY <1>6, <2>2 DEF CrashEcriture, Arret, NumInv
<1>7. CASE Redemarrer
  <2>1. suivant' = Longueur(wal) + 1
    BY <1>0, <1>7, Dernier DEF Redemarrer, Reprise, NumInv
  <2> QED
    BY <1>7, <2>1 DEF Redemarrer, NumInv
<1>8. CASE UNCHANGED vars
  BY <1>8 DEF vars, NumInv
<1> QED
  BY <1>1, <1>2, <1>3, <1>4, <1>5, <1>6, <1>7, <1>8 DEF Next

\* Numbered entries have growing numbers, all below the next one.
LEMMA NumMonotone ==
    ASSUME TypeInv, NumInv
    PROVE  LsnMonotone
<1>1. /\ Longueur(wal) \in 0..Len(wal)
      /\ \A i \in 1..Longueur(wal) : wal[i].lsn = i
  BY Lus DEF TypeInv, TypeOK, NumInv, Numerotee
<1>2. \A i \in 1..Len(wal) : i <= Longueur(wal) \/ wal[i] = Dechiree
  BY <1>1 DEF NumInv, Numerotee, Longueur, Saine, TypeInv, TypeOK
<1>3. Dechiree.lsn = 0
  BY DEF Dechiree, Entree
<1> QED
  BY <1>1, <1>2, <1>3 DEF LsnMonotone, NumInv, TypeInv, TypeOK

-----------------------------------------------------------------------------
\* What a recovery finds.

\* The recovery of a file depends on the entries after the checkpoint.
LEMMA MemesRejouees ==
    ASSUME NEW w \in Seq(Entrees), NEW v \in Seq(Entrees), NEW k,
           Rejouees(w, k) = Rejouees(v, k),
           \A i \in Rejouees(w, k) : w[i] = v[i]
    PROVE  Recovery(w, k) = Recovery(v, k)
<1>1. TxCommitees(w, k) = TxCommitees(v, k)
  BY DEF TxCommitees
<1>2. \A c : Redo(w, k, c) = Redo(v, k, c)
  BY <1>1 DEF Redo
<1> SUFFICES ASSUME NEW c \in Cles
             PROVE  Recovery(w, k)[c] = Recovery(v, k)[c]
  BY DEF Recovery
<1>3. CASE Redo(w, k, c) = {}
  BY <1>2, <1>3 DEF Recovery
<1>4. CASE Redo(w, k, c) # {}
  <2> DEFINE i == CHOOSE i \in Redo(w, k, c) : \A j \in Redo(w, k, c) : j <= i
  <2>1. i \in Redo(w, k, c)
    BY <1>4, DernierRedo
  <2>2. w[i] = v[i]
    <3> HIDE DEF i
    <3> QED
      BY <2>1 DEF Redo
  <2>3. Recovery(w, k)[c] = w[i].valeur /\ Recovery(v, k)[c] = v[i].valeur
    BY <1>2, <1>4 DEF Recovery
  <2> QED
    BY <2>2, <2>3
<1> QED
  BY <1>3, <1>4

\* A torn entry is as if it were not there.
LEMMA SansDechiree ==
    ASSUME NEW w \in Seq(Entrees), Numerotee(w), Saine(w),
           NEW k, k # Aucun => k.lsn \in Nat
    PROVE  Recovery(Append(w, Dechiree), k) = Recovery(w, k)
<1> DEFINE v == Append(w, Dechiree)
<1>1. /\ v \in Seq(Entrees) /\ Numerotee(v) /\ Longueur(v) = Longueur(w)
      /\ \A i \in 1..Len(w) : v[i] = w[i]
      /\ Longueur(w) \in 0..Len(w)
  BY AjoutDechire, Lus
<1> HIDE DEF v
<1>2. Rejouees(v, k) = Rejouees(w, k) /\ Rejouees(w, k) \subseteq 1..Len(w)
  <2>1. Rejouees(w, k) = {i \in 1..Longueur(w) : k # Aucun => k.lsn < i}
    BY ApresCkpt
  <2>2. Rejouees(v, k) = {i \in 1..Longueur(v) : k # Aucun => k.lsn < i}
    BY <1>1, ApresCkpt
  <2> QED
    BY <1>1, <2>1, <2>2
<1>3. Recovery(v, k) = Recovery(w, k)
  BY <1>1, <1>2, MemesRejouees
<1> QED
  BY <1>3 DEF v

\* A checkpoint of the whole file is the recovery.
LEMMA ToutAuCkpt ==
    ASSUME NEW w \in Seq(Entrees), Numerotee(w),
           NEW k \in [lsn : Nat, etat : Etats], k # Aucun, k.lsn = Longueur(w)
    PROVE  Recovery(w, k) = k.etat
<1>1. Rejouees(w, k) = {}
  BY ApresCkpt, Lus
<1>2. \A c \in Cles : Redo(w, k, c) = {}
  BY <1>1 DEF Redo
<1> QED
  BY <1>2 DEF Recovery, Etats

\* The entries that a recovery looks at when one more has been appended.
LEMMA AjoutRejoue ==
    ASSUME NEW w \in Seq(Entrees), Numerotee(w), Saine(w),
           NEW e \in Entrees, e.type # "DECHIREE", e.lsn = Len(w) + 1,
           NEW k, k # Aucun => k.lsn \in Nat /\ k.lsn <= Len(w)
    PROVE  /\ Rejouees(w, k) = {i \in 1..Len(w) : k # Aucun => k.lsn < i}
           /\ Rejouees(Append(w, e), k) = Rejouees(w, k) \union {Len(w) + 1}
<1> DEFINE v == Append(w, e)
<1>1. v \in Seq(Entrees) /\ Len(v) = Len(w) + 1 /\ Numerotee(v) /\ Saine(v)
  BY Ajout
<1> HIDE DEF v
<1>2. Longueur(v) = Len(w) + 1 /\ Longueur(w) = Len(w)
  BY <1>1 DEF Longueur
<1>3. Rejouees(w, k) = {i \in 1..Len(w) : k # Aucun => k.lsn < i}
  BY <1>2, ApresCkpt
<1>4. Rejouees(v, k) = {i \in 1..(Len(w) + 1) : k # Aucun => k.lsn < i}
  BY <1>1, <1>2, ApresCkpt
<1> QED
  BY <1>3, <1>4 DEF v

\* An entry which is not a COMMIT changes nothing, if its transaction has not
\* committed.
LEMMA AjoutSansEffet ==
    ASSUME NEW w \in Seq(Entrees), Numerotee(w), Saine(w),
           NEW e \in Entrees, e.type \notin {"DECHIREE", "COMMIT"}, e.lsn = Len(w) + 1,
           e.type \in {"WRITE", "DELETE"} =>
             \A i \in 1..Len(w) : w[i].tx = e.tx => w[i].type # "COMMIT",
           NEW k, k # Aucun => k.lsn \in Nat /\ k.lsn <= Len(w)
    PROVE  Recovery(Append(w, e), k) = Recovery(w, k)
<1> DEFINE v == Append(w, e)
           n == Len(w) + 1
<1>1. /\ Rejouees(w, k) \subseteq 1..Len(w)
      /\ Rejouees(v, k) = Rejouees(w, k) \union {n}
  BY AjoutRejoue
<1>2. /\ v \in Seq(Entrees) /\ v[n] = e
      /\ \A i \in 1..Len(w) : v[i] = w[i]
  BY Ajout
<1> HIDE DEF v, n
<1>3. TxCommitees(v, k) = TxCommitees(w, k)
  BY <1>1, <1>2 DEF TxCommitees
<1>4. \A c \in Cles : Redo(v, k, c) = Redo(w, k, c)
  <2> SUFFICES ASSUME NEW c \in Cles
               PROVE  Redo(v, k, c) = Redo(w, k, c)
    OBVIOUS
  <2>1. \A i \in 1..Len(w) : i \in Redo(v, k, c) <=> i \in Redo(w, k, c)
    BY <1>1, <1>2, <1>3 DEF Redo, n
  <2>2. e.type \in {"WRITE", "DELETE"} => e.tx \notin TxCommitees(w, k)
    BY <1>1 DEF TxCommitees
  <2>3. n \notin Redo(v, k, c)
    BY <1>2, <1>3, <2>2 DEF Redo
  <2>4. /\ Redo(v, k, c) \subseteq 1..Len(w) \union {n}
        /\ Redo(w, k, c) \subseteq 1..Len(w)
    BY <1>1 DEF Redo
  <2> QED
    BY <2>1, <2>3, <2>4
<1>5. \A c \in Cles : Recovery(v, k)[c] = Recovery(w, k)[c]
  <2> SUFFICES ASSUME NEW c \in Cles
               PROVE  Recovery(v, k)[c] = Recovery(w, k)[c]
    OBVIOUS
  <2>1. CASE Redo(w, k, c) = {}
    BY <1>4, <2>1 DEF Recovery
  <2>2. CASE Redo(w, k, c) # {}
    <3> DEFINE i == CHOOSE i \in Redo(w, k, c) : \A j \in Redo(w, k, c) : j <= i
    <3>1. i \in Redo(w, k, c)
      BY <2>2, DernierRedo
    <3>2. v[i] = w[i]
      <4> HIDE DEF i
      <4> QED
        BY <1>1, <1>2, <3>1 DEF Redo
    <3>3. Recovery(w, k)[c] = w[i].valeur /\ Recovery(v, k)[c] = v[i].valeur
      BY <1>4, <2>2 DEF Recovery
    <3> QED
      BY <3>2, <3>3
  <2> QED
    BY <2>1, <2>2
<1> QED
  BY <1>5 DEF v, Recovery

\* A COMMIT brings the transaction's dictionary, if what it wrote is after the
\* checkpoint and after what others wrote under its keys.
LEMMA AjoutCommit ==
    ASSUME NEW w \in Seq(Entrees), Numerotee(w), Saine(w),
           NEW e \in Entrees, e.type = "COMMIT", e.lsn = Len(w) + 1,
           NEW k, k # Aucun => k.lsn \in Nat /\ k.lsn <= Len(w),
           NEW d, DerniersEcrits(w, e.tx, d), OuverteApres(w, k, e.tx)
    PROVE  Recovery(Append(w, e), k) = Appliquer(Recovery(w, k), d)
<1> DEFINE v == Append(w, e)
           n == Len(w) + 1
<1>1. /\ Rejouees(w, k) = {i \in 1..Len(w) : k # Aucun => k.lsn < i}
      /\ Rejouees(v, k) = Rejouees(w, k) \union {n}
      /\ Rejouees(w, k) \subseteq 1..Len(w)
  BY AjoutRejoue
<1>2. /\ v \in Seq(Entrees) /\ v[n] = e
      /\ \A i \in 1..Len(w) : v[i] = w[i]
  BY Ajout
<1> HIDE DEF v, n
<1>3. TxCommitees(v, k) = TxCommitees(w, k) \union {e.tx}
  BY <1>1, <1>2 DEF TxCommitees, n
<1>4. \A c, i : i \in Redo(v, k, c) <=>
                  \/ i \in Redo(w, k, c)
                  \/ i \in 1..Len(w) /\ Modifie(w, i, c) /\ w[i].tx = e.tx
  <2> SUFFICES ASSUME NEW c, NEW i
               PROVE  i \in Redo(v, k, c) <=>
                        \/ i \in Redo(w, k, c)
                        \/ i \in 1..Len(w) /\ Modifie(w, i, c) /\ w[i].tx = e.tx
    OBVIOUS
  <2>1. CASE i \in 1..Len(w)
    BY <1>1, <1>2, <1>3, <2>1 DEF Redo, Modifie, OuverteApres, n
  <2>2. CASE i \notin 1..Len(w)
    BY <1>1, <1>2, <2>2 DEF Redo
  <2> QED
    BY <2>1, <2>2
<1>5. ASSUME NEW c \in Cles
      PROVE  Recovery(v, k)[c] = Appliquer(Recovery(w, k), d)[c]
  <2>1. CASE d[c] = Inchangee
    <3>1. Redo(v, k, c) = Redo(w, k, c)
      BY <1>4, <1>5, <2>1 DEF DerniersEcrits
    <3>2. Appliquer(Recovery(w, k), d)[c] = Recovery(w, k)[c]
      BY <1>5, <2>1 DEF Appliquer
    <3>3. CASE Redo(w, k, c) = {}
      BY <1>5, <3>1, <3>2, <3>3 DEF Recovery
    <3>4. CASE Redo(w, k, c) # {}
      <4> DEFINE i == CHOOSE i \in Redo(w, k, c) : \A j \in Redo(w, k, c) : j <= i
      <4>1. i \in Redo(w, k, c)
        BY <3>4, DernierRedo
      <4>2. v[i] = w[i]
        <5> HIDE DEF i
        <5> QED
          BY <1>1, <1>2, <4>1 DEF Redo
      <4>3. Recovery(w, k)[c] = w[i].valeur /\ Recovery(v, k)[c] = v[i].valeur
        BY <1>5, <3>1, <3>4 DEF Recovery
      <4> QED
        BY <3>2, <4>2, <4>3
    <3> QED
      BY <3>3, <3>4
  <2>2. CASE d[c] # Inchangee
    <3>1. PICK i \in 1..Len(w) : /\ Modifie(w, i, c) /\ w[i].tx = e.tx
                                 /\ w[i].valeur = d[c]
                                 /\ \A j \in 1..Len(w) : Modifie(w, j, c) => j <= i
      BY <1>5, <2>2 DEF DerniersEcrits
    <3>2. i \in Redo(v, k, c)
      BY <1>4, <3>1
    <3>3. \A j \in Redo(v, k, c) : j \in 1..Len(w) /\ Modifie(w, j, c)
      <4>1. \A j \in Redo(w, k, c) : j \in 1..Len(w) /\ Modifie(w, j, c)
        BY <1>1 DEF Redo, Modifie
      <4> QED
        BY <1>4, <4>1
    <3>4. (CHOOSE m \in Redo(v, k, c) : \A j \in Redo(v, k, c) : j <= m) = i
      <4>1. \A j \in Redo(v, k, c) : j <= i /\ j \in Nat
        BY <3>1, <3>3
      <4> QED
        BY <3>2, <4>1, MaxUnique
    <3>5. Recovery(v, k)[c] = v[i].valeur
      BY <1>5, <3>2, <3>4 DEF Recovery
    <3>6. v[i] = w[i]
      BY <1>2
    <3> QED
      BY <1>5, <2>2, <3>1, <3>5, <3>6 DEF Appliquer
  <2> QED
    BY <2>1, <2>2
<1>6. /\ Recovery(v, k) = [c \in Cles |-> Recovery(v, k)[c]]
      /\ Appliquer(Recovery(w, k), d) = [c \in Cles |-> Appliquer(Recovery(w, k), d)[c]]
  BY DEF Recovery, Appliquer
<1> QED
  BY <1>5, <1>6 DEF v

-----------------------------------------------------------------------------
\* Open transactions, in the usage in which the engine keeps its promise.

LEMMA OuvertesInit ==
    ASSUME Init
    PROVE  OuvertesInv
BY DEF Init, OuvertesInv

\* The next entry is after the checkpoint.
LEMMA AjoutOuverte ==
    ASSUME NEW w \in Seq(Entrees), NEW e \in Entrees, NEW t, NEW k,
           k # Aucun => k.lsn \in Nat /\ k.lsn <= Len(w),
           OuverteApres(w, k, t), e.tx = t => e.type # "COMMIT"
    PROVE  OuverteApres(Append(w, e), k, t)
<1> DEFINE v == Append(w, e)
<1>1. /\ Len(v) = Len(w) + 1 /\ v[Len(w) + 1] = e
      /\ \A i \in 1..Len(w) : v[i] = w[i]
  OBVIOUS
<1> HIDE DEF v
<1>2. OuverteApres(v, k, t)
  BY <1>1 DEF OuverteApres
<1> QED
  BY <1>2 DEF v

\* An entry which writes none of its keys leaves a dictionary faithful.
LEMMA AjoutAilleurs ==
    ASSUME NEW w \in Seq(Entrees), NEW e \in Entrees, NEW t, NEW d,
           DerniersEcrits(w, t, d),
           e.type \in {"WRITE", "DELETE"} =>
             e.tx # t /\ (e.cle \in Cles => d[e.cle] = Inchangee)
    PROVE  DerniersEcrits(Append(w, e), t, d)
<1> DEFINE v == Append(w, e)
<1>1. /\ Len(v) = Len(w) + 1 /\ v[Len(w) + 1] = e
      /\ \A i \in 1..Len(w) : v[i] = w[i]
  OBVIOUS
<1> HIDE DEF v
<1>2. ASSUME NEW c \in Cles
      PROVE  IF d[c] = Inchangee
             THEN \A i \in 1..Len(v) : Modifie(v, i, c) => v[i].tx # t
             ELSE \E i \in 1..Len(v) : /\ Modifie(v, i, c) /\ v[i].tx = t
                                       /\ v[i].valeur = d[c]
                                       /\ \A j \in 1..Len(v) : Modifie(v, j, c) => j <= i
  <2>1. \A i \in 1..Len(w) : Modifie(v, i, c) <=> Modifie(w, i, c)
    BY <1>1 DEF Modifie
  <2>2. CASE d[c] = Inchangee
    <3>1. \A i \in 1..Len(w) : Modifie(w, i, c) => w[i].tx # t
      BY <1>2, <2>2 DEF DerniersEcrits
    <3>2. Modifie(v, Len(w) + 1, c) => v[Len(w) + 1].tx # t
      BY <1>1 DEF Modifie
    <3> QED
      BY <1>1, <2>1, <2>2, <3>1, <3>2
  <2>3. CASE d[c] # Inchangee
    <3>1. PICK i \in 1..Len(w) : /\ Modifie(w, i, c) /\ w[i].tx = t
                                 /\ w[i].valeur = d[c]
                                 /\ \A j \in 1..Len(w) : Modifie(w, j, c) => j <= i
      BY <1>2, <2>3 DEF DerniersEcrits
    <3>2. ~Modifie(v, Len(w) + 1, c)
      BY <1>1, <1>2, <2>3 DEF Modifie
    <3>3. \A j \in 1..Len(v) : Modifie(v, j, c) => j <= i
      BY <1>1, <2>1, <3>1, <3>2
    <3> QED
      BY <1>1, <2>1, <2>3, <3>1, <3>3
  <2> QED
    BY <2>2, <2>3
<1>3. DerniersEcrits(v, t, d)
  BY <1>2 DEF DerniersEcrits
<1> QED
  BY <1>3 DEF v

\* A write is the last one of its key.
LEMMA AjoutEcrit ==
    ASSUME NEW w \in Seq(Entrees), NEW e \in Entrees, e.type \in {"WRITE", "DELETE"},
           e.valeur # Inchangee,
           NEW d \in [Cles -> Contenus \union {Inchangee}], DerniersEcrits(w, e.tx, d)
    PROVE  DerniersEcrits(Append(w, e), e.tx, [d EXCEPT ![e.cle] = e.valeur])
<1> DEFINE v == Append(w, e)
           f == [d EXCEPT ![e.cle] = e.valeur]
           t == e.tx
<1>1. /\ Len(v) = Len(w) + 1 /\ v[Len(w) + 1] = e
      /\ \A i \in 1..Len(w) : v[i] = w[i]
  OBVIOUS
<1>2. \A c \in Cles : f[c] = IF c = e.cle THEN e.valeur ELSE d[c]
  OBVIOUS
<1> HIDE DEF v, f
<1>3. ASSUME NEW c \in Cles
      PROVE  IF f[c] = Inchangee
             THEN \A i \in 1..Len(v) : Modifie(v, i, c) => v[i].tx # t
             ELSE \E i \in 1..Len(v) : /\ Modifie(v, i, c) /\ v[i].tx = t
                                       /\ v[i].valeur = f[c]
                                       /\ \A j \in 1..Len(v) : Modifie(v, j, c) => j <= i
  <2>1. CASE c = e.cle
    <3>1. Modifie(v, Len(w) + 1, c)
      BY <1>1, <2>1 DEF Modifie
    <3>2. \A j \in 1..Len(v) : j <= Len(w) + 1
      BY <1>1
    <3>3. f[c] = e.valeur
      BY <1>2, <1>3, <2>1
    <3>4. Len(w) + 1 \in 1..Len(v)
      BY <1>1
    <3> QED
      BY <1>1, <3>1, <3>2, <3>3, <3>4
  <2>2. CASE c # e.cle
    <3>1. \A i \in 1..Len(v) : Modifie(v, i, c) <=> i \in 1..Len(w) /\ Modifie(w, i, c)
      BY <1>1, <2>2 DEF Modifie
    <3>2. f[c] = d[c]
      BY <1>2, <1>3, <2>2
    <3>3. CASE d[c] = Inchangee
      BY <1>1, <1>3, <3>1, <3>2, <3>3 DEF DerniersEcrits
    <3>4. CASE d[c] # Inchangee
      <4>1. PICK i \in 1..Len(w) : /\ Modifie(w, i, c) /\ w[i].tx = t
                                   /\ w[i].valeur = d[c]
                                   /\ \A j \in 1..Len(w) : Modifie(w, j, c) => j <= i
        BY <1>3, <3>4 DEF DerniersEcrits
      <4>2. i \in 1..Len(v) /\ \A j \in 1..Len(v) : Modifie(v, j, c) => j <= i
        BY <1>1, <3>1, <4>1
      <4> QED
        BY <1>1, <3>1, <3>2, <3>4, <4>1, <4>2
    <3> QED
      BY <3>3, <3>4
  <2> QED
    BY <2>1, <2>2
<1>4. DerniersEcrits(v, t, f)
  BY <1>3 DEF DerniersEcrits
<1> QED
  BY <1>4 DEF v, f

\* Every step preserves what is known of the open transactions.
LEMMA OuvertesPas ==
    ASSUME WALAssumption, Permis \subseteq {"dechirure"},
           TypeInv, NumInv, OuvertesInv, [Next]_vars
    PROVE  OuvertesInv'
<1> USE DEF memoire
<1>0. /\ Absent \in Contenus /\ wal \in Seq(Entrees) /\ Len(wal) \in Nat
      /\ "suite" \notin Permis
      /\ Longueur(wal) <= Len(wal)
      /\ tampon \in [Tx -> [Cles -> Contenus \union {Inchangee}]]
      /\ ckpt # Aucun => ckpt.lsn \in Nat /\ ckpt.lsn <= Len(wal)
  BY Lus DEF Contenus, TypeInv, TypeOK, NumInv
<1>1. ASSUME NEW t \in Tx, Begin(t)
      PROVE  OuvertesInv'
  <2> DEFINE e == Entree(Len(wal) + 1, "BEGIN", t, Aucun, Absent)
  <2>1. e \in Entrees /\ wal' = Append(wal, e) /\ e.type = "BEGIN" /\ e.tx = t
    BY <1>0, <1>1, NumJournaliser DEF Begin, Entree
  <2> HIDE DEF e
  <2>2. \A i \in 1..Len(wal) : wal[i].tx # t
    BY <1>0, <1>1 DEF Begin, DejaOuverte
  <2>3. ASSUME NEW u \in en_cours'
        PROVE  OuverteApres(wal, ckpt, u) /\ DerniersEcrits(wal, u, tampon'[u])
    <3>1. CASE u = t
      <4>1. tampon'[u] = Vierge
        BY <1>0, <1>1, <3>1 DEF Begin
      <4> QED
        BY <2>2, <3>1, <4>1 DEF OuverteApres, DerniersEcrits, Vierge
    <3>2. CASE u # t
      BY <1>0, <1>1, <2>3, <3>2 DEF Begin, OuvertesInv, TypeInv, TypeOK
    <3> QED
      BY <3>1, <3>2
  <2>4. ASSUME NEW u \in en_cours'
        PROVE  /\ OuverteApres(Append(wal, e), ckpt, u)
               /\ DerniersEcrits(Append(wal, e), u, tampon'[u])
    <3>1. OuverteApres(wal, ckpt, u) /\ DerniersEcrits(wal, u, tampon'[u])
      BY <2>3
    <3>2. PICK d : d = tampon'[u]
      OBVIOUS
    <3>3. DerniersEcrits(Append(wal, e), u, d)
      BY <1>0, <2>1, <3>1, <3>2, AjoutAilleurs
    <3> QED
      BY <1>0, <2>1, <3>1, <3>2, <3>3, AjoutOuverte
  <2> QED
    BY <1>1, <2>1, <2>4 DEF Begin, OuvertesInv
<1>2. ASSUME NEW t \in Tx, Commit(t) \/ Abort(t)
      PROVE  OuvertesInv'
  <2>1. PICK type \in {"COMMIT", "ABORT"} : Journaliser(type, t, Aucun, Absent)
    BY <1>2 DEF Commit, Abort
  <2>2. actif /\ actif' /\ ckpt' = ckpt /\ Fermer(t)
    BY <1>2 DEF Commit, Abort
  <2> DEFINE e == Entree(Len(wal) + 1, type, t, Aucun, Absent)
  <2>3. e \in Entrees /\ wal' = Append(wal, e) /\ e.type = type /\ e.tx = t
    BY <1>0, <2>1, <2>2, NumJournaliser DEF Entree
  <2> HIDE DEF e
  <2>4. \A u \in en_cours' : u # t /\ u \in en_cours /\ tampon'[u] = tampon[u]
    BY <1>0, <2>2 DEF Fermer, TypeInv, TypeOK
  <2>5. ASSUME NEW u \in en_cours'
        PROVE  /\ OuverteApres(Append(wal, e), ckpt, u)
               /\ DerniersEcrits(Append(wal, e), u, tampon[u])
    <3>1. OuverteApres(wal, ckpt, u) /\ DerniersEcrits(wal, u, tampon[u])
      BY <2>4, <2>5 DEF OuvertesInv
    <3>2. e.tx # u /\ e.type \notin {"WRITE", "DELETE"}
      BY <2>3, <2>4, <2>5
    <3> QED
      BY <1>0, <2>3, <3>1, <3>2, AjoutOuverte, AjoutAilleurs
  <2> QED
    BY <2>2, <2>3, <2>4, <2>5 DEF OuvertesInv
<1>3. ASSUME NEW t \in Tx, NEW c \in Cles, NEW v \in Contenus, Ecrire(t, c, v)
      PROVE  OuvertesInv'
  <2>1. PICK type \in {"WRITE", "DELETE"} : Journaliser(type, t, c, v)
    BY <1>3 DEF Ecrire
  <2>2. /\ actif /\ actif' /\ ckpt' = ckpt /\ t \in en_cours /\ en_cours' = en_cours
        /\ tampon' = [tampon EXCEPT ![t][c] = v] /\ Libre(c, t)
    BY <1>3 DEF Ecrire
  <2> DEFINE e == Entree(Len(wal) + 1, type, t, c, v)
  <2>3. /\ e \in Entrees /\ wal' = Append(wal, e) /\ e.type = type /\ e.tx = t
        /\ e.cle = c /\ e.valeur = v
    BY <1>0, <2>1, <2>2, NumJournaliser DEF Entree
  <2> HIDE DEF e
  <2>4. tampon'[t] = [tampon[t] EXCEPT ![c] = v]
    BY <1>0, <2>2
  <2>5. ASSUME NEW u \in en_cours, u # t
        PROVE  tampon'[u] = tampon[u] /\ tampon[u][c] = Inchangee
    BY <1>0, <2>2, <2>5 DEF Libre, TypeInv, TypeOK
  <2>6. ASSUME NEW u \in en_cours
        PROVE  /\ OuverteApres(Append(wal, e), ckpt, u)
               /\ DerniersEcrits(Append(wal, e), u, tampon'[u])
    <3>1. OuverteApres(wal, ckpt, u) /\ DerniersEcrits(wal, u, tampon[u])
      BY <2>6 DEF OuvertesInv
    <3>2. OuverteApres(Append(wal, e), ckpt, u)
      BY <1>0, <2>3, <3>1, AjoutOuverte
    <3>3. CASE u = t
      <4>1. v # Inchangee
        BY DEF WALAssumption, Contenus
      <4>2. DerniersEcrits(Append(wal, e), t, [tampon[t] EXCEPT ![c] = v])
        BY <1>0, <2>3, <3>1, <3>3, <4>1, AjoutEcrit
      <4> QED
        BY <2>4, <3>2, <3>3, <4>2
    <3>4. CASE u # t
      <4>1. DerniersEcrits(Append(wal, e), u, tampon[u])
        BY <1>0, <2>3, <2>5, <3>1, <3>4, AjoutAilleurs
      <4> QED
        BY <2>5, <3>2, <3>4, <4>1
    <3> QED
      BY <3>3, <3>4
  <2> QED
    BY <2>2, <2>3, <2>6 DEF OuvertesInv
<1>4. CASE Checkpoint
  BY <1>4 DEF Checkpoint, PeutCheckpoint, OuvertesInv
<1>5. CASE Crash \/ CrashCheckpoint \/ CrashEcriture
  BY <1>5 DEF Crash, CrashCheckpoint, CrashEcriture, Arret, OuvertesInv
<1>6. CASE Redemarrer
  BY <1>6 DEF Redemarrer, OuvertesInv
<1>7. CASE UNCHANGED vars
  BY <1>7 DEF vars, OuvertesInv
<1> QED
  BY <1>1, <1>2, <1>3, <1>4, <1>5, <1>6, <1>7 DEF Next

-----------------------------------------------------------------------------
\* The committed state, in the same usage.

LEMMA EtatInit ==
    ASSUME Init
    PROVE  EtatInv
<1>1. wal = <<>> /\ ckpt = Aucun /\ donnees = Vide
  BY DEF Init
<1>2. \A c \in Cles : Redo(<<>>, Aucun, c) = {}
  BY DEF Redo, Rejouees, Lisibles
<1>3. Recovery(<<>>, Aucun) = Vide
  BY <1>2 DEF Recovery, Vide
<1> QED
  BY <1>1, <1>3 DEF EtatInv, RecuperationFidele

\* An operation which does not commit leaves the recovery alone.
LEMMA EtatJournaliser ==
    ASSUME WALAssumption, "suite" \notin Permis, TypeInv, NumInv, actif,
           NEW type \in {"BEGIN", "WRITE", "DELETE", "ABORT", "CHECKPOINT"},
           NEW tx \in Tx \union {Systeme}, NEW cle \in Cles \union {Aucun},
           NEW valeur \in Contenus, Journaliser(type, tx, cle, valeur),
           type \in {"WRITE", "DELETE"} =>
             \A i \in 1..Len(wal) : wal[i].tx = tx => wal[i].type # "COMMIT",
           NEW k, k # Aucun => k.lsn \in Nat /\ k.lsn <= Longueur(wal)
    PROVE  \A w : w = wal' => Recovery(w, k) = Recovery(wal, k)
<1> DEFINE e == Entree(Len(wal) + 1, type, tx, cle, valeur)
<1>1. /\ Saine(wal) /\ e \in Entrees /\ wal' = Append(wal, e)
      /\ Longueur(wal) = Len(wal)
  BY NumJournaliser
<1>2. e.type = type /\ e.lsn = Len(wal) + 1 /\ e.tx = tx
  BY DEF Entree
<1>3. wal \in Seq(Entrees) /\ Numerotee(wal)
  BY DEF TypeInv, TypeOK, NumInv
<1> HIDE DEF e
<1>4. Recovery(Append(wal, e), k) = Recovery(wal, k)
  BY <1>1, <1>2, <1>3, AjoutSansEffet
<1> QED
  BY <1>1, <1>4

\* Every step keeps the committed state on disk.
LEMMA EtatPas ==
    ASSUME WALAssumption, Permis \subseteq {"dechirure"},
           TypeInv, NumInv, OuvertesInv, EtatInv, [Next]_vars
    PROVE  EtatInv'
<1> USE DEF memoire
<1>0. /\ Absent \in Contenus /\ wal \in Seq(Entrees) /\ Numerotee(wal)
      /\ "suite" \notin Permis /\ Longueur(wal) \in 0..Len(wal)
      /\ ckpt # Aucun => ckpt.lsn \in Nat /\ ckpt.lsn <= Longueur(wal)
  BY Lus DEF Contenus, TypeInv, TypeOK, NumInv
<1>1. ASSUME NEW t \in Tx, Begin(t) \/ Abort(t)
      PROVE  EtatInv'
  <2>1. PICK type \in {"BEGIN", "ABORT"} : Journaliser(type, t, Aucun, Absent)
    BY <1>1 DEF Begin, Abort
  <2>2. actif /\ actif' /\ UNCHANGED <<ckpt, donnees>>
    BY <1>1 DEF Begin, Abort
  <2>3. \A w : w = wal' => /\ Recovery(w, ckpt) = Recovery(wal, ckpt)
                           /\ Recovery(w, Aucun) = Recovery(wal, Aucun)
    BY <1>0, <2>1, <2>2, EtatJournaliser
  <2> QED
    BY <2>2, <2>3 DEF EtatInv, RecuperationFidele
<1>2. ASSUME NEW t \in Tx, NEW c \in Cles, NEW v \in Contenus, Ecrire(t, c, v)
      PROVE  EtatInv'
  <2>1. PICK type \in {"WRITE", "DELETE"} : Journaliser(type, t, c, v)
    BY <1>2 DEF Ecrire
  <2>2. actif /\ actif' /\ UNCHANGED <<ckpt, donnees>> /\ t \in en_cours
    BY <1>2 DEF Ecrire
  <2>3. \A i \in 1..Len(wal) : wal[i].tx = t => wal[i].type # "COMMIT"
    BY <2>2 DEF OuvertesInv, OuverteApres
  <2>4. \A w : w = wal' => /\ Recovery(w, ckpt) = Recovery(wal, ckpt)
                           /\ Recovery(w, Aucun) = Recovery(wal, Aucun)
    BY <1>0, <2>1, <2>2, <2>3, EtatJournaliser
  <2> QED
    BY <2>2, <2>4 DEF EtatInv, RecuperationFidele
<1>3. ASSUME NEW t \in Tx, Commit(t)
      PROVE  EtatInv'
  <2> DEFINE e == Entree(Len(wal) + 1, "COMMIT", t, Aucun, Absent)
  <2>1. Journaliser("COMMIT", t, Aucun, Absent) /\ actif
    BY <1>3 DEF Commit
  <2>2. /\ Saine(wal) /\ e \in Entrees /\ wal' = Append(wal, e)
        /\ Longueur(wal) = Len(wal)
    BY <1>0, <2>1, NumJournaliser
  <2>3. e.type = "COMMIT" /\ e.tx = t /\ e.lsn = Len(wal) + 1
    BY DEF Entree
  <2> HIDE DEF e
  <2>4. t \in en_cours /\ OuverteApres(wal, ckpt, t) /\ DerniersEcrits(wal, t, tampon[t])
    BY <1>3 DEF Commit, OuvertesInv
  <2>5. OuverteApres(wal, Aucun, t)
    BY <2>4 DEF OuverteApres
  <2>6. Recovery(Append(wal, e), ckpt) = Appliquer(Recovery(wal, ckpt), tampon[t])
    BY <1>0, <2>2, <2>3, <2>4, AjoutCommit
  <2>7. Recovery(Append(wal, e), Aucun) = Appliquer(Recovery(wal, Aucun), tampon[t])
    BY <1>0, <2>2, <2>3, <2>4, <2>5, AjoutCommit
  <2>8. actif' /\ ckpt' = ckpt /\ donnees' = Appliquer(donnees, tampon[t])
    BY <1>3 DEF Commit
  <2> QED
    BY <2>1, <2>2, <2>6, <2>7, <2>8 DEF EtatInv, RecuperationFidele
<1>4. ASSUME actif
      PROVE  /\ Instantane.lsn \in Nat /\ Instantane.lsn <= Longueur(wal)
             /\ Recovery(wal, Instantane) = donnees
  <2>1. /\ Instantane \in [lsn : Nat, etat : Etats]
        /\ Instantane.lsn = Longueur(wal) /\ Instantane.etat = donnees
    BY <1>0, <1>4 DEF Instantane, NumInv, TypeInv, TypeOK
  <2>2. Instantane # Aucun
    BY <2>1 DEF WALAssumption
  <2> QED
    BY <1>0, <2>1, <2>2, ToutAuCkpt
<1>5. CASE Checkpoint
  <2>1. /\ actif /\ Journaliser("CHECKPOINT", Systeme, Aucun, Absent)
        /\ ckpt' = Instantane /\ actif' /\ donnees' = donnees
    BY <1>5 DEF Checkpoint, PeutCheckpoint
  <2>2. \A w : w = wal' => /\ Recovery(w, Instantane) = Recovery(wal, Instantane)
                           /\ Recovery(w, Aucun) = Recovery(wal, Aucun)
    BY <1>0, <1>4, <2>1, EtatJournaliser
  <2> QED
    BY <1>4, <2>1, <2>2 DEF EtatInv, RecuperationFidele
<1>6. CASE Crash
  BY <1>6 DEF Crash, Arret, EtatInv, RecuperationFidele
<1>7. CASE CrashCheckpoint
  <2>1. actif /\ ckpt' = Instantane /\ wal' = wal /\ ~actif'
    BY <1>7 DEF CrashCheckpoint, PeutCheckpoint, Arret
  <2> QED
    BY <1>4, <2>1 DEF EtatInv, RecuperationFidele
<1>8. CASE CrashEcriture
  <2>1. Saine(wal)
    BY <1>0, <1>8 DEF CrashEcriture, PeutEcrire, Numerotee, Saine
  <2>3. wal' = Append(wal, Dechiree) /\ ckpt' = ckpt /\ ~actif'
    BY <1>8 DEF CrashEcriture, Arret
  <2>4. /\ Recovery(Append(wal, Dechiree), ckpt) = Recovery(wal, ckpt)
        /\ Recovery(Append(wal, Dechiree), Aucun) = Recovery(wal, Aucun)
    BY <1>0, <2>1, SansDechiree
  <2> QED
    BY <2>3, <2>4 DEF EtatInv, RecuperationFidele
<1>9. CASE Redemarrer
  BY <1>9 DEF Redemarrer, EtatInv, RecuperationFidele
<1>10. CASE UNCHANGED vars
  BY <1>10 DEF vars, EtatInv, RecuperationFidele
<1> QED
  BY <1>1, <1>2, <1>3, <1>5, <1>6, <1>7, <1>8, <1>9, <1>10 DEF Next

-----------------------------------------------------------------------------
\* The durable store.

LEMMA MagasinInit ==
    ASSUME Init
    PROVE  Promis!Init
BY DEF Init, Promis!Init, Vide, Vierge, Promis!Vierge

\* Every step is one of the store or changes nothing that it shows.
LEMMA MagasinPas ==
    ASSUME Permis \subseteq {"dechirure"},
           TypeInv, NumInv, EtatInv, EtatInv', [Next]_vars
    PROVE  [Promis!Next]_(Promis!vars)
<1> DEFINE E == IF actif THEN donnees ELSE Recovery(wal, ckpt)
<1> USE DEF memoire, Promis!vars, Promis!transactions
<1>1. ASSUME NEW t \in Tx, Begin(t)
      PROVE  Promis!Next
  <2>1. Promis!Begin(t)
    BY <1>1 DEF Begin, Promis!Begin, Vierge, Promis!Vierge
  <2> QED
    BY <2>1 DEF Promis!Next
<1>2. ASSUME NEW t \in Tx, Commit(t)
      PROVE  Promis!Next
  <2>1. Promis!Commit(t)
    BY <1>2 DEF Commit, Fermer, Promis!Commit, Promis!Terminer, Appliquer,
                Promis!Appliquer, Vierge, Promis!Vierge
  <2> QED
    BY <2>1 DEF Promis!Next
<1>3. ASSUME NEW t \in Tx, Abort(t)
      PROVE  Promis!Next
  <2>1. Promis!Abort(t)
    BY <1>3 DEF Abort, Fermer, Promis!Abort, Promis!Terminer, Vierge, Promis!Vierge
  <2> QED
    BY <2>1 DEF Promis!Next
<1>4. ASSUME NEW t \in Tx, NEW c \in Cles, NEW v \in Contenus, Ecrire(t, c, v)
      PROVE  Promis!Next
  <2>1. Promis!EcrireDans(t, c, v)
    BY <1>4 DEF Ecrire, Promis!EcrireDans
  <2> QED
    BY <2>1 DEF Promis!Next, Contenus
<1>5. CASE Checkpoint
  BY <1>5 DEF Checkpoint, PeutCheckpoint
<1>6. CASE Crash \/ CrashCheckpoint \/ CrashEcriture
  <2>1. actif /\ Arret
    BY <1>6 DEF Crash, CrashCheckpoint, CrashEcriture, Arret
  <2>2. E' = E
    <3>1. E = Recovery(wal, Aucun)
      BY DEF EtatInv, RecuperationFidele
    <3>2. E' = Recovery(wal, Aucun)'
      BY DEF EtatInv, RecuperationFidele
    <3>3. PICK w : w = wal'
      OBVIOUS
    <3>4. Recovery(w, Aucun) = Recovery(wal, Aucun)
      <4>1. CASE w = wal
        BY <4>1
      <4>2. CASE CrashEcriture
        <5>1. wal \in Seq(Entrees) /\ Numerotee(wal) /\ Saine(wal)
          BY <4>2 DEF CrashEcriture, PeutEcrire, NumInv, Numerotee, Saine, TypeInv, TypeOK
        <5> QED
          BY <3>3, <4>2, <5>1, SansDechiree DEF CrashEcriture
      <4> QED
        BY <1>6, <3>3, <4>1, <4>2 DEF Crash, CrashCheckpoint
    <3> QED
      BY <3>1, <3>2, <3>3, <3>4
  <2>3. Promis!Panne
    BY <2>1, <2>2 DEF Arret, Promis!Panne, Vierge, Promis!Vierge
  <2> QED
    BY <2>3 DEF Promis!Next
<1>7. CASE Redemarrer
  BY <1>7 DEF Redemarrer
<1>8. CASE UNCHANGED vars
  BY <1>8 DEF vars
<1> QED
  BY <1>1, <1>2, <1>3, <1>4, <1>5, <1>6, <1>7, <1>8 DEF Next

-----------------------------------------------------------------------------
\* Memory and files keep their types, in every usage.
THEOREM TypeCorrect ==
    ASSUME WALAssumption
    PROVE  Spec => []TypeOK
<1>1. Init => TypeInv
  BY TypeInit
<1>2. TypeInv /\ [Next]_vars => TypeInv'
  BY TypePas
<1>3. TypeInv => TypeOK
  BY DEF TypeInv
<1> QED
  BY <1>1, <1>2, <1>3, PTL DEF Spec

\* "Sequence : chaque entree a un LSN monotone": so they are, across restarts, in
\* every usage in which nothing is written after a torn entry.
THEOREM LsnMonotoneCorrect ==
    ASSUME WALAssumption, "suite" \notin Permis
    PROVE  Spec => []LsnMonotone
<1>1. Init => TypeInv /\ NumInv
  BY TypeInit, NumInit
<1>2. TypeInv /\ NumInv /\ [Next]_vars => (TypeInv /\ NumInv)'
  BY TypePas, NumPas
<1>3. TypeInv /\ NumInv => LsnMonotone
  BY NumMonotone
<1> QED
  BY <1>1, <1>2, <1>3, PTL DEF Spec

\* The invariant of the proper usage.
THEOREM EtatInvCorrect ==
    ASSUME WALAssumption, Permis \subseteq {"dechirure"}
    PROVE  Spec => [](TypeInv /\ NumInv /\ OuvertesInv /\ EtatInv)
<1> DEFINE I == TypeInv /\ NumInv /\ OuvertesInv /\ EtatInv
<1>1. Init => I
  BY TypeInit, NumInit, OuvertesInit, EtatInit
<1>2. I /\ [Next]_vars => I'
  <2>1. "suite" \notin Permis
    OBVIOUS
  <2> QED
    BY <2>1, TypePas, NumPas, OuvertesPas, EtatPas
<1> QED
  BY <1>1, <1>2, PTL DEF Spec

\* "Crash = rejouer le WAL -> etat coherent garanti": whenever the process dies,
\* the recovery finds what was committed and nothing else.
THEOREM RecuperationFideleCorrect ==
    ASSUME WALAssumption, Permis \subseteq {"dechirure"}
    PROVE  Spec => []RecuperationFidele
<1>1. Spec => [](TypeInv /\ NumInv /\ OuvertesInv /\ EtatInv)
  BY EtatInvCorrect
<1>2. EtatInv => RecuperationFidele
  BY DEF EtatInv
<1> QED
  BY <1>1, <1>2, PTL

\* The engine implements the durable transactional store: commits are atomic and
\* for good, and a crash forgets open transactions only.
THEOREM ImplementeMagasinCorrect ==
    ASSUME WALAssumption, Permis \subseteq {"dechirure"}
    PROVE  Spec => ImplementeMagasin
<1> DEFINE I == TypeInv /\ NumInv /\ OuvertesInv /\ EtatInv
<1>1. Spec => []I
  BY EtatInvCorrect
<1>2. Init => Promis!Init
  BY MagasinInit
<1>3. I /\ I' /\ [Next]_vars => [Promis!Next]_(Promis!vars)
  BY MagasinPas
<1> QED
  BY <1>1, <1>2, <1>3, PTL DEF Spec, ImplementeMagasin, Promis!Spec

-----------------------------------------------------------------------------
\* MVCC.

\* Commits do not overlap, and nothing is active while vacuum() runs.
Disjoints == "commits" \notin PermisMVCC /\ "vacuum" \notin PermisMVCC

\* A READ COMMITTED read that is under way, by its phase.
RcTypes == {M!Repos}
    \union [phase : {"xmax"}, tx : M!Xids, cle : Cles, actives : SUBSET M!Xids,
            fenetre : SUBSET (0..MaxXid)]
    \union [phase : {"parcours"}, tx : M!Xids, cle : Cles, actives : SUBSET M!Xids,
            xmax : 0..MaxXid, reste : Seq(M!Xids), fenetre : SUBSET (0..MaxXid)]
    \union [phase : {"fini"}, tx : M!Xids, lu : 0..MaxXid, fenetre : SUBSET (0..MaxXid)]

\* The types.
TypeInvMVCC ==
    /\ xid_courant \in 0..MaxXid
    /\ etat \in [M!Xids -> {"LIBRE", "ACTIVE", "COMMITTED", "ABORTED"}]
    /\ isolation \in [M!Xids -> Niveaux \union {"REPEATABLE_READ"}]
    /\ actives \in [M!Xids -> SUBSET M!Xids]
    /\ ecritures \in [M!Xids -> [Cles -> {"rien", "ecrit", "supprime"}]]
    /\ appliquees \in SUBSET M!Actives
    /\ versions \in [Cles -> Seq(M!Xids)]
    /\ xmax \in [Cles -> [M!Xids -> 0..MaxXid]]
    /\ rc \in RcTypes
    /\ vac.phase \in {"repos", "horizon", "pret"}
    /\ lus \in [M!Xids -> [Cles -> -1..MaxXid]]
    /\ ordre \in Seq(M!Xids)

\* The transactions that had committed when x began.
Avant(x) == {y \in M!Commitees : y < x /\ y \notin actives[x]}

\* Identifiers are given in order; a transaction knows of the older ones that are active;
\* one applies its writes at a time.
XidsInv ==
    /\ \A x \in M!Xids : etat[x] = "LIBRE" <=> x > xid_courant
    /\ \A x, y \in M!Actives : y < x => y \in actives[x]
    /\ \A x, y \in appliquees : x = y

\* ordre lists those who have committed or are about to, once each, the last of which may
\* still be applying.
OrdreInv ==
    /\ \A i \in 1..Len(ordre) : ordre[i] \in M!Commitees \union appliquees
    /\ \A x \in M!Commitees \union appliquees : \E i \in 1..Len(ordre) : ordre[i] = x
    /\ \A i, j \in 1..Len(ordre) : ordre[i] = ordre[j] => i = j
    /\ \A i \in 1..Len(ordre) : i < Len(ordre) => ordre[i] \in M!Commitees

\* What had committed when x began is a prefix of that order.
PrefixeInv == \A x \in M!Actives : \A i, j \in 1..Len(ordre) :
    j < i /\ ordre[i] \in Avant(x) => ordre[j] \in Avant(x)

\* x has written c, without deleting it.
Ecrit(x, c) == ecritures[x][c] = "ecrit"

\* A version is of a transaction of that order which has written the key.
VersionsInv == \A c \in Cles : \A k \in 1..Len(versions[c]) :
    \E i \in 1..Len(ordre) : ordre[i] = versions[c][k] /\ Ecrit(ordre[i], c)

\* The xmax of a version is the next transaction of that order that touched the key.
SuccesseurInv == \A c \in Cles :
    /\ \A x \in M!Xids : (\A i \in 1..Len(ordre) : ordre[i] # x) => xmax[c][x] = 0
    /\ \A i \in 1..Len(ordre) : Ecrit(ordre[i], c) =>
        \/ /\ xmax[c][ordre[i]] = 0
           /\ \A j \in 1..Len(ordre) : j > i => ~M!Touche(ordre[j], c)
        \/ \E j \in 1..Len(ordre) :
             /\ j > i /\ M!Touche(ordre[j], c) /\ xmax[c][ordre[i]] = ordre[j]
             /\ \A l \in 1..Len(ordre) : i < l /\ l < j => ~M!Touche(ordre[l], c)

\* The version that m has replaced is of no use to anyone active.
Nettoyable(m) == m # 0 /\ M!Commitee(m) /\ \A x \in M!Actives : m \in Avant(x)

\* A version is there unless vacuum() could take it away.
GardeesInv == \A c \in Cles : \A i \in 1..Len(ordre) : Ecrit(ordre[i], c) =>
    \/ \E k \in 1..Len(versions[c]) : versions[c][k] = ordre[i]
    \/ Nettoyable(xmax[c][ordre[i]])

\* Of the versions of a key only the last may be live.
ChaineInv == \A c \in Cles : \A k \in 1..Len(versions[c]) :
    k < Len(versions[c]) => xmax[c][versions[c][k]] # 0

\* Nothing is active while vacuum() runs.
VacuumInv == vac.phase # "repos" => M!Actives = {}

\* The inductive invariant.
Inv == /\ TypeInvMVCC /\ XidsInv /\ OrdreInv /\ PrefixeInv /\ VersionsInv /\ SuccesseurInv
       /\ GardeesInv /\ ChaineInv /\ VacuumInv

-----------------------------------------------------------------------------
\* Every set of naturals that is not empty has a smallest member.
LEMMA MinimumExiste ==
  ASSUME NEW T, T \subseteq Nat, T # {}
  PROVE  \E x \in T : \A y \in T : x <= y
<1> DEFINE Inf == OpToRel(<, Nat)
<1>1. IsWellFoundedOn(Inf, Nat)
  BY NatLessThanWellFounded
<1>2. \A x, y \in Nat : <<x, y>> \in Inf <=> x < y
  BY DEF OpToRel
<1> HIDE DEF Inf
<1>3. PICK x \in T : \A y \in T : ~(<<y, x>> \in Inf)
  BY <1>1, WFMin, Zenon
<1>4. \A y \in T : ~(y < x)
  BY <1>2, <1>3
<1> QED
  BY <1>4

\* ... and a finite bound gives a greatest one.
LEMMA MaximumExiste ==
  ASSUME NEW T, T \subseteq Nat, T # {}, NEW n \in Nat, \A x \in T : x <= n
  PROVE  \E x \in T : \A y \in T : y <= x
<1> DEFINE U == {u \in Nat : \A x \in T : x <= u}
<1>1. PICK u \in U : \A v \in U : u <= v
  <2>1. U \subseteq Nat /\ n \in U
    OBVIOUS
  <2> HIDE DEF U
  <2> QED BY <2>1, MinimumExiste
<1>2. u \in Nat /\ \A x \in T : x <= u
  BY <1>1
<1>3. CASE u = 0
  <2>1. PICK x \in T : TRUE
    OBVIOUS
  <2>2. \A y \in T : y \in Nat /\ y <= 0
    BY <1>2, <1>3
  <2> QED BY <2>1, <2>2
<1>4. CASE u # 0
  <2>1. u - 1 \in Nat /\ u - 1 \notin U
    <3> HIDE DEF U
    <3>1. u - 1 \in Nat
      BY <1>2, <1>4
    <3> QED BY <1>1, <1>2, <3>1
  <2>2. PICK x \in T : ~(x <= u - 1)
    BY <2>1
  <2>3. x = u
    BY <1>2, <2>2
  <2> QED BY <1>2, <2>3
<1> QED BY <1>3, <1>4


\* The order of the identifiers and the operators of the model.
LEMMA XidsNat ==
  ASSUME M!MVCCAssumption
  PROVE  \A x : x \in M!Xids <=> x \in Nat /\ 1 <= x /\ x <= MaxXid
BY DEF M!MVCCAssumption, M!Xids

\* The last member of a set of positions.
LEMMA DerniereExiste ==
  ASSUME NEW n \in Nat, NEW P \in SUBSET (1..n), P # {}
  PROVE  /\ (CHOOSE i \in P : \A j \in P : j <= i) \in P
         /\ \A j \in P : j <= (CHOOSE i \in P : \A k \in P : k <= i)
<1>1. P \subseteq Nat /\ \A x \in P : x <= n
  OBVIOUS
<1>2. \E i \in P : \A j \in P : j <= i
  BY <1>1, MaximumExiste
<1> QED BY <1>2

\* What vacuum's comprehension keeps: exactly the members of K; all but the
\* last of them come from before the last.
EstGardee(S, s, K, g) ==
    /\ g \in Seq(S)
    /\ \A k \in 1..Len(g) : \E i \in 1..Len(s) :
         /\ g[k] = s[i] /\ s[i] \in K
         /\ k < Len(g) => i < Len(s)
    /\ \A i \in 1..Len(s) : s[i] \in K => \E k \in 1..Len(g) : g[k] = s[i]

\* What vacuum() keeps of a sequence: its members that are kept, in their order.
LEMMA GarderCorrect ==
  ASSUME NEW S, NEW s \in Seq(S), NEW K
  PROVE  EstGardee(S, s, K, M!Garder(s, K))
<1> DEFINE e(F, i) == IF i = 0 THEN <<>>
                      ELSE IF s[i] \in K THEN Append(F[i - 1], s[i]) ELSE F[i - 1]
           R(F, n) == F = [i \in 0..n |-> e(F, i)]
           n == Len(s)
<1>0. n \in Nat /\ DOMAIN s = 1..n
  BY LenProperties
<1> HIDE DEF n
<1>1. \A m \in 0..n : \E F : R(F, m)
  <2> DEFINE Bad == {m \in 0..n : ~\E F : R(F, m)}
  <2> SUFFICES ASSUME Bad # {} PROVE FALSE
    OBVIOUS
  <2>1. Bad \subseteq Nat
    BY <1>0
  <2>2. PICK m \in Bad : \A x \in Bad : m <= x
    <3> HIDE DEF Bad
    <3> QED BY <2>1, MinimumExiste
  <2>3. m \in 0..n /\ ~\E F : R(F, m)
    BY <2>2
  <2>4. CASE m = 0
    <3>1. R([i \in 0..0 |-> <<>>], 0)
      OBVIOUS
    <3> HIDE DEF R
    <3> QED BY <2>3, <2>4, <3>1
  <2>5. CASE m # 0
    <3>1. m - 1 \in 0..n /\ m - 1 \notin Bad
      <4>1. m \in Nat /\ m >= 1 /\ m <= n
        BY <1>0, <2>3, <2>5
      <4>2. m - 1 \in 0..n /\ ~(m <= m - 1)
        BY <1>0, <4>1
      <4> HIDE DEF Bad
      <4> QED BY <2>2, <4>2
    <3>2. PICK F : R(F, m - 1)
      BY <3>1
    <3> DEFINE G == [i \in 0..m |-> IF i = m THEN e(F, m) ELSE F[i]]
    <3>3. \A i \in 0..m : G[i] = e(G, i)
      <4> TAKE i \in 0..m
      <4>0. m \in Nat
        BY <2>1, <2>2
      <4>1. CASE i = 0
        <5>1. 0 \in 0..m - 1
          BY <4>0, <2>5
        <5> QED BY <3>2, <4>1, <5>1, <2>5
      <4>2. CASE i # 0
        <5>1. i - 1 \in 0..m /\ i - 1 # m
          BY <4>0, <4>2
        <5>2. G[i - 1] = F[i - 1]
          BY <5>1
        <5>3. e(G, i) = e(F, i)
          <6> HIDE DEF G
          <6> QED BY <5>2, <4>2
        <5>4. CASE i = m
          BY <5>3, <5>4
        <5>5. CASE i # m
          <6>1. i \in 0..m - 1
            BY <4>0, <5>5
          <6>2. F[i] = e(F, i)
            <7> HIDE DEF e
            <7> QED BY <3>2, <6>1
          <6>3. G[i] = F[i]
            BY <5>5
          <6> HIDE DEF G, e
          <6> QED BY <5>3, <6>2, <6>3
        <5> QED BY <5>4, <5>5
      <4> QED BY <4>1, <4>2
    <3>4. R(G, m)
      <4>1. G = [i \in 0..m |-> G[i]]
        OBVIOUS
      <4> HIDE DEF G, e
      <4> QED BY <3>3, <4>1
    <3> HIDE DEF R, G
    <3> QED BY <2>3, <3>4
  <2> QED BY <2>4, <2>5
<1>2. PICK F : R(F, n) /\ M!Garder(s, K) = F[n]
  <2> DEFINE F == CHOOSE F : R(F, n)
  <2>1. \E G : R(G, n)
    <3>1. n \in 0..n
      BY <1>0
    <3> HIDE DEF R
    <3> QED BY <1>1, <3>1
  <2>2. R(F, n)
    <3> HIDE DEF R
    <3> QED BY <2>1
  <2>3. M!Garder(s, K) = F[n]
    BY DEF M!Garder, n
  <2> HIDE DEF F, R
  <2> QED BY <2>2, <2>3
<1>3. \A i \in 0..n : F[i] = e(F, i)
  <2> HIDE DEF e
  <2> QED BY <1>2
<1> DEFINE P(i) == /\ F[i] \in Seq(S)
                   /\ \A k \in 1..Len(F[i]) : \E j \in 1..i : F[i][k] = s[j] /\ s[j] \in K
                   /\ \A j \in 1..i : s[j] \in K => \E k \in 1..Len(F[i]) : F[i][k] = s[j]
<1>4. ASSUME NEW i \in 1..n, F[i - 1] \in Seq(S)
      PROVE  /\ s[i] \in S
             /\ F[i] = IF s[i] \in K THEN Append(F[i - 1], s[i]) ELSE F[i - 1]
  <2>1. i \in 0..n /\ i # 0
    BY <1>0
  <2> QED BY <1>0, <1>3, <2>1, ElementOfSeq DEF n
<1>5. \A i \in 0..n : P(i)
  <2> DEFINE Bad == {i \in 0..n : ~P(i)}
  <2> SUFFICES ASSUME Bad # {} PROVE FALSE
    OBVIOUS
  <2>1. Bad \subseteq Nat
    BY <1>0
  <2>2. PICK m \in Bad : \A x \in Bad : m <= x
    <3> HIDE DEF Bad
    <3> QED BY <2>1, MinimumExiste
  <2>3. m \in 0..n /\ ~P(m) /\ m \in Nat
    BY <2>1, <2>2
  <2>4. CASE m = 0
    <3>1. F[0] = <<>>
      BY <1>0, <1>3
    <3>2. F[0] \in Seq(S) /\ Len(F[0]) = 0
      BY <3>1
    <3>3. P(0)
      BY <3>2
    <3> HIDE DEF P
    <3> QED BY <2>3, <2>4, <3>3
  <2>5. CASE m # 0
    <3> DEFINE q == m - 1
    <3>1. q \in 0..n /\ q \notin Bad /\ m \in 1..n /\ q \in Nat /\ m = q + 1
      <4>1. m \in Nat /\ m >= 1 /\ m <= n
        BY <1>0, <2>3, <2>5
      <4>2. q \in 0..n /\ ~(m <= q) /\ m \in 1..n /\ q \in Nat /\ m = q + 1
        BY <1>0, <4>1
      <4> HIDE DEF Bad, q
      <4> QED BY <2>2, <4>2
    <3>2. P(q)
      BY <3>1
    <3>3. /\ s[m] \in S
          /\ F[m] = IF s[m] \in K THEN Append(F[q], s[m]) ELSE F[q]
      <4>1. F[m - 1] \in Seq(S)
        BY <3>2
      <4> QED BY <1>4, <3>1, <4>1
    <3> HIDE DEF q
    <3>4. /\ F[q] \in Seq(S) /\ Len(F[q]) \in Nat
          /\ \A k \in 1..Len(F[q]) : \E j \in 1..q : F[q][k] = s[j] /\ s[j] \in K
          /\ \A j \in 1..q : s[j] \in K => \E k \in 1..Len(F[q]) : F[q][k] = s[j]
      BY <3>2, LenProperties
    <3>5. CASE s[m] \in K
      <4>1. /\ F[m] \in Seq(S) /\ Len(F[m]) = Len(F[q]) + 1
            /\ \A k \in 1..Len(F[q]) : F[m][k] = F[q][k]
            /\ F[m][Len(F[q]) + 1] = s[m]
        BY <3>3, <3>4, <3>5
      <4>2. \A k \in 1..Len(F[m]) : \E j \in 1..m : F[m][k] = s[j] /\ s[j] \in K
        <5> TAKE k \in 1..Len(F[m])
        <5>1. CASE k \in 1..Len(F[q])
          <6>1. PICK j \in 1..q : F[q][k] = s[j] /\ s[j] \in K
            BY <3>4, <5>1
          <6>2. j \in 1..m
            BY <3>1
          <6> QED BY <4>1, <5>1, <6>1, <6>2
        <5>2. CASE k = Len(F[q]) + 1
          <6>1. m \in 1..m
            BY <3>1
          <6> QED BY <3>5, <4>1, <5>2, <6>1
        <5> QED BY <3>4, <4>1, <5>1, <5>2
      <4>3. \A j \in 1..m : s[j] \in K => \E k \in 1..Len(F[m]) : F[m][k] = s[j]
        <5> SUFFICES ASSUME NEW j \in 1..m, s[j] \in K
                     PROVE  \E k \in 1..Len(F[m]) : F[m][k] = s[j]
          OBVIOUS
        <5>1. CASE j \in 1..q
          <6>1. PICK k \in 1..Len(F[q]) : F[q][k] = s[j]
            BY <3>4, <5>1
          <6>2. k \in 1..Len(F[m])
            BY <3>4, <4>1
          <6> QED BY <4>1, <6>1, <6>2
        <5>2. CASE j = m
          <6>1. Len(F[q]) + 1 \in 1..Len(F[m])
            BY <3>4, <4>1
          <6> QED BY <4>1, <5>2, <6>1
        <5> QED BY <3>1, <5>1, <5>2
      <4>4. P(m)
        BY <4>1, <4>2, <4>3
      <4> HIDE DEF P
      <4> QED BY <2>3, <4>4
    <3>6. CASE s[m] \notin K
      <4>1. F[m] = F[q]
        BY <3>3, <3>6
      <4>2. \A j \in 1..m : s[j] \in K => j \in 1..q
        BY <3>1, <3>6
      <4>3. \A j \in 1..q : j \in 1..m
        BY <3>1
      <4>4. P(m)
        BY <3>4, <4>1, <4>2, <4>3
      <4> HIDE DEF P
      <4> QED BY <2>3, <4>4
    <3> QED BY <3>5, <3>6
  <2> QED BY <2>4, <2>5
<1>6. P(n)
  <2>1. n \in 0..n
    BY <1>0
  <2> HIDE DEF P
  <2> QED BY <1>5, <2>1
<1>7. \A k \in 1..Len(F[n]) : \E i \in 1..n :
        F[n][k] = s[i] /\ s[i] \in K /\ (k < Len(F[n]) => i < n)
  <2> SUFFICES ASSUME NEW k \in 1..Len(F[n])
               PROVE  \E i \in 1..n : F[n][k] = s[i] /\ s[i] \in K /\ (k < Len(F[n]) => i < n)
    OBVIOUS
  <2>1. PICK j \in 1..n : F[n][k] = s[j] /\ s[j] \in K
    BY <1>6
  <2>2. CASE ~(k < Len(F[n]))
    BY <2>1, <2>2
  <2>3. CASE k < Len(F[n])
    <3> DEFINE q == n - 1
    <3>1. q \in 0..n /\ n \in 1..n /\ q \in Nat /\ n = q + 1
      BY <1>0, <2>1
    <3>2. /\ F[q] \in Seq(S) /\ Len(F[q]) \in Nat
          /\ \A h \in 1..Len(F[q]) : \E i \in 1..q : F[q][h] = s[i] /\ s[i] \in K
      <4> HIDE DEF q
      <4>1. P(q)
        BY <1>5, <3>1
      <4> QED BY <4>1, LenProperties
    <3>3. /\ s[n] \in S
          /\ F[n] = IF s[n] \in K THEN Append(F[q], s[n]) ELSE F[q]
      BY <1>4, <3>1, <3>2
    <3> HIDE DEF q
    <3>4. k \in 1..Len(F[q]) /\ F[n][k] = F[q][k]
      BY <2>3, <3>2, <3>3
    <3>5. PICK i \in 1..q : F[q][k] = s[i] /\ s[i] \in K
      BY <3>2, <3>4
    <3>6. i \in 1..n /\ i < n
      BY <3>1
    <3> QED BY <3>4, <3>5, <3>6
  <2> QED BY <2>2, <2>3
<1> DEFINE g == M!Garder(s, K)
<1>8. g = F[n] /\ n = Len(s)
  BY <1>2 DEF n
<1> HIDE DEF g
<1>9. g \in Seq(S)
  BY <1>6, <1>8
<1>10. \A k \in 1..Len(g) : \E i \in 1..Len(s) :
         g[k] = s[i] /\ s[i] \in K /\ (k < Len(g) => i < Len(s))
  BY <1>7, <1>8
<1>11. \A i \in 1..Len(s) : s[i] \in K => \E k \in 1..Len(g) : g[k] = s[i]
  BY <1>6, <1>8
<1> QED BY <1>9, <1>10, <1>11 DEF g, EstGardee

-----------------------------------------------------------------------------
\* What a read returns.
LEMMA LectureType ==
  ASSUME M!MVCCAssumption, TypeInvMVCC, NEW x \in M!Xids, NEW c \in Cles
  PROVE  M!Lecture(x, c) \in 0..MaxXid
<1> DEFINE vus == {i \in 1..Len(versions[c]) : M!Visible(c, versions[c][i], x, actives[x], x)}
           i0 == CHOOSE i \in vus : \A j \in vus : j <= i
<1>1. versions[c] \in Seq(M!Xids)
  BY DEF TypeInvMVCC
<1>2. Len(versions[c]) \in Nat /\ vus \in SUBSET (1..Len(versions[c]))
  BY <1>1, LenProperties
<1>3. M!Lecture(x, c) = IF vus = {} THEN 0 ELSE versions[c][i0]
  BY DEF M!Lecture
<1> HIDE DEF vus
<1>4. CASE vus = {}
  BY <1>3, <1>4 DEF M!MVCCAssumption
<1>5. CASE vus # {}
  <2>1. i0 \in vus
    BY <1>2, <1>5, DerniereExiste
  <2> HIDE DEF i0
  <2>2. versions[c][i0] \in M!Xids
    BY <1>1, <1>2, <2>1, ElementOfSeq
  <2> QED BY <1>3, <1>5, <2>2, XidsNat DEF M!MVCCAssumption
<1> QED BY <1>4, <1>5

\* The last writer of a key.
LEMMA DernierType ==
  ASSUME M!MVCCAssumption, TypeInvMVCC, NEW c, NEW s
  PROVE  M!Dernier(c, s) \in 0..MaxXid
<1> DEFINE p == {i \in 1..Len(ordre) : ordre[i] \in s /\ M!Touche(ordre[i], c)}
           i0 == CHOOSE i \in p : \A j \in p : j <= i
<1>1. ordre \in Seq(M!Xids)
  BY DEF TypeInvMVCC
<1>2. Len(ordre) \in Nat /\ p \in SUBSET (1..Len(ordre))
  BY <1>1, LenProperties
<1>3. M!Dernier(c, s) = IF p = {} \/ ecritures[ordre[i0]][c] = "supprime" THEN 0 ELSE ordre[i0]
  BY DEF M!Dernier
<1> HIDE DEF p
<1>4. CASE p = {}
  BY <1>3, <1>4 DEF M!MVCCAssumption
<1>5. CASE p # {}
  <2>1. i0 \in p
    BY <1>2, <1>5, DerniereExiste
  <2> HIDE DEF i0
  <2>2. ordre[i0] \in M!Xids
    BY <1>1, <1>2, <2>1, ElementOfSeq
  <2> QED BY <1>3, <2>2, XidsNat DEF M!MVCCAssumption
<1> QED BY <1>4, <1>5

\* The types hold at first, and every action keeps them.
LEMMA TypeInitMVCC == M!MVCCAssumption /\ M!Init => TypeInvMVCC
<1> SUFFICES ASSUME M!MVCCAssumption, M!Init PROVE TypeInvMVCC
  OBVIOUS
<1>1. MaxXid \in Nat
  BY DEF M!MVCCAssumption
<1>2. versions \in [Cles -> Seq(M!Xids)] /\ ordre \in Seq(M!Xids)
  BY DEF M!Init
<1>3. xmax \in [Cles -> [M!Xids -> 0..MaxXid]] /\ lus \in [M!Xids -> [Cles -> -1..MaxXid]]
  BY <1>1 DEF M!Init
<1>4. rc \in RcTypes /\ vac.phase \in {"repos", "horizon", "pret"}
  BY DEF M!Init, RcTypes, M!Repos
<1> QED BY <1>1, <1>2, <1>3, <1>4 DEF M!Init, TypeInvMVCC

LEMMA TypeBegin ==
  ASSUME M!MVCCAssumption, TypeInvMVCC, NEW n \in Niveaux, M!Begin(n)
  PROVE  TypeInvMVCC'
<1>1. /\ xid_courant + 1 <= MaxXid /\ xid_courant' = xid_courant + 1
      /\ etat' = [etat EXCEPT ![xid_courant + 1] = "ACTIVE"]
      /\ isolation' = [isolation EXCEPT ![xid_courant + 1] = n]
      /\ actives' = [actives EXCEPT ![xid_courant + 1] = M!Actives]
      /\ UNCHANGED <<ecritures, appliquees, versions, xmax, rc, vac, lus, ordre>>
  BY DEF M!Begin, M!donnees
<1>2. xid_courant \in 0..MaxXid /\ MaxXid \in Nat
  BY DEF TypeInvMVCC, M!MVCCAssumption
<1>3. xid_courant' \in 0..MaxXid /\ xid_courant + 1 \in M!Xids
  BY <1>1, <1>2 DEF M!Xids
<1>4. etat' \in [M!Xids -> {"LIBRE", "ACTIVE", "COMMITTED", "ABORTED"}]
  BY <1>1, <1>3 DEF TypeInvMVCC
<1>5. isolation' \in [M!Xids -> Niveaux \union {"REPEATABLE_READ"}]
  BY <1>1, <1>3 DEF TypeInvMVCC
<1>6. actives' \in [M!Xids -> SUBSET M!Xids]
  BY <1>1, <1>3 DEF TypeInvMVCC, M!Actives
<1>7. appliquees' \in SUBSET M!Actives'
  BY <1>1, <1>3 DEF TypeInvMVCC, M!Actives
<1> QED BY <1>1, <1>3, <1>4, <1>5, <1>6, <1>7 DEF TypeInvMVCC

LEMMA TypeEcrire ==
  ASSUME TypeInvMVCC, NEW x \in M!Xids, NEW c \in Cles, NEW e \in {"ecrit", "supprime"},
         M!Ecrire(x, c, e)
  PROVE  TypeInvMVCC'
<1>1. ecritures' = [ecritures EXCEPT ![x][c] = e]
  BY DEF M!Ecrire
<1>2. ecritures' \in [M!Xids -> [Cles -> {"rien", "ecrit", "supprime"}]]
  BY <1>1 DEF TypeInvMVCC
<1>3. UNCHANGED <<xid_courant, etat, isolation, actives, appliquees, versions, xmax, rc, vac,
                  lus, ordre>>
  BY DEF M!Ecrire, M!donnees
<1> QED BY <1>2, <1>3 DEF TypeInvMVCC, M!Actives

LEMMA TypeLire ==
  ASSUME M!MVCCAssumption, TypeInvMVCC, NEW x \in M!Xids, NEW c \in Cles, M!Lire(x, c)
  PROVE  TypeInvMVCC'
<1>1. lus' = [lus EXCEPT ![x][c] = M!Lecture(x, c)]
  BY DEF M!Lire
<1>2. M!Lecture(x, c) \in -1..MaxXid
  BY LectureType DEF M!MVCCAssumption
<1>3. lus' \in [M!Xids -> [Cles -> -1..MaxXid]]
  <2> DEFINE T == -1..MaxXid
  <2> HIDE DEF T
  <2>1. lus \in [M!Xids -> [Cles -> T]] /\ M!Lecture(x, c) \in T
    BY <1>2 DEF TypeInvMVCC, T
  <2>2. lus' \in [M!Xids -> [Cles -> T]]
    BY <1>1, <2>1
  <2> QED BY <2>2 DEF T
<1>4. UNCHANGED <<xid_courant, etat, isolation, actives, ecritures, appliquees, versions, xmax,
                  rc, vac, ordre>>
  BY DEF M!Lire, M!transactions, M!donnees
<1> QED BY <1>3, <1>4 DEF TypeInvMVCC, M!Actives

\* The steps of a READ COMMITTED read.
LEMMA TypeRC ==
  ASSUME M!MVCCAssumption, TypeInvMVCC,
         M!XmaxRC \/ M!ParcoursRC \/ M!FinRC \/ \E x \in M!Xids, c \in Cles : M!LireRC(x, c)
  PROVE  TypeInvMVCC'
<1>1. UNCHANGED <<xid_courant, etat, isolation, actives, ecritures, appliquees, versions, xmax,
                  vac, lus, ordre>>
  BY DEF M!XmaxRC, M!ParcoursRC, M!FinRC, M!LireRC, M!transactions, M!donnees
<1>2. /\ versions \in [Cles -> Seq(M!Xids)] /\ rc \in RcTypes /\ xid_courant \in 0..MaxXid
      /\ MaxXid \in Nat
  BY DEF TypeInvMVCC, M!MVCCAssumption
<1>3. rc' \in RcTypes
  <2>1. CASE M!XmaxRC
    <3>1. rc.phase = "xmax"
      BY <2>1 DEF M!XmaxRC
    <3>2. /\ rc.tx \in M!Xids /\ rc.cle \in Cles /\ rc.actives \in SUBSET M!Xids
          /\ rc.fenetre \in SUBSET (0..MaxXid)
      BY <1>2, <3>1 DEF RcTypes, M!Repos
    <3>3. versions[rc.cle] \in Seq(M!Xids)
      BY <1>2, <3>2
    <3> QED BY <1>2, <2>1, <3>2, <3>3 DEF M!XmaxRC, RcTypes
  <2>2. CASE M!ParcoursRC
    <3> DEFINE fini(v) == [phase |-> "fini", tx |-> rc.tx, lu |-> v, fenetre |-> rc.fenetre]
               n == Len(rc.reste)
    <3>1. rc.phase = "parcours"
      BY <2>2 DEF M!ParcoursRC
    <3>2. rc \in [phase : {"parcours"}, tx : M!Xids, cle : Cles, actives : SUBSET M!Xids,
                  xmax : 0..MaxXid, reste : Seq(M!Xids), fenetre : SUBSET (0..MaxXid)]
      BY <1>2, <3>1 DEF RcTypes, M!Repos
    <3>3. rc.tx \in M!Xids /\ rc.reste \in Seq(M!Xids) /\ rc.fenetre \in SUBSET (0..MaxXid)
      BY <3>2
    <3>4. n \in Nat
      BY <3>3, LenProperties
    <3>5. ASSUME NEW v \in 0..MaxXid PROVE fini(v) \in RcTypes
      BY <3>3 DEF RcTypes
    <3>6. CASE rc' = fini(0)
      <4> HIDE DEF fini
      <4> QED BY <1>2, <3>5, <3>6
    <3>7. CASE n # 0 /\ rc' = fini(rc.reste[n])
      <4>1. rc.reste[n] \in M!Xids
        BY <3>3, <3>4, <3>7, ElementOfSeq
      <4>2. rc.reste[n] \in 0..MaxXid
        BY <4>1, XidsNat
      <4> HIDE DEF fini
      <4> QED BY <3>5, <3>7, <4>2
    <3>8. CASE n # 0 /\ rc' = [rc EXCEPT !.reste = SubSeq(rc.reste, 1, n - 1)]
      <4>1. SubSeq(rc.reste, 1, n - 1) \in Seq(M!Xids)
        BY <3>3, <3>4, <3>8, SubSeqProperties
      <4>2. rc' \in [phase : {"parcours"}, tx : M!Xids, cle : Cles, actives : SUBSET M!Xids,
                     xmax : 0..MaxXid, reste : Seq(M!Xids), fenetre : SUBSET (0..MaxXid)]
        BY <3>2, <3>8, <4>1
      <4> QED BY <4>2 DEF RcTypes
    <3> QED BY <2>2, <3>6, <3>7, <3>8 DEF M!ParcoursRC
  <2>3. CASE M!FinRC
    BY <2>3 DEF M!FinRC, RcTypes
  <2>4. ASSUME NEW x \in M!Xids, NEW c \in Cles, M!LireRC(x, c) PROVE rc' \in RcTypes
    <3>1. rc' = [phase |-> "xmax", tx |-> x, cle |-> c, actives |-> M!Actives \ {x},
                 fenetre |-> {M!Dernier(c, M!Commitees)}]
      BY <2>4 DEF M!LireRC
    <3>2. M!Actives \ {x} \in SUBSET M!Xids /\ {M!Dernier(c,
             M!Commitees)} \in SUBSET (0..MaxXid)
      BY DernierType DEF M!Actives
    <3> QED BY <3>1, <3>2 DEF RcTypes
  <2> QED BY <2>1, <2>2, <2>3, <2>4
<1> QED BY <1>1, <1>3 DEF TypeInvMVCC, M!Actives

LEMMA MarquerType ==
  ASSUME M!MVCCAssumption, TypeInvMVCC, NEW x \in M!Xids, NEW c \in Cles
  PROVE  M!Marquer(x, c) \in [M!Xids -> 0..MaxXid]
<1> DEFINE V == M!Vivantes(c)
           i0 == CHOOSE i \in V : \A j \in V : j <= i
<1>1. versions[c] \in Seq(M!Xids) /\ xmax[c] \in [M!Xids -> 0..MaxXid]
  BY DEF TypeInvMVCC
<1>2. Len(versions[c]) \in Nat /\ V \in SUBSET (1..Len(versions[c]))
  BY <1>1, LenProperties DEF M!Vivantes
<1>3. M!Marquer(x, c) = IF ~M!Touche(x, c) \/ V = {} THEN xmax[c]
                        ELSE [xmax[c] EXCEPT ![versions[c][i0]] = x]
  BY DEF M!Marquer
<1>4. x \in 0..MaxXid
  BY XidsNat
<1> HIDE DEF V, i0
<1> QED BY <1>1, <1>3, <1>4

LEMMA TypeAppliquer ==
  ASSUME M!MVCCAssumption, TypeInvMVCC, NEW x \in M!Xids, M!Appliquer(x)
  PROVE  TypeInvMVCC'
<1>1. /\ appliquees' = appliquees \union {x} /\ x \in M!Actives
      /\ xmax' = [c \in Cles |-> M!Marquer(x, c)]
      /\ versions' = [c \in Cles |-> IF ecritures[x][c] = "ecrit"
                                     THEN Append(versions[c], x) ELSE versions[c]]
      /\ ordre' = Append(ordre, x)
      /\ UNCHANGED <<xid_courant, etat, isolation, actives, ecritures, rc, vac, lus>>
  BY DEF M!Appliquer, M!Ouverte, M!transactions
<1>2. xmax' \in [Cles -> [M!Xids -> 0..MaxXid]]
  BY <1>1, MarquerType
<1>3. versions' \in [Cles -> Seq(M!Xids)]
  BY <1>1 DEF TypeInvMVCC
<1>4. ordre' \in Seq(M!Xids)
  BY <1>1 DEF TypeInvMVCC
<1>5. appliquees' \in SUBSET M!Actives'
  BY <1>1 DEF TypeInvMVCC, M!Actives
<1> QED BY <1>1, <1>2, <1>3, <1>4, <1>5 DEF TypeInvMVCC

LEMMA TypeCommiter ==
  ASSUME M!MVCCAssumption, TypeInvMVCC, NEW x \in M!Xids, M!Commiter(x)
  PROVE  TypeInvMVCC'
<1>1. /\ x \in appliquees /\ appliquees' = appliquees \ {x}
      /\ etat' = [etat EXCEPT ![x] = "COMMITTED"]
      /\ UNCHANGED <<xid_courant, isolation, actives, ecritures, versions, xmax, vac, lus,
          ordre>>
  BY DEF M!Commiter, M!donnees
<1>2. etat' \in [M!Xids -> {"LIBRE", "ACTIVE", "COMMITTED", "ABORTED"}]
  BY <1>1 DEF TypeInvMVCC
<1>3. appliquees' \in SUBSET M!Actives'
  BY <1>1 DEF TypeInvMVCC, M!Actives
<1>4. rc' \in RcTypes
  <2> DEFINE f == {M!Dernier(rc.cle, M!Commitees \union {x})}
  <2>1. rc \in RcTypes /\ f \in SUBSET (0..MaxXid)
    BY DernierType DEF TypeInvMVCC
  <2>2. CASE rc' = rc
    BY <2>1, <2>2
  <2>3. CASE rc.phase = "xmax" /\ rc' = [rc EXCEPT !.fenetre = @ \union f]
    <3> HIDE DEF f
    <3>1. rc \in [phase : {"xmax"}, tx : M!Xids, cle : Cles, actives : SUBSET M!Xids,
                  fenetre : SUBSET (0..MaxXid)]
      BY <2>1, <2>3 DEF RcTypes, M!Repos
    <3>2. rc.fenetre \union f \in SUBSET (0..MaxXid)
      BY <2>1, <3>1
    <3>3. rc' \in [phase : {"xmax"}, tx : M!Xids, cle : Cles, actives : SUBSET M!Xids,
                   fenetre : SUBSET (0..MaxXid)]
      BY <2>3, <3>1, <3>2
    <3> QED BY <3>3 DEF RcTypes
  <2>4. CASE rc.phase = "parcours" /\ rc' = [rc EXCEPT !.fenetre = @ \union f]
    <3> HIDE DEF f
    <3>1. rc \in [phase : {"parcours"}, tx : M!Xids, cle : Cles, actives : SUBSET M!Xids,
                  xmax : 0..MaxXid, reste : Seq(M!Xids), fenetre : SUBSET (0..MaxXid)]
      BY <2>1, <2>4 DEF RcTypes, M!Repos
    <3>2. rc.fenetre \union f \in SUBSET (0..MaxXid)
      BY <2>1, <3>1
    <3>3. rc' \in [phase : {"parcours"}, tx : M!Xids, cle : Cles, actives : SUBSET M!Xids,
                   xmax : 0..MaxXid, reste : Seq(M!Xids), fenetre : SUBSET (0..MaxXid)]
      BY <2>4, <3>1, <3>2
    <3> QED BY <3>3 DEF RcTypes
  <2> QED BY <2>2, <2>3, <2>4 DEF M!Commiter
<1> QED BY <1>1, <1>2, <1>3, <1>4 DEF TypeInvMVCC

LEMMA TypeAbort ==
  ASSUME TypeInvMVCC, NEW x \in M!Xids, M!Abort(x)
  PROVE  TypeInvMVCC'
<1>1. /\ x \notin appliquees /\ etat' = [etat EXCEPT ![x] = "ABORTED"]
      /\ UNCHANGED <<xid_courant, isolation, actives, ecritures, appliquees, versions, xmax, rc,
                     vac, lus, ordre>>
  BY DEF M!Abort, M!Ouverte, M!donnees
<1>2. etat' \in [M!Xids -> {"LIBRE", "ACTIVE", "COMMITTED", "ABORTED"}]
  BY <1>1 DEF TypeInvMVCC
<1>3. appliquees' \in SUBSET M!Actives'
  BY <1>1 DEF TypeInvMVCC, M!Actives
<1> QED BY <1>1, <1>2, <1>3 DEF TypeInvMVCC

LEMMA TypeVacuum ==
  ASSUME TypeInvMVCC, M!VacuumActives \/ M!VacuumHorizon \/ M!VacuumNettoyer
  PROVE  TypeInvMVCC'
<1>1. /\ UNCHANGED <<xid_courant, etat, isolation, actives, ecritures, appliquees, xmax, rc,
          lus,
                     ordre>>
      /\ vac'.phase \in {"repos", "horizon", "pret"}
  BY DEF M!VacuumActives, M!VacuumHorizon, M!VacuumNettoyer, M!transactions, M!donnees, M!Repos
<1>2. versions' \in [Cles -> Seq(M!Xids)]
  <2>1. CASE versions' = versions
    BY <2>1 DEF TypeInvMVCC
  <2>2. CASE M!VacuumNettoyer
    <3>1. \A c \in Cles : M!Garder(versions[c], {v \in M!Xids : ~M!Obsolete(c, v, vac.horizon)})
                              \in Seq(M!Xids)
      BY GarderCorrect DEF TypeInvMVCC, EstGardee
    <3> QED BY <2>2, <3>1 DEF M!VacuumNettoyer
  <2> QED BY <2>1, <2>2 DEF M!VacuumActives, M!VacuumHorizon, M!donnees
<1> QED BY <1>1, <1>2 DEF TypeInvMVCC, M!Actives

LEMMA TypeNext == M!MVCCAssumption /\ TypeInvMVCC /\ [M!Next]_M!vars => TypeInvMVCC'
<1> SUFFICES ASSUME M!MVCCAssumption, TypeInvMVCC, [M!Next]_M!vars PROVE TypeInvMVCC'
  OBVIOUS
<1>1. CASE UNCHANGED M!vars
  BY <1>1 DEF M!vars, M!transactions, M!donnees, TypeInvMVCC, M!Actives
<1>2. CASE M!Next
  BY <1>2, TypeBegin, TypeEcrire, TypeLire, TypeRC, TypeAppliquer, TypeCommiter, TypeAbort,
     TypeVacuum DEF M!Next
<1> QED BY <1>1, <1>2

\* The engine is typed, whatever usage is allowed.
THEOREM TypeCorrectMVCC == ASSUME M!MVCCAssumption PROVE M!Spec => []M!TypeOK
<1>1. M!MVCCAssumption
  OBVIOUS
<1>2. TypeInvMVCC => M!TypeOK
  <2> SUFFICES ASSUME TypeInvMVCC PROVE M!TypeOK
    OBVIOUS
  <2>1. rc.phase \in M!Phases /\ vac.phase \in M!Phases
    BY DEF TypeInvMVCC, RcTypes, M!Repos, M!Phases
  <2> QED BY <2>1 DEF TypeInvMVCC, M!TypeOK
<1>3. M!Init => TypeInvMVCC
  BY <1>1, TypeInitMVCC
<1>4. TypeInvMVCC /\ [M!Next]_M!vars => TypeInvMVCC'
  BY <1>1, TypeNext
<1> QED BY <1>2, <1>3, <1>4, PTL DEF M!Spec

-----------------------------------------------------------------------------
(* Small facts of the invariant.                                           *)
LEMMA Faits ==
  ASSUME M!MVCCAssumption, TypeInvMVCC
  PROVE  /\ MaxXid \in Nat
         /\ \A x : x \in M!Xids <=> x \in Nat /\ 1 <= x /\ x <= MaxXid
         /\ ordre \in Seq(M!Xids) /\ Len(ordre) \in Nat
         /\ \A i \in 1..Len(ordre) : ordre[i] \in M!Xids
         /\ \A c \in Cles : /\ versions[c] \in Seq(M!Xids) /\ Len(versions[c]) \in Nat
                            /\ \A k \in 1..Len(versions[c]) : versions[c][k] \in M!Xids
         /\ xmax \in [Cles -> [M!Xids -> 0..MaxXid]]
         /\ \A c \in Cles, x \in M!Xids : xmax[c][x] # 0 => xmax[c][x] \in M!Xids
         /\ \A x \in M!Xids, c \in Cles : ecritures[x][c] \in {"rien", "ecrit", "supprime"}
         /\ appliquees \subseteq M!Actives /\ M!Actives \subseteq M!Xids
         /\ M!Actives \cap M!Commitees = {} /\ M!Commitees \subseteq M!Xids
<1>1. /\ ordre \in Seq(M!Xids) /\ versions \in [Cles -> Seq(M!Xids)]
      /\ xmax \in [Cles -> [M!Xids -> 0..MaxXid]] /\ MaxXid \in Nat
      /\ ecritures \in [M!Xids -> [Cles -> {"rien", "ecrit", "supprime"}]]
      /\ appliquees \subseteq M!Actives
  BY DEF TypeInvMVCC, M!MVCCAssumption
<1>2. Len(ordre) \in Nat /\ \A i \in 1..Len(ordre) : ordre[i] \in M!Xids
  BY <1>1, LenProperties, ElementOfSeq
<1>3. \A c \in Cles : /\ versions[c] \in Seq(M!Xids) /\ Len(versions[c]) \in Nat
                      /\ \A k \in 1..Len(versions[c]) : versions[c][k] \in M!Xids
  <2> TAKE c \in Cles
  <2>1. versions[c] \in Seq(M!Xids)
    BY <1>1
  <2> QED BY <2>1, LenProperties, ElementOfSeq
<1>4. \A c \in Cles, x \in M!Xids : xmax[c][x] # 0 => xmax[c][x] \in M!Xids
  <2> TAKE c \in Cles, x \in M!Xids
  <2>1. xmax[c][x] \in 0..MaxXid
    BY <1>1
  <2> QED BY <1>1, <2>1 DEF M!Xids
<1>5. M!Actives \subseteq M!Xids /\ M!Actives \cap M!Commitees = {}
         /\ M!Commitees \subseteq M!Xids
  BY DEF M!Actives, M!Commitees, M!Commitee
<1>6. \A x \in M!Xids, c \in Cles : ecritures[x][c] \in {"rien", "ecrit", "supprime"}
  BY <1>1
<1> QED BY <1>1, <1>2, <1>3, <1>4, <1>5, <1>6, XidsNat

\* A transaction that has not begun to commit is not in the order.
LEMMA OuverteHorsOrdre ==
  ASSUME M!MVCCAssumption, Inv, NEW x \in M!Xids, M!Ouverte(x)
  PROVE  \A i \in 1..Len(ordre) : ordre[i] # x
<1>1. M!Actives \cap M!Commitees = {}
  BY Faits DEF Inv
<1> QED BY <1>1 DEF Inv, OrdreInv, M!Ouverte

\* The invariant holds at first, and every action keeps it.
LEMMA InvInit == M!MVCCAssumption /\ M!Init => Inv
<1> SUFFICES ASSUME M!MVCCAssumption, M!Init PROVE Inv
  OBVIOUS
<1>1. TypeInvMVCC
  BY TypeInitMVCC
<1>2. /\ xid_courant = 0 /\ etat = [x \in M!Xids |-> "LIBRE"] /\ appliquees = {}
      /\ versions = [c \in Cles |-> <<>>] /\ xmax = [c \in Cles |-> [x \in M!Xids |-> 0]]
      /\ ordre = <<>> /\ vac.phase = "repos"
  BY DEF M!Init, M!Repos
<1>3. M!Actives = {} /\ M!Commitees = {}
  BY <1>2 DEF M!Actives, M!Commitees, M!Commitee
<1>4. Len(ordre) = 0 /\ \A c \in Cles : Len(versions[c]) = 0
  BY <1>2
<1>5. 1..0 = {}
  OBVIOUS
<1>6. XidsInv
  BY <1>2, <1>3, XidsNat DEF XidsInv
<1>7. OrdreInv /\ PrefixeInv
  BY <1>2, <1>3, <1>4, <1>5 DEF OrdreInv, PrefixeInv
<1>8. VersionsInv /\ GardeesInv /\ ChaineInv
  BY <1>4, <1>5 DEF VersionsInv, GardeesInv, ChaineInv
<1>9. SuccesseurInv
  BY <1>2, <1>4, <1>5 DEF SuccesseurInv
<1>10. VacuumInv
  BY <1>2 DEF VacuumInv
<1> QED BY <1>1, <1>6, <1>7, <1>8, <1>9, <1>10 DEF Inv

\* A step that changes neither the data nor the order, nor what those in the
\* order have written, keeps what is said of the data.
LEMMA CadreDonnees ==
  ASSUME Inv, UNCHANGED <<versions, xmax, ordre>>,
         \A i \in 1..Len(ordre) : ecritures'[ordre[i]] = ecritures[ordre[i]],
         \A c \in Cles, i \in 1..Len(ordre) :
            Nettoyable(xmax[c][ordre[i]]) => Nettoyable(xmax[c][ordre[i]])'
  PROVE  VersionsInv' /\ SuccesseurInv' /\ ChaineInv' /\ GardeesInv'
<1>1. \A c \in Cles, i \in 1..Len(ordre) :
        (Ecrit(ordre[i], c)' <=> Ecrit(ordre[i], c)) /\ (M!Touche(ordre[i],
            c)' <=> M!Touche(ordre[i], c))
  BY DEF Ecrit, M!Touche
<1>2. VersionsInv'
  BY <1>1 DEF Inv, VersionsInv
<1>3. SuccesseurInv'
  BY <1>1 DEF Inv, SuccesseurInv
<1>4. ChaineInv'
  BY DEF Inv, ChaineInv
<1>5. GardeesInv'
  BY <1>1 DEF Inv, GardeesInv
<1> QED BY <1>2, <1>3, <1>4, <1>5

\* A step that changes none of the variables the invariant is about.
LEMMA InvCadre ==
  ASSUME Inv, TypeInvMVCC', UNCHANGED <<xid_courant, etat, actives, ecritures, appliquees,
         versions,
                                        xmax, vac, ordre>>
  PROVE  Inv'
<1>1. M!Actives' = M!Actives /\ M!Commitees' = M!Commitees /\ \A x : Avant(x)' = Avant(x)
  BY DEF M!Actives, M!Commitees, M!Commitee, Avant
<1>2. XidsInv' /\ OrdreInv' /\ PrefixeInv' /\ VacuumInv'
  BY <1>1 DEF Inv, XidsInv, OrdreInv, PrefixeInv, VacuumInv
<1>3. \A m : Nettoyable(m) <=> Nettoyable(m)'
  BY <1>1 DEF Nettoyable, M!Commitee
<1>4. VersionsInv' /\ SuccesseurInv' /\ ChaineInv' /\ GardeesInv'
  BY <1>3, CadreDonnees
<1> QED BY <1>2, <1>4 DEF Inv

\* What a step says of the transactions that are active before and after it.
Stable ==
    /\ \A x \in M!Xids : x \in M!Actives /\ x \in M!Actives' => Avant(x)' = Avant(x)
    /\ \A i \in 1..Len(ordre) : ecritures'[ordre[i]] = ecritures[ordre[i]]
    /\ ordre' = ordre \/ \E y \in M!Actives : ordre' = Append(ordre, y)

LEMMA InvBegin ==
  ASSUME M!MVCCAssumption, Disjoints, Inv, NEW n \in Niveaux, M!Begin(n)
  PROVE  Inv' /\ Stable
<1>0. TypeInvMVCC' /\ TypeInvMVCC
  BY TypeBegin DEF Inv
<1>x. PICK x \in M!Xids : x = xid_courant + 1
  BY <1>0 DEF M!Begin, TypeInvMVCC, M!Xids
<1>1. /\ x <= MaxXid /\ xid_courant' = x /\ vac.phase = "repos"
      /\ etat' = [etat EXCEPT ![x] = "ACTIVE"]
      /\ actives' = [actives EXCEPT ![x] = M!Actives]
      /\ UNCHANGED <<ecritures, appliquees, versions, xmax, vac, ordre>>
  BY <1>x DEF M!Begin, M!donnees, Disjoints
<1>2. /\ xid_courant \in Nat /\ x \in M!Xids /\ x \in Nat
      /\ etat \in [M!Xids -> {"LIBRE", "ACTIVE", "COMMITTED", "ABORTED"}]
      /\ actives \in [M!Xids -> SUBSET M!Xids]
  BY <1>0, <1>1, <1>x DEF TypeInvMVCC, M!Xids
<1>3. \A y \in M!Xids : etat[y] = "LIBRE" <=> y > xid_courant
  BY DEF Inv, XidsInv
<1>3a. etat[x] = "LIBRE" /\ \A y \in M!Xids : y \in Nat
  BY <1>2, <1>3, <1>x, XidsNat
<1>4. /\ M!Actives' = M!Actives \union {x} /\ M!Commitees' = M!Commitees
      /\ \A y \in M!Xids : y # x => etat'[y] = etat[y] /\ actives'[y] = actives[y]
      /\ actives'[x] = M!Actives /\ etat'[x] = "ACTIVE" /\ x \notin M!Actives
  BY <1>1, <1>2, <1>3a DEF M!Actives, M!Commitees, M!Commitee
<1>5. \A y \in M!Commitees \union M!Actives : y \in M!Xids /\ y \in Nat /\ y < x
  <2> TAKE y \in M!Commitees \union M!Actives
  <2>1. y \in M!Xids /\ etat[y] # "LIBRE"
    BY DEF M!Commitees, M!Actives, M!Commitee
  <2>2. y \in Nat /\ xid_courant \in Nat /\ ~(y > xid_courant)
    BY <1>2, <1>3, <1>3a, <2>1
  <2> QED BY <1>x, <2>1, <2>2
<1>6. Avant(x)' = M!Commitees
  <2>1. M!Commitees \cap M!Actives = {}
    BY DEF M!Commitees, M!Actives, M!Commitee
  <2> QED BY <1>4, <1>5, <2>1 DEF Avant
<1>7. \A y \in M!Xids : y # x => Avant(y)' = Avant(y)
  BY <1>4 DEF Avant
<1>8. XidsInv'
  <2>1. \A y \in M!Xids : etat'[y] = "LIBRE" <=> y > xid_courant'
    <3> TAKE y \in M!Xids
    <3>1. CASE y = x
      BY <1>1, <1>2, <1>4, <3>1
    <3>2. CASE y # x
      <4>1. y > xid_courant <=> y > x
        BY <1>2, <1>3a, <1>x, <3>2
      <4> QED BY <1>1, <1>3, <1>4, <3>2, <4>1
    <3> QED BY <3>1, <3>2
  <2>2. \A y, z \in M!Actives' : z < y => z \in actives'[y]
    <3> SUFFICES ASSUME NEW y \in M!Actives', NEW z \in M!Actives', z < y
                        PROVE z \in actives'[y]
      OBVIOUS
    <3>1. CASE y = x
      <4>1. z # x
        BY <1>2, <3>1
      <4> QED BY <1>4, <3>1, <4>1
    <3>2. CASE y # x
      <4>1. y \in M!Actives /\ y \in M!Xids /\ y \in Nat /\ y < x
        BY <1>4, <1>5, <3>2
      <4>2. z # x
        BY <1>2, <4>1
      <4>3. z \in M!Actives
        BY <1>4, <4>2
      <4> QED BY <1>4, <3>2, <4>1, <4>3 DEF Inv, XidsInv
    <3> QED BY <3>1, <3>2
  <2> QED BY <1>1, <2>1, <2>2 DEF Inv, XidsInv
<1>9. OrdreInv'
  BY <1>1, <1>4 DEF Inv, OrdreInv
<1>10. PrefixeInv'
  <2> SUFFICES ASSUME NEW y \in M!Actives', NEW i \in 1..Len(ordre), NEW j \in 1..Len(ordre),
                      j < i, ordre[i] \in Avant(y)'
               PROVE  ordre[j] \in Avant(y)'
    BY <1>1 DEF PrefixeInv
  <2>1. CASE y = x
    <3>1. j < Len(ordre)
      BY <1>0, Faits
    <3>2. ordre[j] \in M!Commitees
      BY <3>1 DEF Inv, OrdreInv
    <3> QED BY <1>6, <2>1, <3>2
  <2>2. CASE y # x
    <3>1. y \in M!Actives /\ y \in M!Xids
      BY <1>4, <1>5, <2>2
    <3> QED BY <1>7, <2>2, <3>1 DEF Inv, PrefixeInv
  <2> QED BY <2>1, <2>2
<1>11. VacuumInv'
  BY <1>1 DEF VacuumInv
<1>12. ASSUME NEW c \in Cles, NEW i \in 1..Len(ordre), Nettoyable(xmax[c][ordre[i]])
       PROVE  Nettoyable(xmax[c][ordre[i]])'
  <2> DEFINE m == xmax[c][ordre[i]]
  <2>1. m # 0 /\ m \in M!Xids /\ M!Commitee(m) /\ (\A y \in M!Actives : m \in Avant(y))
           /\ m' = m
    BY <1>0, <1>1, <1>12, Faits DEF Nettoyable
  <2> HIDE DEF m
  <2>2. m \in M!Commitees /\ m # x
    BY <1>3a, <2>1 DEF M!Commitees, M!Commitee
  <2>3. M!Commitee(m)'
    BY <1>4, <2>1, <2>2 DEF M!Commitee
  <2>4. \A y \in M!Actives' : m \in Avant(y)'
    BY <1>4, <1>5, <1>6, <1>7, <2>1, <2>2
  <2>5. Nettoyable(m)'
    BY <2>1, <2>3, <2>4 DEF Nettoyable
  <2> QED BY <2>5 DEF m
<1>13. VersionsInv' /\ SuccesseurInv' /\ ChaineInv' /\ GardeesInv'
  BY <1>1, <1>12, CadreDonnees
<1>14. Stable
  BY <1>1, <1>4, <1>7 DEF Stable
<1> QED BY <1>0, <1>8, <1>9, <1>10, <1>11, <1>13, <1>14 DEF Inv

LEMMA InvEcrire ==
  ASSUME M!MVCCAssumption, Inv, NEW x \in M!Xids, NEW c \in Cles, NEW e \in {"ecrit",
         "supprime"},
         M!Ecrire(x, c, e)
  PROVE  Inv' /\ Stable
<1>0. TypeInvMVCC' /\ TypeInvMVCC
  BY TypeEcrire DEF Inv
<1>1. /\ M!Ouverte(x) /\ ecritures' = [ecritures EXCEPT ![x][c] = e]
      /\ UNCHANGED <<xid_courant, etat, actives, appliquees, versions, xmax, vac, ordre>>
  BY DEF M!Ecrire, M!donnees
<1>2. M!Actives' = M!Actives /\ M!Commitees' = M!Commitees /\ \A y : Avant(y)' = Avant(y)
  BY <1>1 DEF M!Actives, M!Commitees, M!Commitee, Avant
<1>3. \A i \in 1..Len(ordre) : ecritures'[ordre[i]] = ecritures[ordre[i]]
  <2>1. ecritures \in [M!Xids -> [Cles -> {"rien", "ecrit", "supprime"}]]
    BY <1>0 DEF TypeInvMVCC
  <2>2. \A y \in M!Xids : y # x => ecritures'[y] = ecritures[y]
    BY <1>1, <2>1
  <2> QED BY <1>0, <1>1, <2>2, Faits, OuverteHorsOrdre
<1>4. XidsInv' /\ OrdreInv' /\ PrefixeInv' /\ VacuumInv'
  BY <1>1, <1>2 DEF Inv, XidsInv, OrdreInv, PrefixeInv, VacuumInv
<1>5. \A m : Nettoyable(m) <=> Nettoyable(m)'
  BY <1>1, <1>2 DEF Nettoyable, M!Commitee
<1>6. VersionsInv' /\ SuccesseurInv' /\ ChaineInv' /\ GardeesInv'
  BY <1>1, <1>3, <1>5, CadreDonnees
<1>7. Stable
  BY <1>1, <1>2, <1>3 DEF Stable
<1> QED BY <1>0, <1>4, <1>6, <1>7 DEF Inv

\* Commits and aborts end a transaction: they only take it from the active
\* ones.
LEMMA InvFin ==
  ASSUME M!MVCCAssumption, Inv, NEW x \in M!Xids, M!Commiter(x) \/ M!Abort(x)
  PROVE  Inv' /\ Stable
<1>0. TypeInvMVCC' /\ TypeInvMVCC
  BY TypeCommiter, TypeAbort DEF Inv
<1>1. /\ x \in M!Actives /\ appliquees' = appliquees \ {x}
      /\ UNCHANGED <<xid_courant, actives, ecritures, versions, xmax, vac, ordre>>
      /\ \/ x \in appliquees /\ etat' = [etat EXCEPT ![x] = "COMMITTED"]
         \/ x \notin appliquees /\ etat' = [etat EXCEPT ![x] = "ABORTED"]
  BY <1>0, Faits DEF M!Commiter, M!Abort, M!Ouverte, M!donnees
<1>2. /\ etat \in [M!Xids -> {"LIBRE", "ACTIVE", "COMMITTED", "ABORTED"}]
      /\ etat[x] = "ACTIVE" /\ appliquees \subseteq M!Actives
  BY <1>0, <1>1 DEF TypeInvMVCC, M!Actives
<1>3. /\ M!Actives' = M!Actives \ {x} /\ M!Commitees \subseteq M!Commitees'
      /\ x \in appliquees => M!Commitees' = M!Commitees \union {x}
      /\ x \notin appliquees => M!Commitees' = M!Commitees
      /\ x \notin M!Commitees
      /\ \A y \in M!Xids : y # x => etat'[y] = etat[y]
  BY <1>1, <1>2 DEF M!Actives, M!Commitees, M!Commitee
<1>4. \A y \in M!Actives' : Avant(y)' = Avant(y)
  <2> TAKE y \in M!Actives'
  <2>1. y \in M!Actives /\ y # x
    BY <1>3
  <2>2. x < y => x \in actives[y]
    BY <1>1, <2>1 DEF Inv, XidsInv
  <2> QED BY <1>1, <1>3, <2>2 DEF Avant
<1>5. XidsInv'
  <2>1. \A y \in M!Xids : etat'[y] = "LIBRE" <=> y > xid_courant
    BY <1>1, <1>2, <1>3 DEF Inv, XidsInv
  <2> QED BY <1>1, <1>3, <2>1 DEF Inv, XidsInv
<1>6. OrdreInv'
  <2>1. M!Commitees' \union appliquees' = M!Commitees \union appliquees
    BY <1>1, <1>3
  <2> QED BY <1>1, <1>3, <2>1 DEF Inv, OrdreInv
<1>7. PrefixeInv' /\ VacuumInv'
  BY <1>1, <1>3, <1>4 DEF Inv, PrefixeInv, VacuumInv
<1>8. ASSUME NEW c \in Cles, NEW i \in 1..Len(ordre), Nettoyable(xmax[c][ordre[i]])
      PROVE  Nettoyable(xmax[c][ordre[i]])'
  <2> DEFINE m == xmax[c][ordre[i]]
  <2>1. m # 0 /\ m \in M!Xids /\ M!Commitee(m) /\ (\A y \in M!Actives : m \in Avant(y))
           /\ m' = m
    BY <1>0, <1>1, <1>8, Faits DEF Nettoyable
  <2> HIDE DEF m
  <2>2. m # x /\ M!Commitee(m)'
    BY <1>2, <1>3, <2>1 DEF M!Commitee
  <2>3. Nettoyable(m)'
    BY <1>3, <1>4, <2>1, <2>2 DEF Nettoyable
  <2> QED BY <2>3 DEF m
<1>9. VersionsInv' /\ SuccesseurInv' /\ ChaineInv' /\ GardeesInv'
  BY <1>1, <1>8, CadreDonnees
<1>10. Stable
  BY <1>1, <1>3, <1>4 DEF Stable
<1> QED BY <1>0, <1>5, <1>6, <1>7, <1>9, <1>10 DEF Inv

\* The three things commit() does to the xmax of a key: it changes no
\* replacement already recorded, it records itself on the version that was
\* live, and it touches nothing else.
LEMMA MarquerCorrect ==
  ASSUME M!MVCCAssumption, Inv, NEW x \in M!Xids, NEW c \in Cles
  PROVE  /\ \A v \in M!Xids : xmax[c][v] # 0 => M!Marquer(x, c)[v] = xmax[c][v]
         /\ M!Touche(x, c) => \A k \in 1..Len(versions[c]) :
                xmax[c][versions[c][k]] = 0 => M!Marquer(x, c)[versions[c][k]] = x
         /\ \A v \in M!Xids : M!Marquer(x, c)[v] # xmax[c][v] =>
              M!Touche(x, c) /\ \E k \in 1..Len(versions[c]) : v = versions[c][k]
<1> DEFINE V == M!Vivantes(c)
           k0 == CHOOSE i \in V : \A j \in V : j <= i
<1>1. /\ Len(versions[c]) \in Nat /\ V \in SUBSET (1..Len(versions[c]))
      /\ \A k \in 1..Len(versions[c]) : versions[c][k] \in M!Xids
      /\ xmax[c] \in [M!Xids -> 0..MaxXid]
  <2>1. xmax \in [Cles -> [M!Xids -> 0..MaxXid]] /\ V \in SUBSET (1..Len(versions[c]))
    BY DEF Inv, TypeInvMVCC, M!Vivantes
  <2> QED BY <2>1, Faits DEF Inv
<1>2. \A k \in 1..Len(versions[c]) : k \in V <=> xmax[c][versions[c][k]] = 0
  BY DEF M!Vivantes
<1>3. M!Marquer(x, c) = IF ~M!Touche(x, c) \/ V = {} THEN xmax[c]
                        ELSE [xmax[c] EXCEPT ![versions[c][k0]] = x]
  BY DEF M!Marquer
<1>4. \A k \in V : k = Len(versions[c])
  BY <1>1, <1>2 DEF Inv, ChaineInv
<1>5. V # {} => k0 \in V
  BY <1>1, DerniereExiste
<1> HIDE DEF V, k0
<1>6. \A k \in V : k = k0
  BY <1>4, <1>5
<1> QED BY <1>1, <1>2, <1>3, <1>5, <1>6

LEMMA InvAppliquer ==
  ASSUME M!MVCCAssumption, Disjoints, Inv, NEW x \in M!Xids, M!Appliquer(x)
  PROVE  Inv' /\ Stable
<1>0. TypeInvMVCC' /\ TypeInvMVCC
  BY TypeAppliquer DEF Inv
<1>1. /\ M!Ouverte(x) /\ x \in M!Actives /\ appliquees = {} /\ appliquees' = {x}
      /\ xmax' = [c \in Cles |-> M!Marquer(x, c)]
      /\ versions' = [c \in Cles |-> IF ecritures[x][c] = "ecrit"
                                     THEN Append(versions[c], x) ELSE versions[c]]
      /\ ordre' = Append(ordre, x)
      /\ UNCHANGED <<xid_courant, etat, actives, ecritures, vac>>
  BY DEF M!Appliquer, M!Ouverte, M!transactions, Disjoints
<1>2. PICK n \in Nat : n = Len(ordre)
  BY <1>0, Faits
<1>3. /\ Len(ordre') = n + 1 /\ ordre'[n + 1] = x
      /\ \A i \in 1..n : ordre'[i] = ordre[i] /\ ordre[i] \in M!Xids /\ ordre[i] # x
  <2>1. ordre \in Seq(M!Xids) /\ \A i \in 1..n : ordre[i] \in M!Xids
    BY <1>0, <1>2, Faits
  <2>2. \A i \in 1..n : ordre[i] # x
    BY <1>1, <1>2, OuverteHorsOrdre
  <2> QED BY <1>1, <1>2, <2>1, <2>2
<1>4. /\ M!Actives' = M!Actives /\ M!Commitees' = M!Commitees /\ \A y : Avant(y)' = Avant(y)
      /\ \A m : Nettoyable(m)' <=> Nettoyable(m)
      /\ \A y, c : (Ecrit(y, c)' <=> Ecrit(y, c)) /\ (M!Touche(y, c)' <=> M!Touche(y, c))
  BY <1>1 DEF M!Actives, M!Commitees, M!Commitee, Avant, Nettoyable, Ecrit, M!Touche
<1>5. \A i : i \in 1..n + 1 <=> i \in 1..n \/ i = n + 1
  OBVIOUS
<1>5a. \A i \in 1..n : i < n + 1 /\ i \in Nat
  OBVIOUS
<1>6. ASSUME NEW c \in Cles
      PROVE  /\ \A v \in M!Xids : xmax[c][v] # 0 => xmax'[c][v] = xmax[c][v]
             /\ M!Touche(x, c) => \A k \in 1..Len(versions[c]) :
                    xmax[c][versions[c][k]] = 0 => xmax'[c][versions[c][k]] = x
             /\ \A v \in M!Xids : xmax'[c][v] # xmax[c][v] =>
                  M!Touche(x, c) /\ \E k \in 1..Len(versions[c]) : v = versions[c][k]
  <2>1. xmax'[c] = M!Marquer(x, c)
    BY <1>1
  <2> QED BY <2>1, MarquerCorrect
<1>7. ASSUME NEW c \in Cles
      PROVE  /\ Len(versions[c]) \in Nat
             /\ \A k \in 1..Len(versions[c]) : versions[c][k] \in M!Xids
             /\ \A k \in 1..Len(versions[c]) : versions'[c][k] = versions[c][k]
             /\ Ecrit(x, c) => /\ Len(versions'[c]) = Len(versions[c]) + 1
                               /\ versions'[c][Len(versions[c]) + 1] = x
             /\ ~Ecrit(x, c) => versions'[c] = versions[c]
  <2>1. versions[c] \in Seq(M!Xids) /\ Len(versions[c]) \in Nat
        /\ \A k \in 1..Len(versions[c]) : versions[c][k] \in M!Xids
    BY <1>0, Faits
  <2>2. versions'[c] = IF Ecrit(x, c) THEN Append(versions[c], x) ELSE versions[c]
    BY <1>1 DEF Ecrit
  <2> QED BY <2>1, <2>2
<1>8. x \notin M!Commitees
  BY <1>0, <1>1, Faits
<1>9. XidsInv'
  BY <1>1, <1>4 DEF Inv, XidsInv
<1>10. OrdreInv'
  <2>1. \A i \in 1..n : ordre[i] \in M!Commitees
    BY <1>1, <1>2 DEF Inv, OrdreInv
  <2>2. \A i \in 1..n + 1 : ordre'[i] \in M!Commitees' \union appliquees'
    BY <1>1, <1>3, <1>4, <1>5, <2>1
  <2>3. \A y \in M!Commitees' \union appliquees' : \E i \in 1..n + 1 : ordre'[i] = y
    <3> TAKE y \in M!Commitees' \union appliquees'
    <3>1. CASE y = x
      BY <1>3, <1>5, <3>1
    <3>2. CASE y \in M!Commitees
      <4>1. PICK i \in 1..n : ordre[i] = y
        BY <1>2, <3>2 DEF Inv, OrdreInv
      <4> QED BY <1>3, <1>5, <4>1
    <3> QED BY <1>1, <1>4, <3>1, <3>2
  <2>4. \A i, j \in 1..n + 1 : ordre'[i] = ordre'[j] => i = j
    <3>1. \A i, j \in 1..n : ordre[i] = ordre[j] => i = j
      BY <1>2 DEF Inv, OrdreInv
    <3> QED BY <1>3, <1>5, <3>1
  <2>5. \A i \in 1..n + 1 : i < n + 1 => ordre'[i] \in M!Commitees'
    BY <1>3, <1>4, <1>5, <2>1
  <2> QED BY <1>3, <2>2, <2>3, <2>4, <2>5 DEF OrdreInv
<1>11. PrefixeInv'
  <2> SUFFICES ASSUME NEW y \in M!Actives, NEW i \in 1..n + 1, NEW j \in 1..n + 1,
                      j < i, ordre'[i] \in Avant(y)
               PROVE  ordre'[j] \in Avant(y)
    BY <1>3, <1>4 DEF PrefixeInv
  <2>1. i \in 1..n
    BY <1>3, <1>5, <1>8 DEF Avant
  <2>2. j \in 1..n
    BY <2>1
  <2> QED BY <1>2, <1>3, <2>1, <2>2 DEF Inv, PrefixeInv
<1>12. VersionsInv'
  <2> SUFFICES ASSUME NEW c \in Cles, NEW k \in 1..Len(versions'[c])
               PROVE  \E i \in 1..n + 1 : ordre'[i] = versions'[c][k] /\ Ecrit(ordre'[i], c)
    BY <1>3, <1>4 DEF VersionsInv
  <2>1. CASE k \in 1..Len(versions[c])
    <3>1. PICK i \in 1..n : ordre[i] = versions[c][k] /\ Ecrit(ordre[i], c)
      BY <1>2, <2>1 DEF Inv, VersionsInv
    <3> QED BY <1>3, <1>5, <1>7, <2>1, <3>1
  <2>2. CASE k \notin 1..Len(versions[c])
    <3>1. Ecrit(x, c) /\ k = Len(versions[c]) + 1
      BY <1>7, <2>2
    <3> QED BY <1>3, <1>5, <1>7, <3>1
  <2> QED BY <2>1, <2>2
<1>13. SuccesseurInv'
  <2> SUFFICES ASSUME NEW c \in Cles
               PROVE  /\ \A y \in M!Xids : (\A i \in 1..n + 1 : ordre'[i] # y)
                          => xmax'[c][y] = 0
                      /\ \A i \in 1..n + 1 : Ecrit(ordre'[i], c) =>
                           \/ /\ xmax'[c][ordre'[i]] = 0
                              /\ \A j \in 1..n + 1 : j > i => ~M!Touche(ordre'[j], c)
                           \/ \E j \in 1..n + 1 :
                                /\ j > i /\ M!Touche(ordre'[j], c)
                                    /\ xmax'[c][ordre'[i]] = ordre'[j]
                                /\ \A l \in 1..n + 1 : i < l /\ l < j => ~M!Touche(ordre'[l], c)
    BY <1>3, <1>4 DEF SuccesseurInv
  <2>1. ASSUME NEW y \in M!Xids, \A i \in 1..n : ordre[i] # y PROVE xmax'[c][y] = 0
    <3>1. xmax[c][y] = 0
      BY <1>2, <2>1 DEF Inv, SuccesseurInv
    <3>2. \A k \in 1..Len(versions[c]) : y # versions[c][k]
      BY <1>2, <2>1 DEF Inv, VersionsInv
    <3> QED BY <1>6, <3>1, <3>2
  <2>2. \A y \in M!Xids : (\A i \in 1..n + 1 : ordre'[i] # y) => xmax'[c][y] = 0
    BY <1>3, <1>5, <2>1
  <2>3. ASSUME NEW i \in 1..n, Ecrit(ordre[i], c), xmax[c][ordre[i]] = 0, M!Touche(x, c)
        PROVE  xmax'[c][ordre[i]] = x
    <3>1. ~Nettoyable(xmax[c][ordre[i]])
      BY <2>3 DEF Nettoyable
    <3>2. PICK k \in 1..Len(versions[c]) : versions[c][k] = ordre[i]
      BY <1>2, <2>3, <3>1 DEF Inv, GardeesInv
    <3> QED BY <1>6, <2>3, <3>2
  <2>4. ASSUME NEW i \in 1..n, Ecrit(ordre[i], c), xmax[c][ordre[i]] = 0, ~M!Touche(x, c)
        PROVE  xmax'[c][ordre[i]] = 0
    BY <1>3, <1>6, <2>4
  <2>5. ASSUME NEW i \in 1..n, Ecrit(ordre[i], c)
        PROVE  \/ /\ xmax[c][ordre[i]] = 0
                  /\ \A j \in 1..n : j > i => ~M!Touche(ordre[j], c)
               \/ \E j \in 1..n :
                    /\ j > i /\ M!Touche(ordre[j], c) /\ xmax[c][ordre[i]] = ordre[j]
                    /\ \A l \in 1..n : i < l /\ l < j => ~M!Touche(ordre[l], c)
    BY <1>2, <2>5 DEF Inv, SuccesseurInv
  <2>6. ASSUME NEW i \in 1..n + 1, Ecrit(ordre'[i], c)
        PROVE  \/ /\ xmax'[c][ordre'[i]] = 0
                  /\ \A j \in 1..n + 1 : j > i => ~M!Touche(ordre'[j], c)
               \/ \E j \in 1..n + 1 :
                    /\ j > i /\ M!Touche(ordre'[j], c) /\ xmax'[c][ordre'[i]] = ordre'[j]
                    /\ \A l \in 1..n + 1 : i < l /\ l < j => ~M!Touche(ordre'[l], c)
    <3>1. CASE i = n + 1
      <4>1. xmax'[c][x] = 0
        BY <1>3, <2>1
      <4>2. \A j \in 1..n + 1 : ~(j > i)
        BY <3>1
      <4> QED BY <1>3, <3>1, <4>1, <4>2
    <3>2. CASE i \in 1..n /\ xmax[c][ordre[i]] = 0 /\ M!Touche(x, c)
      <4>1. Ecrit(ordre[i], c) /\ ordre'[i] = ordre[i]
        BY <1>3, <2>6, <3>2
      <4>2. xmax'[c][ordre'[i]] = ordre'[n + 1] /\ M!Touche(ordre'[n + 1], c)
        BY <1>3, <2>3, <3>2, <4>1
      <4>3. \A j \in 1..n : ordre[j] \in M!Xids
        BY <1>3
      <4>4. \A j \in 1..n : j > i => ~M!Touche(ordre[j], c)
        <5>1. \A j \in 1..n : ordre[j] # 0
          BY <4>3, XidsNat
        <5> QED BY <2>5, <3>2, <4>1, <5>1
      <4>5. \A l \in 1..n + 1 : i < l /\ l < n + 1 => ~M!Touche(ordre'[l], c)
        <5> SUFFICES ASSUME NEW l \in 1..n + 1, i < l, l < n + 1 PROVE ~M!Touche(ordre'[l], c)
          OBVIOUS
        <5>1. l \in 1..n /\ l > i
          OBVIOUS
        <5> QED BY <1>3, <4>4, <5>1
      <4>6. n + 1 \in 1..n + 1 /\ n + 1 > i
        BY <3>2
      <4> QED BY <4>2, <4>5, <4>6
    <3>3. CASE i \in 1..n /\ xmax[c][ordre[i]] = 0 /\ ~M!Touche(x, c)
      <4>1. Ecrit(ordre[i], c) /\ ordre'[i] = ordre[i]
        BY <1>3, <2>6, <3>3
      <4>2. \A j \in 1..n : ordre[j] # 0
        BY <1>3, XidsNat
      <4>3. \A j \in 1..n : j > i => ~M!Touche(ordre[j], c)
        BY <2>5, <3>3, <4>1, <4>2
      <4> QED BY <1>3, <1>5, <2>4, <3>3, <4>1, <4>3
    <3>4. CASE i \in 1..n /\ xmax[c][ordre[i]] # 0
      <4>1. Ecrit(ordre[i], c) /\ ordre'[i] = ordre[i] /\ ordre[i] \in M!Xids
        BY <1>3, <2>6, <3>4
      <4>2. xmax'[c][ordre'[i]] = xmax[c][ordre[i]]
        BY <1>6, <3>4, <4>1
      <4>3. PICK j \in 1..n : /\ j > i /\ M!Touche(ordre[j], c) /\ xmax[c][ordre[i]] = ordre[j]
                              /\ \A l \in 1..n : i < l /\ l < j => ~M!Touche(ordre[l], c)
        BY <2>5, <3>4, <4>1
      <4>4. ordre'[j] = ordre[j] /\ j \in 1..n + 1
        BY <1>3, <1>5
      <4>5. \A l \in 1..n + 1 : i < l /\ l < j => ~M!Touche(ordre'[l], c)
        <5> SUFFICES ASSUME NEW l \in 1..n + 1, i < l, l < j PROVE ~M!Touche(ordre'[l], c)
          OBVIOUS
        <5>1. l \in 1..n
          OBVIOUS
        <5> QED BY <1>3, <4>3, <5>1
      <4> QED BY <4>2, <4>3, <4>4, <4>5
    <3> QED BY <1>5, <3>1, <3>2, <3>3, <3>4
  <2> QED BY <2>2, <2>6
<1>14. GardeesInv'
  <2> SUFFICES ASSUME NEW c \in Cles, NEW i \in 1..n + 1, Ecrit(ordre'[i], c),
                      ~Nettoyable(xmax'[c][ordre'[i]])
               PROVE  \E k \in 1..Len(versions'[c]) : versions'[c][k] = ordre'[i]
    BY <1>3, <1>4 DEF GardeesInv
  <2>1. CASE i = n + 1
    <3>1. Len(versions[c]) + 1 \in 1..Len(versions'[c])
      BY <1>3, <1>7, <2>1
    <3> QED BY <1>3, <1>7, <2>1, <3>1
  <2>2. CASE i \in 1..n
    <3>1. ordre'[i] = ordre[i] /\ ordre[i] \in M!Xids
      BY <1>3, <2>2
    <3>2. ~Nettoyable(xmax[c][ordre[i]])
      <4>1. xmax[c][ordre[i]] # 0 => xmax'[c][ordre[i]] = xmax[c][ordre[i]]
        BY <1>6, <3>1
      <4> QED BY <3>1, <4>1 DEF Nettoyable
    <3>3. PICK k \in 1..Len(versions[c]) : versions[c][k] = ordre[i]
      BY <1>2, <2>2, <3>1, <3>2 DEF Inv, GardeesInv
    <3>4. k \in 1..Len(versions'[c])
      BY <1>7
    <3> QED BY <1>7, <3>1, <3>3, <3>4
  <2> QED BY <1>5, <2>1, <2>2
<1>15. ChaineInv'
  <2> SUFFICES ASSUME NEW c \in Cles, NEW k \in 1..Len(versions'[c]), k < Len(versions'[c])
               PROVE  xmax'[c][versions'[c][k]] # 0
    BY DEF ChaineInv
  <2>1. k \in 1..Len(versions[c]) /\ versions'[c][k] = versions[c][k]
           /\ versions[c][k] \in M!Xids
    BY <1>7
  <2>2. CASE Ecrit(x, c)
    <3>1. M!Touche(x, c) /\ x # 0
      BY <2>2, XidsNat DEF Ecrit, M!Touche
    <3> QED BY <1>6, <2>1, <3>1
  <2>3. CASE ~Ecrit(x, c)
    <3>1. xmax[c][versions[c][k]] # 0
      BY <1>7, <2>1, <2>3 DEF Inv, ChaineInv
    <3> QED BY <1>6, <2>1, <3>1
  <2> QED BY <2>2, <2>3
<1>16. VacuumInv' /\ Stable
  BY <1>1, <1>4 DEF Inv, VacuumInv, Stable
<1> QED BY <1>0, <1>9, <1>10, <1>11, <1>12, <1>13, <1>14, <1>15, <1>16 DEF Inv

LEMMA InvVacuum ==
  ASSUME M!MVCCAssumption, Disjoints, Inv,
         M!VacuumActives \/ M!VacuumHorizon \/ M!VacuumNettoyer
  PROVE  Inv' /\ Stable
<1>0. TypeInvMVCC' /\ TypeInvMVCC
  BY TypeVacuum DEF Inv
<1>1. /\ UNCHANGED <<xid_courant, etat, actives, ecritures, appliquees, xmax, ordre>>
      /\ M!Actives = {}
      /\ M!VacuumNettoyer => vac.phase = "pret"
      /\ ~M!VacuumNettoyer => versions' = versions
  BY DEF M!VacuumActives, M!VacuumHorizon, M!VacuumNettoyer, M!transactions, M!donnees,
         Disjoints, Inv,
         VacuumInv
<1>2. M!Actives' = {} /\ M!Commitees' = M!Commitees
  BY <1>1 DEF M!Actives, M!Commitees, M!Commitee
<1>3. XidsInv' /\ OrdreInv' /\ PrefixeInv' /\ VacuumInv' /\ Stable
  BY <1>1, <1>2 DEF Inv, XidsInv, OrdreInv, PrefixeInv, VacuumInv, Stable
<1>4. (\A m : Nettoyable(m)' <=> Nettoyable(m)) /\ \A m : m # 0 /\ M!Commitee(m)
         => Nettoyable(m)
  BY <1>1, <1>2 DEF Nettoyable, M!Commitee
<1>5. /\ \A y, c : (Ecrit(y, c)' <=> Ecrit(y, c)) /\ (M!Touche(y, c)' <=> M!Touche(y, c))
      /\ SuccesseurInv'
  BY <1>1 DEF Ecrit, M!Touche, Inv, SuccesseurInv
<1>6. CASE ~M!VacuumNettoyer
  BY <1>0, <1>1, <1>3, <1>4, <1>5, <1>6, CadreDonnees DEF Inv
<1>7. CASE M!VacuumNettoyer
  <2> DEFINE K(c) == {v \in M!Xids : ~M!Obsolete(c, v, vac.horizon)}
  <2>1. ASSUME NEW c \in Cles
        PROVE  /\ Len(versions[c]) \in Nat /\ versions'[c] \in Seq(M!Xids)
               /\ \A k \in 1..Len(versions'[c]) : \E i \in 1..Len(versions[c]) :
                    /\ versions'[c][k] = versions[c][i]
                    /\ k < Len(versions'[c]) => i < Len(versions[c])
               /\ \A i \in 1..Len(versions[c]) : versions[c][i] \in K(c) =>
                    \E k \in 1..Len(versions'[c]) : versions'[c][k] = versions[c][i]
    <3>1. versions'[c] = M!Garder(versions[c], K(c)) /\ versions[c] \in Seq(M!Xids)
      BY <1>0, <1>7, Faits DEF M!VacuumNettoyer
    <3>2. Len(versions[c]) \in Nat
      BY <1>0, Faits
    <3> DEFINE s == versions[c]
               g == M!Garder(s, K(c))
    <3>3. EstGardee(M!Xids, s, K(c), g)
      <4> HIDE DEF K
      <4> QED BY <3>1, GarderCorrect
    <3>4. versions'[c] = g
      BY <3>1
    <3> HIDE DEF g, K
    <3> QED BY <3>2, <3>3, <3>4 DEF EstGardee
  <2>2. VersionsInv'
    <3> SUFFICES ASSUME NEW c \in Cles, NEW k \in 1..Len(versions'[c])
                 PROVE  \E i \in 1..Len(ordre) : ordre[i] = versions'[c][k] /\ Ecrit(ordre[i],
                        c)
      BY <1>1, <1>5 DEF VersionsInv
    <3> QED BY <2>1 DEF Inv, VersionsInv
  <2>3. ChaineInv'
    <3> SUFFICES ASSUME NEW c \in Cles, NEW k \in 1..Len(versions'[c]), k < Len(versions'[c])
                 PROVE  xmax[c][versions'[c][k]] # 0
      BY <1>1 DEF ChaineInv
    <3>1. PICK i \in 1..Len(versions[c]) : versions'[c][k] = versions[c][i]
             /\ i < Len(versions[c])
      BY <2>1
    <3> QED BY <3>1 DEF Inv, ChaineInv
  <2>4. GardeesInv'
    <3> SUFFICES ASSUME NEW c \in Cles, NEW i \in 1..Len(ordre), Ecrit(ordre[i], c),
                        ~Nettoyable(xmax[c][ordre[i]])
                 PROVE  \E k \in 1..Len(versions'[c]) : versions'[c][k] = ordre[i]
      BY <1>1, <1>4, <1>5 DEF GardeesInv
    <3>1. PICK k \in 1..Len(versions[c]) : versions[c][k] = ordre[i]
      BY DEF Inv, GardeesInv
    <3>2. versions[c][k] \in M!Xids
      BY <1>0, Faits
    <3>3. versions[c][k] \in K(c)
      BY <1>4, <3>1, <3>2 DEF M!Obsolete
    <3> QED BY <2>1, <3>1, <3>3
  <2> QED BY <1>0, <1>3, <1>5, <2>2, <2>3, <2>4 DEF Inv
<1> QED BY <1>6, <1>7

\* Every step keeps the invariant, and takes nothing from what the
\* transactions that stay active see.
LEMMA InvNext ==
  ASSUME M!MVCCAssumption, Disjoints, Inv, [M!Next]_M!vars
  PROVE  Inv' /\ Stable
<1>0. TypeInvMVCC'
  BY TypeNext DEF Inv
<1>1. ASSUME UNCHANGED <<xid_courant, etat, actives, ecritures, appliquees, versions, xmax, vac,
                         ordre>>
      PROVE  Inv' /\ Stable
  <2>1. \A x : Avant(x)' = Avant(x)
    BY <1>1 DEF Avant, M!Commitees, M!Commitee
  <2> QED BY <1>0, <1>1, <2>1, InvCadre DEF Stable
<1>2. CASE UNCHANGED M!vars
  BY <1>1, <1>2 DEF M!vars, M!transactions, M!donnees
<1>3. CASE M!XmaxRC \/ M!ParcoursRC \/ M!FinRC
  BY <1>1, <1>3 DEF M!XmaxRC, M!ParcoursRC, M!FinRC, M!transactions, M!donnees
<1>4. CASE \E x \in M!Xids, c \in Cles : M!Lire(x, c) \/ M!LireRC(x, c)
  BY <1>1, <1>4 DEF M!Lire, M!LireRC, M!transactions, M!donnees
<1>5. CASE \E n \in Niveaux : M!Begin(n)
  BY <1>5, InvBegin
<1>6. CASE \E x \in M!Xids, c \in Cles : M!Ecrire(x, c, "ecrit") \/ M!Ecrire(x, c, "supprime")
  BY <1>6, InvEcrire
<1>7. CASE \E x \in M!Xids : M!Appliquer(x) \/ M!Commiter(x) \/ M!Abort(x)
  BY <1>7, InvAppliquer, InvFin
<1>8. CASE M!VacuumActives \/ M!VacuumHorizon \/ M!VacuumNettoyer
  BY <1>8, InvVacuum
<1> QED BY <1>2, <1>3, <1>4, <1>5, <1>6, <1>7, <1>8 DEF M!Next

-----------------------------------------------------------------------------
\* The version of c that x sees is the one of its last writer among those
\* that had committed when x began, if it wrote a value.
LEMMA LectureExacte ==
  ASSUME M!MVCCAssumption, Inv, NEW x \in M!Xids, M!Ouverte(x), NEW c \in Cles
  PROVE  M!Lecture(x, c) = M!Dernier(c, Avant(x))
<1>0. TypeInvMVCC
  BY DEF Inv
<1> DEFINE A == Avant(x)
           vus == {k \in 1..Len(versions[c]) : M!Visible(c, versions[c][k], x, actives[x], x)}
           k0 == CHOOSE i \in vus : \A j \in vus : j <= i
           p == {i \in 1..Len(ordre) : ordre[i] \in A /\ M!Touche(ordre[i], c)}
           i0 == CHOOSE i \in p : \A j \in p : j <= i
<1>1. /\ Len(versions[c]) \in Nat /\ Len(ordre) \in Nat
      /\ \A k \in 1..Len(versions[c]) : versions[c][k] \in M!Xids
      /\ \A i \in 1..Len(ordre) : ordre[i] \in M!Xids
  BY <1>0, Faits
<1>2. vus \in SUBSET (1..Len(versions[c])) /\ p \in SUBSET (1..Len(ordre))
  OBVIOUS
<1>3. /\ vus # {} => k0 \in vus
      /\ p # {} => i0 \in p /\ \A j \in p : j <= i0
  BY <1>1, <1>2, DerniereExiste
<1>4. M!Lecture(x, c) = IF vus = {} THEN 0 ELSE versions[c][k0]
  BY DEF M!Lecture
<1>5. M!Dernier(c, A) = IF p = {} \/ ecritures[ordre[i0]][c] = "supprime" THEN 0 ELSE ordre[i0]
  BY DEF M!Dernier
<1>6. \A i \in 1..Len(ordre) : i \in p <=> ordre[i] \in A /\ M!Touche(ordre[i], c)
  OBVIOUS
<1>7. \A k \in 1..Len(versions[c]) : k \in vus <=> M!Visible(c, versions[c][k], x, actives[x],
         x)
  OBVIOUS
<1>8. \A m : m \in A <=> m \in M!Xids /\ M!Commitee(m) /\ m < x /\ m \notin actives[x]
  BY DEF Avant, M!Commitees
<1>9. \A i \in 1..Len(ordre) : ordre[i] # x
  BY OuverteHorsOrdre
<1>10. x \in Nat /\ \A y \in M!Xids : y \in Nat /\ y # 0
  BY XidsNat
<1> HIDE DEF A, vus, k0, p, i0
\* What follows each member of the order that wrote a value.
<1>11. ASSUME NEW i \in 1..Len(ordre), Ecrit(ordre[i], c)
       PROVE  \/ /\ xmax[c][ordre[i]] = 0
                 /\ \A j \in 1..Len(ordre) : j > i => ~M!Touche(ordre[j], c)
              \/ \E j \in 1..Len(ordre) :
                   /\ j > i /\ M!Touche(ordre[j], c) /\ xmax[c][ordre[i]] = ordre[j]
                   /\ \A l \in 1..Len(ordre) : i < l /\ l < j => ~M!Touche(ordre[l], c)
  BY <1>11 DEF Inv, SuccesseurInv
<1>12. ASSUME NEW i \in 1..Len(ordre), Ecrit(ordre[i], c)
       PROVE  M!Visible(c, ordre[i], x, actives[x], x) <=>
                  ordre[i] \in A /\ (xmax[c][ordre[i]] = 0 \/ xmax[c][ordre[i]] \notin A)
  <2>1. ordre[i] # x /\ ordre[i] \in M!Xids /\ ordre[i] \in Nat
    BY <1>1, <1>9, <1>10
  <2>2. PICK m : m = xmax[c][ordre[i]]
    OBVIOUS
  <2>3. m # 0 => m \in M!Xids /\ m \in Nat /\ m # x
    BY <1>1, <1>9, <1>10, <1>11, <1>12, <2>2
  <2>4. ordre[i] \in A <=> ordre[i] <= x /\ ordre[i] \notin actives[x] /\ M!Commitee(ordre[i])
    BY <1>8, <1>10, <2>1
  <2>5. m # 0 => (m \in A <=> ~(m > x \/ m \in actives[x] \/ ~M!Commitee(m)))
    BY <1>8, <1>10, <2>3
  <2> QED BY <2>1, <2>2, <2>3, <2>4, <2>5 DEF M!Visible
\* A version that is seen is the one of the last writer.
<1>13. ASSUME NEW k \in vus
       PROVE  p # {} /\ versions[c][k] = ordre[i0] /\ Ecrit(ordre[i0], c)
  <2>1. k \in 1..Len(versions[c])
    BY <1>2
  <2>2. PICK i \in 1..Len(ordre) : ordre[i] = versions[c][k] /\ Ecrit(ordre[i], c)
    BY <2>1 DEF Inv, VersionsInv
  <2>3. ordre[i] \in A /\ (xmax[c][ordre[i]] = 0 \/ xmax[c][ordre[i]] \notin A)
    BY <1>7, <1>12, <2>1, <2>2
  <2>4. i \in p
    BY <1>6, <2>2, <2>3 DEF Ecrit, M!Touche
  <2>5. i0 \in 1..Len(ordre) /\ i <= i0 /\ ordre[i0] \in A /\ M!Touche(ordre[i0], c) /\ i0 \in p
    BY <1>2, <1>3, <1>6, <2>4
  <2>6. CASE i0 > i
    <3>1. PICK j \in 1..Len(ordre) :
            /\ j > i /\ M!Touche(ordre[j], c) /\ xmax[c][ordre[i]] = ordre[j]
            /\ \A l \in 1..Len(ordre) : i < l /\ l < j => ~M!Touche(ordre[l], c)
      BY <1>11, <2>2, <2>5, <2>6
    <3>2. j <= i0
      BY <1>1, <2>5, <2>6, <3>1
    <3>3. ordre[j] \in A
      <4>1. CASE j = i0
        BY <2>5, <4>1
      <4>2. CASE j < i0
        <5>1. x \in M!Actives
          BY DEF M!Ouverte
        <5> QED BY <2>5, <4>2, <5>1 DEF Inv, PrefixeInv, A
      <4> QED BY <1>1, <2>5, <3>2, <4>1, <4>2
    <3>4. ordre[j] # 0
      BY <1>1, <1>10
    <3> QED BY <2>3, <3>1, <3>3, <3>4
  <2>7. CASE i0 = i
    BY <2>2, <2>4, <2>7
  <2> QED BY <1>1, <2>5, <2>6, <2>7
\* If the last writer wrote a value, its version is there and is seen.
<1>14. ASSUME p # {}, ecritures[ordre[i0]][c] # "supprime"
       PROVE  vus # {}
  <2>1. /\ i0 \in 1..Len(ordre) /\ ordre[i0] \in A /\ M!Touche(ordre[i0], c) /\ i0 \in p
        /\ \A j \in p : j <= i0
    BY <1>2, <1>3, <1>6, <1>14
  <2>2. Ecrit(ordre[i0], c)
    <3>1. ecritures[ordre[i0]][c] \in {"rien", "ecrit", "supprime"}
      BY <1>0, <1>1, <2>1, Faits
    <3> QED BY <1>14, <2>1, <3>1 DEF M!Touche, Ecrit
  <2>3. xmax[c][ordre[i0]] = 0 \/ xmax[c][ordre[i0]] \notin A
    <3> SUFFICES ASSUME xmax[c][ordre[i0]] # 0, xmax[c][ordre[i0]] \in A PROVE FALSE
      OBVIOUS
    <3>1. PICK j \in 1..Len(ordre) : j > i0 /\ M!Touche(ordre[j], c)
             /\ xmax[c][ordre[i0]] = ordre[j]
      BY <1>11, <2>1, <2>2
    <3>2. j \in p
      BY <1>6, <3>1
    <3> QED BY <1>1, <2>1, <3>1, <3>2
  <2>4. ~Nettoyable(xmax[c][ordre[i0]])
    BY <2>3 DEF Nettoyable, M!Ouverte, A
  <2>5. PICK k \in 1..Len(versions[c]) : versions[c][k] = ordre[i0]
    BY <2>1, <2>2, <2>4 DEF Inv, GardeesInv
  <2> QED BY <1>7, <1>12, <2>1, <2>2, <2>3, <2>5
<1>15. CASE vus = {}
  BY <1>4, <1>5, <1>14, <1>15 DEF A
<1>16. CASE vus # {}
  <2>1. p # {} /\ versions[c][k0] = ordre[i0] /\ Ecrit(ordre[i0], c)
    BY <1>3, <1>13, <1>16
  <2> QED BY <1>4, <1>5, <1>16, <2>1 DEF Ecrit, A
<1> QED BY <1>15, <1>16

\* The inductive invariant holds always when commits do not overlap and vacuum() runs
\* alone.
THEOREM InvCorrect == ASSUME M!MVCCAssumption, Disjoints PROVE M!Spec => []Inv
<1>1. M!MVCCAssumption /\ Disjoints
  OBVIOUS
<1>2. M!Init => Inv
  BY <1>1, InvInit
<1>3. Inv /\ [M!Next]_M!vars => Inv'
  BY <1>1, InvNext
<1> QED BY <1>2, <1>3, PTL DEF M!Spec

\* A REPEATABLE READ transaction reads, of every key, the last value that was committed
\* when it began.
THEOREM SnapshotCorrectVrai ==
  ASSUME M!MVCCAssumption, Disjoints PROVE M!Spec => []M!SnapshotCorrect
<1>1. Inv => M!SnapshotCorrect
  BY LectureExacte DEF M!SnapshotCorrect, Avant
<1> QED BY <1>1, InvCorrect, PTL

\* A key has one live version at most, and what ended the others has committed.
THEOREM ChaineVersionsVrai ==
  ASSUME M!MVCCAssumption, Disjoints PROVE M!Spec => []M!ChaineVersions
<1>1. Inv => M!ChaineVersions
  <2> SUFFICES ASSUME Inv, NEW c \in Cles, NEW k \in 1..Len(versions[c])
               PROVE  /\ k < Len(versions[c]) => xmax[c][versions[c][k]] # 0
                      /\ xmax[c][versions[c][k]] # 0 =>
                           \/ xmax[c][versions[c][k]] \in appliquees
                           \/ M!Commitee(xmax[c][versions[c][k]])
    BY DEF M!ChaineVersions
  <2>1. k < Len(versions[c]) => xmax[c][versions[c][k]] # 0
    BY DEF Inv, ChaineInv
  <2>2. PICK i \in 1..Len(ordre) : ordre[i] = versions[c][k] /\ Ecrit(ordre[i], c)
    BY DEF Inv, VersionsInv
  <2>3. CASE xmax[c][ordre[i]] # 0
    <3>1. PICK j \in 1..Len(ordre) : xmax[c][ordre[i]] = ordre[j]
      BY <2>2, <2>3 DEF Inv, SuccesseurInv
    <3>2. ordre[j] \in M!Commitees \union appliquees
      BY DEF Inv, OrdreInv
    <3> QED BY <2>1, <2>2, <3>1, <3>2 DEF M!Commitees
  <2> QED BY <2>1, <2>2, <2>3
<1> QED BY <1>1, InvCorrect, PTL

\* What a transaction reads is what its snapshot says.
LecturesExactes == \A x \in M!Xids, c \in Cles : M!Ouverte(x) => M!Lecture(x,
    c) = M!Dernier(c, Avant(x))

\* The last writer of a key, for a set of transactions that those who apply
\* their writes now are not in, stays the same.
LEMMA DernierStable ==
  ASSUME M!MVCCAssumption, Inv, NEW x \in M!Actives, NEW c \in Cles, Stable, x \in M!Actives'
  PROVE  M!Dernier(c, Avant(x))' = M!Dernier(c, Avant(x))
<1>0. /\ ordre \in Seq(M!Xids) /\ Len(ordre) \in Nat /\ M!Actives \subseteq M!Xids
      /\ M!Actives \cap M!Commitees = {}
  BY Faits DEF Inv
<1>1. Avant(x)' = Avant(x)
  BY <1>0 DEF Stable
<1>2. PICK A : A = Avant(x)
  OBVIOUS
<1>3. A' = A /\ Avant(x)' = A /\ A \cap M!Actives = {}
  BY <1>0, <1>1, <1>2 DEF Avant
<1>4. \A i \in 1..Len(ordre) : ordre'[i] = ordre[i]
         /\ ecritures'[ordre[i]] = ecritures[ordre[i]]
  BY <1>0 DEF Stable
<1> DEFINE p == {i \in 1..Len(ordre) : ordre[i] \in A /\ M!Touche(ordre[i], c)}
           q == {i \in 1..Len(ordre') : ordre'[i] \in A /\ ecritures'[ordre'[i]][c] # "rien"}
           i0 == CHOOSE i \in p : \A j \in p : j <= i
           j0 == CHOOSE i \in q : \A j \in q : j <= i
<1>5. q = p
  <2>1. \A i \in 1..Len(ordre) : i \in q <=> i \in p
    <3>1. \A i \in 1..Len(ordre) : i \in 1..Len(ordre')
      BY <1>0 DEF Stable
    <3> QED BY <1>4, <3>1 DEF M!Touche
  <2>2. \A i \in q : i \in 1..Len(ordre)
    <3> SUFFICES ASSUME NEW i \in 1..Len(ordre'), ordre'[i] \in A PROVE i \in 1..Len(ordre)
      OBVIOUS
    <3>1. CASE ordre' = ordre
      BY <3>1
    <3>2. ASSUME NEW y \in M!Actives, ordre' = Append(ordre, y) PROVE i \in 1..Len(ordre)
      <4>1. /\ Len(ordre') = Len(ordre) + 1 /\ ordre'[Len(ordre) + 1] = y
        BY <1>0, <3>2
      <4>2. y \notin A
        BY <1>3
      <4> QED BY <1>0, <4>1, <4>2
    <3> QED BY <3>1, <3>2 DEF Stable
  <2> QED BY <2>1, <2>2
<1>6. M!Dernier(c, A) = IF p = {} \/ ecritures[ordre[i0]][c] = "supprime" THEN 0 ELSE ordre[i0]
  BY DEF M!Dernier
<1>7. M!Dernier(c,
         A)' = IF q = {} \/ ecritures'[ordre'[j0]][c] = "supprime" THEN 0 ELSE ordre'[j0]
  BY <1>3 DEF M!Dernier, M!Touche
<1>8. M!Dernier(c, Avant(x))' = M!Dernier(c, A)'
  BY <1>3 DEF M!Dernier
<1>9. j0 = i0
  BY <1>5
<1>10. p # {} => i0 \in 1..Len(ordre)
  BY <1>0, DerniereExiste
<1> HIDE DEF p, q, i0, j0
<1> QED BY <1>2, <1>4, <1>5, <1>6, <1>7, <1>8, <1>9, <1>10

\* No step changes what an open transaction reads.
THEOREM SnapshotFigeVrai ==
  ASSUME M!MVCCAssumption, Disjoints PROVE M!Spec => M!SnapshotFige
<1>0. M!MVCCAssumption /\ Disjoints
  OBVIOUS
<1>1. Inv => LecturesExactes
  BY <1>0, LectureExacte DEF LecturesExactes
<1>2. Inv' => LecturesExactes'
  BY <1>1, PTL
<1>3. ASSUME Inv, Inv', [M!Next]_M!vars
      PROVE  [\A x \in M!Xids, c \in Cles :
                /\ x \in M!Actives /\ x \in M!Actives'
                /\ x \notin appliquees' /\ isolation[x] # "READ_COMMITTED"
                => M!Lecture(x, c)' = M!Lecture(x, c)]_M!vars
  <2> SUFFICES ASSUME NEW x \in M!Xids, NEW c \in Cles,
                      x \in M!Actives, x \in M!Actives', x \notin appliquees'
               PROVE  M!Lecture(x, c)' = M!Lecture(x, c)
    OBVIOUS
  <2>1. x \notin appliquees
    <3> SUFFICES ASSUME x \in appliquees PROVE FALSE
      OBVIOUS
    <3>1. CASE appliquees' = appliquees
      BY <3>1
    <3>2. CASE \E y \in M!Xids : M!Appliquer(y)
      BY <3>2 DEF M!Appliquer
    <3>3. CASE \E y \in M!Xids : M!Commiter(y)
      <4>1. PICK y \in M!Xids : M!Commiter(y)
        BY <3>3
      <4>2. y = x /\ etat' = [etat EXCEPT ![y] = "COMMITTED"]
        BY <4>1 DEF M!Commiter
      <4>3. DOMAIN etat = M!Xids
        BY <1>3 DEF Inv, TypeInvMVCC
      <4> QED BY <4>2, <4>3 DEF M!Actives
    <3> QED BY <1>3, <3>1, <3>2, <3>3 DEF M!Next, M!Begin, M!Ecrire, M!Lire, M!LireRC,
           M!XmaxRC, M!ParcoursRC,
         M!FinRC, M!Abort, M!VacuumActives, M!VacuumHorizon, M!VacuumNettoyer, M!vars
  <2>2. M!Lecture(x, c) = M!Dernier(c, Avant(x))
    BY <1>1, <1>3, <2>1 DEF LecturesExactes, M!Ouverte
  <2>3. M!Lecture(x, c)' = M!Dernier(c, Avant(x))'
    BY <1>2, <1>3 DEF LecturesExactes, M!Ouverte
  <2>4. Stable
    BY <1>0, <1>3, InvNext
  <2> QED BY <1>0, <1>3, <2>2, <2>3, <2>4, DernierStable
<1> QED BY <1>0, <1>3, InvCorrect, PTL DEF M!Spec, M!SnapshotFige

-----------------------------------------------------------------------------
\* LSM.

\* The content x has no tombstone.
Vivant(x) == \A c \in Cles : x[c] # Rien => x[c].valeur # Absent

\* ... which no content has when nothing is deleted.
SansTombe(x) == "suppression" \notin PermisLSM => Vivant(x)

\* The index of the youngest table that has the key.
PlusJeune(s, c, i) ==
    /\ i \in 1..Len(s) /\ s[i].contenu[c] # Rien
    /\ \A j \in 1..Len(s) : s[j].contenu[c] # Rien => j <= i

\* The tables s are the files of level n in d, in the order of their names; an empty table
\* has no file.
Conforme(s, d, n) ==
    /\ \A i \in 1..Len(s) : s[i].fichier[1] = n
    /\ \A i \in 1..Len(s) : s[i].contenu # Ls!Vide =>
          s[i].fichier \in DOMAIN d /\ d[s[i].fichier] = s[i].contenu
    /\ \A f \in DOMAIN d : f[1] = n =>
          \E i \in 1..Len(s) : s[i].fichier = f /\ s[i].contenu = d[f]
    /\ \A i, j \in 1..Len(s) : i < j => s[i].fichier[2] < s[j].fichier[2]

\* Files: their names, and what can be in them.
Fichier(x) == x \in Ls!Contenus /\ x # Ls!Vide /\ SansTombe(x)
Noms(d) == DOMAIN d \subseteq {0, 1} \X (1..MaxSeq)
FichiersBons(d) == Noms(d) /\ \A f \in DOMAIN d : d[f] = Illisible \/ Fichier(d[f])

\* A table with a number up to n.
Table(t, n) == t \in Ls!Tables /\ t.fichier[2] \in 1..n /\ SansTombe(t.contenu)

\* The levels a and b, numbered up to n, are what the files d say.
Coherent(a, b, n, d) ==
    /\ n \in 0..MaxSeq
    /\ a \in Seq(Ls!Tables) /\ \A i \in 1..Len(a) : Table(a[i], n)
    /\ b \in Seq(Ls!Tables) /\ \A i \in 1..Len(b) : Table(b[i], n)
    /\ Noms(d) /\ \A f \in DOMAIN d : Fichier(d[f])
    /\ Conforme(a, d, 0) /\ Conforme(b, d, 1)

\* The inductive invariant.
InvLSM ==
    /\ Ls!TypeOK
    /\ SansTombe(memtable)
    /\ FichiersBons(disque)
    /\ en_marche => Coherent(l0, l1, IF repris THEN MaxSeq ELSE seq, disque)
    /\ ~en_marche => /\ memtable = Ls!Vide /\ l0 = <<>> /\ l1 = <<>> /\ seq = 0
                     /\ repris = FALSE

-----------------------------------------------------------------------------
-----------------------------------------------------------------------------
\* What Trouve finds.
LEMMA TrouveJeune ==
  ASSUME NEW s \in Seq(Ls!Tables), NEW c \in Cles, NEW i, PlusJeune(s, c, i)
  PROVE  Ls!Trouve(s, c) = s[i].contenu[c]
<1> DEFINE r == {j \in 1..Len(s) : s[j].contenu[c] # Rien}
           g == CHOOSE j \in r : \A k \in r : k <= j
<1>1. i \in r /\ \A k \in r : k <= i
  BY DEF PlusJeune
<1>2. r \subseteq Nat
  OBVIOUS
<1>3. Ls!Trouve(s, c) = s[g].contenu[c]
  BY <1>1 DEF Ls!Trouve
<1> HIDE DEF r
<1>4. g \in r /\ \A k \in r : k <= g
  BY <1>1
<1> HIDE DEF g
<1>5. g = i
  BY <1>1, <1>2, <1>4
<1> QED
  BY <1>3, <1>5

\* ... and when there is nothing to find.
LEMMA TrouveRien ==
  ASSUME NEW s, NEW c, \A i \in 1..Len(s) : s[i].contenu[c] = Rien
  PROVE  Ls!Trouve(s, c) = Rien
BY DEF Ls!Trouve

\* A key that some table has is in a youngest one.
LEMMA JeuneExiste ==
  ASSUME NEW s \in Seq(Ls!Tables), NEW c,
         ~ \A i \in 1..Len(s) : s[i].contenu[c] = Rien
  PROVE  \E i : PlusJeune(s, c, i)
<1> DEFINE r == {j \in 1..Len(s) : s[j].contenu[c] # Rien}
<1>1. /\ r \subseteq Nat /\ r # {} /\ Len(s) \in Nat
      /\ \A x \in r : x <= Len(s)
  OBVIOUS
<1>2. PICK i \in r : \A j \in r : j <= i
  <2> HIDE DEF r
  <2> QED
    BY <1>1, MaximumExiste
<1> QED
  BY <1>2 DEF PlusJeune

\* What the files say: the most recent one that has the key.
LEMMA DisqueVaut ==
  ASSUME NEW d, Noms(d), NEW c \in Cles,
         NEW f \in DOMAIN d, d[f] # Illisible, d[f][c] # Rien,
         \A g \in DOMAIN d : d[g] # Illisible /\ d[g][c] # Rien =>
            f[1] < g[1] \/ (f[1] = g[1] /\ f[2] >= g[2])
  PROVE  Ls!LireDisque(d)[c] = d[f][c].valeur
<1> DEFINE avec == {x \in DOMAIN d : d[x] # Illisible /\ d[x][c] # Rien}
           recent(x, y) == x[1] < y[1] \/ (x[1] = y[1] /\ x[2] >= y[2])
           h == CHOOSE x \in avec : \A g \in avec : recent(x, g)
<1>1. f \in avec /\ \A g \in avec : recent(f, g)
  OBVIOUS
<1>2. h \in avec /\ \A g \in avec : recent(h, g)
  <2> HIDE DEF avec, recent
  <2> QED
    BY <1>1
<1>3. Ls!LireDisque(d)[c] = d[h][c].valeur
  <2>1. avec # {}
    BY <1>1
  <2> QED
    BY <2>1 DEF Ls!LireDisque
<1>4. avec \subseteq {0, 1} \X (1..MaxSeq)
  BY DEF Noms
<1>5. recent(f, h) /\ recent(h, f) /\ f \in {0, 1} \X (1..MaxSeq) /\ h \in {0, 1} \X (1..MaxSeq)
  BY <1>1, <1>2, <1>4
<1>6. f = h
  <2> HIDE DEF h, avec
  <2>1. f[1] = h[1] /\ f[2] = h[2]
    BY <1>5
  <2> QED
    BY <1>5, <2>1
<1> QED
  BY <1>3, <1>6

\* ... and when no file has it.
LEMMA DisqueAbsent ==
  ASSUME NEW d, NEW c \in Cles,
         \A g \in DOMAIN d : d[g] # Illisible => d[g][c] = Rien
  PROVE  Ls!LireDisque(d)[c] = Absent
<1>1. {x \in DOMAIN d : d[x] # Illisible /\ d[x][c] # Rien} = {}
  OBVIOUS
<1> QED
  BY <1>1 DEF Ls!LireDisque

\* The two readings are functions on the keys: they are compared key by key.
LEMMA EnFonction ==
  ASSUME NEW d, NEW m, NEW a, NEW b,
         \A c \in Cles : Ls!LireDisque(d)[c] = Ls!Lire(m, a, b)[c]
  PROVE  Ls!LireDisque(d) = Ls!Lire(m, a, b)
<1>1. Ls!LireDisque(d) = [c \in Cles |-> Ls!LireDisque(d)[c]]
  BY DEF Ls!LireDisque
<1>2. Ls!Lire(m, a, b) = [c \in Cles |-> Ls!Lire(m, a, b)[c]]
  BY DEF Ls!Lire
<1> QED
  BY <1>1, <1>2, Zenon

-----------------------------------------------------------------------------
\* A restart reads what the levels say.
LEMMA CoherentLit ==
  ASSUME Ls!LSMAssumption, NEW a, NEW b, NEW n, NEW d, Coherent(a, b, n, d)
  PROVE  Ls!LireDisque(d) = Ls!Lire(Ls!Vide, a, b)
<1>0. /\ a \in Seq(Ls!Tables) /\ b \in Seq(Ls!Tables) /\ Noms(d)
      /\ \A f \in DOMAIN d : d[f] \in Ls!Contenus
      /\ Illisible \notin Ls!Contenus
      /\ Conforme(a, d, 0) /\ Conforme(b, d, 1)
  BY DEF Coherent, Ls!LSMAssumption, Fichier
<1> SUFFICES ASSUME NEW c \in Cles
             PROVE  Ls!LireDisque(d)[c] = Ls!Lire(Ls!Vide, a, b)[c]
  BY EnFonction
<1>1. Ls!Lire(Ls!Vide, a, b)[c] = Ls!Valeur(Ls!LireNiveaux(a, b, c)) /\ Ls!Vide[c] = Rien
  BY DEF Ls!Lire, Ls!Vide
<1>2. \A f \in DOMAIN d : f[1] \in {0, 1} /\ f[2] \in Nat /\ d[f] # Illisible
  BY <1>0 DEF Noms
<1>3. ASSUME NEW i, PlusJeune(a, c, i)
      PROVE  Ls!LireDisque(d)[c] = Ls!Valeur(Ls!Trouve(a, c)) /\ Ls!Trouve(a, c) # Rien
  <2>1. Ls!Trouve(a, c) = a[i].contenu[c] /\ a[i].contenu[c] # Rien
    BY <1>0, <1>3, TrouveJeune DEF PlusJeune
  <2>2. a[i].contenu # Ls!Vide
    BY <2>1 DEF Ls!Vide
  <2>3. PICK f \in DOMAIN d : f = a[i].fichier /\ f[1] = 0 /\ d[f] = a[i].contenu
    BY <1>0, <1>3, <2>2 DEF Conforme, PlusJeune
  <2>4. ASSUME NEW g \in DOMAIN d, d[g][c] # Rien
        PROVE  f[1] < g[1] \/ (f[1] = g[1] /\ f[2] >= g[2])
    <3>1. CASE g[1] = 1
      BY <2>3, <3>1
    <3>2. CASE g[1] = 0
      <4>1. PICK j \in 1..Len(a) : a[j].fichier = g /\ a[j].contenu = d[g]
        BY <1>0, <3>2 DEF Conforme
      <4>2. j <= i /\ i \in 1..Len(a)
        BY <1>3, <2>4, <4>1 DEF PlusJeune
      <4>3. CASE j = i
        BY <1>2, <2>3, <3>2, <4>1, <4>3
      <4>4. CASE j < i
        <5>1. a[j].fichier[2] < a[i].fichier[2]
          BY <1>0, <4>2, <4>4 DEF Conforme
        <5> QED
          BY <1>2, <2>3, <3>2, <4>1, <5>1
      <4> QED
        BY <4>2, <4>3, <4>4
    <3> QED
      BY <1>2, <3>1, <3>2
  <2>5. Ls!LireDisque(d)[c] = d[f][c].valeur
    BY <1>0, <1>2, <2>1, <2>3, <2>4, DisqueVaut
  <2> QED
    BY <2>1, <2>3, <2>5 DEF Ls!Valeur
<1>4. ASSUME NEW i, PlusJeune(b, c, i), \A j \in 1..Len(a) : a[j].contenu[c] = Rien
      PROVE  Ls!LireDisque(d)[c] = Ls!Valeur(Ls!Trouve(b, c)) /\ Ls!Trouve(b, c) # Rien
  <2>1. Ls!Trouve(b, c) = b[i].contenu[c] /\ b[i].contenu[c] # Rien
    BY <1>0, <1>4, TrouveJeune DEF PlusJeune
  <2>2. b[i].contenu # Ls!Vide
    BY <2>1 DEF Ls!Vide
  <2>3. PICK f \in DOMAIN d : f = b[i].fichier /\ f[1] = 1 /\ d[f] = b[i].contenu
    BY <1>0, <1>4, <2>2 DEF Conforme, PlusJeune
  <2>4. ASSUME NEW g \in DOMAIN d, d[g][c] # Rien
        PROVE  f[1] < g[1] \/ (f[1] = g[1] /\ f[2] >= g[2])
    <3>1. g[1] = 1
      <4>1. ASSUME g[1] = 0
            PROVE  FALSE
        <5>1. PICK j \in 1..Len(a) : a[j].contenu = d[g]
          BY <1>0, <4>1 DEF Conforme
        <5> QED
          BY <1>4, <2>4, <5>1
      <4> QED
        BY <1>2, <4>1
    <3>2. PICK j \in 1..Len(b) : b[j].fichier = g /\ b[j].contenu = d[g]
      BY <1>0, <3>1 DEF Conforme
    <3>3. j <= i /\ i \in 1..Len(b)
      BY <1>4, <2>4, <3>2 DEF PlusJeune
    <3>4. CASE j = i
      BY <1>2, <2>3, <3>1, <3>2, <3>4
    <3>5. CASE j < i
      <4>1. b[j].fichier[2] < b[i].fichier[2]
        BY <1>0, <3>3, <3>5 DEF Conforme
      <4> QED
        BY <1>2, <2>3, <3>1, <3>2, <4>1
    <3> QED
      BY <3>3, <3>4, <3>5
  <2>5. Ls!LireDisque(d)[c] = d[f][c].valeur
    BY <1>0, <1>2, <2>1, <2>3, <2>4, DisqueVaut
  <2> QED
    BY <2>1, <2>3, <2>5 DEF Ls!Valeur
<1>5. ASSUME \A j \in 1..Len(a) : a[j].contenu[c] = Rien,
             \A j \in 1..Len(b) : b[j].contenu[c] = Rien
      PROVE  Ls!LireDisque(d)[c] = Absent /\ Ls!Trouve(a, c) = Rien /\ Ls!Trouve(b, c) = Rien
  <2>1. \A g \in DOMAIN d : d[g][c] = Rien
    BY <1>0, <1>2, <1>5 DEF Conforme
  <2> QED
    BY <1>5, <2>1, DisqueAbsent, TrouveRien
<1>6. CASE \E i : PlusJeune(a, c, i)
  BY <1>1, <1>3, <1>6 DEF Ls!LireNiveaux
<1>7. ASSUME \A j \in 1..Len(a) : a[j].contenu[c] = Rien
      PROVE  Ls!LireDisque(d)[c] = Ls!Valeur(Ls!LireNiveaux(a, b, c))
  <2>1. Ls!Trouve(a, c) = Rien
    BY <1>7, TrouveRien
  <2>2. CASE \E i : PlusJeune(b, c, i)
    BY <1>4, <1>7, <2>1, <2>2 DEF Ls!LireNiveaux
  <2>3. CASE \A j \in 1..Len(b) : b[j].contenu[c] = Rien
    BY <1>5, <1>7, <2>1, <2>3 DEF Ls!LireNiveaux, Ls!Valeur
  <2> QED
    BY <1>0, <2>2, <2>3, JeuneExiste
<1> QED
  BY <1>0, <1>1, <1>6, <1>7, JeuneExiste

\* A table more, and its file: what is read is what was read, and that table before it.
LEMMA CoherentAjoute ==
  ASSUME Ls!LSMAssumption, NEW m, m \in Ls!Contenus, SansTombe(m),
         Coherent(l0, l1, seq, disque), seq < MaxSeq
  PROVE  /\ Coherent(Append(l0, Ls!TableDe(m)), l1, seq + 1, Ls!Ecrit(disque, Ls!TableDe(m)))
         /\ Ls!Lire(Ls!Vide, Append(l0, Ls!TableDe(m)), l1) = Ls!Lire(m, l0, l1)
         /\ <<0, seq + 1>> \notin DOMAIN disque
         /\ \A f \in DOMAIN disque : /\ f \in DOMAIN Ls!Ecrit(disque, Ls!TableDe(m))
                                     /\ Ls!Ecrit(disque, Ls!TableDe(m))[f] = disque[f]
<1> DEFINE t == Ls!TableDe(m)
           a == Append(l0, t)
           d == Ls!Ecrit(disque, t)
<1>0. /\ seq \in Nat /\ MaxSeq \in Nat /\ seq + 1 \in 1..MaxSeq
      /\ l0 \in Seq(Ls!Tables) /\ l1 \in Seq(Ls!Tables)
      /\ \A i \in 1..Len(l0) : Table(l0[i], seq)
      /\ \A i \in 1..Len(l1) : Table(l1[i], seq)
      /\ Noms(disque) /\ \A f \in DOMAIN disque : Fichier(disque[f])
      /\ Conforme(l0, disque, 0) /\ Conforme(l1, disque, 1)
  BY DEF Coherent, Ls!LSMAssumption
<1>1. /\ t.fichier = <<0, seq + 1>> /\ t.contenu = m
      /\ t \in Ls!Tables /\ t.fichier[1] = 0 /\ t.fichier[2] = seq + 1
  BY <1>0 DEF Ls!TableDe, Ls!Tables
<1> HIDE DEF t
<1>2. /\ a \in Seq(Ls!Tables) /\ Len(a) = Len(l0) + 1 /\ Len(l0) \in Nat
      /\ \A i \in 1..Len(l0) : a[i] = l0[i]
      /\ a[Len(l0) + 1] = t
      /\ \A i \in 1..Len(a) : i \in 1..Len(l0) \/ i = Len(l0) + 1
  BY <1>0, <1>1
<1> HIDE DEF a
<1>3. /\ \A i \in 1..Len(a) : Table(a[i], seq + 1)
      /\ \A i \in 1..Len(l1) : Table(l1[i], seq + 1)
  <2>1. \A x : Table(x, seq) => Table(x, seq + 1)
    BY <1>0 DEF Table
  <2>2. Table(t, seq + 1)
    BY <1>0, <1>1 DEF Table
  <2> QED
    BY <1>0, <1>2, <2>1, <2>2
<1>4. <<0, seq + 1>> \notin DOMAIN disque
  <2>1. SUFFICES ASSUME <<0, seq + 1>> \in DOMAIN disque
                 PROVE  FALSE
    OBVIOUS
  <2>2. PICK i \in 1..Len(l0) : l0[i].fichier = <<0, seq + 1>>
    BY <1>0, <2>1 DEF Conforme
  <2>3. l0[i].fichier[2] \in 1..seq
    BY <1>0 DEF Table
  <2> QED
    BY <1>0, <2>2, <2>3
<1>5. /\ DOMAIN d = (IF m = Ls!Vide THEN DOMAIN disque ELSE DOMAIN disque \union {<<0,
          seq + 1>>})
      /\ \A f \in DOMAIN disque : d[f] = disque[f]
      /\ m # Ls!Vide => d[<<0, seq + 1>>] = m
  BY <1>1, <1>4 DEF Ls!Ecrit, Ls!Poser
<1> HIDE DEF d
<1>6. Noms(d) /\ \A f \in DOMAIN d : Fichier(d[f])
  <2>1. <<0, seq + 1>> \in {0, 1} \X (1..MaxSeq)
    BY <1>0
  <2>2. m # Ls!Vide => Fichier(m)
    BY DEF Fichier
  <2> QED
    BY <1>0, <1>5, <2>1, <2>2 DEF Noms
<1>7. Conforme(a, d, 0)
  <2>1. \A i \in 1..Len(a) : a[i].fichier[1] = 0
    BY <1>0, <1>1, <1>2 DEF Conforme
  <2>2. \A i \in 1..Len(a) : a[i].contenu # Ls!Vide =>
          a[i].fichier \in DOMAIN d /\ d[a[i].fichier] = a[i].contenu
    <3>1. \A i \in 1..Len(l0) : l0[i].contenu # Ls!Vide =>
            l0[i].fichier \in DOMAIN disque /\ disque[l0[i].fichier] = l0[i].contenu
      BY <1>0 DEF Conforme
    <3>2. \A i \in 1..Len(l0) : l0[i].contenu # Ls!Vide =>
            l0[i].fichier \in DOMAIN d /\ d[l0[i].fichier] = l0[i].contenu
      BY <1>5, <3>1
    <3>3. t.contenu # Ls!Vide => t.fichier \in DOMAIN d /\ d[t.fichier] = t.contenu
      BY <1>1, <1>5
    <3> QED
      BY <1>2, <3>2, <3>3
  <2>3. ASSUME NEW f \in DOMAIN d, f[1] = 0
        PROVE  \E i \in 1..Len(a) : a[i].fichier = f /\ a[i].contenu = d[f]
    <3>1. CASE f \in DOMAIN disque
      <4>1. PICK i \in 1..Len(l0) : l0[i].fichier = f /\ l0[i].contenu = disque[f]
        BY <1>0, <2>3, <3>1 DEF Conforme
      <4> QED
        BY <1>2, <1>5, <3>1, <4>1
    <3>2. CASE f = <<0, seq + 1>> /\ m # Ls!Vide
      BY <1>1, <1>2, <1>5, <3>2
    <3> QED
      BY <1>5, <3>1, <3>2
  <2>4. ASSUME NEW i \in 1..Len(a), NEW j \in 1..Len(a), i < j
        PROVE  a[i].fichier[2] < a[j].fichier[2]
    <3>1. CASE j \in 1..Len(l0)
      BY <1>0, <1>2, <2>4, <3>1 DEF Conforme
    <3>2. CASE j = Len(l0) + 1
      <4>1. i \in 1..Len(l0) /\ a[i] = l0[i] /\ a[j] = t
        BY <1>2, <2>4, <3>2
      <4>2. l0[i].fichier[2] \in 1..seq
        BY <1>0, <4>1 DEF Table
      <4> QED
        BY <1>0, <1>1, <4>1, <4>2
    <3> QED
      BY <1>2, <3>1, <3>2
  <2> QED
    BY <2>1, <2>2, <2>3, <2>4 DEF Conforme
<1>8. Conforme(l1, d, 1)
  <2>1. \A f \in DOMAIN d : f[1] = 1 => f \in DOMAIN disque
    BY <1>0, <1>5
  <2>2. \A i \in 1..Len(l1) : l1[i].contenu # Ls!Vide =>
          l1[i].fichier \in DOMAIN disque /\ disque[l1[i].fichier] = l1[i].contenu
    BY <1>0 DEF Conforme
  <2>3. \A i \in 1..Len(l1) : l1[i].contenu # Ls!Vide =>
          l1[i].fichier \in DOMAIN d /\ d[l1[i].fichier] = l1[i].contenu
    BY <1>5, <2>2
  <2> QED
    BY <1>0, <1>5, <2>1, <2>3 DEF Conforme
<1>9. Ls!Lire(Ls!Vide, a, l1) = Ls!Lire(m, l0, l1)
  <2>1. ASSUME NEW c \in Cles
        PROVE  Ls!Trouve(a, c) = IF m[c] # Rien THEN m[c] ELSE Ls!Trouve(l0, c)
    <3>1. CASE m[c] # Rien
      <4>1. PlusJeune(a, c, Len(l0) + 1)
        BY <1>1, <1>2, <3>1 DEF PlusJeune
      <4> QED
        BY <1>1, <1>2, <3>1, <4>1, TrouveJeune
    <3>2. ASSUME m[c] = Rien, NEW i, PlusJeune(l0, c, i)
          PROVE  Ls!Trouve(a, c) = Ls!Trouve(l0, c)
      <4>1. PlusJeune(a, c, i)
        BY <1>1, <1>2, <3>2 DEF PlusJeune
      <4>2. i \in 1..Len(l0)
        BY <3>2 DEF PlusJeune
      <4>3. Ls!Trouve(a, c) = a[i].contenu[c] /\ Ls!Trouve(l0, c) = l0[i].contenu[c]
        BY <1>0, <1>2, <3>2, <4>1, TrouveJeune
      <4> QED
        BY <1>2, <4>2, <4>3
    <3>3. ASSUME m[c] = Rien, \A i \in 1..Len(l0) : l0[i].contenu[c] = Rien
          PROVE  Ls!Trouve(a, c) = Ls!Trouve(l0, c)
      <4>1. \A i \in 1..Len(a) : a[i].contenu[c] = Rien
        BY <1>1, <1>2, <3>3
      <4> QED
        BY <3>3, <4>1, TrouveRien
    <3> QED
      BY <1>0, <3>1, <3>2, <3>3, JeuneExiste
  <2> QED
    BY <2>1 DEF Ls!Lire, Ls!LireNiveaux, Ls!Vide
<1>10. Coherent(a, l1, seq + 1, d)
  BY <1>0, <1>2, <1>3, <1>6, <1>7, <1>8 DEF Coherent
<1>11. \A f \in DOMAIN disque : f \in DOMAIN d /\ d[f] = disque[f]
  BY <1>5
<1> QED
  BY <1>4, <1>9, <1>10, <1>11 DEF a, d, t

-----------------------------------------------------------------------------
\* The tables that a compaction reads.
LEMMA EntrantsCorrect ==
  ASSUME Ls!LSMAssumption, NEW a, NEW n, NEW d, Coherent(a, l1, n, d)
  PROVE  /\ Ls!Entrants(a) \in Seq(Ls!Tables) /\ Len(Ls!Entrants(a)) = Len(a) + Len(l1)
         /\ \A i \in 1..Len(a) : Ls!Entrants(a)[i] = a[i]
         /\ \A i \in 1..Len(l1) : Ls!Entrants(a)[Len(a) + i] = l1[i]
         /\ \A i \in 1..Len(Ls!Entrants(a)) :
              \/ i \in 1..Len(a) /\ Ls!Entrants(a)[i] = a[i]
              \/ \E j \in 1..Len(l1) : i = Len(a) + j /\ Ls!Entrants(a)[i] = l1[j]
<1>0. /\ a \in Seq(Ls!Tables) /\ l1 \in Seq(Ls!Tables) /\ Len(a) \in Nat /\ Len(l1) \in Nat
  BY DEF Coherent
<1> DEFINE s == a \o l1
<1>1. s \in Seq(Ls!Tables) /\ Len(s) = Len(a) + Len(l1)
  BY <1>0
<1>2. \A i \in 1..Len(a) : s[i] = a[i]
  BY <1>0, <1>1
<1>3. \A i \in 1..Len(l1) : s[Len(a) + i] = l1[i]
  BY <1>0, <1>1
<1>4. s = Ls!Entrants(a)
  BY DEF Ls!Entrants
<1> HIDE DEF s
<1>5. ASSUME NEW i \in 1..Len(s)
      PROVE  \/ i \in 1..Len(a) /\ s[i] = a[i]
             \/ \E j \in 1..Len(l1) : i = Len(a) + j /\ s[i] = l1[j]
  <2>1. CASE i <= Len(a)
    BY <1>0, <1>1, <1>2, <2>1
  <2>2. CASE ~(i <= Len(a))
    <3>1. i - Len(a) \in 1..Len(l1) /\ i = Len(a) + (i - Len(a))
      BY <1>0, <1>1, <2>2
    <3> QED
      BY <1>3, <3>1
  <2> QED
    BY <2>1, <2>2
<1> QED
  BY <1>1, <1>2, <1>3, <1>4, <1>5

\* Where the levels have a key.
LEMMA NiveauxVides ==
  ASSUME Ls!LSMAssumption, NEW a, NEW n, NEW d, Coherent(a, l1, n, d), NEW c \in Cles
  PROVE  Ls!LireNiveaux(a, l1, c) = Rien <=>
                \A i \in 1..Len(Ls!Entrants(a)) : Ls!Entrants(a)[i].contenu[c] = Rien
<1>0. a \in Seq(Ls!Tables) /\ l1 \in Seq(Ls!Tables)
  BY DEF Coherent
<1>1. \A s \in Seq(Ls!Tables) : Ls!Trouve(s,
         c) = Rien <=> \A i \in 1..Len(s) : s[i].contenu[c] = Rien
  <2> SUFFICES ASSUME NEW s \in Seq(Ls!Tables)
               PROVE  Ls!Trouve(s, c) = Rien <=> \A i \in 1..Len(s) : s[i].contenu[c] = Rien
    OBVIOUS
  <2>1. CASE \A i \in 1..Len(s) : s[i].contenu[c] = Rien
    BY <2>1, TrouveRien
  <2>2. ASSUME NEW i, PlusJeune(s, c, i)
        PROVE  Ls!Trouve(s, c) # Rien /\ i \in 1..Len(s) /\ s[i].contenu[c] # Rien
    BY <2>2, TrouveJeune DEF PlusJeune
  <2> QED
    BY <2>1, <2>2, JeuneExiste
<1>2. Ls!LireNiveaux(a, l1, c) = Rien <=> Ls!Trouve(a, c) = Rien /\ Ls!Trouve(l1, c) = Rien
  BY DEF Ls!LireNiveaux
<1>3. Ls!LireNiveaux(a, l1, c) = Rien <=>
           /\ \A i \in 1..Len(a) : a[i].contenu[c] = Rien
           /\ \A i \in 1..Len(l1) : l1[i].contenu[c] = Rien
  BY <1>0, <1>1, <1>2
<1>4. /\ Len(Ls!Entrants(a)) = Len(a) + Len(l1) /\ Len(a) \in Nat /\ Len(l1) \in Nat
      /\ \A i \in 1..Len(a) : Ls!Entrants(a)[i] = a[i]
      /\ \A i \in 1..Len(l1) : Ls!Entrants(a)[Len(a) + i] = l1[i]
      /\ \A i \in 1..Len(Ls!Entrants(a)) :
              \/ i \in 1..Len(a) /\ Ls!Entrants(a)[i] = a[i]
              \/ \E j \in 1..Len(l1) : i = Len(a) + j /\ Ls!Entrants(a)[i] = l1[j]
  BY <1>0, EntrantsCorrect
<1>5. /\ \A i \in 1..Len(a) : i \in 1..Len(Ls!Entrants(a))
      /\ \A i \in 1..Len(l1) : Len(a) + i \in 1..Len(Ls!Entrants(a))
  BY <1>4
<1>6. ASSUME \A i \in 1..Len(Ls!Entrants(a)) : Ls!Entrants(a)[i].contenu[c] = Rien
      PROVE  Ls!LireNiveaux(a, l1, c) = Rien
  <2>1. \A i \in 1..Len(a) : a[i].contenu[c] = Rien
    BY <1>4, <1>5, <1>6
  <2>2. \A i \in 1..Len(l1) : l1[i].contenu[c] = Rien
    BY <1>4, <1>5, <1>6
  <2> QED
    BY <1>3, <2>1, <2>2
<1>7. ASSUME Ls!LireNiveaux(a, l1, c) = Rien, NEW i \in 1..Len(Ls!Entrants(a))
      PROVE  Ls!Entrants(a)[i].contenu[c] = Rien
  <2>1. CASE i \in 1..Len(a) /\ Ls!Entrants(a)[i] = a[i]
    BY <1>3, <1>7, <2>1
  <2>2. ASSUME NEW j \in 1..Len(l1), Ls!Entrants(a)[i] = l1[j]
        PROVE  Ls!Entrants(a)[i].contenu[c] = Rien
    BY <1>3, <1>7, <2>2
  <2> QED
    BY <1>4, <2>1, <2>2
<1> QED
  BY <1>6, <1>7

\* What the levels have under a key is in one of their tables.
LEMMA NiveauxMembre ==
  ASSUME Ls!LSMAssumption, NEW a, NEW n, NEW d, Coherent(a, l1, n, d), NEW c \in Cles,
         Ls!LireNiveaux(a, l1, c) # Rien
  PROVE  \E i \in 1..Len(Ls!Entrants(a)) :
            Ls!Entrants(a)[i].contenu[c] = Ls!LireNiveaux(a, l1, c)
<1>0. a \in Seq(Ls!Tables) /\ l1 \in Seq(Ls!Tables)
  BY DEF Coherent
<1>1. \A s \in Seq(Ls!Tables) : Ls!Trouve(s, c) # Rien =>
          \E i \in 1..Len(s) : s[i].contenu[c] = Ls!Trouve(s, c)
  <2> SUFFICES ASSUME NEW s \in Seq(Ls!Tables), Ls!Trouve(s, c) # Rien
               PROVE  \E i \in 1..Len(s) : s[i].contenu[c] = Ls!Trouve(s, c)
    OBVIOUS
  <2>1. PICK i : PlusJeune(s, c, i)
    BY TrouveRien, JeuneExiste
  <2> QED
    BY <2>1, TrouveJeune DEF PlusJeune
<1>2. /\ Len(Ls!Entrants(a)) = Len(a) + Len(l1) /\ Len(a) \in Nat /\ Len(l1) \in Nat
      /\ \A i \in 1..Len(a) : Ls!Entrants(a)[i] = a[i]
      /\ \A i \in 1..Len(l1) : Ls!Entrants(a)[Len(a) + i] = l1[i]
  BY <1>0, EntrantsCorrect
<1>3. /\ \A i \in 1..Len(a) : i \in 1..Len(Ls!Entrants(a))
      /\ \A i \in 1..Len(l1) : Len(a) + i \in 1..Len(Ls!Entrants(a))
  BY <1>2
<1>4. CASE Ls!Trouve(a, c) # Rien
  <2>1. Ls!LireNiveaux(a, l1, c) = Ls!Trouve(a, c)
    BY <1>4 DEF Ls!LireNiveaux
  <2>2. PICK i \in 1..Len(a) : a[i].contenu[c] = Ls!Trouve(a, c)
    BY <1>0, <1>1, <1>4
  <2> QED
    BY <1>2, <1>3, <2>1, <2>2
<1>5. CASE Ls!Trouve(a, c) = Rien
  <2>1. Ls!LireNiveaux(a, l1, c) = Ls!Trouve(l1, c) /\ Ls!Trouve(l1, c) # Rien
    BY <1>5 DEF Ls!LireNiveaux
  <2>2. PICK i \in 1..Len(l1) : l1[i].contenu[c] = Ls!Trouve(l1, c)
    BY <1>0, <1>1, <2>1
  <2> QED
    BY <1>2, <1>3, <2>1, <2>2
<1> QED
  BY <1>4, <1>5

\* A merge keeps of every key what the levels have, but for tombstones.
LEMMA FusionCorrecte ==
  ASSUME Ls!LSMAssumption, NEW a, NEW n, NEW d, Coherent(a, l1, n, d), Ls!EnOrdre(a),
         NEW c \in Cles
  PROVE  Ls!Fusion(Ls!Entrants(a))[c] =
               IF Ls!LireNiveaux(a, l1, c) = Rien \/ Ls!LireNiveaux(a, l1, c).valeur = Absent
               THEN Rien ELSE Ls!LireNiveaux(a, l1, c)
<1> DEFINE s == Ls!Entrants(a)
           e == Ls!LireNiveaux(a, l1, c)
           r == {i \in 1..Len(s) : s[i].contenu[c] # Rien}
           bon(i) == \A j \in r : \/ s[j].contenu[c].seq < s[i].contenu[c].seq
                                  \/ s[j].contenu[c].seq = s[i].contenu[c].seq /\ i <= j
           g == CHOOSE i \in r : bon(i)
<1>1. Ls!Fusion(s)[c] = IF r = {} \/ s[g].contenu[c].valeur = Absent THEN Rien
                        ELSE s[g].contenu[c]
  BY DEF Ls!Fusion, Ls!Gardee
<1>2. s \in Seq(Ls!Tables) /\ Len(s) \in Nat
  BY EntrantsCorrect
<1>3. \A i \in r : s[i].contenu[c] \in Ls!Entrees
  <2>1. \A i \in 1..Len(s) : s[i] \in Ls!Tables
    <3> HIDE DEF s
    <3> QED
      BY <1>2
  <2>2. \A t \in Ls!Tables : t.contenu[c] \in Ls!Entrees \union {Rien}
    BY DEF Ls!Tables, Ls!Contenus
  <2> QED
    BY <2>1, <2>2
<1>4. \A i \in 1..Len(s) : \/ s[i].contenu[c] = Rien \/ s[i].contenu[c] = e
                           \/ s[i].contenu[c].seq < e.seq
  <2>1. \A i \in 1..Len(s) : s[i] \in Ls!Range(s)
    BY <1>2 DEF Ls!Range
  <2> QED
    BY <2>1 DEF Ls!EnOrdre
<1>5. CASE e = Rien
  <2>1. r = {}
    BY <1>5, NiveauxVides
  <2> QED
    BY <1>1, <1>5, <2>1
<1>6. CASE e # Rien
  <2>1. PICK p \in 1..Len(s) : s[p].contenu[c] = e
    BY <1>6, NiveauxMembre
  <2> DEFINE u == {i \in r : s[i].contenu[c] = e}
  <2>2. p \in r /\ p \in u /\ u \subseteq Nat
    BY <1>2, <1>6, <2>1
  <2>3. PICK q \in u : \A j \in u : q <= j
    <3> HIDE DEF u
    <3> QED
      BY <2>2, MinimumExiste
  <2>4. q \in r /\ s[q].contenu[c] = e
    BY <2>3
  <2>5. \A j \in r : \/ s[j].contenu[c].seq < e.seq
                     \/ s[j].contenu[c].seq = e.seq /\ q <= j
    <3> SUFFICES ASSUME NEW j \in r
                 PROVE  \/ s[j].contenu[c].seq < e.seq
                        \/ s[j].contenu[c].seq = e.seq /\ q <= j
      OBVIOUS
    <3>1. CASE s[j].contenu[c] = e
      <4>1. j \in u
        BY <3>1
      <4> QED
        BY <2>3, <3>1, <4>1
    <3> QED
      BY <1>4, <3>1
  <2>6. bon(q)
    BY <2>4, <2>5
  <2>7. g \in r /\ bon(g)
    <3> HIDE DEF r, bon
    <3> QED
      BY <2>4, <2>6
  <2>8. s[g].contenu[c] = e
    <3>1. \/ e.seq < s[g].contenu[c].seq
          \/ e.seq = s[g].contenu[c].seq
      BY <2>4, <2>7
    <3>2. g \in 1..Len(s) /\ s[g].contenu[c] # Rien
      BY <2>7
    <3>3. e.seq \in Nat /\ s[g].contenu[c].seq \in Nat
      <4>1. \A x \in Ls!Entrees : x.seq \in Nat
        BY DEF Ls!Entrees
      <4>2. e \in Ls!Entrees /\ s[g].contenu[c] \in Ls!Entrees
        BY <1>3, <2>4, <2>7
      <4> QED
        BY <4>1, <4>2
    <3> HIDE DEF g, e, s, r, bon
    <3>4. s[g].contenu[c] = e \/ s[g].contenu[c].seq < e.seq
      BY <1>4, <3>2
    <3> QED
      BY <3>1, <3>3, <3>4
  <2> QED
    BY <1>1, <1>6, <2>4, <2>8
<1> QED
  BY <1>5, <1>6

\* The new table, and the files once k of the inputs are removed.
LEMMA SortieCorrecte ==
  ASSUME Ls!LSMAssumption, NEW a, NEW n, NEW d, Coherent(a, l1, n, d), Ls!EnOrdre(a)
  PROVE  Ls!Fusion(Ls!Entrants(a)) \in Ls!Contenus /\ Vivant(Ls!Fusion(Ls!Entrants(a)))
<1> DEFINE F == Ls!Fusion(Ls!Entrants(a))
<1>1. F = [c \in Cles |-> F[c]]
  BY DEF Ls!Fusion
<1>2. Ls!Entrants(a) \in Seq(Ls!Tables)
  BY EntrantsCorrect
<1>3. ASSUME NEW c \in Cles
      PROVE  /\ F[c] \in Ls!Entrees \union {Rien}
             /\ F[c] # Rien => F[c].valeur # Absent
  <2>1. F[c] = IF Ls!LireNiveaux(a, l1, c) = Rien \/ Ls!LireNiveaux(a, l1, c).valeur = Absent
               THEN Rien ELSE Ls!LireNiveaux(a, l1, c)
    BY FusionCorrecte
  <2>2. Ls!LireNiveaux(a, l1, c) \in Ls!Entrees \union {Rien}
    <3>1. \A x \in Ls!Tables : x.contenu[c] \in Ls!Entrees \union {Rien}
      BY DEF Ls!Tables, Ls!Contenus
    <3>2. CASE Ls!LireNiveaux(a, l1, c) # Rien
      <4>1. PICK i \in 1..Len(Ls!Entrants(a)) :
                 Ls!Entrants(a)[i].contenu[c] = Ls!LireNiveaux(a, l1, c)
        BY <3>2, NiveauxMembre
      <4>2. Ls!Entrants(a)[i] \in Ls!Tables
        BY <1>2
      <4> QED
        BY <3>1, <4>1, <4>2
    <3> QED
      BY <3>2
  <2> QED
    BY <2>1, <2>2
<1> HIDE DEF F
<1>4. F \in Ls!Contenus
  BY <1>1, <1>3 DEF Ls!Contenus
<1> QED
  BY <1>3, <1>4 DEF Vivant, F

\* The name of the new table is new; what stays under the others is what was there.
LEMMA RestantsCorrect ==
  ASSUME Ls!LSMAssumption, NEW a, NEW n, NEW d, Coherent(a, l1, n, d),
         NEW k \in 0..Len(Ls!Entrants(a))
  PROVE  LET S == <<1, n + 1>>
             F == Ls!Fusion(Ls!Entrants(a))
             D == Ls!Restants(a, n, d, k)
         IN  /\ S \notin DOMAIN d
             /\ \A i \in 1..Len(Ls!Entrants(a)) : Ls!Entrants(a)[i].fichier # S
             /\ \A f : f \in DOMAIN D <=>
                   /\ f \in DOMAIN d \/ (f = S /\ F # Ls!Vide)
                   /\ \A i \in 1..k : Ls!Entrants(a)[i].fichier # f
             /\ F # Ls!Vide => S \in DOMAIN D /\ D[S] = F
             /\ \A f \in DOMAIN D : f # S => D[f] = d[f]
<1> DEFINE S == <<1, n + 1>>
           F == Ls!Fusion(Ls!Entrants(a))
           D == Ls!Restants(a, n, d, k)
           E == Ls!Ecrit(d, Ls!Sortie(a, n))
           s == Ls!Entrants(a)
           T == SubSeq(s, 1, k)
<1>0. /\ n \in Nat /\ Noms(d) /\ Conforme(a, d, 0) /\ Conforme(l1, d, 1)
      /\ \A i \in 1..Len(a) : Table(a[i], n) /\ \A j \in 1..Len(l1) : Table(l1[j], n)
      /\ \A j \in 1..Len(l1) : Table(l1[j], n)
  BY DEF Coherent, Ls!LSMAssumption
<1>1. /\ s \in Seq(Ls!Tables) /\ Len(s) \in Nat
      /\ \A i \in 1..Len(s) : \/ i \in 1..Len(a) /\ s[i] = a[i]
                              \/ \E j \in 1..Len(l1) : i = Len(a) + j /\ s[i] = l1[j]
  BY EntrantsCorrect
<1> HIDE DEF s
<1>2. S \notin DOMAIN d
  <2> SUFFICES ASSUME S \in DOMAIN d PROVE FALSE
    OBVIOUS
  <2>1. PICK j \in 1..Len(l1) : l1[j].fichier = S
    BY <1>0 DEF Conforme
  <2>2. l1[j].fichier[2] \in 1..n
    BY <1>0 DEF Table
  <2> QED
    BY <1>0, <2>1, <2>2
<1>3. ASSUME NEW i \in 1..Len(s)
      PROVE  s[i].fichier # S
  <2>1. s[i].fichier[2] \in 1..n
    <3>1. CASE s[i] = a[i] /\ i \in 1..Len(a)
      BY <1>0, <3>1 DEF Table
    <3>2. ASSUME NEW j \in 1..Len(l1), s[i] = l1[j]
          PROVE  s[i].fichier[2] \in 1..n
      BY <1>0, <3>2 DEF Table
    <3> QED
      BY <1>1, <3>1, <3>2
  <2> QED
    BY <1>0, <2>1
<1>4. /\ DOMAIN E = IF F = Ls!Vide THEN DOMAIN d ELSE DOMAIN d \union {S}
      /\ \A f \in DOMAIN d : E[f] = d[f]
      /\ F # Ls!Vide => E[S] = F
  BY <1>2 DEF Ls!Ecrit, Ls!Poser, Ls!Sortie, s
<1>5. Ls!Fichiers(T) = {s[i].fichier : i \in 1..k}
  <2>1. k \in Nat /\ k <= Len(s)
    BY <1>1 DEF s
  <2>2. Len(T) = k /\ \A i \in 1..k : T[i] = s[i]
    BY <1>1, <2>1
  <2> HIDE DEF T
  <2> QED
    BY <2>2 DEF Ls!Fichiers
<1>6. D = [f \in DOMAIN E \ Ls!Fichiers(T) |-> E[f]]
  BY DEF Ls!Restants, Ls!Restrict, s
<1> HIDE DEF D, E, T, F
<1>7. /\ DOMAIN D = DOMAIN E \ {s[i].fichier : i \in 1..k}
      /\ \A f \in DOMAIN D : D[f] = E[f]
  BY <1>5, <1>6
<1>8. k \in Nat /\ k <= Len(s) /\ \A i \in 1..k : i \in 1..Len(s)
  BY <1>1 DEF s
<1>9. \A f : f \in DOMAIN D <=> /\ f \in DOMAIN d \/ (f = S /\ F # Ls!Vide)
                              /\ \A i \in 1..k : s[i].fichier # f
  BY <1>4, <1>7
<1>10. F # Ls!Vide => S \in DOMAIN D /\ D[S] = F
  BY <1>3, <1>4, <1>7, <1>8, <1>9
<1>11. \A f \in DOMAIN D : f # S => D[f] = d[f]
  BY <1>4, <1>7, <1>9
<1> QED
  BY <1>2, <1>3, <1>9, <1>10, <1>11 DEF D, F, s

\* What a file holds, and its place among the tables that are merged.
LEMMA FichierEntrant ==
  ASSUME Ls!LSMAssumption, NEW a, NEW n, NEW d, Coherent(a, l1, n, d), NEW f \in DOMAIN d
  PROVE  /\ f[1] \in {0, 1} /\ f[2] \in 1..n
         /\ f[1] = 0 => \E i \in 1..Len(a) : a[i].fichier = f /\ a[i].contenu = d[f]
         /\ \E i \in 1..Len(Ls!Entrants(a)) :
               Ls!Entrants(a)[i].fichier = f /\ Ls!Entrants(a)[i].contenu = d[f]
<1>0. /\ Noms(d) /\ Conforme(a, d, 0) /\ Conforme(l1, d, 1)
      /\ \A i \in 1..Len(a) : Table(a[i], n)
      /\ \A j \in 1..Len(l1) : Table(l1[j], n)
  BY DEF Coherent
<1>1. /\ Len(Ls!Entrants(a)) = Len(a) + Len(l1) /\ Len(a) \in Nat /\ Len(l1) \in Nat
      /\ \A i \in 1..Len(a) : Ls!Entrants(a)[i] = a[i]
      /\ \A i \in 1..Len(l1) : Ls!Entrants(a)[Len(a) + i] = l1[i]
  <2>1. a \in Seq(Ls!Tables) /\ l1 \in Seq(Ls!Tables)
    BY DEF Coherent
  <2> QED
    BY <2>1, EntrantsCorrect
<1>2. f[1] \in {0, 1}
  BY <1>0 DEF Noms
<1>3. CASE f[1] = 0
  <2>1. PICK i \in 1..Len(a) : a[i].fichier = f /\ a[i].contenu = d[f]
    BY <1>0, <1>3 DEF Conforme
  <2>2. i \in 1..Len(Ls!Entrants(a)) /\ f[2] \in 1..n
    BY <1>0, <1>1, <2>1 DEF Table
  <2> QED
    BY <1>1, <1>2, <2>1, <2>2
<1>4. CASE f[1] = 1
  <2>1. PICK i \in 1..Len(l1) : l1[i].fichier = f /\ l1[i].contenu = d[f]
    BY <1>0, <1>4 DEF Conforme
  <2>2. Len(a) + i \in 1..Len(Ls!Entrants(a)) /\ f[2] \in 1..n
    BY <1>0, <1>1, <2>1 DEF Table
  <2>3. Ls!Entrants(a)[Len(a) + i] = l1[i]
    BY <1>1
  <2> QED
    BY <1>2, <1>4, <2>1, <2>2, <2>3
<1> QED
  BY <1>2, <1>3, <1>4

\* A finished compaction leaves one table, which reads as those it was made from.
LEMMA CoherentFusionne ==
  ASSUME Ls!LSMAssumption, NEW a, NEW n, NEW d, Coherent(a, l1, n, d), Ls!EnOrdre(a), n < MaxSeq
  PROVE  /\ Coherent(<<>>, <<Ls!Sortie(a, n)>>, n + 1, Ls!Restants(a, n, d,
             Len(Ls!Entrants(a))))
         /\ \A m : Ls!Lire(m, <<>>, <<Ls!Sortie(a, n)>>) = Ls!Lire(m, a, l1)
<1> DEFINE S == <<1, n + 1>>
           F == Ls!Fusion(Ls!Entrants(a))
           D == Ls!Restants(a, n, d, Len(Ls!Entrants(a)))
           t == Ls!Sortie(a, n)
           b == <<t>>
<1>0. n \in Nat /\ MaxSeq \in Nat /\ n + 1 \in 1..MaxSeq /\ n + 1 \in 0..MaxSeq
  BY DEF Coherent, Ls!LSMAssumption
<1>1. Len(Ls!Entrants(a)) \in Nat /\ Len(Ls!Entrants(a)) \in 0..Len(Ls!Entrants(a))
  BY EntrantsCorrect
<1>2. F \in Ls!Contenus /\ Vivant(F)
  BY SortieCorrecte
<1>3. /\ t.fichier = S /\ t.contenu = F /\ t \in Ls!Tables
      /\ t.fichier[1] = 1 /\ t.fichier[2] = n + 1
  BY <1>0, <1>2 DEF Ls!Sortie, Ls!Tables
<1>4. /\ \A f : f \in DOMAIN D <=>
                   /\ f \in DOMAIN d \/ (f = S /\ F # Ls!Vide)
                   /\ \A i \in 1..Len(Ls!Entrants(a)) : Ls!Entrants(a)[i].fichier # f
      /\ F # Ls!Vide => S \in DOMAIN D /\ D[S] = F
  BY <1>1, RestantsCorrect
<1>5. \A c \in Cles : F[c] = IF Ls!LireNiveaux(a, l1, c) = Rien \/ Ls!LireNiveaux(a, l1,
         c).valeur = Absent
                             THEN Rien ELSE Ls!LireNiveaux(a, l1, c)
  BY FusionCorrecte
<1>6. \A f \in DOMAIN d : \E i \in 1..Len(Ls!Entrants(a)) : Ls!Entrants(a)[i].fichier = f
  BY FichierEntrant
<1> HIDE DEF F, D, t
<1>7. \A f \in DOMAIN D : f = S /\ F # Ls!Vide
  BY <1>4, <1>6
<1>8. /\ b \in Seq(Ls!Tables) /\ Len(b) = 1 /\ b[1] = t
      /\ \A i \in 1..Len(b) : i = 1
  BY <1>3
<1> HIDE DEF b
<1>9. Conforme(<<>>, D, 0)
  <2>1. \A f \in DOMAIN D : f[1] = 1
    BY <1>7
  <2>2. Len(<<>>) = 0
    OBVIOUS
  <2> QED
    BY <2>1, <2>2 DEF Conforme
<1>10. Conforme(b, D, 1)
  <2>1. \A i \in 1..Len(b) : b[i].fichier[1] = 1
    BY <1>3, <1>8
  <2>2. \A i \in 1..Len(b) : b[i].contenu # Ls!Vide =>
          b[i].fichier \in DOMAIN D /\ D[b[i].fichier] = b[i].contenu
    BY <1>3, <1>4, <1>8
  <2>3. ASSUME NEW f \in DOMAIN D
        PROVE  b[1].fichier = f /\ b[1].contenu = D[f]
    BY <1>3, <1>4, <1>7, <1>8
  <2>4. 1 \in 1..Len(b)
    BY <1>8
  <2>5. \A i, j \in 1..Len(b) : i < j => b[i].fichier[2] < b[j].fichier[2]
    BY <1>8
  <2> QED
    BY <2>1, <2>2, <2>3, <2>4, <2>5 DEF Conforme
<1>11. Noms(D) /\ \A f \in DOMAIN D : Fichier(D[f])
  <2>1. S \in {0, 1} \X (1..MaxSeq)
    BY <1>0
  <2>2. Noms(D)
    BY <1>7, <2>1 DEF Noms
  <2>3. F # Ls!Vide => Fichier(F)
    BY <1>2 DEF Fichier, SansTombe
  <2> QED
    BY <1>4, <1>7, <2>2, <2>3
<1>12. \A i \in 1..Len(b) : Table(b[i], n + 1)
  BY <1>0, <1>2, <1>3, <1>8 DEF Table, SansTombe
<1>13. <<>> \in Seq(Ls!Tables) /\ \A i \in 1..Len(<<>>) : Table(<<>>[i], n + 1)
  OBVIOUS
<1>14. ASSUME NEW c \in Cles
       PROVE  Ls!Valeur(Ls!LireNiveaux(<<>>, b, c)) = Ls!Valeur(Ls!LireNiveaux(a, l1, c))
  <2>1. Ls!Trouve(<<>>, c) = Rien
    BY TrouveRien
  <2>2. Ls!Trouve(b, c) = F[c]
    <3>1. CASE F[c] = Rien
      <4>1. \A i \in 1..Len(b) : b[i].contenu[c] = Rien
        BY <1>3, <1>8, <3>1
      <4> QED
        BY <3>1, <4>1, TrouveRien
    <3>2. CASE F[c] # Rien
      <4>1. PlusJeune(b, c, 1)
        BY <1>3, <1>8, <3>2 DEF PlusJeune
      <4> QED
        BY <1>3, <1>8, <4>1, TrouveJeune
    <3> QED
      BY <3>1, <3>2
  <2>3. Ls!LireNiveaux(<<>>, b, c) = F[c]
    BY <2>1, <2>2 DEF Ls!LireNiveaux
  <2> QED
    BY <1>5, <2>3 DEF Ls!Valeur
<1>15. ASSUME NEW m
       PROVE  Ls!Lire(m, <<>>, b) = Ls!Lire(m, a, l1)
  <2>1. \A c \in Cles :
           Ls!Valeur(IF m[c] # Rien THEN m[c] ELSE Ls!LireNiveaux(<<>>, b, c)) =
           Ls!Valeur(IF m[c] # Rien THEN m[c] ELSE Ls!LireNiveaux(a, l1, c))
    BY <1>14
  <2> QED
    BY <2>1 DEF Ls!Lire
<1> QED
  BY <1>0, <1>8, <1>9, <1>10, <1>11, <1>12, <1>13, <1>15 DEF Coherent, b, D, t

\* Without tombstones the files read the same however many inputs are removed.
LEMMA RestantsLit ==
  ASSUME Ls!LSMAssumption, "suppression" \notin PermisLSM,
         NEW a, NEW n, NEW d, Coherent(a, l1, n, d), Ls!EnOrdre(a), n < MaxSeq,
         NEW k \in 0..Len(Ls!Entrants(a))
  PROVE  /\ FichiersBons(Ls!Restants(a, n, d, k))
         /\ Ls!LireDisque(Ls!Restants(a, n, d, k)) = Ls!Lire(Ls!Vide, a, l1)
<1> DEFINE S == <<1, n + 1>>
           F == Ls!Fusion(Ls!Entrants(a))
           D == Ls!Restants(a, n, d, k)
           s == Ls!Entrants(a)
<1>0. /\ n \in Nat /\ MaxSeq \in Nat /\ n + 1 \in 1..MaxSeq
      /\ a \in Seq(Ls!Tables) /\ l1 \in Seq(Ls!Tables)
      /\ Noms(d) /\ Conforme(a, d, 0) /\ Conforme(l1, d, 1)
      /\ \A f \in DOMAIN d : Fichier(d[f])
      /\ \A i \in 1..Len(a) : Table(a[i], n)
      /\ \A i \in 1..Len(l1) : Table(l1[i], n)
      /\ Illisible \notin Ls!Contenus
  BY DEF Coherent, Ls!LSMAssumption
<1>1. /\ s \in Seq(Ls!Tables) /\ Len(s) = Len(a) + Len(l1) /\ Len(a) \in Nat /\ Len(l1) \in Nat
      /\ \A i \in 1..Len(a) : s[i] = a[i]
  BY <1>0, EntrantsCorrect
<1>2. F \in Ls!Contenus /\ Vivant(F)
  BY SortieCorrecte
<1>3. /\ \A f : f \in DOMAIN D <=>
                   /\ f \in DOMAIN d \/ (f = S /\ F # Ls!Vide)
                   /\ \A i \in 1..k : s[i].fichier # f
      /\ F # Ls!Vide => S \in DOMAIN D /\ D[S] = F
      /\ \A f \in DOMAIN D : f # S => D[f] = d[f]
      /\ S \notin DOMAIN d
  BY RestantsCorrect
<1>4. \A f \in DOMAIN d : /\ f[1] \in {0, 1} /\ f[2] \in 1..n
                          /\ f[1] = 0 => \E i \in 1..Len(a) : a[i].fichier = f
                              /\ a[i].contenu = d[f]
                          /\ \E i \in 1..Len(s) : s[i].fichier = f /\ s[i].contenu = d[f]
  BY FichierEntrant
<1>5. \A c \in Cles : F[c] = IF Ls!LireNiveaux(a, l1, c) = Rien \/ Ls!LireNiveaux(a, l1,
         c).valeur = Absent
                             THEN Rien ELSE Ls!LireNiveaux(a, l1, c)
  BY FusionCorrecte
<1>6. \A c \in Cles : Ls!LireNiveaux(a, l1,
         c) = Rien <=> \A i \in 1..Len(s) : s[i].contenu[c] = Rien
  BY NiveauxVides
<1> HIDE DEF F, D, s
<1>7. S \in {0, 1} \X (1..MaxSeq) /\ S[1] = 1 /\ S[2] = n + 1
  BY <1>0
<1>8. \A f \in DOMAIN D : (f = S /\ F # Ls!Vide) \/ (f \in DOMAIN d /\ f # S)
  BY <1>3
<1>9. Noms(D)
  BY <1>0, <1>7, <1>8 DEF Noms
<1>10. \A f \in DOMAIN D : Fichier(D[f])
  <2>1. F # Ls!Vide => Fichier(F)
    BY <1>2 DEF Fichier, SansTombe
  <2> QED
    BY <1>0, <1>3, <1>8, <2>1
<1>11. \A f \in DOMAIN D : D[f] # Illisible
  BY <1>0, <1>10 DEF Fichier
<1>12. ASSUME NEW c \in Cles
       PROVE  Ls!LireDisque(D)[c] = Ls!Lire(Ls!Vide, a, l1)[c]
  <2> DEFINE e == Ls!LireNiveaux(a, l1, c)
  <2>1. Ls!Lire(Ls!Vide, a, l1)[c] = Ls!Valeur(e)
    BY DEF Ls!Lire, Ls!Vide
  <2>2. CASE e = Rien
    <3>1. F[c] = Rien
      BY <1>5, <2>2
    <3>2. \A f \in DOMAIN d : d[f][c] = Rien
      BY <1>4, <1>6, <2>2
    <3>3. \A f \in DOMAIN D : D[f][c] = Rien
      BY <1>3, <1>8, <3>1, <3>2
    <3>4. Ls!LireDisque(D)[c] = Absent
      BY <3>3, DisqueAbsent
    <3> QED
      BY <2>1, <2>2, <3>4 DEF Ls!Valeur
  <2>3. CASE e # Rien
    <3>1. e.valeur # Absent
      <4>1. PICK i \in 1..Len(s) : s[i].contenu[c] = e
        BY <2>3, NiveauxMembre DEF s
      <4>2. Vivant(s[i].contenu)
        <5>1. \/ i \in 1..Len(a) /\ s[i] = a[i]
              \/ \E j \in 1..Len(l1) : i = Len(a) + j /\ s[i] = l1[j]
          BY EntrantsCorrect DEF s
        <5> QED
          BY <1>0, <5>1 DEF Table, SansTombe
      <4> QED
        BY <2>3, <4>1, <4>2 DEF Vivant
    <3>2. F[c] = e /\ F # Ls!Vide
      BY <1>5, <2>3, <3>1 DEF Ls!Vide
    <3>3. S \in DOMAIN D /\ D[S][c] = e
      BY <1>3, <3>2
    <3> HIDE DEF e
    <3>4. ASSUME NEW f \in DOMAIN D, f[1] = 0, D[f][c] # Rien
          PROVE  Ls!LireDisque(D)[c] = e.valeur
      <4>1. f \in DOMAIN d /\ D[f] = d[f]
        BY <1>3, <1>7, <1>8, <3>4
      <4>2. PICK j \in 1..Len(a) : a[j].fichier = f /\ a[j].contenu = d[f]
        BY <1>4, <3>4, <4>1
      <4>3. PICK i : PlusJeune(a, c, i)
        BY <1>0, <3>4, <4>1, <4>2, JeuneExiste
      <4>4. i \in 1..Len(a) /\ a[i].contenu[c] # Rien /\ j <= i
        BY <3>4, <4>1, <4>2, <4>3 DEF PlusJeune
      <4>5. a[i].contenu[c] = e
        <5>1. Ls!Trouve(a, c) = a[i].contenu[c]
          BY <1>0, <4>3, TrouveJeune
        <5> QED
          BY <4>4, <5>1 DEF Ls!LireNiveaux, e
      <4> DEFINE g == a[i].fichier
      <4>6. g \in DOMAIN d /\ d[g] = a[i].contenu /\ g[1] = 0
        BY <1>0, <4>4 DEF Conforme, Ls!Vide
      <4>7. ~(j \in 1..k)
        <5>1. \A x \in 1..k : s[x].fichier # f
          BY <1>3
        <5>2. s[j].fichier = f
          BY <1>1, <4>2
        <5> QED
          BY <5>1, <5>2
      <4>8. k \in Nat /\ k < j
        BY <1>1, <4>7 DEF s
      <4>9. \A x \in 1..k : s[x].fichier # g
        <5> SUFFICES ASSUME NEW x \in 1..k PROVE s[x].fichier # g
          OBVIOUS
        <5>1. x \in 1..Len(a) /\ x < i
          BY <1>1, <4>4, <4>8
        <5>2. a[x].fichier[2] < a[i].fichier[2] /\ s[x] = a[x]
          BY <1>0, <1>1, <4>4, <5>1 DEF Conforme
        <5>3. a[x].fichier[2] \in Nat /\ a[i].fichier[2] \in Nat
          BY <1>0, <4>4, <5>1 DEF Table
        <5> QED
          BY <5>2, <5>3
      <4>10. g \in DOMAIN D /\ D[g] = d[g]
        BY <1>3, <4>6, <4>9
      <4>11. ASSUME NEW h \in DOMAIN D, D[h][c] # Rien
             PROVE  g[1] < h[1] \/ (g[1] = h[1] /\ g[2] >= h[2])
        <5>1. CASE h[1] = 1
          BY <4>6, <5>1
        <5>2. CASE h[1] = 0
          <6>1. h \in DOMAIN d /\ D[h] = d[h]
            BY <1>3, <1>7, <1>8, <5>2
          <6>2. PICK x \in 1..Len(a) : a[x].fichier = h /\ a[x].contenu = d[h]
            BY <1>4, <5>2, <6>1
          <6>3. x <= i
            BY <4>3, <4>11, <6>1, <6>2 DEF PlusJeune
          <6>4. a[x].fichier[2] \in Nat /\ a[i].fichier[2] \in Nat
            BY <1>0, <4>4, <6>2 DEF Table
          <6>5. x < i => a[x].fichier[2] < a[i].fichier[2]
            BY <1>0, <4>4, <6>2 DEF Conforme
          <6>6. a[x].fichier[2] <= a[i].fichier[2]
            BY <4>4, <6>2, <6>3, <6>4, <6>5
          <6> QED
            BY <4>6, <5>2, <6>2, <6>4, <6>6
        <5> QED
          BY <1>4, <1>7, <1>8, <5>1, <5>2
      <4>12. D[g][c] = e /\ D[g][c] # Rien /\ D[g] # Illisible
        BY <1>11, <2>3, <4>5, <4>6, <4>10 DEF e
      <4> HIDE DEF g
      <4>13. Ls!LireDisque(D)[c] = D[g][c].valeur
        BY <1>9, <4>10, <4>11, <4>12, DisqueVaut
      <4> QED
        BY <4>12, <4>13
    <3>5. ASSUME \A f \in DOMAIN D : f[1] = 0 => D[f][c] = Rien
          PROVE  Ls!LireDisque(D)[c] = e.valeur
      <4>1. ASSUME NEW h \in DOMAIN D, D[h][c] # Rien
            PROVE  S[1] < h[1] \/ (S[1] = h[1] /\ S[2] >= h[2])
        <5>1. CASE h = S
          BY <1>0, <1>7, <5>1
        <5>2. CASE h \in DOMAIN d
          <6>1. h[1] = 1 /\ h[2] \in 1..n
            BY <1>4, <3>5, <4>1, <5>2
          <6> QED
            BY <1>0, <1>7, <6>1
        <5> QED
          BY <1>8, <5>1, <5>2
      <4>2. D[S][c] # Rien /\ D[S] # Illisible
        BY <1>11, <2>3, <3>3 DEF e
      <4>3. Ls!LireDisque(D)[c] = D[S][c].valeur
        BY <1>9, <3>3, <4>1, <4>2, DisqueVaut
      <4> QED
        BY <3>3, <4>3
    <3>6. Ls!Valeur(e) = e.valeur
      BY <2>3 DEF Ls!Valeur, e
    <3> QED
      BY <2>1, <3>4, <3>5, <3>6 DEF e
  <2> QED
    BY <2>2, <2>3
<1>13. Ls!LireDisque(D) = Ls!Lire(Ls!Vide, a, l1)
  BY <1>12, EnFonction
<1> QED
  BY <1>9, <1>10, <1>13 DEF FichiersBons, D

-----------------------------------------------------------------------------
\* The ranks of the members of a set of numbers go from 1 to its size, in order.
LEMMA RangCorrect ==
  ASSUME NEW N \in Nat, NEW T, T \subseteq 1..N
  PROVE  /\ Cardinality(T) \in Nat
         /\ \A k \in T : Cardinality({j \in T : j <= k}) \in 1..Cardinality(T)
         /\ \A k, m \in T : k < m =>
               Cardinality({j \in T : j <= k}) < Cardinality({j \in T : j <= m})
         /\ \A i \in 1..Cardinality(T) : \E k \in T : Cardinality({j \in T : j <= k}) = i
<1> DEFINE A(k) == {j \in T : j <= k}
           r(k) == Cardinality(A(k))
<1>0. T \subseteq Nat /\ T \subseteq Int /\ \A x \in T : x <= N
  OBVIOUS
<1>1. IsFiniteSet(T) /\ Cardinality(T) \in Nat
  <2>1. IsFiniteSet(1..N)
    BY FS_Interval
  <2> QED
    BY <2>1, FS_Subset, FS_CardinalityType
<1>2. \A k : IsFiniteSet(A(k)) /\ r(k) \in Nat /\ r(k) <= Cardinality(T)
  <2> SUFFICES ASSUME NEW k
               PROVE  IsFiniteSet(A(k)) /\ r(k) \in Nat /\ r(k) <= Cardinality(T)
    OBVIOUS
  <2>1. A(k) \subseteq T
    OBVIOUS
  <2> HIDE DEF A
  <2> QED
    BY <1>1, <2>1, FS_Subset, FS_CardinalityType
<1>3. ASSUME NEW m \in T
      PROVE  r(m) = Cardinality(A(m) \ {m}) + 1 /\ m \in A(m)
  <2>1. m \in A(m)
    OBVIOUS
  <2> HIDE DEF A
  <2>2. /\ IsFiniteSet(A(m) \ {m}) /\ Cardinality(A(m) \ {m}) = Cardinality(A(m)) - 1
    BY <1>2, <2>1, FS_RemoveElement
  <2> QED
    BY <1>2, <2>1, <2>2
<1>4. ASSUME NEW k \in T, NEW m \in T, k < m
      PROVE  r(k) < r(m)
  <2>1. A(k) \subseteq A(m) \ {m}
    <3>1. \A j \in T : j <= k => j <= m /\ j # m
      BY <1>0, <1>4
    <3> QED
      BY <3>1
  <2>2. IsFiniteSet(A(m) \ {m})
    BY <1>2, FS_Subset
  <2> HIDE DEF A
  <2>3. Cardinality(A(k)) <= Cardinality(A(m) \ {m}) /\ Cardinality(A(m) \ {m}) \in Nat
    BY <2>1, <2>2, FS_Subset, FS_CardinalityType
  <2> QED
    BY <1>2, <1>3, <2>3
<1>5. \A k \in T : r(k) \in 1..Cardinality(T)
  <2> SUFFICES ASSUME NEW k \in T PROVE r(k) \in 1..Cardinality(T)
    OBVIOUS
  <2>1. Cardinality(A(k) \ {k}) \in Nat
    BY <1>2, FS_Subset, FS_CardinalityType
  <2> HIDE DEF A
  <2> QED
    BY <1>1, <1>2, <1>3, <2>1
<1>6. ASSUME NEW i \in 1..Cardinality(T)
      PROVE  \E k \in T : r(k) = i
  <2> DEFINE U == {k \in T : r(k) >= i}
  <2>1. U # {}
    <3>1. T # {}
      BY <1>6, FS_EmptySet
    <3>2. PICK m \in T : \A j \in T : j <= m
      BY <1>0, <3>1, MaximumExiste
    <3>3. A(m) = T
      BY <3>2
    <3> QED
      BY <1>1, <3>3
  <2>2. U \subseteq Nat
    BY <1>0
  <2> HIDE DEF U
  <2>3. PICK k \in U : \A x \in U : k <= x
    BY <2>1, <2>2, MinimumExiste
  <2>4. k \in T /\ r(k) >= i
    BY <2>3 DEF U
  <2>5. ASSUME r(k) > i
        PROVE  FALSE
    <3> DEFINE P == A(k) \ {k}
    <3>1. Cardinality(P) + 1 = r(k) /\ Cardinality(P) \in Nat
      <4>1. IsFiniteSet(P)
        BY <1>2, FS_Subset
      <4> QED
        BY <1>3, <2>4, <4>1, FS_CardinalityType
    <3>2. Cardinality(P) >= i /\ Cardinality(P) # 0
      <4> HIDE DEF P, A
      <4> QED
        BY <1>1, <1>2, <2>5, <3>1
    <3>3. P # {}
      BY <3>2, FS_EmptySet
    <3>4. P \subseteq Nat /\ P \subseteq T /\ \A x \in P : x <= N
      BY <1>0
    <3>5. PICK m \in P : \A j \in P : j <= m
      <4> HIDE DEF P
      <4> QED
        BY <3>3, <3>4, MaximumExiste
    <3>6. m \in T /\ m < k
      BY <2>4, <3>5
    <3>7. A(m) = P
      <4>1. \A j \in A(m) : j \in P
        BY <2>4, <3>6
      <4>2. \A j \in P : j \in A(m)
        BY <3>5
      <4> QED
        BY <4>1, <4>2
    <3>8. m \in U
      BY <3>2, <3>6, <3>7 DEF U
    <3> QED
      BY <2>2, <2>3, <3>6, <3>8
  <2>6. r(k) = i
    <3> HIDE DEF A
    <3> QED
      BY <1>1, <1>2, <2>4, <2>5
  <2> QED
    BY <2>4, <2>6
<1> QED
  BY <1>1, <1>4, <1>5, <1>6

\* The cardinality of the instance is that of the library.
LEMMA CardinaliteLSM == \A T : Ls!Cardinality(T) = Cardinality(T)
BY DEF Ls!Cardinality, Cardinality

LEMMA RangChargement ==
  ASSUME NEW N \in Nat, NEW T, T \subseteq 1..N
  PROVE  /\ Ls!Cardinality(T) \in Nat
         /\ \A k \in T : Ls!Cardinality({j \in T : j <= k}) \in 1..Ls!Cardinality(T)
         /\ \A k, m \in T : k < m =>
               Ls!Cardinality({j \in T : j <= k}) < Ls!Cardinality({j \in T : j <= m})
         /\ \A i \in 1..Ls!Cardinality(T) :
               \E k \in T : Ls!Cardinality({j \in T : j <= k}) = i
<1> DEFINE r(k) == Cardinality({j \in T : j <= k})
           q(k) == Ls!Cardinality({j \in T : j <= k})
           N1 == Cardinality(T)
           N2 == Ls!Cardinality(T)
<1>1. N2 = N1 /\ \A k : q(k) = r(k)
  BY CardinaliteLSM
<1>2. /\ N1 \in Nat
      /\ \A k \in T : r(k) \in 1..N1
      /\ \A k, m \in T : k < m => r(k) < r(m)
      /\ \A i \in 1..N1 : \E k \in T : r(k) = i
  BY RangCorrect
<1> HIDE DEF r, q, N1, N2
<1>3. /\ N2 \in Nat
      /\ \A k \in T : q(k) \in 1..N2
      /\ \A k, m \in T : k < m => q(k) < q(m)
      /\ \A i \in 1..N2 : \E k \in T : q(k) = i
  BY <1>1, <1>2
<1> QED
  BY <1>3 DEF q, N2

\* The tables loaded from a level are the files of that level, by number.
LEMMA ChargerConforme ==
  ASSUME Ls!LSMAssumption, NEW d, Noms(d), \A f \in DOMAIN d : Fichier(d[f]),
         NEW n \in {0, 1}
  PROVE  /\ Ls!Charger(d, n) \in Seq(Ls!Tables)
         /\ \A i \in 1..Len(Ls!Charger(d, n)) : Table(Ls!Charger(d, n)[i], MaxSeq)
         /\ Conforme(Ls!Charger(d, n), d, n)
         /\ \A i \in 1..Len(Ls!Charger(d, n)) : Ls!Charger(d, n)[i].fichier \in DOMAIN d
<1> DEFINE noms == {f[2] : f \in {g \in DOMAIN d : g[1] = n /\ d[g] # Illisible}}
           rang(k) == Ls!Cardinality({j \in noms : j <= k})
           K(i) == CHOOSE k \in noms : rang(k) = i
           s == Ls!Charger(d, n)
<1>0. /\ MaxSeq \in Nat /\ \A f \in DOMAIN d : d[f] \in Ls!Contenus /\ SansTombe(d[f])
          /\ d[f] # Ls!Vide
      /\ Illisible \notin Ls!Contenus
  BY DEF Ls!LSMAssumption, Fichier
<1>1. \A f \in DOMAIN d : f[1] \in {0, 1} /\ f[2] \in 1..MaxSeq /\ f = <<f[1], f[2]>>
  BY DEF Noms
<1>2. /\ noms \subseteq 1..MaxSeq
      /\ \A k \in noms : <<n, k>> \in DOMAIN d
      /\ \A f \in DOMAIN d : f[1] = n => f[2] \in noms
  <2>1. noms \subseteq 1..MaxSeq
    BY <1>1
  <2>2. \A k \in noms : <<n, k>> \in DOMAIN d
    BY <1>1
  <2>3. \A f \in DOMAIN d : f[1] = n => f[2] \in noms
    BY <1>0
  <2> QED
    BY <2>1, <2>2, <2>3
<1>3. s = [i \in 1..Ls!Cardinality(noms) |->
              [fichier |-> <<n, K(i)>>, contenu |-> d[<<n, K(i)>>]]]
  BY DEF Ls!Charger
<1> HIDE DEF noms, s
<1>4. /\ Ls!Cardinality(noms) \in Nat
      /\ \A k \in noms : rang(k) \in 1..Ls!Cardinality(noms)
      /\ \A k, m \in noms : k < m => rang(k) < rang(m)
      /\ \A i \in 1..Ls!Cardinality(noms) : \E k \in noms : rang(k) = i
  BY <1>0, <1>2, RangChargement
<1> HIDE DEF rang
<1>5. \A i \in 1..Ls!Cardinality(noms) : K(i) \in noms /\ rang(K(i)) = i
  BY <1>4
<1>6. \A k \in noms : K(rang(k)) = k
  <2> SUFFICES ASSUME NEW k \in noms PROVE K(rang(k)) = k
    OBVIOUS
  <2>1. K(rang(k)) \in noms /\ rang(K(rang(k))) = rang(k)
    BY <1>4, <1>5
  <2> HIDE DEF K
  <2>2. K(rang(k)) \in 1..MaxSeq /\ k \in 1..MaxSeq /\ rang(k) \in 1..Ls!Cardinality(noms)
    BY <1>2, <1>4, <2>1
  <2>3. ~(K(rang(k)) < k) /\ ~(k < K(rang(k)))
    BY <1>4, <2>1, <2>2
  <2> QED
    BY <1>0, <2>2, <2>3
<1> HIDE DEF K
<1>7. \A i \in 1..Ls!Cardinality(noms) :
         [fichier |-> <<n, K(i)>>, contenu |-> d[<<n, K(i)>>]] \in Ls!Tables
  <2> SUFFICES ASSUME NEW i \in 1..Ls!Cardinality(noms)
               PROVE  [fichier |-> <<n, K(i)>>, contenu |-> d[<<n, K(i)>>]] \in Ls!Tables
    OBVIOUS
  <2>1. K(i) \in noms /\ <<n, K(i)>> \in DOMAIN d
    BY <1>2, <1>5
  <2>3. K(i) \in Nat /\ d[<<n, K(i)>>] \in Ls!Contenus
    <3>1. K(i) \in 1..MaxSeq
      BY <1>2, <2>1
    <3> QED
      BY <1>0, <2>1, <3>1
  <2>2. <<n, K(i)>> \in {0, 1} \X Nat
    BY <2>3
  <2> QED
    BY <2>2, <2>3 DEF Ls!Tables
<1>8. s \in Seq(Ls!Tables) /\ Len(s) = Ls!Cardinality(noms)
  <2> DEFINE y(i) == [fichier |-> <<n, K(i)>>, contenu |-> d[<<n, K(i)>>]]
             N == Ls!Cardinality(noms)
  <2>1. s = [i \in 1..N |-> y(i)] /\ N \in Nat /\ \A i \in 1..N : y(i) \in Ls!Tables
    BY <1>3, <1>4, <1>7
  <2> HIDE DEF y, N
  <2>2. s \in [1..N -> Ls!Tables]
    BY <2>1
  <2>3. s \in Seq(Ls!Tables) /\ Len(s) = N
    BY <2>1, <2>2
  <2> QED
    BY <2>3 DEF N
<1>9. \A i \in 1..Len(s) : /\ s[i].fichier = <<n, K(i)>> /\ s[i].contenu = d[<<n, K(i)>>]
                           /\ s[i].fichier[1] = n /\ s[i].fichier[2] = K(i) /\ K(i) \in noms
  BY <1>3, <1>5, <1>8
<1>10. \A i \in 1..Len(s) : Table(s[i], MaxSeq)
  <2> SUFFICES ASSUME NEW i \in 1..Len(s) PROVE Table(s[i], MaxSeq)
    OBVIOUS
  <2>1. s[i] \in Ls!Tables
    BY <1>8
  <2>2. s[i].fichier[2] \in 1..MaxSeq
    BY <1>2, <1>9
  <2>3. <<n, K(i)>> \in DOMAIN d
    BY <1>2, <1>9
  <2>4. SansTombe(s[i].contenu)
    BY <1>0, <1>9, <2>3
  <2> QED
    BY <2>1, <2>2, <2>4 DEF Table
<1>11. Conforme(s, d, n)
  <2>1. \A i \in 1..Len(s) : s[i].fichier[1] = n
    BY <1>9
  <2>2. \A i \in 1..Len(s) : s[i].fichier \in DOMAIN d /\ d[s[i].fichier] = s[i].contenu
    BY <1>2, <1>9
  <2>3. ASSUME NEW f \in DOMAIN d, f[1] = n
        PROVE  \E i \in 1..Len(s) : s[i].fichier = f /\ s[i].contenu = d[f]
    <3>1. f[2] \in noms /\ f = <<n, f[2]>>
      BY <1>1, <1>2, <2>3
    <3>2. rang(f[2]) \in 1..Len(s) /\ K(rang(f[2])) = f[2]
      BY <1>4, <1>6, <1>8, <3>1
    <3> QED
      BY <1>9, <3>1, <3>2
  <2>4. ASSUME NEW i \in 1..Len(s), NEW j \in 1..Len(s), i < j
        PROVE  s[i].fichier[2] < s[j].fichier[2]
    <3>1. K(i) \in 1..MaxSeq /\ K(j) \in 1..MaxSeq
      BY <1>2, <1>9
    <3>2. rang(K(i)) = i /\ rang(K(j)) = j
      BY <1>5, <1>8
    <3>3. K(j) < K(i) => rang(K(j)) < rang(K(i))
      BY <1>4, <1>9
    <3>4. ~(K(j) < K(i)) /\ K(i) # K(j)
      BY <1>8, <2>4, <3>2, <3>3
    <3>5. K(i) < K(j)
      BY <1>0, <3>1, <3>4
    <3> QED
      BY <1>9, <3>5
  <2> QED
    BY <2>1, <2>2, <2>3, <2>4 DEF Conforme
<1>12. \A i \in 1..Len(s) : s[i].fichier \in DOMAIN d
  BY <1>2, <1>9
<1> QED
  BY <1>8, <1>10, <1>11, <1>12 DEF s

\* Of the files that have a key one is the most recent.
LEMMA RecentExiste ==
  ASSUME Ls!LSMAssumption, NEW d, Noms(d), NEW c,
         NEW x \in DOMAIN d, d[x] # Illisible, d[x][c] # Rien
  PROVE  \E f \in DOMAIN d :
            /\ d[f] # Illisible /\ d[f][c] # Rien
            /\ \A g \in DOMAIN d : d[g] # Illisible /\ d[g][c] # Rien =>
                  f[1] < g[1] \/ (f[1] = g[1] /\ f[2] >= g[2])
<1> DEFINE A(n) == {k \in 1..MaxSeq : /\ <<n, k>> \in DOMAIN d
                                      /\ d[<<n, k>>] # Illisible /\ d[<<n, k>>][c] # Rien}
<1>0. /\ MaxSeq \in Nat
      /\ \A f \in DOMAIN d : f[1] \in {0, 1} /\ f[2] \in 1..MaxSeq /\ f = <<f[1], f[2]>>
  BY DEF Ls!LSMAssumption, Noms
<1>1. \A f \in DOMAIN d : d[f] # Illisible /\ d[f][c] # Rien => f[2] \in A(f[1])
  BY <1>0
<1>2. ASSUME NEW n \in {0, 1}, A(n) # {}, n = 1 => A(0) = {}
      PROVE  \E f \in DOMAIN d :
                /\ d[f] # Illisible /\ d[f][c] # Rien
                /\ \A g \in DOMAIN d : d[g] # Illisible /\ d[g][c] # Rien =>
                      f[1] < g[1] \/ (f[1] = g[1] /\ f[2] >= g[2])
  <2>1. A(n) \subseteq Nat /\ \A j \in A(n) : j <= MaxSeq
    BY <1>0
  <2>2. PICK k \in A(n) : \A j \in A(n) : j <= k
    <3> HIDE DEF A
    <3> QED
      BY <1>0, <1>2, <2>1, MaximumExiste
  <2>3. <<n, k>> \in DOMAIN d /\ d[<<n, k>>] # Illisible /\ d[<<n, k>>][c] # Rien
    OBVIOUS
  <2>4. k \in Nat
    BY <1>0
  <2> HIDE DEF A
  <2>5. ASSUME NEW g \in DOMAIN d, d[g] # Illisible, d[g][c] # Rien
        PROVE  n < g[1] \/ (n = g[1] /\ k >= g[2])
    <3>1. g[2] \in A(g[1]) /\ g[1] \in {0, 1} /\ g[2] \in Nat
      BY <1>0, <1>1, <2>5
    <3>2. CASE g[1] = n
      BY <2>2, <2>4, <3>1, <3>2
    <3>3. CASE g[1] # n
      BY <1>2, <3>1, <3>3
    <3> QED
      BY <3>2, <3>3
  <2>6. <<n, k>>[1] = n /\ <<n, k>>[2] = k
    OBVIOUS
  <2> QED
    BY <2>3, <2>5, <2>6
<1>3. A(0) # {} \/ A(1) # {}
  BY <1>0, <1>1
<1> QED
  <2> HIDE DEF A
  <2>1. CASE A(0) # {}
    BY <1>2, <2>1
  <2>2. CASE A(0) = {}
    BY <1>2, <1>3, <2>2
  <2> QED
    BY <2>1, <2>2

\* A new file that cannot be read changes nothing of what the files say.
LEMMA IllisibleSansEffet ==
  ASSUME Ls!LSMAssumption, NEW d, FichiersBons(d),
         NEW x \in {0, 1} \X (1..MaxSeq), x \notin DOMAIN d
  PROVE  /\ FichiersBons(Ls!Poser(d, x, Illisible))
         /\ Ls!LireDisque(Ls!Poser(d, x, Illisible)) = Ls!LireDisque(d)
         /\ \A f \in DOMAIN d : Ls!Poser(d, x, Illisible)[f] = d[f]
<1> DEFINE D == Ls!Poser(d, x, Illisible)
<1>1. /\ DOMAIN D = DOMAIN d \union {x}
      /\ \A f \in DOMAIN d : D[f] = d[f]
      /\ D[x] = Illisible
  BY DEF Ls!Poser
<1> HIDE DEF D
<1>2. Noms(d) /\ Noms(D)
  BY <1>1 DEF FichiersBons, Noms
<1>3. FichiersBons(D)
  BY <1>1, <1>2 DEF FichiersBons
<1>4. ASSUME NEW c \in Cles
      PROVE  Ls!LireDisque(D)[c] = Ls!LireDisque(d)[c]
  <2>1. ASSUME NEW y \in DOMAIN d, d[y] # Illisible, d[y][c] # Rien
        PROVE  Ls!LireDisque(D)[c] = Ls!LireDisque(d)[c]
    <3>1. PICK f \in DOMAIN d :
            /\ d[f] # Illisible /\ d[f][c] # Rien
            /\ \A g \in DOMAIN d : d[g] # Illisible /\ d[g][c] # Rien =>
                  f[1] < g[1] \/ (f[1] = g[1] /\ f[2] >= g[2])
      BY <1>2, <2>1, RecentExiste
    <3>2. Ls!LireDisque(d)[c] = d[f][c].valeur
      BY <1>2, <3>1, DisqueVaut
    <3>3. \A g \in DOMAIN D : D[g] # Illisible /\ D[g][c] # Rien =>
                  f[1] < g[1] \/ (f[1] = g[1] /\ f[2] >= g[2])
      BY <1>1, <3>1
    <3>4. f \in DOMAIN D /\ D[f] = d[f]
      BY <1>1
    <3>5. Ls!LireDisque(D)[c] = D[f][c].valeur
      BY <1>2, <3>1, <3>3, <3>4, DisqueVaut
    <3> QED
      BY <3>2, <3>4, <3>5
  <2>2. ASSUME \A g \in DOMAIN d : d[g] # Illisible => d[g][c] = Rien
        PROVE  Ls!LireDisque(D)[c] = Ls!LireDisque(d)[c]
    <3>1. \A g \in DOMAIN D : D[g] # Illisible => D[g][c] = Rien
      BY <1>1, <2>2
    <3> QED
      BY <2>2, <3>1, DisqueAbsent
  <2> QED
    BY <2>1, <2>2
<1>5. Ls!LireDisque(D) = Ls!LireDisque(d)
  <2>1. Ls!LireDisque(D) = [c \in Cles |-> Ls!LireDisque(D)[c]]
           /\ Ls!LireDisque(d) = [c \in Cles |-> Ls!LireDisque(d)[c]]
    BY DEF Ls!LireDisque
  <2> QED
    BY <1>4, <2>1, Zenon
<1> QED
  BY <1>1, <1>3, <1>5 DEF D

-----------------------------------------------------------------------------
\* The usage in which the engine keeps its promise.
UsageSain ==
    /\ "recul" \notin PermisLSM
    /\ "suite" \notin PermisLSM
    /\ "suppression" \in PermisLSM => "compaction" \notin PermisLSM

\* A step leaves the content of the files that stay.
Immuable == \A f \in DOMAIN disque \intersect DOMAIN disque' : disque'[f] = disque[f]

\* What a read returns, or would return after a restart.
Etat == IF en_marche THEN Ls!Lecture ELSE Ls!LectureDisque

\* The step is one of the store, or none.
Implemente == [Ls!Promis!Next]_(Ls!Promis!vars)

\* How a step of the engine is one of the store.
LEMMA PromisRien ==
  ASSUME Etat' = Etat, Ls!LectureDisque' = Ls!LectureDisque
  PROVE  Implemente
BY DEF Implemente, Etat, Ls!Promis!vars, Ls!Promis!transactions

\* A write, with or without a flush.
LEMMA PromisEcrire ==
  ASSUME NEW c \in Cles, NEW v \in Valeurs \union {Absent},
         Etat' = [Etat EXCEPT ![c] = v], Ls!LectureDisque' \in {Ls!LectureDisque, Etat'}
  PROVE  Implemente
<1>1. Ls!Promis!Ecrire(c, v)
  BY DEF Etat, Ls!Promis!Ecrire, Ls!Promis!transactions
<1> QED
  BY <1>1 DEF Implemente, Ls!Promis!Next

\* A flush.
LEMMA PromisSauver ==
  ASSUME Etat' = Etat, Ls!LectureDisque' = Etat
  PROVE  Implemente
<1>1. Ls!Promis!Sauver
  BY DEF Etat, Ls!Promis!Sauver, Ls!Promis!transactions
<1> QED
  BY <1>1 DEF Implemente, Ls!Promis!Next

\* The death of the process.
LEMMA PromisPanne ==
  ASSUME ~en_marche', Ls!LectureDisque' \in {Ls!LectureDisque, Etat}
  PROVE  Implemente
<1>1. Ls!Promis!Panne
  BY DEF Etat, Ls!Promis!Panne, Ls!Promis!Vierge
<1> QED
  BY <1>1 DEF Implemente, Ls!Promis!Next

\* What the invariant says of a process that runs and may flush.
LEMMA InvOuvert ==
  ASSUME Ls!LSMAssumption, InvLSM, en_marche
  PROVE  /\ Ls!TypeOK /\ SansTombe(memtable) /\ FichiersBons(disque)
         /\ Coherent(l0, l1, IF repris THEN MaxSeq ELSE seq, disque)
         /\ Ls!LectureDisque = Ls!Lire(Ls!Vide, l0, l1)
         /\ Etat = Ls!Lire(memtable, l0, l1)
<1>1. /\ Ls!TypeOK /\ SansTombe(memtable) /\ FichiersBons(disque)
      /\ Coherent(l0, l1, IF repris THEN MaxSeq ELSE seq, disque)
  BY DEF InvLSM
<1>2. Ls!LectureDisque = Ls!Lire(Ls!Vide, l0, l1)
  BY <1>1, CoherentLit DEF Ls!LectureDisque
<1> QED
  BY <1>1, <1>2 DEF Etat, Ls!Lecture

\* Coherent levels make good files and well typed memory.
LEMMA CoherentTypes ==
  ASSUME Ls!LSMAssumption, NEW a, NEW b, NEW n, NEW d, Coherent(a, b, n, d)
  PROVE  /\ a \in Seq(Ls!Tables) /\ b \in Seq(Ls!Tables) /\ n \in Nat
         /\ FichiersBons(d)
         /\ DOMAIN d \subseteq {0, 1} \X Nat
         /\ \A f \in DOMAIN d : d[f] \in Ls!Contenus \union {Illisible}
<1>1. /\ a \in Seq(Ls!Tables) /\ b \in Seq(Ls!Tables) /\ n \in 0..MaxSeq
      /\ Noms(d) /\ \A f \in DOMAIN d : Fichier(d[f])
  BY DEF Coherent
<1>2. MaxSeq \in Nat
  BY DEF Ls!LSMAssumption
<1>3. DOMAIN d \subseteq {0, 1} \X Nat
  BY <1>1, <1>2 DEF Noms
<1> QED
  BY <1>1, <1>2, <1>3 DEF FichiersBons, Fichier

\* ... and so do good files alone.
LEMMA FichiersTypes ==
  ASSUME Ls!LSMAssumption, NEW d, FichiersBons(d)
  PROVE  /\ DOMAIN d \subseteq {0, 1} \X Nat
         /\ \A f \in DOMAIN d : d[f] \in Ls!Contenus \union {Illisible}
<1>1. MaxSeq \in Nat
  BY DEF Ls!LSMAssumption
<1> QED
  BY <1>1 DEF FichiersBons, Fichier, Noms

\* A flush, with the compaction that may come with it, saves what is read and
\* changes nothing of it.
LEMMA FlushCorrect ==
  ASSUME Ls!LSMAssumption, UsageSain, NEW m, m \in Ls!Contenus, SansTombe(m),
         Coherent(l0, l1, seq, disque), Ls!Flush(m)
  PROVE  /\ memtable' = Ls!Vide /\ sequence' = 0
         /\ Coherent(l0', l1', seq', disque')
         /\ Ls!LireDisque(disque') = Ls!Lire(m, l0, l1)
         /\ Ls!Lire(Ls!Vide, l0', l1') = Ls!Lire(m, l0, l1)
         /\ Immuable
<1> DEFINE a == Append(l0, Ls!TableDe(m))
           d == Ls!Ecrit(disque, Ls!TableDe(m))
<1>1. memtable' = Ls!Vide /\ sequence' = 0 /\ seq < MaxSeq
  BY DEF Ls!Flush, Ls!PeutVider
<1>2. /\ Coherent(a, l1, seq + 1, d)
      /\ Ls!Lire(Ls!Vide, a, l1) = Ls!Lire(m, l0, l1)
      /\ \A f \in DOMAIN disque : f \in DOMAIN d /\ d[f] = disque[f]
  BY <1>1, CoherentAjoute
<1>3. \/ Ls!CompacterNiveau(a, seq + 1, d)
      \/ l0' = a /\ seq' = seq + 1 /\ disque' = d /\ l1' = l1
  BY DEF Ls!Flush
<1> HIDE DEF a, d
<1>4. ASSUME Ls!CompacterNiveau(a, seq + 1, d)
      PROVE  /\ Coherent(l0', l1', seq', disque')
             /\ Ls!Lire(Ls!Vide, l0', l1') = Ls!Lire(m, l0, l1)
             /\ Immuable
  <2>1. seq + 1 < MaxSeq /\ Ls!EnOrdre(a)
    BY <1>4 DEF Ls!CompacterNiveau, Ls!PeutCompacter, UsageSain
  <2>2. /\ l0' = <<>> /\ l1' = <<Ls!Sortie(a, seq + 1)>> /\ seq' = seq + 1 + 1
        /\ disque' = Ls!Restants(a, seq + 1, d, Len(Ls!Entrants(a)))
    BY <1>4 DEF Ls!CompacterNiveau
  <2>3. /\ Coherent(<<>>, <<Ls!Sortie(a, seq + 1)>>, seq + 1 + 1, Ls!Restants(a, seq + 1, d,
            Len(Ls!Entrants(a))))
        /\ \A x : Ls!Lire(x, <<>>, <<Ls!Sortie(a, seq + 1)>>) = Ls!Lire(x, a, l1)
    BY <1>2, <2>1, CoherentFusionne
  <2>4. Coherent(l0', l1', seq', disque')
    BY <2>2, <2>3
  <2>5. Ls!Lire(Ls!Vide, l0', l1') = Ls!Lire(m, l0, l1)
    BY <1>2, <2>2, <2>3
  <2>6. Len(Ls!Entrants(a)) \in 0..Len(Ls!Entrants(a))
    BY <1>2, EntrantsCorrect
  <2>7. /\ <<1, seq + 1 + 1>> \notin DOMAIN d
        /\ \A f \in DOMAIN disque' : f # <<1, seq + 1 + 1>> => disque'[f] = d[f]
    BY <1>2, <2>2, <2>6, RestantsCorrect
  <2>8. Immuable
    BY <1>2, <2>7 DEF Immuable
  <2> QED
    BY <2>4, <2>5, <2>8
<1>5. ASSUME l0' = a, seq' = seq + 1, disque' = d, l1' = l1
      PROVE  /\ Coherent(l0', l1', seq', disque')
             /\ Ls!Lire(Ls!Vide, l0', l1') = Ls!Lire(m, l0, l1)
             /\ Immuable
  <2>1. Coherent(l0', l1', seq', disque')
    BY <1>2, <1>5
  <2>2. Ls!Lire(Ls!Vide, l0', l1') = Ls!Lire(m, l0, l1)
    BY <1>2, <1>5
  <2>3. Immuable
    BY <1>2, <1>5 DEF Immuable
  <2> QED
    BY <2>1, <2>2, <2>3
<1>6. /\ Coherent(l0', l1', seq', disque')
      /\ Ls!Lire(Ls!Vide, l0', l1') = Ls!Lire(m, l0, l1)
      /\ Immuable
  BY <1>3, <1>4, <1>5
<1>7. Ls!LireDisque(disque') = Ls!Lire(Ls!Vide, l0', l1')
  BY <1>6, CoherentLit
<1> QED
  BY <1>1, <1>6, <1>7

\* What the invariant asks of the state after a step, while the process runs.
LEMMA InvMarche ==
  ASSUME Ls!LSMAssumption, en_marche', repris' \in BOOLEAN,
         memtable' \in Ls!Contenus, SansTombe(memtable'), sequence' \in Nat, seq' \in Nat,
         Coherent(l0', l1', IF repris' THEN MaxSeq ELSE seq', disque'),
         en_marche' \in BOOLEAN
  PROVE  InvLSM' /\ Etat' = Ls!Lire(memtable', l0', l1')
         /\ Ls!LectureDisque' = Ls!Lire(Ls!Vide, l0', l1')
<1>1. /\ l0' \in Seq(Ls!Tables) /\ l1' \in Seq(Ls!Tables) /\ FichiersBons(disque')
      /\ DOMAIN disque' \subseteq {0, 1} \X Nat
      /\ \A f \in DOMAIN disque' : disque'[f] \in Ls!Contenus \union {Illisible}
  BY CoherentTypes
<1>2. Ls!LireDisque(disque') = Ls!Lire(Ls!Vide, l0', l1')
  BY CoherentLit
<1>3. Ls!TypeOK'
  BY <1>1 DEF Ls!TypeOK
<1>4. Ls!LectureDisque' = Ls!Lire(Ls!Vide, l0', l1')
  BY <1>2 DEF Ls!LectureDisque
<1>5. Etat' = Ls!Lire(memtable', l0', l1')
  BY DEF Etat, Ls!Lecture
<1>6. InvLSM'
  BY <1>1, <1>3 DEF InvLSM
<1> QED
  BY <1>4, <1>5, <1>6

\* ... and once it has stopped.
LEMMA InvArret ==
  ASSUME Ls!LSMAssumption, InvLSM, Ls!Arret, FichiersBons(disque')
  PROVE  InvLSM' /\ ~en_marche'
<1>1. /\ en_marche' = FALSE /\ repris' = FALSE /\ memtable' = Ls!Vide /\ sequence' = 0
      /\ l0' = <<>> /\ l1' = <<>> /\ seq' = 0
  BY DEF Ls!Arret
<1>2. Ls!Vide \in Ls!Contenus /\ SansTombe(Ls!Vide)
  BY DEF Ls!Vide, Ls!Contenus, SansTombe, Vivant
<1>3. /\ DOMAIN disque' \subseteq {0, 1} \X Nat
      /\ \A f \in DOMAIN disque' : disque'[f] \in Ls!Contenus \union {Illisible}
  BY FichiersTypes
<1>4. <<>> \in Seq(Ls!Tables)
  OBVIOUS
<1>5. Ls!TypeOK'
  BY <1>1, <1>2, <1>3, <1>4 DEF Ls!TypeOK
<1>6. SansTombe(memtable')
  BY <1>1, <1>2
<1> QED
  BY <1>1, <1>5, <1>6 DEF InvLSM

\* A write shows under its key and nowhere else.
LEMMA InsererCorrect ==
  ASSUME Ls!LSMAssumption, memtable \in Ls!Contenus, sequence \in Nat, SansTombe(memtable),
         NEW c \in Cles, NEW v \in Valeurs \union {Absent},
         v = Absent => "suppression" \in PermisLSM
  PROVE  /\ Ls!Inserer(c, v) \in Ls!Contenus /\ SansTombe(Ls!Inserer(c, v))
         /\ \A a, b : Ls!Lire(Ls!Inserer(c, v), a, b) = [Ls!Lire(memtable, a,
             b) EXCEPT ![c] = v]
<1> DEFINE e == [valeur |-> v, seq |-> sequence + 1]
           m == Ls!Inserer(c, v)
<1>1. e \in Ls!Entrees /\ e # Rien /\ e.valeur = v
  BY DEF Ls!Entrees, Ls!LSMAssumption
<1> HIDE DEF e
<1>2. m = [memtable EXCEPT ![c] = e]
  BY DEF Ls!Inserer, e
<1> HIDE DEF m
<1>3. m \in Ls!Contenus /\ m[c] = e /\ \A x \in Cles : x # c => m[x] = memtable[x]
  BY <1>1, <1>2 DEF Ls!Contenus
<1>4. SansTombe(m)
  BY <1>1, <1>3 DEF SansTombe, Vivant
<1>5. ASSUME NEW a, NEW b
      PROVE  Ls!Lire(m, a, b) = [Ls!Lire(memtable, a, b) EXCEPT ![c] = v]
  <2>1. Ls!Valeur(e) = v
    BY <1>1 DEF Ls!Valeur
  <2> DEFINE y(x) == Ls!Valeur(IF memtable[x] # Rien THEN memtable[x] ELSE Ls!LireNiveaux(a,
         b, x))
             z(x) == Ls!Valeur(IF m[x] # Rien THEN m[x] ELSE Ls!LireNiveaux(a, b, x))
  <2>2. z(c) = v
    BY <1>1, <1>3, <2>1
  <2>3. \A x \in Cles : x # c => z(x) = y(x)
    BY <1>3
  <2>4. Ls!Lire(m, a, b) = [x \in Cles |-> z(x)] /\ Ls!Lire(memtable, a,
           b) = [x \in Cles |-> y(x)]
    BY DEF Ls!Lire
  <2> HIDE DEF y, z
  <2> QED
    BY <2>2, <2>3, <2>4
<1> QED
  BY <1>3, <1>4, <1>5 DEF m

-----------------------------------------------------------------------------
\* Each action keeps the invariant, is a step of the store and leaves the files as they are.
Sain == InvLSM' /\ Implemente /\ Immuable

LEMMA RetenirSain ==
  ASSUME Ls!LSMAssumption, InvLSM, en_marche, NEW c \in Cles, NEW v \in Valeurs \union {Absent},
         v = Absent => "suppression" \in PermisLSM,
         Ls!Retenir(c, v), UNCHANGED <<en_marche, repris>>
  PROVE  Sain
<1>1. /\ memtable' = Ls!Inserer(c, v) /\ sequence' = sequence + 1
      /\ l0' = l0 /\ l1' = l1 /\ seq' = seq /\ disque' = disque
      /\ en_marche' = en_marche /\ repris' = repris
  BY DEF Ls!Retenir, Ls!niveaux
<1>2. /\ Ls!TypeOK /\ SansTombe(memtable)
      /\ Coherent(l0, l1, IF repris THEN MaxSeq ELSE seq, disque)
      /\ Ls!LectureDisque = Ls!Lire(Ls!Vide, l0, l1) /\ Etat = Ls!Lire(memtable, l0, l1)
  BY InvOuvert
<1>3. memtable \in Ls!Contenus /\ sequence \in Nat /\ seq \in Nat /\ repris \in BOOLEAN
         /\ en_marche \in BOOLEAN
  BY <1>2 DEF Ls!TypeOK
<1>4. /\ Ls!Inserer(c, v) \in Ls!Contenus /\ SansTombe(Ls!Inserer(c, v))
      /\ Ls!Lire(Ls!Inserer(c, v), l0, l1) = [Ls!Lire(memtable, l0, l1) EXCEPT ![c] = v]
  BY <1>2, <1>3, InsererCorrect
<1>5. /\ memtable' \in Ls!Contenus /\ SansTombe(memtable') /\ sequence' \in Nat /\ seq' \in Nat
      /\ repris' \in BOOLEAN /\ en_marche' /\ en_marche' \in BOOLEAN
      /\ Coherent(l0', l1', IF repris' THEN MaxSeq ELSE seq', disque')
  BY <1>1, <1>2, <1>3, <1>4
<1>6. InvLSM' /\ Etat' = Ls!Lire(memtable', l0', l1') /\ Ls!LectureDisque' = Ls!Lire(Ls!Vide,
         l0', l1')
  BY <1>5, InvMarche
<1>7. Etat' = [Etat EXCEPT ![c] = v] /\ Ls!LectureDisque' = Ls!LectureDisque
  BY <1>1, <1>2, <1>4, <1>6
<1>8. Implemente
  BY <1>7, PromisEcrire
<1> QED
  BY <1>1, <1>6, <1>8 DEF Sain, Immuable

\* A flush of the entries m: reads and files say what the levels said with m before them.
LEMMA FlushSain ==
  ASSUME Ls!LSMAssumption, UsageSain, InvLSM, en_marche, NEW m, m \in Ls!Contenus, SansTombe(m),
         Ls!Flush(m), UNCHANGED <<en_marche, repris>>
  PROVE  /\ InvLSM' /\ Immuable
         /\ Etat' = Ls!Lire(m, l0, l1) /\ Ls!LectureDisque' = Ls!Lire(m, l0, l1)
<1>1. repris = FALSE /\ repris' = FALSE /\ en_marche' = en_marche
  <2>1. ~repris
    BY DEF Ls!Flush, Ls!PeutVider, UsageSain
  <2> QED
    BY <2>1, InvOuvert DEF Ls!TypeOK
<1>2. Coherent(l0, l1, seq, disque) /\ en_marche \in BOOLEAN
  BY <1>1, InvOuvert DEF Ls!TypeOK
<1>3. /\ memtable' = Ls!Vide /\ sequence' = 0
      /\ Coherent(l0', l1', seq', disque')
      /\ Ls!LireDisque(disque') = Ls!Lire(m, l0, l1)
      /\ Ls!Lire(Ls!Vide, l0', l1') = Ls!Lire(m, l0, l1)
      /\ Immuable
  BY <1>2, FlushCorrect
<1>4. Ls!Vide \in Ls!Contenus /\ SansTombe(Ls!Vide)
  BY DEF Ls!Vide, Ls!Contenus, SansTombe, Vivant
<1>5. seq' \in Nat
  BY <1>3, CoherentTypes
<1>6. /\ memtable' \in Ls!Contenus /\ SansTombe(memtable') /\ sequence' \in Nat /\ seq' \in Nat
      /\ repris' \in BOOLEAN /\ en_marche' /\ en_marche' \in BOOLEAN
      /\ Coherent(l0', l1', IF repris' THEN MaxSeq ELSE seq', disque')
  <2>1. memtable' \in Ls!Contenus /\ SansTombe(memtable')
    BY <1>3, <1>4
  <2>2. Coherent(l0', l1', IF repris' THEN MaxSeq ELSE seq', disque')
    BY <1>1, <1>3
  <2>3. repris' \in BOOLEAN /\ en_marche' /\ en_marche' \in BOOLEAN
    <3>1. en_marche = TRUE
      BY <1>2
    <3> QED
      BY <1>1, <3>1
  <2> QED
    BY <1>3, <1>5, <2>1, <2>2, <2>3
<1>7. InvLSM' /\ Etat' = Ls!Lire(memtable', l0', l1') /\ Ls!LectureDisque' = Ls!Lire(Ls!Vide,
         l0', l1')
  BY <1>6, InvMarche
<1> QED
  BY <1>3, <1>7

\* ecrire, with the flush and the compaction that may come with it.
LEMMA EcrireSain ==
  ASSUME Ls!LSMAssumption, UsageSain, InvLSM, NEW c \in Cles, NEW v \in Valeurs, Ls!Ecrire(c, v)
  PROVE  Sain
<1>1. en_marche /\ v # Absent /\ UNCHANGED <<en_marche, repris>>
  BY DEF Ls!Ecrire, Ls!PeutEcrire, Ls!LSMAssumption
<1>2. CASE Ls!Retenir(c, v)
  BY <1>1, <1>2, RetenirSain
<1>3. CASE Ls!Flush(Ls!Inserer(c, v))
  <2>1. /\ Ls!TypeOK /\ SansTombe(memtable) /\ Etat = Ls!Lire(memtable, l0, l1)
    BY <1>1, InvOuvert
  <2>2. memtable \in Ls!Contenus /\ sequence \in Nat
    BY <2>1 DEF Ls!TypeOK
  <2>3. /\ Ls!Inserer(c, v) \in Ls!Contenus /\ SansTombe(Ls!Inserer(c, v))
        /\ Ls!Lire(Ls!Inserer(c, v), l0, l1) = [Ls!Lire(memtable, l0, l1) EXCEPT ![c] = v]
    BY <1>1, <2>1, <2>2, InsererCorrect
  <2>4. /\ InvLSM' /\ Immuable
        /\ Etat' = Ls!Lire(Ls!Inserer(c, v), l0, l1)
            /\ Ls!LectureDisque' = Ls!Lire(Ls!Inserer(c, v), l0, l1)
    BY <1>1, <1>3, <2>3, FlushSain
  <2>5. Etat' = [Etat EXCEPT ![c] = v] /\ Ls!LectureDisque' = Etat'
    BY <2>1, <2>3, <2>4
  <2>6. Implemente
    BY <2>5, PromisEcrire
  <2> QED
    BY <2>4, <2>6 DEF Sain
<1> QED
  BY <1>2, <1>3 DEF Ls!Ecrire

\* supprimer.
LEMMA SupprimerSain ==
  ASSUME Ls!LSMAssumption, InvLSM, NEW c \in Cles, Ls!Supprimer(c)
  PROVE  Sain
<1>1. /\ en_marche /\ "suppression" \in PermisLSM /\ UNCHANGED <<en_marche, repris>>
      /\ Ls!Retenir(c, Absent)
  BY DEF Ls!Supprimer, Ls!PeutEcrire
<1> QED
  BY <1>1, RetenirSain

\* flush.
LEMMA ViderSain ==
  ASSUME Ls!LSMAssumption, UsageSain, InvLSM, Ls!Vider
  PROVE  Sain
<1>1. en_marche /\ Ls!Flush(memtable) /\ UNCHANGED <<en_marche, repris>>
  BY DEF Ls!Vider
<1>2. /\ Ls!TypeOK /\ SansTombe(memtable) /\ Etat = Ls!Lire(memtable, l0, l1)
  BY <1>1, InvOuvert
<1>3. memtable \in Ls!Contenus
  BY <1>2 DEF Ls!TypeOK
<1>4. /\ InvLSM' /\ Immuable
      /\ Etat' = Ls!Lire(memtable, l0, l1) /\ Ls!LectureDisque' = Ls!Lire(memtable, l0, l1)
  BY <1>1, <1>2, <1>3, FlushSain
<1>5. Implemente
  BY <1>2, <1>4, PromisSauver
<1> QED
  BY <1>4, <1>5 DEF Sain

\* A compaction between writes shows to nobody.
LEMMA CompacterSain ==
  ASSUME Ls!LSMAssumption, UsageSain, InvLSM, Ls!CompacterL0
  PROVE  Sain
<1>1. /\ en_marche /\ Ls!CompacterNiveau(l0, seq, disque) /\ ~repris
      /\ en_marche' = en_marche /\ repris' = repris /\ memtable' = memtable
          /\ sequence' = sequence
  BY DEF Ls!CompacterL0, UsageSain
<1>2. /\ Ls!TypeOK /\ SansTombe(memtable) /\ Etat = Ls!Lire(memtable, l0, l1)
      /\ Ls!LectureDisque = Ls!Lire(Ls!Vide, l0, l1) /\ Coherent(l0, l1, seq, disque)
  BY <1>1, InvOuvert
<1>3. memtable \in Ls!Contenus /\ sequence \in Nat /\ repris \in BOOLEAN
         /\ en_marche \in BOOLEAN
  BY <1>2 DEF Ls!TypeOK
<1>4. seq < MaxSeq /\ Ls!EnOrdre(l0)
  BY <1>1 DEF Ls!CompacterNiveau, Ls!PeutCompacter, UsageSain
<1>5. /\ l0' = <<>> /\ l1' = <<Ls!Sortie(l0, seq)>> /\ seq' = seq + 1
      /\ disque' = Ls!Restants(l0, seq, disque, Len(Ls!Entrants(l0)))
  BY <1>1 DEF Ls!CompacterNiveau
<1>6. /\ Coherent(<<>>, <<Ls!Sortie(l0, seq)>>, seq + 1, Ls!Restants(l0, seq, disque,
          Len(Ls!Entrants(l0))))
      /\ \A x : Ls!Lire(x, <<>>, <<Ls!Sortie(l0, seq)>>) = Ls!Lire(x, l0, l1)
  BY <1>2, <1>4, CoherentFusionne
<1>7. /\ Coherent(l0', l1', seq', disque')
      /\ Ls!Lire(Ls!Vide, l0', l1') = Ls!Lire(Ls!Vide, l0, l1)
      /\ Ls!Lire(memtable', l0', l1') = Ls!Lire(memtable, l0, l1)
  BY <1>1, <1>5, <1>6
<1>8. seq' \in Nat
  BY <1>7, CoherentTypes
<1>9. /\ memtable' \in Ls!Contenus /\ SansTombe(memtable') /\ sequence' \in Nat /\ seq' \in Nat
      /\ repris' \in BOOLEAN /\ en_marche' /\ en_marche' \in BOOLEAN
      /\ Coherent(l0', l1', IF repris' THEN MaxSeq ELSE seq', disque')
  BY <1>1, <1>2, <1>3, <1>7, <1>8
<1>10. InvLSM' /\ Etat' = Ls!Lire(memtable', l0', l1') /\ Ls!LectureDisque' = Ls!Lire(Ls!Vide,
          l0', l1')
  BY <1>9, InvMarche
<1>11. Implemente
  BY <1>2, <1>7, <1>10, PromisRien
<1>12. Len(Ls!Entrants(l0)) \in 0..Len(Ls!Entrants(l0))
  BY <1>2, EntrantsCorrect
<1>13. /\ <<1, seq + 1>> \notin DOMAIN disque
       /\ \A f \in DOMAIN disque' : f # <<1, seq + 1>> => disque'[f] = disque[f]
  BY <1>2, <1>5, <1>12, RestantsCorrect
<1>14. Immuable
  BY <1>13 DEF Immuable
<1> QED
  BY <1>10, <1>11, <1>14 DEF Sain

\* A crash between operations.
LEMMA CrashSain ==
  ASSUME Ls!LSMAssumption, InvLSM, Ls!Crash
  PROVE  Sain
<1>1. Ls!Arret /\ disque' = disque /\ FichiersBons(disque')
  BY DEF Ls!Crash, InvLSM
<1>2. InvLSM' /\ ~en_marche'
  BY <1>1, InvArret
<1>3. Ls!LectureDisque' = Ls!LectureDisque
  BY <1>1 DEF Ls!LectureDisque
<1>4. Implemente
  BY <1>2, <1>3, PromisPanne
<1> QED
  BY <1>1, <1>2, <1>4 DEF Sain, Immuable

\* What a flush may be called with reads as the engine does, but for the write
\* that called it.
LEMMA AViderLit ==
  ASSUME Ls!LSMAssumption, InvLSM, en_marche, NEW m \in Ls!AVider
  PROVE  /\ m \in Ls!Contenus /\ SansTombe(m)
         /\ \/ Ls!Lire(m, l0, l1) = Etat
            \/ \E c \in Cles, v \in Valeurs : Ls!Lire(m, l0, l1) = [Etat EXCEPT ![c] = v]
<1>1. /\ Ls!TypeOK /\ SansTombe(memtable) /\ Etat = Ls!Lire(memtable, l0, l1)
  BY InvOuvert
<1>2. memtable \in Ls!Contenus /\ sequence \in Nat
  BY <1>1 DEF Ls!TypeOK
<1>3. CASE m = memtable
  BY <1>1, <1>2, <1>3
<1>4. ASSUME NEW c \in Cles, NEW v \in Valeurs, m = Ls!Inserer(c, v)
      PROVE  /\ m \in Ls!Contenus /\ SansTombe(m)
             /\ Ls!Lire(m, l0, l1) = [Etat EXCEPT ![c] = v]
  <2>1. v # Absent
    BY DEF Ls!LSMAssumption
  <2> QED
    BY <1>1, <1>2, <1>4, <2>1, InsererCorrect
<1>5. m = memtable \/ \E c \in Cles, v \in Valeurs : m = Ls!Inserer(c, v)
  BY DEF Ls!AVider
<1> QED
  BY <1>3, <1>4, <1>5

\* A crash that keeps what the files said, or saves the flush it interrupts, is a
\* crash of the store, or the write that called the flush.
LEMMA PanneSaine ==
  ASSUME Ls!LSMAssumption, InvLSM, en_marche, ~en_marche',
         \/ Ls!LectureDisque' = Ls!LectureDisque
         \/ \E m \in Ls!AVider : Ls!LectureDisque' = Ls!Lire(m, l0, l1)
  PROVE  Implemente
<1>1. CASE Ls!LectureDisque' = Ls!LectureDisque
  BY <1>1, PromisPanne
<1>2. ASSUME NEW m \in Ls!AVider, Ls!LectureDisque' = Ls!Lire(m, l0, l1)
      PROVE  Implemente
  <2>1. Etat' = Ls!LectureDisque'
    BY DEF Etat
  <2>2. CASE Ls!Lire(m, l0, l1) = Etat
    BY <1>2, <2>2, PromisPanne
  <2>3. ASSUME NEW c \in Cles, NEW v \in Valeurs, Ls!Lire(m, l0, l1) = [Etat EXCEPT ![c] = v]
        PROVE  Implemente
    BY <1>2, <2>1, <2>3, PromisEcrire
  <2> QED
    BY <2>2, <2>3, AViderLit
<1> QED
  BY <1>1, <1>2

\* The file of a flush, complete.
LEMMA FlushEcrit ==
  ASSUME Ls!LSMAssumption, InvLSM, en_marche, ~repris, seq < MaxSeq, NEW m \in Ls!AVider,
         NEW a, a = Append(l0, Ls!TableDe(m)), NEW d, d = Ls!Ecrit(disque, Ls!TableDe(m))
  PROVE  /\ Coherent(a, l1, seq + 1, d)
         /\ Ls!LireDisque(d) = Ls!Lire(m, l0, l1)
         /\ Ls!Lire(Ls!Vide, a, l1) = Ls!Lire(m, l0, l1)
         /\ \A f \in DOMAIN disque : f \in DOMAIN d /\ d[f] = disque[f]
<1>1. Coherent(l0, l1, seq, disque) /\ m \in Ls!Contenus /\ SansTombe(m)
  BY InvOuvert, AViderLit
<1>2. /\ Coherent(a, l1, seq + 1, d)
      /\ Ls!Lire(Ls!Vide, a, l1) = Ls!Lire(m, l0, l1)
      /\ \A f \in DOMAIN disque : f \in DOMAIN d /\ d[f] = disque[f]
  BY <1>1, CoherentAjoute
<1>3. Ls!LireDisque(d) = Ls!Lire(Ls!Vide, a, l1)
  BY <1>2, CoherentLit
<1> QED
  BY <1>2, <1>3

\* Whatever a compaction has removed, the files say what the tables said.
LEMMA CrashCompactionSain ==
  ASSUME Ls!LSMAssumption, UsageSain, InvLSM, Ls!CrashCompaction
  PROVE  Sain
<1>1. Ls!Arret /\ en_marche /\ ~repris /\ "suppression" \notin PermisLSM
  BY DEF Ls!CrashCompaction, Ls!Arret, UsageSain
<1>2. /\ Ls!LectureDisque = Ls!Lire(Ls!Vide, l0, l1) /\ Coherent(l0, l1, seq, disque)
      /\ seq \in Nat /\ MaxSeq \in Nat
  BY <1>1, InvOuvert DEF Ls!TypeOK, Ls!LSMAssumption
<1>3. ASSUME NEW a, NEW n \in Nat, NEW d, Coherent(a, l1, n, d),
             Ls!CompactionCoupee(a, n, d)
      PROVE  /\ n < MaxSeq
             /\ FichiersBons(disque') /\ Ls!LireDisque(disque') = Ls!Lire(Ls!Vide, a, l1)
             /\ <<1, n + 1>> \notin DOMAIN d
             /\ \A f \in DOMAIN disque' : f # <<1, n + 1>> => disque'[f] = d[f]
  <2>1. n < MaxSeq /\ Ls!EnOrdre(a)
    BY <1>3 DEF Ls!CompactionCoupee, Ls!PeutCompacter, UsageSain
  <2>2. PICK k \in 0..Len(Ls!Entrants(a)) : disque' = Ls!Restants(a, n, d, k)
    BY <1>3 DEF Ls!CompactionCoupee
  <2>3. FichiersBons(disque') /\ Ls!LireDisque(disque') = Ls!Lire(Ls!Vide, a, l1)
    BY <1>1, <1>3, <2>1, <2>2, RestantsLit
  <2>4. /\ <<1, n + 1>> \notin DOMAIN d
        /\ \A f \in DOMAIN disque' : f # <<1, n + 1>> => disque'[f] = d[f]
    <3> DEFINE D == Ls!Restants(a, n, d, k)
    <3>1. Coherent(a, l1, n, d)
      BY <1>3
    <3>2. /\ <<1, n + 1>> \notin DOMAIN d
          /\ \A f \in DOMAIN D : f # <<1, n + 1>> => D[f] = d[f]
      BY <2>2, <3>1, RestantsCorrect
    <3> HIDE DEF D
    <3>3. disque' = D
      BY <2>2 DEF D
    <3> QED
      BY <3>2, <3>3
  <2> QED
    BY <2>1, <2>3, <2>4
<1>4. CASE Ls!CompactionCoupee(l0, seq, disque)
  <2>1. /\ FichiersBons(disque') /\ Ls!LectureDisque' = Ls!LectureDisque
        /\ <<1, seq + 1>> \notin DOMAIN disque
        /\ \A f \in DOMAIN disque' : f # <<1, seq + 1>> => disque'[f] = disque[f]
    BY <1>2, <1>3, <1>4 DEF Ls!LectureDisque
  <2>2. Immuable
    BY <2>1 DEF Immuable
  <2>3. InvLSM' /\ ~en_marche'
    BY <1>1, <2>1, InvArret
  <2>4. Implemente
    BY <1>1, <2>1, <2>3, PanneSaine
  <2> QED
    BY <2>2, <2>3, <2>4 DEF Sain
<1>5. ASSUME NEW m \in Ls!AVider,
             Ls!CompactionCoupee(Append(l0, Ls!TableDe(m)), seq + 1,
                                 Ls!Ecrit(disque, Ls!TableDe(m)))
      PROVE  Sain
  <2> DEFINE a == Append(l0, Ls!TableDe(m))
             d == Ls!Ecrit(disque, Ls!TableDe(m))
  <2>1. seq < MaxSeq
    <3>1. seq + 1 < MaxSeq
      BY <1>5 DEF Ls!CompactionCoupee, Ls!PeutCompacter
    <3> QED
      BY <1>2, <3>1
  <2>2. Ls!CompactionCoupee(a, seq + 1, d)
    BY <1>5
  <2>3. /\ Coherent(a, l1, seq + 1, d)
        /\ Ls!Lire(Ls!Vide, a, l1) = Ls!Lire(m, l0, l1)
        /\ \A f \in DOMAIN disque : f \in DOMAIN d /\ d[f] = disque[f]
    BY <1>1, <2>1, FlushEcrit
  <2> HIDE DEF a, d
  <2>4. seq + 1 \in Nat
    BY <1>2
  <2>5. /\ FichiersBons(disque') /\ Ls!LectureDisque' = Ls!Lire(m, l0, l1)
        /\ <<1, seq + 1 + 1>> \notin DOMAIN d
        /\ \A f \in DOMAIN disque' : f # <<1, seq + 1 + 1>> => disque'[f] = d[f]
    BY <1>3, <2>2, <2>3, <2>4 DEF Ls!LectureDisque
  <2>6. Immuable
    BY <2>3, <2>5 DEF Immuable
  <2>7. InvLSM' /\ ~en_marche'
    BY <1>1, <2>5, InvArret
  <2>8. Implemente
    BY <1>1, <2>5, <2>7, PanneSaine
  <2> QED
    BY <2>6, <2>7, <2>8 DEF Sain
<1> QED
  BY <1>4, <1>5 DEF Ls!CrashCompaction

\* A partly written file is a new one: what it was to hold is still in the
\* files before it, or lost with the MemTable.
LEMMA CrashFichierSain ==
  ASSUME Ls!LSMAssumption, UsageSain, InvLSM, Ls!CrashFichier
  PROVE  Sain
<1>1. Ls!Arret /\ en_marche /\ ~repris /\ seq < MaxSeq
  BY DEF Ls!CrashFichier, Ls!Arret, Ls!PeutVider, UsageSain
<1>2. /\ FichiersBons(disque) /\ Coherent(l0, l1, seq, disque)
      /\ seq \in Nat /\ MaxSeq \in Nat
  BY <1>1, InvOuvert DEF Ls!TypeOK, Ls!LSMAssumption
<1>3. ASSUME NEW a, NEW k \in Nat, NEW d, Coherent(a, l1, k, d), k < MaxSeq,
             NEW n \in {0, 1}, disque' = Ls!Poser(d, <<n, k + 1>>, Illisible)
      PROVE  /\ FichiersBons(disque') /\ Ls!LireDisque(disque') = Ls!LireDisque(d)
             /\ <<n, k + 1>> \notin DOMAIN d
             /\ \A f \in DOMAIN d : f \in DOMAIN disque' /\ disque'[f] = d[f]
  <2>1. <<n, k + 1>> \in {0, 1} \X (1..MaxSeq)
    BY <1>2, <1>3
  <2>2. <<n, k + 1>> \notin DOMAIN d
    <3>1. \A f \in DOMAIN d : f[2] \in 1..k
      BY <1>3, FichierEntrant
    <3> QED
      BY <1>3, <3>1
  <2>3. FichiersBons(d)
    BY <1>3, CoherentTypes
  <2> QED
    BY <1>3, <2>1, <2>2, <2>3, IllisibleSansEffet DEF Ls!Poser
<1>4. ASSUME NEW n \in {0, 1}, disque' = Ls!Poser(disque, <<n, seq + 1>>, Illisible)
      PROVE  Sain
  <2>1. /\ FichiersBons(disque') /\ Ls!LectureDisque' = Ls!LectureDisque
        /\ <<n, seq + 1>> \notin DOMAIN disque
        /\ \A f \in DOMAIN disque : disque'[f] = disque[f]
    BY <1>1, <1>2, <1>3, <1>4 DEF Ls!LectureDisque
  <2>2. Immuable
    BY <2>1 DEF Immuable
  <2>3. InvLSM' /\ ~en_marche'
    BY <1>1, <2>1, InvArret
  <2>4. Implemente
    BY <1>1, <2>1, <2>3, PanneSaine
  <2> QED
    BY <2>2, <2>3, <2>4 DEF Sain
<1>5. ASSUME NEW m \in Ls!AVider, Ls!FlushCoupe(m)
      PROVE  Sain
  <2> DEFINE a == Append(l0, Ls!TableDe(m))
             d == Ls!Ecrit(disque, Ls!TableDe(m))
  <2>1. /\ Coherent(a, l1, seq + 1, d)
        /\ Ls!LireDisque(d) = Ls!Lire(m, l0, l1)
        /\ \A f \in DOMAIN disque : f \in DOMAIN d /\ d[f] = disque[f]
    BY <1>1, FlushEcrit
  <2>2. \/ disque' = Ls!Poser(disque, <<0, seq + 1>>, Illisible)
        \/ disque' = d
        \/ Ls!PeutCompacter(a, seq + 1) /\ disque' = Ls!Poser(d, <<1, seq + 2>>, Illisible)
    BY <1>5 DEF Ls!FlushCoupe
  <2> HIDE DEF a, d
  <2>3. CASE disque' = Ls!Poser(disque, <<0, seq + 1>>, Illisible)
    BY <1>4, <2>3
  <2>4. ASSUME FichiersBons(disque'), Ls!LireDisque(disque') = Ls!Lire(m, l0, l1),
               \A f \in DOMAIN disque : disque'[f] = disque[f]
        PROVE  Sain
    <3>1. InvLSM' /\ ~en_marche'
      BY <1>1, <2>4, InvArret
    <3>2. Ls!LectureDisque' = Ls!Lire(m, l0, l1)
      BY <2>4 DEF Ls!LectureDisque
    <3>3. Implemente
      BY <1>1, <3>1, <3>2, PanneSaine
    <3> QED
      BY <2>4, <3>1, <3>3 DEF Sain, Immuable
  <2>5. CASE disque' = d
    <3>1. FichiersBons(disque')
      BY <2>1, <2>5, CoherentTypes
    <3> QED
      BY <2>1, <2>4, <2>5, <3>1
  <2>6. CASE Ls!PeutCompacter(a, seq + 1) /\ disque' = Ls!Poser(d, <<1, seq + 2>>, Illisible)
    <3>1. seq + 1 < MaxSeq /\ seq + 1 \in Nat /\ seq + 2 = seq + 1 + 1
      BY <1>2, <2>6 DEF Ls!PeutCompacter
    <3>2. disque' = Ls!Poser(d, <<1, seq + 1 + 1>>, Illisible)
      BY <2>6, <3>1
    <3>3. /\ FichiersBons(disque') /\ Ls!LireDisque(disque') = Ls!LireDisque(d)
          /\ \A f \in DOMAIN d : f \in DOMAIN disque' /\ disque'[f] = d[f]
      BY <1>3, <2>1, <3>1, <3>2
    <3>4. \A f \in DOMAIN disque : disque'[f] = disque[f]
      BY <2>1, <3>3
    <3> QED
      BY <2>1, <2>4, <3>3, <3>4
  <2> QED
    BY <2>2, <2>3, <2>5, <2>6
<1> QED
  BY <1>4, <1>5 DEF Ls!CrashFichier

\* A restart reads what the files say.
LEMMA RedemarrerSain ==
  ASSUME Ls!LSMAssumption, InvLSM, Ls!Redemarrer
  PROVE  Sain
<1>1. /\ ~en_marche /\ en_marche' = TRUE /\ repris' = (disque # [f \in {} |-> Ls!Vide])
      /\ \A f \in DOMAIN disque : disque[f] # Illisible
      /\ l0' = Ls!Charger(disque, 0) /\ l1' = Ls!Charger(disque, 1)
      /\ memtable' = memtable /\ sequence' = sequence /\ seq' = seq /\ disque' = disque
  BY DEF Ls!Redemarrer
<1>2. /\ Ls!TypeOK /\ SansTombe(memtable) /\ FichiersBons(disque)
      /\ memtable = Ls!Vide /\ seq = 0
  BY <1>1 DEF InvLSM
<1>3. Noms(disque) /\ \A f \in DOMAIN disque : Fichier(disque[f])
  BY <1>1, <1>2 DEF FichiersBons
<1>4. \A n \in {0, 1} :
        /\ Ls!Charger(disque, n) \in Seq(Ls!Tables)
        /\ \A i \in 1..Len(Ls!Charger(disque, n)) : Table(Ls!Charger(disque, n)[i], MaxSeq)
        /\ Conforme(Ls!Charger(disque, n), disque, n)
        /\ \A i \in 1..Len(Ls!Charger(disque, n)) : Ls!Charger(disque,
            n)[i].fichier \in DOMAIN disque
  BY <1>3, ChargerConforme
<1>5. MaxSeq \in 0..MaxSeq /\ 0 \in 0..MaxSeq
  BY DEF Ls!LSMAssumption
<1>6. Coherent(l0', l1', MaxSeq, disque')
  BY <1>1, <1>3, <1>4, <1>5 DEF Coherent
<1>7. ASSUME ~repris'
      PROVE  Coherent(l0', l1', seq', disque')
  <2>1. DOMAIN disque = {}
    BY <1>1, <1>7
  <2>2. \A n \in {0, 1} : \A i \in 1..Len(Ls!Charger(disque, n)) : FALSE
    BY <1>4, <2>1
  <2> QED
    BY <1>1, <1>2, <1>3, <1>4, <1>5, <2>2 DEF Coherent
<1>8. Coherent(l0', l1', IF repris' THEN MaxSeq ELSE seq', disque')
  BY <1>6, <1>7
<1>9. /\ memtable' \in Ls!Contenus /\ SansTombe(memtable') /\ sequence' \in Nat /\ seq' \in Nat
      /\ repris' \in BOOLEAN /\ en_marche' /\ en_marche' \in BOOLEAN
  BY <1>1, <1>2 DEF Ls!TypeOK
<1>10. InvLSM' /\ Etat' = Ls!Lire(memtable', l0', l1') /\ Ls!LectureDisque' = Ls!Lire(Ls!Vide,
          l0', l1')
  BY <1>8, <1>9, InvMarche
<1>11. Ls!LectureDisque' = Ls!LectureDisque /\ Etat = Ls!LectureDisque
  BY <1>1 DEF Ls!LectureDisque, Etat
<1>12. Implemente
  BY <1>1, <1>2, <1>10, <1>11, PromisRien
<1> QED
  BY <1>1, <1>10, <1>12 DEF Sain, Immuable

-----------------------------------------------------------------------------
\* The engine starts empty, as the store does.
LEMMA InitSain == Ls!LSMAssumption /\ Ls!Init => InvLSM /\ Ls!Promis!Init
<1> SUFFICES ASSUME Ls!LSMAssumption, Ls!Init PROVE InvLSM /\ Ls!Promis!Init
  OBVIOUS
<1>1. /\ en_marche = TRUE /\ repris = FALSE /\ memtable = Ls!Vide /\ sequence = 0
      /\ l0 = <<>> /\ l1 = <<>> /\ seq = 0 /\ disque = [f \in {} |-> Ls!Vide]
  BY DEF Ls!Init
<1>2. DOMAIN disque = {} /\ <<>> \in Seq(Ls!Tables) /\ Len(<<>>) = 0
  BY <1>1
<1>3. Ls!Vide \in Ls!Contenus /\ SansTombe(Ls!Vide)
  BY DEF Ls!Vide, Ls!Contenus, SansTombe, Vivant
<1>4. 0 \in 0..MaxSeq
  BY DEF Ls!LSMAssumption
<1>5. Noms(disque) /\ FichiersBons(disque)
  BY <1>2 DEF Noms, FichiersBons
<1>6. Conforme(<<>>, disque, 0) /\ Conforme(<<>>, disque, 1)
  BY <1>2 DEF Conforme
<1>7. Coherent(<<>>, <<>>, 0, disque)
  BY <1>2, <1>4, <1>5, <1>6 DEF Coherent
<1>8. Ls!TypeOK
  BY <1>1, <1>2, <1>3 DEF Ls!TypeOK
<1>9. InvLSM
  BY <1>1, <1>3, <1>5, <1>7, <1>8 DEF InvLSM
<1>10. \A c \in Cles : Ls!LectureDisque[c] = Absent
  BY <1>2, DisqueAbsent DEF Ls!LectureDisque
<1>11. Ls!LectureDisque = [c \in Cles |-> Ls!LectureDisque[c]]
  BY DEF Ls!LectureDisque, Ls!LireDisque
<1>12. Ls!LectureDisque = [c \in Cles |-> Absent]
  BY <1>10, <1>11
<1>13. Etat = Ls!LectureDisque
  BY <1>1, <1>9, InvOuvert
<1>14. Ls!Promis!Init
  BY <1>12, <1>13 DEF Etat, Ls!Promis!Init, Ls!Promis!Vierge
<1> QED
  BY <1>9, <1>14

\* Every step keeps the invariant, is a step of the store and leaves the files as they are.
LEMMA PasSain ==
  ASSUME Ls!LSMAssumption, UsageSain, InvLSM, [Ls!Next]_Ls!vars
  PROVE  Sain
<1>1. CASE Ls!Next
  BY <1>1, EcrireSain, SupprimerSain, ViderSain, CompacterSain, CrashSain,
     CrashCompactionSain, CrashFichierSain, RedemarrerSain DEF Ls!Next
<1>2. CASE UNCHANGED Ls!vars
  <2>1. InvLSM'
    BY <1>2 DEF Ls!vars, Ls!niveaux, InvLSM, Ls!TypeOK
  <2>2. Etat' = Etat /\ Ls!LectureDisque' = Ls!LectureDisque
    BY <1>2 DEF Ls!vars, Ls!niveaux, Etat, Ls!Lecture, Ls!LectureDisque
  <2>3. Implemente
    BY <2>2, PromisRien
  <2> QED
    BY <1>2, <2>1, <2>3 DEF Sain, Immuable, Ls!vars, Ls!niveaux
<1> QED
  BY <1>1, <1>2

\* The invariant holds in every reachable state.
LEMMA InvariantLSM ==
  ASSUME Ls!LSMAssumption, UsageSain
  PROVE  Ls!Spec => []InvLSM
<1>1. Ls!Init => InvLSM
  BY InitSain
<1>2. InvLSM /\ [Ls!Next]_Ls!vars => InvLSM'
  BY PasSain DEF Sain
<1> QED
  BY <1>1, <1>2, PTL DEF Ls!Spec

\* The engine implements the key-value store: a read returns the last value written, a
\* flush or a compaction does not show, and a crash, inside a flush or a compaction too,
\* goes back to the last flush.
THEOREM ImplementeCorrect ==
  ASSUME Ls!LSMAssumption, UsageSain
  PROVE  Ls!Spec => Ls!ImplementeMagasin
<1>1. Ls!Init => Ls!Promis!Init
  BY InitSain
<1>2. InvLSM /\ [Ls!Next]_Ls!vars => [Ls!Promis!Next]_(Ls!Promis!vars)
  BY PasSain DEF Sain, Implemente
<1> QED
  BY <1>1, <1>2, InvariantLSM, PTL DEF Ls!Spec, Ls!ImplementeMagasin, Ls!Promis!Spec

\* A file keeps its content until a compaction removes it: no name is given twice.
THEOREM ImmuableCorrect ==
  ASSUME Ls!LSMAssumption, UsageSain
  PROVE  Ls!Spec => Ls!SSTableImmuable
<1>1. InvLSM /\ [Ls!Next]_Ls!vars =>
        [\A f \in DOMAIN disque \intersect DOMAIN disque' : disque'[f] = disque[f]]_Ls!vars
  BY PasSain DEF Sain, Immuable
<1> QED
  BY <1>1, InvariantLSM, PTL DEF Ls!Spec, Ls!SSTableImmuable

\* The files are the tables the engine reads, each under its own name.
THEOREM MemoireCorrect ==
  ASSUME Ls!LSMAssumption, UsageSain
  PROVE  Ls!Spec => []Ls!MemoireEgaleDisque
<1>1. ASSUME InvLSM, en_marche
      PROVE  LET pleines == {t \in Ls!Range(l0 \o l1) : t.contenu # Ls!Vide}
             IN  /\ DOMAIN disque = {t.fichier : t \in pleines}
                 /\ \A t \in pleines : disque[t.fichier] = t.contenu
  <2> DEFINE s == l0 \o l1
  <2>1. PICK n : Coherent(l0, l1, n, disque)
    BY <1>1 DEF InvLSM
  <2>2. /\ Conforme(l0, disque, 0) /\ Conforme(l1, disque, 1)
        /\ \A f \in DOMAIN disque : disque[f] # Ls!Vide
    BY <2>1 DEF Coherent, Fichier
  <2>3. /\ s \in Seq(Ls!Tables)
        /\ \A i \in 1..Len(s) : \/ i \in 1..Len(l0) /\ s[i] = l0[i]
                                \/ \E j \in 1..Len(l1) : i = Len(l0) + j /\ s[i] = l1[j]
    BY <2>1, EntrantsCorrect DEF Ls!Entrants
  <2>4. \A f \in DOMAIN disque : \E i \in 1..Len(s) : s[i].fichier = f
           /\ s[i].contenu = disque[f]
    BY <2>1, FichierEntrant DEF Ls!Entrants
  <2> HIDE DEF s
  <2>5. Ls!Range(s) = {s[i] : i \in 1..Len(s)}
    BY <2>3 DEF Ls!Range
  <2>6. ASSUME NEW t \in Ls!Range(s), t.contenu # Ls!Vide
        PROVE  t.fichier \in DOMAIN disque /\ disque[t.fichier] = t.contenu
    <3>1. PICK i \in 1..Len(s) : t = s[i]
      BY <2>5
    <3>2. CASE i \in 1..Len(l0) /\ s[i] = l0[i]
      BY <2>2, <2>6, <3>1, <3>2 DEF Conforme
    <3>3. ASSUME NEW j \in 1..Len(l1), s[i] = l1[j]
          PROVE  t.fichier \in DOMAIN disque /\ disque[t.fichier] = t.contenu
      BY <2>2, <2>6, <3>1, <3>3 DEF Conforme
    <3> QED
      BY <2>3, <3>2, <3>3
  <2>7. \A f \in DOMAIN disque : \E t \in Ls!Range(s) : t.contenu # Ls!Vide /\ t.fichier = f
    BY <2>2, <2>4, <2>5
  <2> QED
    BY <2>6, <2>7 DEF s
<1>2. InvLSM => Ls!MemoireEgaleDisque
  BY <1>1 DEF Ls!MemoireEgaleDisque
<1> QED
  BY <1>2, InvariantLSM, PTL

\* The memory of the engine and its files are typed.
THEOREM TypeCorrectLSM ==
  ASSUME Ls!LSMAssumption, UsageSain
  PROVE  Ls!Spec => []Ls!TypeOK
<1>1. InvLSM => Ls!TypeOK
  BY DEF InvLSM
<1> QED
  BY <1>1, InvariantLSM, PTL
=============================================================================
