-------------------------------- MODULE WAL ---------------------------------
(***************************************************************************)
(* The storage engine of jour24-wal/wal.py: WAL, Checkpoint and            *)
(* MoteurStockage.  MoteurStockage._lock serialises the operations, each   *)
(* of which writes at most one entry (written, flushed and fsynced before  *)
(* the memory changes), so an operation is one action and a crash inside   *)
(* it shows on disk as the entry, nothing, or a torn entry.                *)
(*                                                                         *)
(* The disk is wal, the entries in the order of the file, and ckpt.        *)
(* valeur_avant is written but never read; reading an entry stops at the   *)
(* first one whose length or CRC is wrong (Dechiree), as does lire_tout.   *)
(*                                                                         *)
(* Permis says how the engine is used and what can befall the file:        *)
(*   "ckpt_ouvert"  checkpoint() while a transaction is open               *)
(*   "meme_cle"     two open transactions write the same key               *)
(*   "reprise_id"   a transaction id is begun more than once               *)
(*   "dechirure"    a crash can leave a partly written entry               *)
(*   "suite"        the engine writes again on a file with such an entry   *)
(* The code rules out none of them.                                        *)
(***************************************************************************)
EXTENDS Integers, Sequences

CONSTANTS Cles, Valeurs, Tx,
          Absent,       \* the key is not in the dictionary
          Inchangee,    \* the key is not in the transaction's dictionary
          Systeme,      \* the tx_id "system" of a CHECKPOINT entry
          Aucun,        \* no usable checkpoint file, no key in an entry
          Permis,
          MaxWal        \* bound: the entries ever written

Contenus == Valeurs \union {Absent}
Etats    == [Cles -> Contenus]

\* What the constants are.
WALAssumption ==
    /\ Absent \notin Valeurs
    /\ Inchangee \notin Valeurs \union {Absent}
    /\ Systeme \notin Tx
    /\ Aucun \notin Cles \union [lsn : Nat, etat : Etats]
    /\ MaxWal \in Nat

VARIABLES
    actif,          \* the process runs
    donnees,        \* MoteurStockage._donnees
    en_cours,       \* the keys of _tx_en_cours
    tampon,         \* its values
    suivant,        \* WAL._lsn, the next number
    wal,            \* wal.log
    ckpt            \* checkpoint.json

memoire == <<actif, donnees, en_cours, tampon, suivant>>
vars == <<memoire, wal, ckpt>>

\* An entry; lsn 0 marks one that was torn by a crash.
Entree(lsn, type, tx, cle, valeur) ==
    [lsn |-> lsn, type |-> type, tx |-> tx, cle |-> cle, valeur |-> valeur]
Dechiree == Entree(0, "DECHIREE", Systeme, Aucun, Absent)

Vide   == [c \in Cles |-> Absent]
Vierge == [c \in Cles |-> Inchangee]

-----------------------------------------------------------------------------
\* lire_tout: the entries before the first one that does not decode.
Lisibles(w) == {i \in 1..Len(w) : \A j \in 1..i : w[j].type # "DECHIREE"}

\* _dernier_lsn.
DernierLsn(w) ==
    IF Lisibles(w) = {} THEN 0
    ELSE LET i == CHOOSE i \in Lisibles(w) : i + 1 \notin Lisibles(w)
         IN  w[i].lsn

\* _recovery: lsn_debut.
DebutRejeu(k) == IF k = Aucun THEN 0 ELSE k.lsn + 1

Rejouees(w, k) == {i \in Lisibles(w) : w[i].lsn >= DebutRejeu(k)}

\* Mutant: the replay forgets to look for COMMIT entries.
TxCommitees_Toutes(w, k) == {w[i].tx : i \in Rejouees(w, k)}

TxCommitees(w, k) == {w[i].tx : i \in {j \in Rejouees(w, k) :
                                          w[j].type = "COMMIT"}}

\* The WRITE and DELETE entries of key c that the redo loop applies.
Redo(w, k, c) ==
    {i \in Rejouees(w, k) :
       /\ w[i].type \in {"WRITE", "DELETE"}
       /\ w[i].cle = c
       /\ w[i].tx \in TxCommitees(w, k)}

\* _donnees after _recovery: the loop runs in the order of the file, so the
\* last entry of a key wins; a key with none keeps the checkpoint's value.
Recovery(w, k) ==
    [c \in Cles |->
       LET r == Redo(w, k, c)
       IN  IF r # {}
           THEN w[CHOOSE i \in r : \A j \in r : j <= i].valeur
           ELSE IF k = Aucun THEN Absent ELSE k.etat[c]]

-----------------------------------------------------------------------------
Init ==
    /\ actif = TRUE
    /\ donnees = Vide
    /\ en_cours = {}
    /\ tampon = [t \in Tx |-> Vierge]
    /\ suivant = 1
    /\ wal = <<>>
    /\ ckpt = Aucun

PeutEcrire ==
    /\ Len(wal) < MaxWal
    /\ Dechiree \in {wal[i] : i \in 1..Len(wal)} => "suite" \in Permis

\* WAL.ecrire.
Journaliser(type, tx, cle, valeur) ==
    /\ PeutEcrire
    /\ wal' = Append(wal, Entree(suivant, type, tx, cle, valeur))
    /\ suivant' = suivant + 1

DejaOuverte(t) == \E i \in 1..Len(wal) : wal[i].tx = t

Begin(t) ==
    /\ actif
    /\ DejaOuverte(t) => "reprise_id" \in Permis
    /\ en_cours' = en_cours \union {t}
    /\ tampon' = [tampon EXCEPT ![t] = Vierge]
    /\ Journaliser("BEGIN", t, Aucun, Absent)
    /\ UNCHANGED <<actif, donnees, ckpt>>

Libre(c, t) == \A u \in en_cours \ {t} : tampon[u][c] = Inchangee

\* ecrire and supprimer: a deletion is the value Absent.
Ecrire(t, c, v) ==
    /\ actif /\ t \in en_cours
    /\ ~Libre(c, t) => "meme_cle" \in Permis
    /\ tampon' = [tampon EXCEPT ![t][c] = v]
    /\ Journaliser(IF v = Absent THEN "DELETE" ELSE "WRITE", t, c, v)
    /\ UNCHANGED <<actif, donnees, en_cours, ckpt>>

\* Mutant: commit leaves deleted keys in memory.
Appliquer_SansPop(valeurs, e) ==
    [c \in Cles |-> IF e[c] \in {Inchangee, Absent} THEN valeurs[c] ELSE e[c]]

\* The loop of commit over the transaction's dictionary.
Appliquer(valeurs, e) ==
    [c \in Cles |-> IF e[c] = Inchangee THEN valeurs[c] ELSE e[c]]

Fermer(t) ==
    /\ en_cours' = en_cours \ {t}
    /\ tampon' = [tampon EXCEPT ![t] = Vierge]

Commit(t) ==
    /\ actif /\ t \in en_cours
    /\ Journaliser("COMMIT", t, Aucun, Absent)
    /\ donnees' = Appliquer(donnees, tampon[t])
    /\ Fermer(t)
    /\ UNCHANGED <<actif, ckpt>>

Abort(t) ==
    /\ actif /\ t \in en_cours
    /\ Journaliser("ABORT", t, Aucun, Absent)
    /\ Fermer(t)
    /\ UNCHANGED <<actif, donnees, ckpt>>

\* Checkpoint.sauvegarder: the state and the number of the last entry.
Instantane == [lsn |-> suivant - 1, etat |-> donnees]

PeutCheckpoint == actif /\ (en_cours # {} => "ckpt_ouvert" \in Permis)

Checkpoint ==
    /\ PeutCheckpoint
    /\ ckpt' = Instantane
    /\ Journaliser("CHECKPOINT", Systeme, Aucun, Absent)
    /\ UNCHANGED <<actif, donnees, en_cours, tampon>>

-----------------------------------------------------------------------------
\* The process dies and its memory with it.
Arret ==
    /\ actif
    /\ actif' = FALSE
    /\ donnees' = Vide
    /\ en_cours' = {}
    /\ tampon' = [t \in Tx |-> Vierge]
    /\ suivant' = 0

\* The checkpoint file is never synced: it may be lost, and charger then
\* finds no JSON in it.
Crash == Arret /\ ckpt' \in {ckpt, Aucun} /\ UNCHANGED wal

\* Between the checkpoint file and the CHECKPOINT entry.
CrashCheckpoint ==
    /\ PeutCheckpoint
    /\ Arret
    /\ ckpt' = Instantane
    /\ UNCHANGED wal

\* In the write of an entry.
CrashEcriture ==
    /\ "dechirure" \in Permis
    /\ PeutEcrire
    /\ Arret
    /\ wal' = Append(wal, Dechiree)
    /\ UNCHANGED ckpt

\* Mutant: _ouvrir takes the last number for the next one.
Reprise_MemeLsn(w) == DernierLsn(w)

\* _ouvrir: the next number.
Reprise(w) == DernierLsn(w) + 1

Redemarrer ==
    /\ ~actif
    /\ actif' = TRUE
    /\ donnees' = Recovery(wal, ckpt)
    /\ suivant' = Reprise(wal)
    /\ UNCHANGED <<en_cours, tampon, wal, ckpt>>

Next ==
    \/ \E t \in Tx : Begin(t) \/ Commit(t) \/ Abort(t)
    \/ \E t \in Tx, c \in Cles, v \in Contenus : Ecrire(t, c, v)
    \/ Checkpoint
    \/ Crash \/ CrashCheckpoint \/ CrashEcriture
    \/ Redemarrer

Spec == Init /\ [][Next]_vars

-----------------------------------------------------------------------------
Entrees ==
    [lsn : Nat,
     type : {"BEGIN", "WRITE", "DELETE", "COMMIT", "ABORT", "CHECKPOINT",
             "DECHIREE"},
     tx : Tx \union {Systeme}, cle : Cles \union {Aucun}, valeur : Contenus]

\* Type correctness of the engine's memory and of its two files.
TypeOK ==
    /\ actif \in BOOLEAN
    /\ donnees \in Etats
    /\ en_cours \subseteq Tx
    /\ tampon \in [Tx -> [Cles -> Contenus \union {Inchangee}]]
    /\ suivant \in Nat
    /\ wal \in Seq(Entrees)
    /\ ckpt \in [lsn : Nat, etat : Etats] \union {Aucun}

\* "Crash = rejouer le WAL -> etat coherent garanti": at every instant the
\* files alone determine the committed state in memory, so whenever the
\* process dies the recovery finds every committed transaction, each whole,
\* and nothing of the others.
RecuperationFidele == actif => Recovery(wal, ckpt) = donnees

\* "Sequence : chaque entree a un LSN monotone": the numbers of the file grow
\* across restarts, and the next one is above all of them.  The recovery
\* compares them with the checkpoint's.
LsnMonotone ==
    /\ \A i, j \in 1..Len(wal) :
          /\ i < j
          /\ Dechiree \notin {wal[i], wal[j]}
          => wal[i].lsn < wal[j].lsn
    /\ actif => \A i \in 1..Len(wal) : wal[i].lsn < suivant

\* The engine implements the durable store: when it is down, the committed
\* state is what the recovery will find.
Promis == INSTANCE Magasin
            WITH etat  <- IF actif THEN donnees ELSE Recovery(wal, ckpt),
                 sauve <- IF actif THEN donnees ELSE Recovery(wal, ckpt)

ImplementeMagasin == Promis!Spec
=============================================================================
