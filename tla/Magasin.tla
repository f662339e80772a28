------------------------------ MODULE Magasin -------------------------------
(***************************************************************************)
(* What a client of a storage engine is promised: a read returns the last  *)
(* value written under the key, and a crash (Panne) goes back to what is   *)
(* saved and no further.                                                   *)
(*                                                                         *)
(* MoteurStockage (jour24-wal/wal.py) has transactions: a commit takes     *)
(* effect at once and for good, and a crash only forgets those that are    *)
(* open.  MoteurLSM (jour25-lsm/lsm.py) has none (Tx = {}) and writes at   *)
(* once; whatever it does with its tables, a flush saves everything.       *)
(***************************************************************************)
CONSTANTS Cles, Valeurs, Tx,
          Absent,       \* no value under the key, or a deleted one
          Inchangee     \* the transaction has not written the key

VARIABLES etat,         \* what a read returns: the committed values
          sauve,        \* what a crash goes back to
          en_cours,     \* the open transactions
          tampon        \* what each of them has written

vars == <<etat, sauve, en_cours, tampon>>
transactions == <<en_cours, tampon>>

Vierge == [c \in Cles |-> Inchangee]

\* The values after the writes e of a transaction.
Appliquer(valeurs, e) ==
    [c \in Cles |-> IF e[c] = Inchangee THEN valeurs[c] ELSE e[c]]

Init ==
    /\ etat = [c \in Cles |-> Absent]
    /\ sauve = etat
    /\ en_cours = {}
    /\ tampon = [t \in Tx |-> Vierge]

\* A write outside transactions, with which a flush may come.
Ecrire(c, v) ==
    /\ Tx = {}
    /\ etat' = [etat EXCEPT ![c] = v]
    /\ sauve' \in {sauve, etat'}
    /\ UNCHANGED transactions

Sauver == sauve' = etat /\ UNCHANGED <<etat, transactions>>

Begin(t) ==
    /\ en_cours' = en_cours \union {t}
    /\ tampon' = [tampon EXCEPT ![t] = Vierge]
    /\ UNCHANGED <<etat, sauve>>

\* ecrire, and supprimer when v is Absent.
EcrireDans(t, c, v) ==
    /\ t \in en_cours
    /\ tampon' = [tampon EXCEPT ![t][c] = v]
    /\ UNCHANGED <<etat, sauve, en_cours>>

Terminer(t) ==
    /\ t \in en_cours
    /\ en_cours' = en_cours \ {t}
    /\ tampon' = [tampon EXCEPT ![t] = Vierge]

Commit(t) == Terminer(t) /\ etat' = Appliquer(etat, tampon[t]) /\ sauve' = etat'

Abort(t) == Terminer(t) /\ UNCHANGED <<etat, sauve>>

\* The flush that a crash interrupts took place or did not.
Panne ==
    /\ sauve' \in {sauve, etat}
    /\ etat' = sauve'
    /\ en_cours' = {}
    /\ tampon' = [t \in Tx |-> Vierge]

Next ==
    \/ \E c \in Cles, v \in Valeurs \union {Absent} : Ecrire(c, v)
    \/ Sauver
    \/ \E t \in Tx : Begin(t) \/ Commit(t) \/ Abort(t)
    \/ \E t \in Tx, c \in Cles, v \in Valeurs \union {Absent} : EcrireDans(t, c, v)
    \/ Panne

Spec == Init /\ [][Next]_vars
=============================================================================
