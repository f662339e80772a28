--------------------------- MODULE CompteBancaire ---------------------------
(***************************************************************************)
(* What the event-sourced account of jour19-event-sourcing promises its    *)
(* users: commands on the account are atomic, no debit exceeds the balance *)
(* and a suspended account does not move.                                  *)
(***************************************************************************)
EXTENDS Integers

CONSTANTS Montants, Soldes

VARIABLES neuf, solde, suspendu

compte == <<neuf, solde, suspendu>>

Init == neuf = TRUE /\ solde = 0 /\ suspendu = FALSE

Ouvrir ==
    /\ neuf = TRUE
    /\ solde' \in Soldes
    /\ neuf' = FALSE
    /\ UNCHANGED suspendu

\* Neither command asks that the account be open.
Debiter(m) ==
    /\ suspendu = FALSE /\ solde >= m
    /\ solde' = solde - m
    /\ neuf' = FALSE
    /\ UNCHANGED suspendu

Crediter(m) ==
    /\ suspendu = FALSE
    /\ solde' = solde + m
    /\ neuf' = FALSE
    /\ UNCHANGED suspendu

Suspendre == suspendu = FALSE /\ suspendu' = TRUE /\ neuf' = FALSE /\ UNCHANGED solde
Reactiver == suspendu = TRUE /\ suspendu' = FALSE /\ neuf' = FALSE /\ UNCHANGED solde

Next == Ouvrir \/ Suspendre \/ Reactiver \/ \E m \in Montants : Debiter(m) \/ Crediter(m)

Spec == Init /\ [][Next]_compte
=============================================================================
