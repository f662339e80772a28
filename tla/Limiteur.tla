------------------------------ MODULE Limiteur ------------------------------
(***************************************************************************)
(* The four algorithms of jour22-rate-limiting/rate_limiter.py, each as    *)
(* the state one limiter keeps and what one call of autoriser does to it.  *)
(*                                                                         *)
(* autoriser runs under the limiter's lock.  Time is a clock of ticks;     *)
(* levels of buckets are counted in parts, so many to a token, and a tick  *)
(* refills or leaks a whole number of them.  A bucket that                 *)
(* RateLimiterMultiTenant has not made yet is a full one.                  *)
(***************************************************************************)
EXTENDS Integers, Sequences, FiniteSets

CONSTANTS limite,       \* of a window, and the capacity of the buckets
          fenetre,      \* ticks
          Parts,        \* of a token
          parts_par_tick,
          Couts,        \* what a call of the token bucket may cost
          MaxTicks,     \* bound on the clock
          MaxAdmis      \* bound: admissions recorded

\* What the constants are.
LimiteurAssumption ==
    /\ {limite, fenetre, Parts, parts_par_tick, MaxTicks, MaxAdmis} \subseteq Nat \ {0}
    /\ Couts \subseteq 1..limite

Algorithmes == {"fixed_window", "sliding_log", "token_bucket", "leaky_bucket"}

VARIABLES
    algo,
    maintenant,
    compte,    \* _count, and _jetons or _file in parts
    repere,    \* _debut, _derniere_maj, _dernier
    horodates, \* SlidingWindowLog._log
    admis      \* history: the instants of admissions, once for every token

varsLimiteur == <<algo, maintenant, compte, repere, horodates, admis>>

Init ==
    /\ algo \in Algorithmes
    /\ maintenant = 0
    /\ compte = IF algo = "token_bucket" THEN limite * Parts ELSE 0
    /\ repere = 0
    /\ horodates = <<>>
    /\ admis = <<>>

\* Time passes, up to what tells states apart.
Avancer ==
    /\ maintenant < MaxTicks
    /\ maintenant' = maintenant + 1
    /\ UNCHANGED <<algo, compte, repere, horodates, admis>>

Admettre(n) == admis' = admis \o [i \in 1..n |-> maintenant]
Rejeter == UNCHANGED admis

-----------------------------------------------------------------------------
\* now - _debut >= fenetre_s
Nouvelle == maintenant - repere >= fenetre

\* The first call after the end of the window starts the next one.
Repartir == compte' = 1 /\ repere' = maintenant

FixedWindow ==
    /\ algo = "fixed_window"
    /\ \/ Nouvelle /\ Repartir /\ Admettre(1)
       \/ /\ ~Nouvelle /\ compte < limite
          /\ compte' = compte + 1
          /\ Admettre(1) /\ UNCHANGED repere
       \/ ~Nouvelle /\ compte >= limite /\ Rejeter /\ UNCHANGED <<compte, repere>>
    /\ UNCHANGED horodates

\* Mutant: instants leave the log one tick early.
DansFenetre_Decalee(t) == t > maintenant - fenetre + 1

\* What stays when the head of _log is dropped while it is <= seuil.
DansFenetre(t) == t > maintenant - fenetre

SlidingWindowLog ==
    LET restants == SelectSeq(horodates, DansFenetre) IN
    /\ algo = "sliding_log"
    /\ IF Len(restants) < limite
         THEN horodates' = Append(restants, maintenant) /\ Admettre(1)
         ELSE horodates' = restants /\ Rejeter
    /\ UNCHANGED <<compte, repere>>

Plafond(a, b) == IF a < b THEN a ELSE b
Plancher(a, b) == IF a > b THEN a ELSE b

\* _recharger
Rechargees == Plafond(limite * Parts, compte + (maintenant - repere) * parts_par_tick)

TokenBucket(cout) ==
    /\ algo = "token_bucket"
    /\ repere' = maintenant
    /\ IF Rechargees >= cout * Parts
         THEN compte' = Rechargees - cout * Parts /\ Admettre(cout)
         ELSE compte' = Rechargees /\ Rejeter
    /\ UNCHANGED horodates

Restantes == Plancher(0, compte - (maintenant - repere) * parts_par_tick)

\* The queue takes a call while it is not full, be it by less than one.
LeakyBucket ==
    /\ algo = "leaky_bucket"
    /\ repere' = maintenant
    /\ IF Restantes < limite * Parts
         THEN compte' = Restantes + Parts /\ Admettre(1)
         ELSE compte' = Restantes /\ Rejeter
    /\ UNCHANGED horodates

Autoriser ==
    /\ Len(admis) < MaxAdmis
    /\ FixedWindow \/ SlidingWindowLog \/ (\E c \in Couts : TokenBucket(c)) \/ LeakyBucket
    /\ UNCHANGED <<algo, maintenant>>

Next == Avancer \/ Autoriser

Spec == Init /\ [][Next]_varsLimiteur

-----------------------------------------------------------------------------
\* Type correctness.
TypeOK ==
    /\ algo \in Algorithmes
    /\ maintenant \in 0..MaxTicks /\ repere \in 0..maintenant
    /\ compte \in 0..(limite + 1) * Parts
    /\ Len(horodates) <= limite
    /\ \A i \in DOMAIN admis : admis[i] \in 0..maintenant

\* Admissions in the ticks from a to b.
Admissions(a, b) == Cardinality({i \in DOMAIN admis : admis[i] \in a..b})

\* "Aucun burst possible": no window of the sliding log, wherever it begins, has
\* more than the limit; "2x limite ... en bordure" is the worst of fixed ones.
BorneParFenetre == \A a \in 0..maintenant :
    /\ algo = "sliding_log" => Admissions(a, a + fenetre - 1) <= limite
    /\ algo = "fixed_window" => Admissions(a, a + fenetre - 1) <= 2 * limite

\* "Bursts jusqu'a C, debit moyen <= R": from any tick to any other a bucket
\* admits at most its capacity and what time brings, the leaky one less than
\* one call more.
BorneParDebit == \A a, b \in 0..maintenant : a <= b =>
    LET permis == limite * Parts + (b - a) * parts_par_tick IN
    /\ algo = "token_bucket" => Admissions(a, b) * Parts <= permis
    /\ algo = "leaky_bucket" => Admissions(a, b) * Parts < permis + Parts
=============================================================================
