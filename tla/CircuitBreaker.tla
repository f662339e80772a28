--------------------------- MODULE CircuitBreaker ---------------------------
(***************************************************************************)
(* The circuit breaker of jour21-circuit-breaker/circuit_breaker.py.       *)
(*                                                                         *)
(* A call is two critical sections with the service in between; whether it *)
(* is answered, fails or times out, its thread records one result, under   *)
(* the state it saw when it began.  _sondes_envoyees is written and never  *)
(* read, and is left out.  Permis:                                         *)
(*   "concurrence"   calls overlap                                         *)
(*   "operateur"     forcer_ouverture(), reinitialiser()                   *)
(***************************************************************************)
EXTENDS Integers, Sequences, FiniteSets, TLAPS

CONSTANTS Appelants,        \* the threads that call the service
          taille_fenetre, min_requetes,
          seuil_echec_pct,
          nb_sondes,
          Permis

\* What the constants are.
CircuitAssumption ==
    /\ taille_fenetre \in Nat \ {0} /\ min_requetes \in Nat
    /\ seuil_echec_pct \in 0..100
    /\ nb_sondes \in Nat \ {0}

VARIABLES
    etat,           \* _etat
    ecoule,         \* timeout_ouvert_s has passed since _ts_ouverture
    sondes_reussies,
    fenetre,        \* _fenetre
    vu,             \* the state a call began in, "repos" outside a call
    sain,           \* the service answers
    periode,        \* history: whose call is a probe of this HALF_OPEN period
    merite,         \* history: the probes of this period that succeeded
    echec           \* history: a call failed since the circuit last closed

circuit == <<etat, ecoule, sondes_reussies, fenetre>>
histoire == <<periode, merite, echec>>
vars == <<circuit, vu, sain, histoire>>

-----------------------------------------------------------------------------
Init ==
    /\ etat = "CLOSED"
    /\ ecoule = FALSE
    /\ sondes_reussies = 0
    /\ fenetre = <<>>
    /\ vu = [a \in Appelants |-> "repos"]
    /\ sain = TRUE
    /\ periode = {}
    /\ merite = 0
    /\ echec = FALSE

\* _transitionner; periode and merite are of one HALF_OPEN period.
Transition(nouvel_etat) ==
    /\ etat' = nouvel_etat
    /\ ecoule' = IF nouvel_etat = etat THEN ecoule ELSE FALSE
    /\ periode' = IF nouvel_etat = etat THEN periode ELSE {}

\* Mutant: the state is returned as it is.
EtatEvalue_Stable == etat

\* _evaluer_etat.
EtatEvalue == IF etat = "OPEN" /\ ecoule THEN "HALF_OPEN" ELSE etat

\* appeler, up to the call of fn, and the thread of fn is started.
Appeler(a) ==
    /\ vu[a] = "repos"
    /\ "concurrence" \in Permis \/ \A b \in Appelants : vu[b] = "repos"
    /\ etat' = EtatEvalue
    /\ ecoule' = (ecoule /\ etat' = "OPEN")
    /\ vu' = [vu EXCEPT ![a] = IF etat' = "OPEN" THEN "repos" ELSE etat']
    /\ periode' = IF etat' = "HALF_OPEN" THEN periode \union {a} ELSE periode
    /\ merite' = IF etat' # etat THEN 0 ELSE merite
    /\ UNCHANGED <<sondes_reussies, fenetre, sain, echec>>

\* etat(): who reads the state may be the one that opens the circuit halfway.
LireEtat ==
    /\ etat' = EtatEvalue
    /\ ecoule' = (ecoule /\ etat' = "OPEN")
    /\ merite' = IF etat' # etat THEN 0 ELSE merite
    /\ UNCHANGED <<sondes_reussies, fenetre, vu, sain, periode, echec>>

\* A deque of maxlen taille_fenetre.
Glisse(ok) == LET f == Append(fenetre, ok)
              IN  IF Len(f) > taille_fenetre THEN Tail(f) ELSE f

Echecs(f) == Cardinality({i \in DOMAIN f : ~f[i]})

TropDEchecs(f) ==
    Len(f) >= min_requetes /\ 100 * Echecs(f) >= seuil_echec_pct * Len(f)

\* Mutant: one probe fewer than asked for.
AssezDeSondes_UneDeMoins(n) == n + 1 >= nb_sondes

AssezDeSondes(n) == n >= nb_sondes

\* The failed probe opens the circuit, and the count starts again.
SondeEchouee == Transition("OPEN") /\ sondes_reussies' = 0

\* What _transitionner makes of _sondes_reussies.
Reouverture == IF etat' = "OPEN" /\ etat # "OPEN" THEN 0 ELSE sondes_reussies

\* _enregistrer_resultat.
Enregistrer(a, ok) ==
    /\ fenetre' = Glisse(ok)
    /\ IF vu[a] = "HALF_OPEN"
       THEN IF ok
            THEN /\ sondes_reussies' = sondes_reussies + 1
                 /\ IF AssezDeSondes(sondes_reussies') THEN Transition("CLOSED")
                    ELSE UNCHANGED <<etat, ecoule, periode>>
            ELSE SondeEchouee
       ELSE /\ IF TropDEchecs(fenetre') THEN Transition("OPEN")
               ELSE UNCHANGED <<etat, ecoule, periode>>
            /\ sondes_reussies' = Reouverture
    /\ merite' = IF ok /\ a \in periode THEN merite + 1 ELSE merite
    /\ echec' = (~ok \/ (echec /\ ~(etat' = "CLOSED" /\ etat # "CLOSED")))

\* The call is over, by its result, an exception or the timeout.
Repondre(a) ==
    /\ vu[a] # "repos"
    /\ \E ok \in BOOLEAN : (sain => ok) /\ Enregistrer(a, ok)
    /\ vu' = [vu EXCEPT ![a] = "repos"]
    /\ UNCHANGED sain

\* time.time() - _ts_ouverture >= timeout_ouvert_s.
Expirer ==
    /\ etat = "OPEN" /\ ~ecoule
    /\ ecoule' = TRUE
    /\ UNCHANGED <<etat, sondes_reussies, fenetre, vu, sain, histoire>>

\* An operator steps in, between calls unless they overlap.
Intervention ==
    /\ "operateur" \in Permis
    /\ "concurrence" \in Permis \/ \A a \in Appelants : vu[a] = "repos"

ForcerOuverture ==
    /\ Intervention
    /\ Transition("OPEN")
    /\ sondes_reussies' = Reouverture
    /\ UNCHANGED <<fenetre, vu, sain, merite, echec>>

Reinitialiser ==
    /\ Intervention
    /\ Transition("CLOSED")
    /\ sondes_reussies' = 0
    /\ fenetre' = <<>>
    /\ UNCHANGED <<vu, sain, merite, echec>>

\* The service fails, or recovers.
Basculer == sain' = ~sain /\ UNCHANGED <<circuit, vu, histoire>>

Next == \/ \E a \in Appelants : Appeler(a) \/ Repondre(a)
        \/ LireEtat \/ Expirer \/ ForcerOuverture \/ Reinitialiser \/ Basculer

Spec == Init /\ [][Next]_vars

\* Callers go on calling, every call ends (timeout_requete_s), time passes.
FairSpec == /\ Spec
            /\ \A a \in Appelants : WF_vars(Appeler(a)) /\ WF_vars(Repondre(a))
            /\ WF_vars(Expirer)

-----------------------------------------------------------------------------
\* Type correctness.
TypeOK ==
    /\ etat \in {"CLOSED", "OPEN", "HALF_OPEN"}
    /\ ecoule \in BOOLEAN /\ (ecoule => etat = "OPEN")
    /\ sondes_reussies \in Nat
    /\ fenetre \in Seq(BOOLEAN) /\ Len(fenetre) <= taille_fenetre
    /\ vu \in [Appelants -> {"repos", "CLOSED", "HALF_OPEN"}]
    /\ sain \in BOOLEAN
    /\ periode \subseteq Appelants
    /\ merite \in Nat
    /\ echec \in BOOLEAN

\* "Si elles reussissent -> revenir a CLOSED": unless an operator closes it,
\* with an empty window, the circuit closes only from HALF_OPEN, after nb_sondes
\* probes of that period succeeded.
FermetureMeritee ==
    [][etat' = "CLOSED" /\ etat # "CLOSED" /\ fenetre' # <<>>
        => etat = "HALF_OPEN" /\ merite' >= nb_sondes]_vars

\* "On laisse passer N requetes de test": no more probes than it takes.
SondesLimitees == Cardinality(periode) <= nb_sondes

\* "revenir a CLOSED (service retabli)": without an operator, a circuit that
\* has closed does not open before a call has failed.
PasDOuvertureSansEchec ==
    [][etat = "CLOSED" /\ etat' = "OPEN" => echec']_vars

\* A service that has recovered for good has its circuit closed for good, once
\* the failures have left the window.
Retablissement == <>[]sain => <>[](etat = "CLOSED")

-----------------------------------------------------------------------------
\* Proof that the circuit closes after enough probes, when calls do not overlap.

\* There is one call at a time, under the state that it saw; a probe is one of the
\* period that is going on.
AppelSeul ==
    /\ \A a, b \in Appelants : vu[a] # "repos" /\ vu[b] # "repos" => a = b
    /\ \A a \in Appelants : vu[a] # "repos" => vu[a] = etat
    /\ \A a \in Appelants : vu[a] = "HALF_OPEN" => a \in periode

\* A period starts to count at nought, and counts no more than its own probes.
SondesDeLaPeriode ==
    /\ etat = "OPEN" => sondes_reussies = 0
    /\ etat = "HALF_OPEN" => sondes_reussies <= merite

Types ==
    /\ etat \in {"CLOSED", "OPEN", "HALF_OPEN"}
    /\ sondes_reussies \in Nat
    /\ merite \in Nat
    /\ vu \in [Appelants -> {"repos", "CLOSED", "HALF_OPEN"}]

Inv == Types /\ AppelSeul /\ SondesDeLaPeriode

LEMMA InvAppeler ==
    ASSUME "concurrence" \notin Permis, Inv, NEW a \in Appelants, Appeler(a)
    PROVE  Inv'
<1>1. /\ \A b \in Appelants : vu[b] = "repos"
      /\ etat' = EtatEvalue /\ EtatEvalue \in {"CLOSED", "OPEN", "HALF_OPEN"}
      /\ vu' = [vu EXCEPT ![a] = IF etat' = "OPEN" THEN "repos" ELSE etat']
      /\ periode' = IF etat' = "HALF_OPEN" THEN periode \union {a} ELSE periode
      /\ merite' = IF etat' # etat THEN 0 ELSE merite
      /\ sondes_reussies' = sondes_reussies
  BY DEF Appeler, EtatEvalue, Inv, Types
<1>2. Types'
  BY <1>1 DEF Inv, Types
<1>3. AppelSeul'
  BY <1>1 DEF Inv, Types, AppelSeul
<1>4. SondesDeLaPeriode'
  BY <1>1 DEF Inv, Types, SondesDeLaPeriode, EtatEvalue
<1> QED
  BY <1>2, <1>3, <1>4 DEF Inv

LEMMA InvRepondre ==
    ASSUME CircuitAssumption, "concurrence" \notin Permis, Inv,
           NEW a \in Appelants, Repondre(a)
    PROVE  /\ Inv'
           /\ etat' = "CLOSED" /\ etat # "CLOSED" =>
                etat = "HALF_OPEN" /\ merite' >= nb_sondes
<1>1. PICK ok \in BOOLEAN : Enregistrer(a, ok)
  BY DEF Repondre
<1>2. /\ vu[a] = etat /\ vu[a] # "repos" /\ etat \in {"CLOSED", "HALF_OPEN"}
      /\ vu' = [vu EXCEPT ![a] = "repos"]
  BY DEF Repondre, Inv, Types, AppelSeul
<1>3. \A b \in Appelants : vu'[b] = "repos"
  BY <1>2 DEF Inv, Types, AppelSeul
<1>4. /\ merite' = IF ok /\ a \in periode THEN merite + 1 ELSE merite
      /\ merite \in Nat /\ sondes_reussies \in Nat /\ nb_sondes \in Nat
      /\ vu' \in [Appelants -> {"repos", "CLOSED", "HALF_OPEN"}]
  BY <1>1, <1>2 DEF Enregistrer, Inv, Types, CircuitAssumption
<1>. merite' \in Nat
  BY <1>4
<1>5. CASE etat = "HALF_OPEN"
  <2>1. a \in periode /\ sondes_reussies <= merite
    BY <1>2, <1>5 DEF Inv, AppelSeul, SondesDeLaPeriode
  <2>2. CASE ok
    <3>1. /\ sondes_reussies' = sondes_reussies + 1 /\ merite' = merite + 1
          /\ IF sondes_reussies' >= nb_sondes THEN etat' = "CLOSED" ELSE etat' = etat
      BY <1>1, <1>2, <1>5, <2>1, <2>2 DEF Enregistrer, AssezDeSondes, Transition
    <3>2. etat' \in {"CLOSED", "HALF_OPEN"} /\ sondes_reussies' \in Nat
      BY <1>4, <1>5, <3>1
    <3>3. sondes_reussies' <= merite'
      BY <1>4, <2>1, <3>1
    <3>4. etat' = "CLOSED" => merite' >= nb_sondes
      BY <1>4, <1>5, <3>1, <3>3
    <3> QED
      BY <1>3, <1>4, <1>5, <3>2, <3>3, <3>4 DEF Inv, Types, AppelSeul, SondesDeLaPeriode
  <2>3. CASE ~ok
    <3>1. etat' = "OPEN" /\ sondes_reussies' = 0
      BY <1>1, <1>2, <1>5, <2>3 DEF Enregistrer, SondeEchouee, Transition
    <3> QED
      BY <1>2, <1>3, <1>4, <3>1 DEF Inv, Types, AppelSeul, SondesDeLaPeriode
  <2> QED
    BY <2>2, <2>3
<1>6. CASE etat = "CLOSED"
  <2>1. /\ etat' \in {"CLOSED", "OPEN"} /\ sondes_reussies' \in Nat
        /\ etat' = "OPEN" => sondes_reussies' = 0
    <3>1. /\ etat' = "OPEN" \/ etat' = etat
          /\ sondes_reussies' = Reouverture
      BY <1>1, <1>2, <1>6, Zenon DEF Enregistrer, Transition
    <3> QED
      BY <1>4, <1>6, <3>1 DEF Reouverture
  <2> QED
    BY <1>2, <1>3, <1>4, <1>6, <2>1 DEF Inv, Types, AppelSeul, SondesDeLaPeriode
<1> QED
  BY <1>2, <1>5, <1>6

\* An operator steps in while there is no call.
LEMMA InvIntervention ==
    ASSUME "concurrence" \notin Permis, Inv, ForcerOuverture \/ Reinitialiser
    PROVE  Inv'
<1>1. /\ \A a \in Appelants : vu[a] = "repos"
      /\ UNCHANGED <<vu, merite>>
  BY DEF ForcerOuverture, Reinitialiser, Intervention
<1>2. \/ etat' = "OPEN" /\ sondes_reussies' = 0
      \/ etat' = "CLOSED" /\ sondes_reussies' = 0
  BY DEF ForcerOuverture, Reinitialiser, Transition, Reouverture, Inv, Types,
         SondesDeLaPeriode
<1> QED
  BY <1>1, <1>2 DEF Inv, Types, AppelSeul, SondesDeLaPeriode

\* A state is read: nobody is in a call while the circuit is open.
LEMMA InvLireEtat ==
    ASSUME "concurrence" \notin Permis, Inv, LireEtat
    PROVE  Inv'
<1>1. /\ etat' = EtatEvalue /\ EtatEvalue \in {"CLOSED", "OPEN", "HALF_OPEN"}
      /\ merite' = IF etat' # etat THEN 0 ELSE merite
      /\ UNCHANGED <<sondes_reussies, vu, periode>>
      /\ etat' = etat \/ (etat = "OPEN" /\ etat' = "HALF_OPEN")
  BY DEF LireEtat, EtatEvalue, Inv, Types
<1>2. Types'
  BY <1>1 DEF Inv, Types
<1>3. AppelSeul'
  <2>1. etat = "OPEN" => \A a \in Appelants : vu[a] = "repos"
    BY DEF Inv, Types, AppelSeul
  <2> QED
    BY <1>1, <2>1 DEF Inv, AppelSeul
<1>4. SondesDeLaPeriode'
  BY <1>1 DEF Inv, Types, SondesDeLaPeriode
<1> QED
  BY <1>2, <1>3, <1>4 DEF Inv

LEMMA InvNext ==
    ASSUME CircuitAssumption, "concurrence" \notin Permis, Inv, [Next]_vars
    PROVE  Inv'
<1>1. ASSUME NEW a \in Appelants, Appeler(a) \/ Repondre(a)
      PROVE  Inv'
  BY <1>1, InvAppeler, InvRepondre
<1>2. ASSUME ForcerOuverture \/ Reinitialiser
      PROVE  Inv'
  BY <1>2, InvIntervention
<1>3. ASSUME Expirer \/ Basculer \/ UNCHANGED vars
      PROVE  Inv'
  BY <1>3
  DEF Expirer, Basculer, vars, circuit, histoire, Inv, Types, AppelSeul, SondesDeLaPeriode
<1>4. CASE LireEtat
  BY <1>4, InvLireEtat
<1> QED
  BY <1>1, <1>2, <1>3, <1>4 DEF Next

\* When calls do not overlap the circuit closes only from HALF_OPEN, after
\* nb_sondes probes of that period succeeded, or by an operator, who empties the
\* window.
THEOREM FermetureMeriteeCorrect ==
    ASSUME CircuitAssumption, "concurrence" \notin Permis
    PROVE  Spec => FermetureMeritee
<1>1. Init => Inv
  BY DEF Init, Inv, Types, AppelSeul, SondesDeLaPeriode
<1>2. Inv /\ [Next]_vars => Inv'
  BY InvNext
<1>3. ASSUME Inv, [Next]_vars
      PROVE  [etat' = "CLOSED" /\ etat # "CLOSED" /\ fenetre' # <<>>
                => etat = "HALF_OPEN" /\ merite' >= nb_sondes]_vars
  <2>1. ASSUME NEW a \in Appelants, Appeler(a)
        PROVE  etat' = "CLOSED" => etat = "CLOSED"
    BY <2>1 DEF Appeler, EtatEvalue
  <2>2. ASSUME NEW a \in Appelants, Repondre(a)
        PROVE  etat' = "CLOSED" /\ etat # "CLOSED" =>
                 etat = "HALF_OPEN" /\ merite' >= nb_sondes
    BY <1>3, <2>2, InvRepondre
  <2>3. ASSUME Expirer \/ Basculer
        PROVE  etat' = etat
    BY <2>3 DEF Expirer, Basculer, circuit
  <2>4. ForcerOuverture => etat' = "OPEN"
    BY DEF ForcerOuverture, Transition
  <2>5. Reinitialiser => fenetre' = <<>>
    BY DEF Reinitialiser
  <2>6. LireEtat /\ etat' = "CLOSED" => etat = "CLOSED"
    BY DEF LireEtat, EtatEvalue
  <2> QED
    BY <1>3, <2>1, <2>2, <2>3, <2>4, <2>5, <2>6 DEF Next
<1>4. Inv /\ [Next]_vars =>
        [etat' = "CLOSED" /\ etat # "CLOSED" /\ fenetre' # <<>>
           => etat = "HALF_OPEN" /\ merite' >= nb_sondes]_vars
  BY <1>3
<1> QED
  BY <1>1, <1>2, <1>4, PTL DEF Spec, FermetureMeritee
=============================================================================
