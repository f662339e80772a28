--------------------------- MODULE HorlogesProofs ---------------------------
(***************************************************************************)
(* What TLAPS proves about HorlogesVectorielles for every set of nodes and *)
(* every number of versions: the types, that clocks are ordered exactly as *)
(* the versions are by causality, that no node loses a version which       *)
(* nothing has replaced, and, when versions come after those they know of, *)
(* that it keeps no other.                                                 *)
(***************************************************************************)
EXTENDS HorlogesVectorielles, SequenceTheorems, WellFoundedInduction, TLAPS

Horloges == [Noeuds -> Nat]
passe(i) == versions[i].passe

-----------------------------------------------------------------------------
\* The inductive invariant.  Of each version there is an author, A[i].

\* A version knows of those before it.
PassesAnterieurs == \A i \in Ids : passe(i) \subseteq 1..(i - 1)

\* Who knows of a version knows of all that it knows of.
PassesClos ==
    /\ \A i, j \in Ids : i \in passe(j) => passe(i) \subseteq passe(j)
    /\ \A n \in Noeuds : \A i \in connus[n] : passe(i) \subseteq connus[n]

\* A clock has reached the component that a version was numbered with exactly when
\* it is the version's own or knows of it.
NumerosDesVersions(A) ==
    \A i, j \in Ids : vc(i)[A[i]] <= vc(j)[A[i]] <=> (i = j \/ i \in passe(j))

NumerosDesNoeuds(A) ==
    \A i \in Ids, n \in Noeuds : vc(i)[A[i]] <= vc_noeud[n][A[i]] <=> i \in connus[n]

\* An author knows of its versions.
AuteursConscients(A) == \A i \in Ids : i \in connus[A[i]]

\* A component that is not zero is the number of some version.
Numerote(A, m, x) == x = 0 \/ \E i \in Ids : A[i] = m /\ vc(i)[m] = x

ComposantesNumerotees(A) ==
    \A m \in Noeuds : /\ \A j \in Ids : Numerote(A, m, vc(j)[m])
                      /\ \A n \in Noeuds : Numerote(A, m, vc_noeud[n][m])

Attribution(A) ==
    /\ NumerosDesVersions(A) /\ NumerosDesNoeuds(A)
    /\ AuteursConscients(A) /\ ComposantesNumerotees(A)

\* A node has received what it keeps.
FreresRecus == \A n \in Noeuds : freres[n] \subseteq recus[n]

Inv == /\ TypeOK
       /\ PassesAnterieurs /\ PassesClos
       /\ \E A \in [Ids -> Noeuds] : Attribution(A)
       /\ FreresRecus /\ RienDePerdu

\* When versions come after those they know of: a node knows of those that it has
\* received, and receives none twice.
ReceptionOrdonnee ==
    /\ connus = recus
    /\ \A d \in Ids : \A n \in en_vol[d] : d \notin recus[n]
    /\ FreresMaximaux

-----------------------------------------------------------------------------
\* Operators.

LEMMA TypesVersions ==
    ASSUME TypeOK
    PROVE  /\ Len(versions) \in Nat /\ Ids = 1..Len(versions)
           /\ \A i \in Ids : vc(i) \in Horloges /\ passe(i) \subseteq 1..MaxVersions
           /\ \A i \in Ids, m \in Noeuds : vc(i)[m] \in Nat
           /\ \A n, m \in Noeuds : vc_noeud[n][m] \in Nat
           /\ \A n \in Noeuds : /\ freres[n] \subseteq Ids
                                /\ recus[n] \subseteq Ids
                                /\ connus[n] \subseteq Ids
<1>1. Len(versions) \in Nat /\ Ids = 1..Len(versions)
  BY DEF TypeOK, Ids
<1>. DEFINE Entrees == [vc : Horloges, passe : SUBSET (1..MaxVersions)]
<1>2. \A i \in Ids : versions[i] \in Entrees
  <2>1. versions \in Seq(Entrees)
    BY DEF TypeOK, Horloges
  <2>. HIDE DEF Entrees
  <2> QED
    BY <1>1, <2>1
<1>3. \A i \in Ids : vc(i) \in Horloges /\ passe(i) \subseteq 1..MaxVersions
  BY <1>2 DEF vc, passe
<1>4. \A i \in Ids, m \in Noeuds : vc(i)[m] \in Nat
  BY <1>3 DEF Horloges
<1> QED
  BY <1>1, <1>3, <1>4 DEF TypeOK

LEMMA Increment ==
    ASSUME NEW h \in Horloges, NEW n \in Noeuds
    PROVE  /\ Incrementer(h, n) \in Horloges
           /\ Incrementer(h, n)[n] = h[n] + 1
           /\ \A m \in Noeuds \ {n} : Incrementer(h, n)[m] = h[m]
  BY DEF Incrementer, Horloges

\* A set of numbers up to b has a greatest one.
LEMMA MaxExiste ==
    ASSUME NEW b \in Nat, NEW S \in SUBSET (0..b), S # {}
    PROVE  \E x \in S : \A y \in S : y <= x
<1>. DEFINE R == OpToRel(<, Nat)
            T == {b - x : x \in S}
<1>1. IsWellFoundedOn(R, Nat)
  BY NatLessThanWellFounded
<1>2. T \subseteq Nat /\ T # {}
  <2>1. \A x \in S : b - x \in Nat
    OBVIOUS
  <2>. HIDE DEF R
  <2> QED
    BY <2>1
<1>3. PICK t \in T : \A u \in T : <<u, t>> \notin R
  <2>. HIDE DEF R, T
  <2> QED
    BY <1>1, <1>2, WFMin
<1>4. \A u \in T : ~(u < t)
  BY <1>2, <1>3 DEF OpToRel
<1>5. PICK x \in S : t = b - x
  OBVIOUS
<1>6. ASSUME NEW y \in S
      PROVE  y <= x
  <2>1. ~(b - y < b - x)
    BY <1>4, <1>5
  <2> QED
    BY <2>1
<1> QED
  BY <1>6

\* No clock is ahead of a node in the node's own component.
LEMMA AuteurEnTete ==
    ASSUME TypeOK, NEW A \in [Ids -> Noeuds], Attribution(A), NEW m \in Noeuds
    PROVE  /\ \A j \in Ids : vc(j)[m] <= vc_noeud[m][m]
           /\ \A n \in Noeuds : vc_noeud[n][m] <= vc_noeud[m][m]
<1>1. vc_noeud[m][m] \in Nat
  BY TypesVersions
<1>2. ASSUME NEW x \in Nat, Numerote(A, m, x)
      PROVE  x <= vc_noeud[m][m]
  <2>1. CASE x = 0
    BY <1>1, <2>1
  <2>2. CASE \E i \in Ids : A[i] = m /\ vc(i)[m] = x
    BY <2>2 DEF Attribution, AuteursConscients, NumerosDesNoeuds
  <2> QED
    BY <1>2, <2>1, <2>2 DEF Numerote
<1>3. ASSUME NEW j \in Ids
      PROVE  vc(j)[m] <= vc_noeud[m][m]
  BY <1>2, <1>3, TypesVersions DEF Attribution, ComposantesNumerotees
<1>4. ASSUME NEW n \in Noeuds
      PROVE  vc_noeud[n][m] <= vc_noeud[m][m]
  BY <1>2, <1>4, TypesVersions DEF Attribution, ComposantesNumerotees
<1> QED
  BY <1>3, <1>4

\* A component of the fusion is the greatest of those of its versions.
LEMMA FusionMax ==
    ASSUME TypeOK, NEW A \in [Ids -> Noeuds], Attribution(A),
           NEW S \in SUBSET Ids, S # {}, NEW m \in Noeuds
    PROVE  /\ \E h \in S : Fusion(S)[m] = vc(h)[m]
           /\ \A i \in S : vc(i)[m] <= Fusion(S)[m]
<1>. DEFINE C == {vc(i)[m] : i \in S}
            x == CHOOSE k \in C : \A i \in S : vc(i)[m] <= k
<1>1. C \in SUBSET (0..vc_noeud[m][m]) /\ C # {} /\ vc_noeud[m][m] \in Nat
  BY TypesVersions, AuteurEnTete
<1>2. \E k \in C : \A y \in C : y <= k
  <2>. HIDE DEF C
  <2> QED
    BY <1>1, MaxExiste
<1>3. \E k \in C : \A i \in S : vc(i)[m] <= k
  BY <1>2
<1>4. x \in C /\ \A i \in S : vc(i)[m] <= x
  <2>. HIDE DEF C
  <2> QED
    BY <1>3
<1>5. Fusion(S)[m] = x
  BY DEF Fusion
<1>. HIDE DEF x
<1> QED
  BY <1>4, <1>5

\* Causality of versions is the order of their clocks.
LEMMA Causalite ==
    ASSUME Inv
    PROVE  /\ CausaliteFidele
           /\ \A i, j \in Ids : vc(i) = vc(j) => i = j
<1>0. TypeOK /\ PassesAnterieurs /\ PassesClos
  BY DEF Inv
<1>1. PICK A \in [Ids -> Noeuds] : Attribution(A)
  BY DEF Inv
<1>2. ASSUME NEW i \in Ids, NEW j \in Ids, i \in passe(j)
      PROVE  Precede(vc(i), vc(j))
  <2>1. ASSUME NEW m \in Noeuds
        PROVE  vc(i)[m] <= vc(j)[m]
    <3>1. vc(i)[m] \in Nat /\ vc(j)[m] \in Nat
      BY <1>0, TypesVersions
    <3>2. CASE vc(i)[m] = 0
      BY <3>1, <3>2
    <3>3. CASE vc(i)[m] # 0
      <4>1. PICK h \in Ids : A[h] = m /\ vc(h)[m] = vc(i)[m]
        BY <1>1, <3>3 DEF Attribution, ComposantesNumerotees, Numerote
      <4>2. vc(h)[A[h]] <= vc(i)[A[h]]
        BY <3>1, <4>1
      <4>3. h = i \/ h \in passe(i)
        BY <1>1, <4>2 DEF Attribution, NumerosDesVersions
      <4>4. h \in passe(j)
        BY <1>0, <1>2, <4>3 DEF PassesClos
      <4>5. vc(h)[A[h]] <= vc(j)[A[h]]
        BY <1>1, <4>4 DEF Attribution, NumerosDesVersions
      <4> QED
        BY <4>1, <4>5
    <3> QED
      BY <3>2, <3>3
  <2>2. j # i /\ j \notin passe(i)
    BY <1>0, <1>2, TypesVersions DEF PassesAnterieurs
  <2>3. A[j] \in Noeuds /\ ~(vc(j)[A[j]] <= vc(i)[A[j]])
    BY <1>1, <2>2 DEF Attribution, NumerosDesVersions
  <2>4. vc(i)[A[j]] < vc(j)[A[j]]
    BY <1>0, <2>3, TypesVersions
  <2> QED
    BY <2>1, <2>3, <2>4 DEF Precede
<1>3. ASSUME NEW i \in Ids, NEW j \in Ids, \A m \in Noeuds : vc(i)[m] <= vc(j)[m]
      PROVE  i = j \/ i \in passe(j)
  BY <1>1, <1>3 DEF Attribution, NumerosDesVersions
<1>4. ASSUME NEW i \in Ids, NEW j \in Ids, Precede(vc(i), vc(j))
      PROVE  i \in passe(j)
  <2>1. i # j
    BY <1>0, <1>4, TypesVersions DEF Precede
  <2> QED
    BY <1>3, <1>4, <2>1 DEF Precede
<1>5. ASSUME NEW i \in Ids, NEW j \in Ids, vc(i) = vc(j)
      PROVE  i = j
  <2>1. \A m \in Noeuds : vc(i)[m] <= vc(j)[m] /\ vc(j)[m] <= vc(i)[m]
    BY <1>0, <1>5, TypesVersions
  <2>2. i = j \/ (i \in passe(j) /\ j \in passe(i))
    BY <1>3, <2>1
  <2> QED
    BY <1>0, <2>2, TypesVersions DEF PassesAnterieurs
<1> QED
  BY <1>2, <1>4, <1>5 DEF CausaliteFidele, passe

\* The past of some versions is closed, and made of versions.
LEMMA PasseClos ==
    ASSUME TypeOK, PassesAnterieurs, PassesClos, NEW S \in SUBSET Ids
    PROVE  /\ S \subseteq Passe(S) /\ Passe(S) \subseteq Ids
           /\ \A i \in Passe(S) : passe(i) \subseteq Passe(S)
           /\ \A i : i \in Passe(S) <=> \E j \in S : i = j \/ i \in passe(j)
<1>1. \A i : i \in Passe(S) <=> \E j \in S : i = j \/ i \in passe(j)
  BY DEF Passe, passe
<1>2. \A j \in Ids : passe(j) \subseteq Ids
  BY TypesVersions DEF PassesAnterieurs
<1>3. S \subseteq Passe(S) /\ Passe(S) \subseteq Ids
  BY <1>1, <1>2
<1>4. ASSUME NEW i \in Passe(S)
      PROVE  passe(i) \subseteq Passe(S)
  <2>1. PICK j \in S : i = j \/ i \in passe(j)
    BY <1>1
  <2>2. passe(i) \subseteq passe(j)
    BY <1>3, <2>1 DEF PassesClos
  <2> QED
    BY <1>1, <2>1, <2>2
<1> QED
  BY <1>1, <1>3, <1>4

\* What ecrire makes the clock of a version.
NouvelleHorloge(n, contexte) ==
    LET locale == Incrementer(vc_noeud[n], n)
    IN  IF contexte = {} THEN locale ELSE Incrementer(Merger(locale, Fusion(contexte)), n)

\* It is ahead of all others in the component of its node, elsewhere that of the last
\* version that the node or the context knows.
HorlogeJuste(A, n, w, p) ==
    /\ connus[n] \subseteq p
    /\ \A i \in p : passe(i) \subseteq p
    /\ vc_noeud[n][n] < w[n]
    /\ \A i \in Ids : vc(i)[A[i]] <= w[A[i]] <=> i \in p
    /\ \A m \in Noeuds \ {n} : Numerote(A, m, w[m])

LEMMA NouvelleVersion ==
    ASSUME Inv, NEW A \in [Ids -> Noeuds], Attribution(A),
           NEW n \in Noeuds, NEW contexte \in SUBSET Ids
    PROVE  /\ NouvelleHorloge(n, contexte) \in Horloges
           /\ connus[n] \union Passe(contexte) \subseteq Ids
           /\ HorlogeJuste(A, n, NouvelleHorloge(n, contexte),
                           connus[n] \union Passe(contexte))
<1>. DEFINE w == NouvelleHorloge(n, contexte)
            p == connus[n] \union Passe(contexte)
<1>0. TypeOK /\ PassesAnterieurs /\ PassesClos
  BY DEF Inv
<1>1. /\ connus[n] \subseteq Ids
      /\ vc_noeud[n] \in Horloges
      /\ \A m \in Noeuds : vc_noeud[n][m] \in Nat
      /\ \A i \in Ids, m \in Noeuds : vc(i)[m] \in Nat
  BY <1>0, TypesVersions DEF TypeOK, Horloges
<1>2. /\ p \subseteq Ids /\ connus[n] \subseteq p
      /\ \A i \in p : passe(i) \subseteq p
  BY <1>0, <1>1, PasseClos DEF PassesClos
<1>. SUFFICES w \in Horloges /\ p \subseteq Ids /\ HorlogeJuste(A, n, w, p)
  OBVIOUS
<1>3. \A i \in Ids : A[i] = n => i \in connus[n]
  BY <1>1 DEF Attribution, AuteursConscients
<1>4. \A i \in Ids : vc(i)[n] <= vc_noeud[n][n]
  BY <1>0, AuteurEnTete
<1>5. CASE contexte = {}
  <2>1. w = [vc_noeud[n] EXCEPT ![n] = @ + 1]
    BY <1>5 DEF NouvelleHorloge, Incrementer
  <2>2. w \in Horloges /\ vc_noeud[n][n] < w[n]
    BY <1>1, <2>1 DEF Horloges
  <2>3. \A m \in Noeuds \ {n} : w[m] = vc_noeud[n][m]
    BY <1>1, <2>1 DEF Horloges
  <2>4. \A m \in Noeuds \ {n} : Numerote(A, m, w[m])
    BY <2>3 DEF Attribution, ComposantesNumerotees
  <2>5. p = connus[n]
    BY <1>5 DEF Passe
  <2>. HIDE DEF w, p
  <2>6. ASSUME NEW i \in Ids
        PROVE  vc(i)[A[i]] <= w[A[i]] <=> i \in p
    <3>1. CASE A[i] = n
      <4>1. w[n] \in Nat
        BY <2>2 DEF Horloges
      <4> QED
        BY <1>1, <1>3, <1>4, <2>2, <2>5, <3>1, <4>1
    <3>2. CASE A[i] # n
      BY <2>3, <2>5, <3>2 DEF Attribution, NumerosDesNoeuds
    <3> QED
      BY <3>1, <3>2
  <2> QED
    BY <1>2, <2>2, <2>4, <2>6 DEF HorlogeJuste
<1>6. CASE contexte # {}
  <2>. DEFINE f == Fusion(contexte)
  <2>0. f \in Horloges
    <3>1. f = [m \in Noeuds |-> f[m]]
      BY DEF Fusion
    <3>2. \A m \in Noeuds : f[m] \in Nat
      BY <1>0, <1>1, <1>6, FusionMax
    <3>. HIDE DEF f
    <3> QED
      BY <3>1, <3>2 DEF Horloges
  <2>. DEFINE l == Incrementer(vc_noeud[n], n)
              g == [m \in Noeuds |-> IF l[m] < f[m] THEN f[m] ELSE l[m]]
  <2>1. w = Incrementer(g, n)
    BY <1>6 DEF NouvelleHorloge, Merger
  <2>. HIDE DEF w, p
  <2>2. l \in Horloges /\ l[n] = vc_noeud[n][n] + 1
        /\ \A m \in Noeuds \ {n} : l[m] = vc_noeud[n][m]
    BY <1>1, Increment
  <2>3. g \in Horloges
    <3>. HIDE DEF f, l
    <3> QED
      BY <2>0, <2>2 DEF Horloges
  <2>4. /\ w \in Horloges /\ w[n] = g[n] + 1
        /\ \A m \in Noeuds \ {n} : w[m] = g[m]
    <3>. HIDE DEF g
    <3> QED
      BY <2>1, <2>3, Increment
  <2>5. vc_noeud[n][n] < w[n]
    <3>. HIDE DEF f, l
    <3>1. f[n] \in Nat /\ l[n] \in Nat
      BY <2>0, <2>2 DEF Horloges
    <3> QED
      BY <1>1, <2>2, <2>4, <3>1
  <2>6. \A m \in Noeuds \ {n} :
          w[m] = IF vc_noeud[n][m] < f[m] THEN f[m] ELSE vc_noeud[n][m]
    <3>. HIDE DEF f, l
    <3> QED
      BY <2>2, <2>4
  <2>7. ASSUME NEW m \in Noeuds \ {n}
        PROVE  Numerote(A, m, w[m])
    <3>1. PICK h \in contexte : f[m] = vc(h)[m]
      BY <1>0, <1>6, FusionMax
    <3>2. Numerote(A, m, vc(h)[m]) /\ Numerote(A, m, vc_noeud[n][m])
      BY DEF Attribution, ComposantesNumerotees
    <3> QED
      BY <2>6, <3>1, <3>2
  <2>8. ASSUME NEW i \in Ids
        PROVE  vc(i)[A[i]] <= w[A[i]] <=> i \in p
    <3>1. CASE A[i] = n
      <4>1. w[n] \in Nat
        BY <2>4 DEF Horloges
      <4> QED
        BY <1>1, <1>2, <1>3, <1>4, <2>5, <3>1, <4>1
    <3>2. CASE A[i] # n
      <4>. DEFINE m == A[i]
                  x == vc(i)[m]
      <4>0. m \in Noeuds \ {n} /\ x \in Nat /\ f[m] \in Nat /\ vc_noeud[n][m] \in Nat
        BY <1>1, <2>0, <3>2 DEF Horloges
      <4>1. x <= vc_noeud[n][m] <=> i \in connus[n]
        BY DEF Attribution, NumerosDesNoeuds
      <4>2. x <= f[m] <=> \E j \in contexte : x <= vc(j)[m]
        <5>1. PICK h \in contexte : f[m] = vc(h)[m]
          BY <1>0, <1>6, FusionMax
        <5>2. \A j \in contexte : vc(j)[m] <= f[m] /\ vc(j)[m] \in Nat
          BY <1>0, <1>1, <1>6, FusionMax
        <5>. HIDE DEF f, m, x
        <5> QED
          BY <4>0, <5>1, <5>2
      <4>3. x <= f[m] <=> i \in Passe(contexte)
        <5>1. \A j \in contexte : x <= vc(j)[m] <=> (i = j \/ i \in passe(j))
          BY DEF Attribution, NumerosDesVersions
        <5>2. i \in Passe(contexte) <=> \E j \in contexte : i = j \/ i \in passe(j)
          BY <1>0, PasseClos
        <5>. HIDE DEF f, m, x
        <5> QED
          BY <4>2, <5>1, <5>2
      <4>4. x <= w[m] <=> x <= f[m] \/ x <= vc_noeud[n][m]
        <5>1. w[m] = IF vc_noeud[n][m] < f[m] THEN f[m] ELSE vc_noeud[n][m]
          BY <2>6, <4>0
        <5>. HIDE DEF f, m, x
        <5> QED
          BY <4>0, <5>1
      <4>. HIDE DEF f, m, x
      <4>5. x <= w[m] <=> i \in p
        BY <4>1, <4>3, <4>4 DEF p
      <4> QED
        BY <4>5 DEF m, x
    <3> QED
      BY <3>1, <3>2
  <2> QED
    BY <1>2, <2>4, <2>5, <2>7, <2>8 DEF HorlogeJuste
<1> QED
  BY <1>5, <1>6

-----------------------------------------------------------------------------
\* The steps.

LEMMA InvInit ==
    ASSUME HorlogesAssumption, Init
    PROVE  Inv /\ ReceptionOrdonnee
<1>0. versions = <<>> /\ Ids = {} /\ en_vol = <<>> /\ lus = {} /\ DOMAIN en_vol = {}
  BY DEF Init, Ids
<1>1. /\ vc_noeud = [n \in Noeuds |-> [m \in Noeuds |-> 0]]
      /\ freres = [n \in Noeuds |-> {}] /\ recus = freres /\ connus = freres
  BY DEF Init
<1>2. TypeOK
  <2>1. versions \in Seq([vc : [Noeuds -> Nat], passe : SUBSET (1..MaxVersions)])
    BY <1>0
  <2>2. Len(versions) <= MaxVersions
    BY <1>0 DEF HorlogesAssumption
  <2>3. en_vol \in [Ids -> SUBSET Noeuds]
    BY <1>0
  <2> QED
    BY <1>0, <1>1, <2>1, <2>2, <2>3 DEF TypeOK
<1>3. [i \in Ids |-> 0] \in [Ids -> Noeuds] /\ Attribution([i \in Ids |-> 0])
  BY <1>0, <1>1
  DEF Attribution, NumerosDesVersions, NumerosDesNoeuds, AuteursConscients,
      ComposantesNumerotees, Numerote
<1>4. PassesAnterieurs /\ PassesClos /\ FreresRecus /\ RienDePerdu
  BY <1>0, <1>1 DEF PassesAnterieurs, PassesClos, FreresRecus, RienDePerdu, Maximales
<1>5. ReceptionOrdonnee
  BY <1>0, <1>1 DEF ReceptionOrdonnee, FreresMaximaux, Maximales
<1> QED
  BY <1>2, <1>3, <1>4, <1>5 DEF Inv

LEMMA InvLire ==
    ASSUME Inv, NEW n \in Noeuds, Lire(n)
    PROVE  Inv'
<1>1. /\ lus' = freres[n] /\ freres[n] \subseteq Ids
      /\ UNCHANGED <<versions, vc_noeud, freres, en_vol, recus, connus>>
  BY TypesVersions DEF Lire, Inv
<1>2. TypeOK'
  BY <1>1 DEF Inv, TypeOK, Ids
<1>3. Ids' = Ids /\ \A i : vc(i)' = vc(i) /\ passe(i)' = passe(i)
  BY <1>1 DEF Ids, vc, passe
<1>4. PICK A \in [Ids -> Noeuds] : Attribution(A)
  BY DEF Inv
<1>5. Attribution(A)'
  BY <1>1, <1>3, <1>4
  DEF Attribution, NumerosDesVersions, NumerosDesNoeuds, AuteursConscients,
      ComposantesNumerotees, Numerote
<1>6. PassesAnterieurs' /\ PassesClos' /\ FreresRecus' /\ RienDePerdu'
  BY <1>1, <1>3
  DEF Inv, PassesAnterieurs, PassesClos, FreresRecus, RienDePerdu, Maximales
<1> QED
  BY <1>2, <1>3, <1>4, <1>5, <1>6 DEF Inv

\* ecrire: the version of rank k, of clock w, that knows of those of p.
Ecriture(n, k, w, p) ==
    /\ Ids = 1..(k - 1) /\ Ids' = 1..k
    /\ \A i \in Ids : vc(i)' = vc(i) /\ passe(i)' = passe(i)
    /\ vc(k)' = w /\ passe(k)' = p
    /\ versions' = Append(versions, [vc |-> w, passe |-> p])
    /\ vc_noeud' = [vc_noeud EXCEPT ![n] = w]
    /\ freres' = [freres EXCEPT ![n] =
         {e \in @ : ~Precede(w, vc(e)) /\ ~Precede(vc(e), w)} \union {k}]
    /\ en_vol' = Append(en_vol, Noeuds \ {n})
    /\ recus' = [recus EXCEPT ![n] = @ \union {k}]
    /\ connus' = [connus EXCEPT ![n] = p \union {k}]
    /\ lus' = lus

LEMMA EffetEcrire ==
    ASSUME HorlogesAssumption, Inv, NEW n \in Noeuds, NEW contexte \in SUBSET Ids,
           Ecrire(n, contexte)
    PROVE  \E k \in 1..MaxVersions, w \in Horloges, p \in SUBSET Ids :
             /\ p = connus[n] \union Passe(contexte)
             /\ Ecriture(n, k, w, p)
             /\ \A A \in [Ids -> Noeuds] : Attribution(A) => HorlogeJuste(A, n, w, p)
<1>0. TypeOK
  BY DEF Inv
<1>1. PICK w : w = NouvelleHorloge(n, contexte)
  OBVIOUS
<1>2. PICK p : p = connus[n] \union Passe(contexte)
  OBVIOUS
<1>3. PICK k : k = Len(versions) + 1
  OBVIOUS
<1>4. PICK B \in [Ids -> Noeuds] : Attribution(B)
  BY DEF Inv
<1>5. w \in Horloges /\ p \in SUBSET Ids
  BY <1>1, <1>2, <1>4, NouvelleVersion
<1>6. \A A \in [Ids -> Noeuds] : Attribution(A) => HorlogeJuste(A, n, w, p)
  BY <1>1, <1>2, NouvelleVersion
<1>7. /\ Len(versions) < MaxVersions
      /\ versions' = Append(versions, [vc |-> w, passe |-> p])
      /\ vc_noeud' = [vc_noeud EXCEPT ![n] = w]
      /\ freres' = [freres EXCEPT ![n] =
           {e \in @ : ~Precede(w, vc(e)) /\ ~Precede(vc(e), w)} \union {k}]
      /\ en_vol' = Append(en_vol, Noeuds \ {n})
      /\ recus' = [recus EXCEPT ![n] = @ \union {k}]
      /\ connus' = [connus EXCEPT ![n] = p \union {k}]
      /\ lus' = lus
  BY <1>1, <1>2, <1>3 DEF Ecrire, NouvelleHorloge
<1>8. Len(versions) \in Nat /\ Ids = 1..(k - 1) /\ k \in Nat
  BY <1>0, <1>3, TypesVersions
<1>9. k \in 1..MaxVersions
  BY <1>3, <1>7, <1>8 DEF HorlogesAssumption
<1>10. /\ Ids' = 1..k
       /\ \A i \in Ids : vc(i)' = vc(i) /\ passe(i)' = passe(i)
       /\ vc(k)' = w /\ passe(k)' = p
  BY <1>0, <1>3, <1>7, <1>8 DEF Ids, vc, passe, TypeOK
<1>11. Ecriture(n, k, w, p)
  BY <1>7, <1>8, <1>10 DEF Ecriture
<1> QED
  BY <1>2, <1>5, <1>6, <1>9, <1>11

LEMMA InvEcrire ==
    ASSUME HorlogesAssumption, Inv, NEW n \in Noeuds, NEW contexte \in SUBSET Ids,
           Ecrire(n, contexte)
    PROVE  Inv'
<1>0. /\ TypeOK /\ PassesAnterieurs /\ PassesClos /\ FreresRecus /\ RienDePerdu
  BY DEF Inv
<1>1. PICK k \in 1..MaxVersions, w \in Horloges, p \in SUBSET Ids :
        /\ Ecriture(n, k, w, p)
        /\ \A A \in [Ids -> Noeuds] : Attribution(A) => HorlogeJuste(A, n, w, p)
  BY EffetEcrire
<1>2. PICK A \in [Ids -> Noeuds] : Attribution(A)
  BY DEF Inv
<1>3. HorlogeJuste(A, n, w, p)
  BY <1>1, <1>2
<1>4. /\ k \in Nat /\ k \in 1..MaxVersions
      /\ Ids = 1..(k - 1) /\ Ids' = 1..k /\ Ids' = Ids \union {k} /\ k \notin Ids
      /\ \A i \in Ids : vc(i)' = vc(i) /\ passe(i)' = passe(i)
      /\ vc(k)' = w /\ passe(k)' = p
  BY <1>1 DEF Ecriture, HorlogesAssumption
<1>5. /\ vc_noeud' = [vc_noeud EXCEPT ![n] = w]
      /\ connus' = [connus EXCEPT ![n] = p \union {k}]
      /\ recus' = [recus EXCEPT ![n] = @ \union {k}]
      /\ freres' = [freres EXCEPT ![n] =
           {e \in @ : ~Precede(w, vc(e)) /\ ~Precede(vc(e), w)} \union {k}]
  BY <1>1 DEF Ecriture
<1>6. /\ \A m \in Noeuds \ {n} : /\ vc_noeud'[m] = vc_noeud[m] /\ connus'[m] = connus[m]
                                 /\ recus'[m] = recus[m] /\ freres'[m] = freres[m]
      /\ vc_noeud'[n] = w /\ connus'[n] = p \union {k} /\ recus'[n] = recus[n] \union {k}
      /\ freres'[n] = {e \in freres[n] : ~Precede(w, vc(e)) /\ ~Precede(vc(e), w)}
                      \union {k}
  BY <1>0, <1>5 DEF TypeOK
<1>7. \A m \in Noeuds : /\ connus[m] \subseteq Ids /\ recus[m] \subseteq Ids
                        /\ freres[m] \subseteq Ids
  BY <1>0, TypesVersions
<1>8. TypeOK'
  <2>1. versions' \in Seq([vc : [Noeuds -> Nat], passe : SUBSET (1..MaxVersions)])
    <3>1. p \in SUBSET (1..MaxVersions)
      BY <1>4 DEF HorlogesAssumption
    <3>2. [vc |-> w, passe |-> p] \in [vc : [Noeuds -> Nat], passe : SUBSET (1..MaxVersions)]
      BY <3>1 DEF Horloges
    <3>3. versions' = Append(versions, [vc |-> w, passe |-> p])
      BY <1>1 DEF Ecriture
    <3>. DEFINE E == [vc : [Noeuds -> Nat], passe : SUBSET (1..MaxVersions)]
    <3>4. versions \in Seq(E)
      BY <1>0 DEF TypeOK
    <3>. HIDE DEF E
    <3>5. versions' \in Seq(E)
      BY <3>2, <3>3, <3>4 DEF E
    <3> QED
      BY <3>5 DEF E
  <2>2. Len(versions') <= MaxVersions
    BY <1>0, <1>1, <1>4, TypesVersions DEF Ecriture, HorlogesAssumption
  <2>3. vc_noeud' \in [Noeuds -> [Noeuds -> Nat]]
    BY <1>0, <1>5 DEF TypeOK, Horloges
  <2>4. /\ freres' \in [Noeuds -> SUBSET Ids']
        /\ recus' \in [Noeuds -> SUBSET Ids']
        /\ connus' \in [Noeuds -> SUBSET Ids']
    BY <1>0, <1>4, <1>5, <1>7 DEF TypeOK
  <2>5. lus' \subseteq Ids'
    BY <1>0, <1>1, <1>4 DEF TypeOK, Ecriture
  <2>6. en_vol' \in [Ids' -> SUBSET Noeuds]
    <3>1. en_vol' = Append(en_vol, Noeuds \ {n})
      BY <1>1 DEF Ecriture
    <3>. DEFINE E == SUBSET Noeuds
    <3>2. en_vol \in [1..(k - 1) -> E] /\ (Noeuds \ {n}) \in E
      BY <1>0, <1>4 DEF TypeOK
    <3>. HIDE DEF E
    <3>3. k - 1 \in Nat
      BY <1>4
    <3>4. en_vol \in Seq(E)
      BY <3>2, <3>3, SeqDef
    <3>5. Len(en_vol) = k - 1
      BY <3>2, <3>3, <3>4, LenProperties
    <3>6. en_vol' \in Seq(E) /\ Len(en_vol') = k
      BY <1>4, <3>1, <3>2, <3>4, <3>5
    <3>7. en_vol' \in [1..k -> E]
      BY <3>6
    <3> QED
      BY <1>4, <3>7 DEF E
  <2> QED
    BY <2>1, <2>2, <2>3, <2>4, <2>5, <2>6 DEF TypeOK
<1>9. PassesAnterieurs' /\ PassesClos'
  <2>1. PassesAnterieurs'
    BY <1>0, <1>4 DEF PassesAnterieurs
  <2>2. \A i \in Ids', j \in Ids' : i \in passe(j)' => passe(i)' \subseteq passe(j)'
    <3> SUFFICES ASSUME NEW i \in Ids', NEW j \in Ids', i \in passe(j)'
                 PROVE  passe(i)' \subseteq passe(j)'
      OBVIOUS
    <3>1. CASE j = k
      BY <1>3, <1>4, <3>1 DEF HorlogeJuste
    <3>2. CASE j # k
      <4>1. j \in Ids /\ i \in passe(j)
        BY <1>4, <3>2
      <4>2. i \in Ids
        BY <1>0, <1>4, <4>1 DEF PassesAnterieurs
      <4> QED
        BY <1>0, <1>4, <4>1, <4>2 DEF PassesClos
    <3> QED
      BY <3>1, <3>2
  <2>3. \A m \in Noeuds : \A i \in connus'[m] : passe(i)' \subseteq connus'[m]
    <3> SUFFICES ASSUME NEW m \in Noeuds, NEW i \in connus'[m]
                 PROVE  passe(i)' \subseteq connus'[m]
      OBVIOUS
    <3>1. CASE m = n
      <4>1. i \in p \/ i = k
        BY <1>6, <3>1
      <4>2. CASE i = k
        BY <1>4, <1>6, <3>1, <4>2
      <4>3. CASE i \in p
        <5>1. i \in Ids
          BY <4>3
        <5>2. passe(i)' = passe(i)
          BY <1>4, <5>1
        <5>3. passe(i) \subseteq p
          BY <1>3, <4>3 DEF HorlogeJuste
        <5> QED
          BY <1>6, <3>1, <5>2, <5>3
      <4> QED
        BY <4>1, <4>2, <4>3
    <3>2. CASE m # n
      BY <1>0, <1>4, <1>6, <1>7, <3>2 DEF PassesClos
    <3> QED
      BY <3>1, <3>2
  <2> QED
    BY <2>1, <2>2, <2>3 DEF PassesClos
<1>10. PICK B : B = [i \in 1..k |-> IF i = k THEN n ELSE A[i]]
  OBVIOUS
<1>11. /\ B \in [1..k -> Noeuds] /\ B[k] = n /\ \A i \in Ids : B[i] = A[i]
  BY <1>4, <1>10
<1>12. /\ \A i \in Ids, m \in Noeuds : vc(i)[m] \in Nat
       /\ \A a, b \in Noeuds : vc_noeud[a][b] \in Nat
       /\ \A m \in Noeuds : w[m] \in Nat
       /\ \A i \in Ids : A[i] \in Noeuds
  BY <1>0, TypesVersions DEF Horloges
<1>13. /\ vc_noeud[n][n] < w[n]
       /\ \A i \in Ids : vc(i)[A[i]] <= w[A[i]] <=> i \in p
       /\ \A m \in Noeuds \ {n} : Numerote(A, m, w[m])
       /\ connus[n] \subseteq p
  BY <1>3 DEF HorlogeJuste
<1>14. \A i \in Ids : ~(w[n] <= vc(i)[n])
  BY <1>0, <1>2, <1>12, <1>13, AuteurEnTete
<1>15. \A m \in Noeuds : ~(w[n] <= vc_noeud[m][n])
  BY <1>0, <1>2, <1>12, <1>13, AuteurEnTete
<1>16. NumerosDesVersions(B)'
  <2> SUFFICES ASSUME NEW i \in Ids', NEW j \in Ids'
               PROVE  vc(i)'[B[i]] <= vc(j)'[B[i]] <=> (i = j \/ i \in passe(j)')
    BY <1>4, <1>11 DEF NumerosDesVersions
  <2>1. CASE i \in Ids /\ j \in Ids
    BY <1>2, <1>4, <1>11, <2>1 DEF Attribution, NumerosDesVersions
  <2>2. CASE i \in Ids /\ j = k
    BY <1>4, <1>11, <1>13, <2>2
  <2>3. CASE i = k /\ j \in Ids
    <3>1. k \notin passe(j)
      BY <1>0, <1>4, <2>3 DEF PassesAnterieurs
    <3> QED
      BY <1>4, <1>11, <1>14, <2>3, <3>1
  <2>4. CASE i = k /\ j = k
    BY <1>4, <1>11, <1>12, <2>4
  <2> QED
    BY <1>4, <2>1, <2>2, <2>3, <2>4
<1>17. NumerosDesNoeuds(B)'
  <2> SUFFICES ASSUME NEW i \in Ids', NEW m \in Noeuds
               PROVE  vc(i)'[B[i]] <= vc_noeud'[m][B[i]] <=> i \in connus'[m]
    BY DEF NumerosDesNoeuds
  <2>1. CASE i \in Ids /\ m # n
    BY <1>2, <1>4, <1>6, <1>11, <2>1 DEF Attribution, NumerosDesNoeuds
  <2>2. CASE i \in Ids /\ m = n
    BY <1>4, <1>6, <1>11, <1>13, <2>2
  <2>3. CASE i = k /\ m # n
    BY <1>4, <1>6, <1>7, <1>11, <1>15, <2>3
  <2>4. CASE i = k /\ m = n
    BY <1>4, <1>6, <1>11, <1>12, <2>4
  <2> QED
    BY <1>4, <2>1, <2>2, <2>3, <2>4
<1>18. AuteursConscients(B)'
  <2> SUFFICES ASSUME NEW i \in Ids'
               PROVE  i \in connus'[B[i]]
    BY DEF AuteursConscients
  <2>1. CASE i = k
    BY <1>6, <1>11, <2>1
  <2>2. CASE i \in Ids
    <3>1. i \in connus[A[i]]
      BY <1>2, <2>2 DEF Attribution, AuteursConscients
    <3> QED
      BY <1>6, <1>11, <1>12, <1>13, <2>2, <3>1
  <2> QED
    BY <1>4, <2>1, <2>2
<1>19. \A m \in Noeuds : \A x : Numerote(A, m, x) => Numerote(B, m, x)'
  <2> SUFFICES ASSUME NEW m \in Noeuds, NEW x, Numerote(A, m, x)
               PROVE  x = 0 \/ \E i \in Ids' : B[i] = m /\ vc(i)'[m] = x
    BY Zenon DEF Numerote
  <2> QED
    BY <1>4, <1>11 DEF Numerote
<1>20. ComposantesNumerotees(B)'
  <2>. DEFINE Juste(m, x) == x = 0 \/ \E i \in Ids' : B[i] = m /\ vc(i)'[m] = x
  <2>1. \A m \in Noeuds : \A x : Numerote(A, m, x) => Juste(m, x)
    BY <1>19, Zenon DEF Numerote
  <2>2. \A m \in Noeuds \ {n} : Juste(m, w[m])
    BY <1>13, <2>1
  <2>3. Juste(n, w[n])
    BY <1>4, <1>11
  <2>4. \A m \in Noeuds : /\ \A j \in Ids : Juste(m, vc(j)[m])
                          /\ \A a \in Noeuds : Juste(m, vc_noeud[a][m])
    <3>. HIDE DEF Juste
    <3> QED
      BY <1>2, <2>1 DEF Attribution, ComposantesNumerotees
  <2>5. \A m \in Noeuds : /\ \A j \in Ids' : Juste(m, vc(j)'[m])
                          /\ \A a \in Noeuds : Juste(m, vc_noeud'[a][m])
    <3>. HIDE DEF Juste
    <3> QED
      BY <1>4, <1>6, <2>2, <2>3, <2>4
  <2> QED
    BY <2>5, Zenon DEF ComposantesNumerotees, Numerote
<1>21. Attribution(B)'
  BY <1>16, <1>17, <1>18, <1>20, Zenon DEF Attribution
<1>22. FreresRecus'
  BY <1>0, <1>6 DEF FreresRecus
<1>23. RienDePerdu'
  <2> SUFFICES ASSUME NEW m \in Noeuds, NEW e \in recus'[m], e \notin freres'[m]
               PROVE  \E j \in recus'[m] : Precede(vc(e)', vc(j)')
    BY Zenon DEF RienDePerdu, Maximales
  <2>1. CASE m # n
    <3>1. \E j \in recus[m] : Precede(vc(e), vc(j))
      BY <1>0, <1>6, <2>1 DEF RienDePerdu, Maximales
    <3> QED
      BY <1>4, <1>6, <1>7, <2>1, <3>1
  <2>2. CASE m = n
    <3>1. e \in recus[n] /\ e \in Ids /\ e # k
      BY <1>4, <1>6, <1>7, <2>2
    <3>2. CASE e \notin freres[n]
      <4>1. \E j \in recus[n] : Precede(vc(e), vc(j))
        BY <1>0, <3>1, <3>2 DEF RienDePerdu, Maximales
      <4> QED
        BY <1>4, <1>6, <1>7, <2>2, <3>1, <4>1
    <3>3. CASE e \in freres[n]
      <4>1. Precede(w, vc(e)) \/ Precede(vc(e), w)
        BY <1>6, <2>2, <3>3
      <4>2. ~Precede(w, vc(e))
        BY <1>14, <3>1 DEF Precede
      <4> QED
        BY <1>4, <1>6, <2>2, <3>1, <4>1, <4>2
    <3> QED
      BY <3>2, <3>3
  <2> QED
    BY <2>1, <2>2
<1>24. B \in [Ids' -> Noeuds]
  BY <1>4, <1>11
<1> QED
  BY <1>8, <1>9, <1>21, <1>22, <1>23, <1>24, Zenon DEF Inv

LEMMA InvRecevoir ==
    ASSUME Inv, NEW n \in Noeuds, NEW d \in Ids, Recevoir(d, n)
    PROVE  Inv'
<1>0. TypeOK /\ PassesAnterieurs /\ PassesClos /\ FreresRecus /\ RienDePerdu
  BY DEF Inv
<1>1. PICK A \in [Ids -> Noeuds] : Attribution(A)
  BY DEF Inv
<1>2. PICK h : h = Merger(vc_noeud[n], vc(d))
  OBVIOUS
<1>3. PICK p : p = Passe({d})
  OBVIOUS
<1>4. /\ versions' = versions /\ Ids' = Ids /\ lus' = lus
      /\ \A i : vc(i)' = vc(i) /\ passe(i)' = passe(i)
  BY DEF Recevoir, Ids, vc, passe
<1>5. /\ vc_noeud' = [vc_noeud EXCEPT ![n] = h]
      /\ recus' = [recus EXCEPT ![n] = @ \union {d}]
      /\ connus' = [connus EXCEPT ![n] = @ \union p]
      /\ en_vol' = [en_vol EXCEPT ![d] = @ \ {n}]
      /\ freres' = [freres EXCEPT ![n] =
           IF @ = {} THEN {d}
           ELSE Survivantes(d, n) \union {x \in {d} : \E e \in freres[n] : Garder(x, e)}]
  BY <1>2, <1>3 DEF Recevoir
<1>6. /\ \A i \in Ids, m \in Noeuds : vc(i)[m] \in Nat
      /\ \A a, b \in Noeuds : vc_noeud[a][b] \in Nat
      /\ \A i \in Ids : A[i] \in Noeuds
      /\ \A m \in Noeuds : /\ freres[m] \subseteq Ids /\ recus[m] \subseteq Ids
                           /\ connus[m] \subseteq Ids
  BY <1>0, TypesVersions
<1>7. \A m \in Noeuds : h[m] = IF vc_noeud[n][m] < vc(d)[m] THEN vc(d)[m] ELSE vc_noeud[n][m]
  BY <1>2 DEF Merger
<1>8. h \in Horloges
  BY <1>2, <1>6 DEF Merger, Horloges
<1>9. /\ p \subseteq Ids /\ d \in p /\ \A i \in p : passe(i) \subseteq p
      /\ \A i : i \in p <=> i = d \/ i \in passe(d)
  BY <1>0, <1>3, PasseClos
<1>10. Survivantes(d, n) \subseteq freres[n]
  BY DEF Survivantes
<1>11. /\ \A m \in Noeuds \ {n} : /\ vc_noeud'[m] = vc_noeud[m] /\ connus'[m] = connus[m]
                                  /\ recus'[m] = recus[m] /\ freres'[m] = freres[m]
       /\ vc_noeud'[n] = h /\ connus'[n] = connus[n] \union p
       /\ recus'[n] = recus[n] \union {d}
       /\ freres'[n] =
            IF freres[n] = {} THEN {d}
            ELSE Survivantes(d, n) \union {x \in {d} : \E e \in freres[n] : Garder(x, e)}
  BY <1>0, <1>5 DEF TypeOK
<1>12. TypeOK'
  <2>1. /\ versions' \in Seq([vc : [Noeuds -> Nat], passe : SUBSET (1..MaxVersions)])
        /\ Len(versions') <= MaxVersions /\ lus' \subseteq Ids'
    BY <1>0, <1>4 DEF TypeOK
  <2>2. vc_noeud' \in [Noeuds -> [Noeuds -> Nat]]
    BY <1>0, <1>5, <1>8 DEF TypeOK, Horloges
  <2>3. recus' \in [Noeuds -> SUBSET Ids'] /\ connus' \in [Noeuds -> SUBSET Ids']
    BY <1>0, <1>4, <1>5, <1>6, <1>9 DEF TypeOK
  <2>4. freres' \in [Noeuds -> SUBSET Ids']
    <3>1. freres'[n] \subseteq Ids
      BY <1>6, <1>10, <1>11
    <3> QED
      BY <1>0, <1>4, <1>5, <1>6, <1>11, <3>1 DEF TypeOK
  <2>5. en_vol' \in [Ids' -> SUBSET Noeuds]
    BY <1>0, <1>4, <1>5 DEF TypeOK
  <2> QED
    BY <2>1, <2>2, <2>3, <2>4, <2>5 DEF TypeOK
<1>13. PassesAnterieurs' /\ PassesClos'
  <2>1. \A m \in Noeuds : \A i \in connus'[m] : passe(i) \subseteq connus'[m]
    BY <1>0, <1>9, <1>11 DEF PassesClos
  <2> QED
    BY <1>0, <1>4, <2>1 DEF PassesAnterieurs, PassesClos
<1>14. NumerosDesVersions(A)'
  BY <1>1, <1>4 DEF Attribution, NumerosDesVersions
<1>15. NumerosDesNoeuds(A)'
  <2> SUFFICES ASSUME NEW i \in Ids, NEW m \in Noeuds
               PROVE  vc(i)[A[i]] <= vc_noeud'[m][A[i]] <=> i \in connus'[m]
    BY <1>4 DEF NumerosDesNoeuds
  <2>1. vc(i)[A[i]] <= vc_noeud[m][A[i]] <=> i \in connus[m]
    BY <1>1 DEF Attribution, NumerosDesNoeuds
  <2>2. CASE m # n
    BY <1>11, <2>1, <2>2
  <2>3. CASE m = n
    <3>1. vc(i)[A[i]] <= vc(d)[A[i]] <=> i \in p
      BY <1>1, <1>9 DEF Attribution, NumerosDesVersions
    <3> QED
      BY <1>6, <1>7, <1>11, <2>1, <2>3, <3>1
  <2> QED
    BY <2>2, <2>3
<1>16. AuteursConscients(A)'
  BY <1>1, <1>4, <1>6, <1>11 DEF Attribution, AuteursConscients
<1>17. ComposantesNumerotees(A)'
  <2>1. \A m \in Noeuds : Numerote(A, m, h[m])
    BY <1>1, <1>7 DEF Attribution, ComposantesNumerotees
  <2>2. \A m \in Noeuds : \A a \in Noeuds : Numerote(A, m, vc_noeud'[a][m])
    BY <1>1, <1>11, <2>1 DEF Attribution, ComposantesNumerotees
  <2>3. \A m \in Noeuds : \A j \in Ids : Numerote(A, m, vc(j)[m])
    BY <1>1 DEF Attribution, ComposantesNumerotees
  <2> QED
    BY <1>4, <2>2, <2>3 DEF ComposantesNumerotees, Numerote
<1>18. Attribution(A)'
  BY <1>14, <1>15, <1>16, <1>17, Zenon DEF Attribution
<1>19. FreresRecus'
  BY <1>0, <1>10, <1>11 DEF FreresRecus
<1>20. RienDePerdu'
  <2> SUFFICES ASSUME NEW m \in Noeuds, NEW e \in recus'[m], e \notin freres'[m]
               PROVE  \E j \in recus'[m] : Precede(vc(e), vc(j))
    BY <1>4, Zenon DEF RienDePerdu, Maximales
  <2>0. ASSUME e \in recus[m], e \notin freres[m]
        PROVE  \E j \in recus'[m] : Precede(vc(e), vc(j))
    <3>1. \E j \in recus[m] : Precede(vc(e), vc(j))
      BY <1>0, <2>0 DEF RienDePerdu, Maximales
    <3> QED
      BY <1>11, <3>1
  <2>1. CASE m # n
    BY <1>11, <2>0, <2>1
  <2>2. CASE m = n /\ e # d
    <3>1. e \in recus[n] /\ d \in recus'[n]
      BY <1>11, <2>2
    <3>2. CASE e \in freres[n]
      BY <1>11, <2>2, <3>1, <3>2 DEF Survivantes
    <3> QED
      BY <2>0, <2>2, <3>1, <3>2
  <2>3. CASE m = n /\ e = d
    <3>1. freres[n] # {} /\ \A f \in freres[n] : ~Garder(d, f)
      BY <1>11, <2>3
    <3>2. PICK f \in freres[n] : TRUE
      BY <3>1
    <3>3. f \in Ids /\ f \in recus'[n]
      BY <1>0, <1>6, <1>11 DEF FreresRecus
    <3>4. vc(d) = vc(f) \/ Precede(vc(d), vc(f))
      BY <3>1 DEF Garder, Concurrentes
    <3>5. vc(d) # vc(f)
      <4>1. SUFFICES ASSUME d = f
                     PROVE  FALSE
        BY <3>3, Causalite
      <4>2. ~Precede(vc(d), vc(d))
        BY <1>6 DEF Precede
      <4> QED
        BY <1>11, <2>3, <3>1, <4>1, <4>2 DEF Survivantes
    <3> QED
      BY <2>3, <3>3, <3>4, <3>5
  <2> QED
    BY <2>1, <2>2, <2>3
<1>21. A \in [Ids' -> Noeuds]
  BY <1>4
<1> QED
  BY <1>12, <1>13, <1>18, <1>19, <1>20, <1>21, Zenon DEF Inv

LEMMA InvNext ==
    ASSUME HorlogesAssumption, Inv, [Next]_varsHorloges
    PROVE  Inv'
<1>1. CASE UNCHANGED varsHorloges
  <2>1. /\ UNCHANGED <<versions, vc_noeud, freres, en_vol, lus, recus, connus>>
        /\ Ids' = Ids /\ \A i : vc(i)' = vc(i) /\ passe(i)' = passe(i)
    BY <1>1 DEF varsHorloges, Ids, vc, passe
  <2>2. PICK A \in [Ids -> Noeuds] : Attribution(A)
    BY DEF Inv
  <2>3. Attribution(A)'
    BY <2>1, <2>2
    DEF Attribution, NumerosDesVersions, NumerosDesNoeuds, AuteursConscients,
        ComposantesNumerotees, Numerote
  <2>4. TypeOK' /\ PassesAnterieurs' /\ PassesClos' /\ FreresRecus' /\ RienDePerdu'
    BY <2>1
    DEF Inv, TypeOK, PassesAnterieurs, PassesClos, FreresRecus, RienDePerdu, Maximales
  <2> QED
    BY <2>1, <2>2, <2>3, <2>4 DEF Inv
<1>2. ASSUME NEW n \in Noeuds, Lire(n)
      PROVE  Inv'
  BY <1>2, InvLire
<1>3. ASSUME NEW n \in Noeuds, Ecrire(n, {}) \/ Ecrire(n, lus)
      PROVE  Inv'
  <2>1. lus \in SUBSET Ids
    BY DEF Inv, TypeOK
  <2> QED
    BY <1>3, <2>1, InvEcrire
<1>4. ASSUME NEW n \in Noeuds, NEW d \in Ids, Recevoir(d, n)
      PROVE  Inv'
  BY <1>4, InvRecevoir
<1> QED
  BY <1>1, <1>2, <1>3, <1>4 DEF Next

\* Causality can be read in the pasts, now and after a step.
LEMMA Causal == Inv => CausaliteFidele
  BY Causalite

LEMMA OrdonneEcrire ==
    ASSUME HorlogesAssumption, Permis = {}, Inv, Inv', ReceptionOrdonnee,
           NEW n \in Noeuds, NEW contexte \in SUBSET Ids, Ecrire(n, contexte)
    PROVE  ReceptionOrdonnee'
<1>0. TypeOK /\ PassesAnterieurs /\ PassesClos /\ PassesAnterieurs'
  BY DEF Inv
<1>1. PICK k \in 1..MaxVersions, w \in Horloges, p \in SUBSET Ids :
        /\ p = connus[n] \union Passe(contexte)
        /\ Ecriture(n, k, w, p)
  BY EffetEcrire
<1>2. /\ k \in Nat /\ k \notin Ids /\ Ids' = Ids \union {k}
      /\ \A i \in Ids : vc(i)' = vc(i) /\ passe(i)' = passe(i)
      /\ vc(k)' = w /\ passe(k)' = p
  BY <1>1 DEF Ecriture, HorlogesAssumption
<1>3. /\ recus' = [recus EXCEPT ![n] = @ \union {k}]
      /\ connus' = [connus EXCEPT ![n] = p \union {k}]
      /\ freres' = [freres EXCEPT ![n] =
           {e \in @ : ~Precede(w, vc(e)) /\ ~Precede(vc(e), w)} \union {k}]
      /\ en_vol' = Append(en_vol, Noeuds \ {n})
  BY <1>1 DEF Ecriture
<1>4. connus = recus /\ \A m \in Noeuds : freres[m] = Maximales(recus[m])
  BY DEF ReceptionOrdonnee, FreresMaximaux
<1>5. \A m \in Noeuds : recus[m] \subseteq Ids
  BY <1>0, TypesVersions
<1>6. p = recus[n]
  <2>1. contexte \subseteq recus[n]
    BY DEF Ecrire
  <2>2. Passe(contexte) \subseteq recus[n]
    BY <1>0, <1>4, <2>1 DEF Passe, passe, PassesClos
  <2> QED
    BY <1>1, <1>4, <2>2
<1>7. connus' = recus'
  BY <1>3, <1>4, <1>6
<1>8. /\ \A m \in Noeuds \ {n} : recus'[m] = recus[m] /\ freres'[m] = freres[m]
      /\ recus'[n] = p \union {k}
      /\ freres'[n] = {e \in freres[n] : ~Precede(w, vc(e)) /\ ~Precede(vc(e), w)}
                      \union {k}
  BY <1>0, <1>3, <1>6 DEF TypeOK
<1>9. ASSUME NEW d \in Ids', NEW m \in en_vol'[d]
      PROVE  d \notin recus'[m]
  <2>1. CASE d = k
    <3>1. en_vol'[k] = Noeuds \ {n}
      <4>1. en_vol \in [1..(k - 1) -> SUBSET Noeuds] /\ k - 1 \in Nat
        BY <1>0, <1>1, <1>2 DEF TypeOK, Ecriture
      <4>. DEFINE E == SUBSET Noeuds
      <4>2. en_vol \in [1..(k - 1) -> E]
        BY <4>1
      <4>. HIDE DEF E
      <4>3. en_vol \in Seq(E) /\ Len(en_vol) = k - 1
        BY <4>1, <4>2, SeqDef, LenProperties
      <4> QED
        BY <1>2, <1>3, <4>3
    <3> QED
      BY <1>2, <1>5, <1>8, <2>1, <3>1
  <2>2. CASE d \in Ids
    <3>1. en_vol'[d] = en_vol[d]
      <4>1. en_vol \in [1..(k - 1) -> SUBSET Noeuds] /\ k - 1 \in Nat /\ d \in 1..(k - 1)
        BY <1>0, <1>1, <1>2, <2>2 DEF TypeOK, Ecriture
      <4>. DEFINE E == SUBSET Noeuds
      <4>2. en_vol \in [1..(k - 1) -> E]
        BY <4>1
      <4>. HIDE DEF E
      <4>3. en_vol \in Seq(E) /\ Len(en_vol) = k - 1
        BY <4>1, <4>2, SeqDef, LenProperties
      <4> QED
        BY <1>2, <1>3, <4>1, <4>3
    <3>2. m \in Noeuds /\ d \notin recus[m]
      BY <1>0, <2>2, <3>1 DEF ReceptionOrdonnee, TypeOK
    <3> QED
      BY <1>2, <1>6, <1>8, <2>2, <3>2
  <2> QED
    BY <1>2, <2>1, <2>2
<1>10. FreresMaximaux'
  <2>0. CausaliteFidele'
    BY Causal, PTL
  <2>1. \A i, j \in Ids' : Precede(vc(i)', vc(j)') <=> i \in passe(j)'
    BY <2>0, Zenon DEF CausaliteFidele, passe
  <2>2. \A i \in p : Precede(vc(i), w)
    BY <1>2, <2>1
  <2>3. \A i \in p : ~Precede(w, vc(i)) /\ k \notin passe(i)
    BY <1>0, <1>2, <2>1 DEF PassesAnterieurs
  <2>4. ~Precede(w, w)
    BY <1>2, <2>1
  <2>5. freres'[n] = {k}
    BY <1>4, <1>6, <1>8, <2>2 DEF Maximales
  <2>6. \A i \in recus'[n] : (\A j \in recus'[n] : ~Precede(vc(i)', vc(j)')) <=> i = k
    BY <1>2, <1>8, <2>2, <2>3, <2>4
  <2>7. \A m \in Noeuds \ {n} : \A i \in recus[m] : vc(i)' = vc(i)
    BY <1>2, <1>5
  <2>8. \A m \in Noeuds :
          freres'[m] = {i \in recus'[m] : \A j \in recus'[m] : ~Precede(vc(i)', vc(j)')}
    <3> SUFFICES ASSUME NEW m \in Noeuds
                 PROVE  freres'[m] = {i \in recus'[m] :
                                        \A j \in recus'[m] : ~Precede(vc(i)', vc(j)')}
      OBVIOUS
    <3>1. CASE m = n
      BY <1>8, <2>5, <2>6, <3>1
    <3>2. CASE m # n
      BY <1>4, <1>8, <2>7, <3>2 DEF Maximales
    <3> QED
      BY <3>1, <3>2
  <2> QED
    BY <2>8, Zenon DEF FreresMaximaux, Maximales
<1> QED
  BY <1>7, <1>9, <1>10 DEF ReceptionOrdonnee

LEMMA OrdonneRecevoir ==
    ASSUME Permis = {}, Inv, ReceptionOrdonnee,
           NEW n \in Noeuds, NEW d \in Ids, Recevoir(d, n)
    PROVE  ReceptionOrdonnee'
<1>0. TypeOK /\ PassesAnterieurs /\ PassesClos
  BY DEF Inv
<1>1. /\ Ids' = Ids /\ \A i : vc(i)' = vc(i)
      /\ n \in en_vol[d] /\ versions[d].passe \subseteq recus[n]
      /\ en_vol' = [en_vol EXCEPT ![d] = @ \ {n}]
      /\ recus' = [recus EXCEPT ![n] = @ \union {d}]
      /\ connus' = [connus EXCEPT ![n] = @ \union Passe({d})]
      /\ freres' = [freres EXCEPT ![n] =
           IF @ = {} THEN {d}
           ELSE Survivantes(d, n) \union {x \in {d} : \E e \in freres[n] : Garder(x, e)}]
  BY DEF Recevoir, Ids, vc
<1>2. connus = recus /\ \A m \in Noeuds : freres[m] = Maximales(recus[m])
  BY DEF ReceptionOrdonnee, FreresMaximaux
<1>3. \A m \in Noeuds : recus[m] \subseteq Ids
  BY <1>0, TypesVersions
<1>4. d \notin recus[n]
  BY <1>1 DEF ReceptionOrdonnee
<1>5. passe(d) \subseteq recus[n] /\ Passe({d}) = {d} \union passe(d)
  BY <1>1 DEF passe, Passe
<1>6. connus' = recus'
  <2>1. recus[n] \union Passe({d}) = recus[n] \union {d}
    BY <1>5
  <2> QED
    BY <1>1, <1>2, <2>1
<1>7. /\ \A m \in Noeuds \ {n} : recus'[m] = recus[m] /\ freres'[m] = freres[m]
      /\ recus'[n] = recus[n] \union {d}
      /\ freres'[n] =
           IF freres[n] = {} THEN {d}
           ELSE Survivantes(d, n) \union {x \in {d} : \E e \in freres[n] : Garder(x, e)}
  BY <1>0, <1>1 DEF TypeOK
<1>8. ASSUME NEW e \in Ids', NEW m \in en_vol'[e]
      PROVE  e \notin recus'[m]
  <2>1. m \in en_vol[e] /\ e \in Ids /\ m \in Noeuds /\ ~(e = d /\ m = n)
    BY <1>0, <1>1 DEF TypeOK
  <2>2. e \notin recus[m]
    BY <2>1 DEF ReceptionOrdonnee
  <2> QED
    BY <1>7, <2>1, <2>2
<1>9. \A i, j \in Ids : Precede(vc(i), vc(j)) <=> i \in passe(j)
  BY Causalite DEF CausaliteFidele, passe
<1>10. \A j \in recus[n] : d \notin passe(j)
  BY <1>0, <1>2, <1>4 DEF PassesClos
<1>11. d \notin passe(d)
  BY <1>0, TypesVersions DEF PassesAnterieurs
<1>12. ASSUME NEW i \in recus'[n]
       PROVE  i \in freres'[n] <=> \A j \in recus'[n] : ~Precede(vc(i), vc(j))
  <2>1. CASE i = d
    <3>1. \A j \in recus'[n] : ~Precede(vc(d), vc(j))
      BY <1>3, <1>7, <1>9, <1>10, <1>11
    <3>2. d \in freres'[n]
      <4>1. CASE freres[n] = {}
        BY <1>7, <4>1
      <4>2. CASE freres[n] # {}
        <5>1. PICK e \in freres[n] : TRUE
          BY <4>2
        <5>2. e \in recus[n] /\ e \in Ids /\ e # d
          BY <1>2, <1>3, <1>4, <5>1 DEF Maximales
        <5>3. vc(d) # vc(e)
          BY <5>2, Causalite
        <5>4. ~Precede(vc(d), vc(e))
          BY <1>7, <3>1, <5>2
        <5>5. Garder(d, e)
          BY <5>3, <5>4 DEF Garder, Concurrentes
        <5> QED
          BY <1>7, <4>2, <5>1, <5>5
      <4> QED
        BY <4>1, <4>2
    <3> QED
      BY <2>1, <3>1, <3>2
  <2>2. CASE i # d
    <3>1. i \in recus[n]
      BY <1>7, <2>2
    <3>2. i \in freres'[n] <=> i \in freres[n] /\ ~Precede(vc(i), vc(d))
      BY <1>7, <2>2 DEF Survivantes
    <3> QED
      BY <1>2, <1>7, <3>1, <3>2 DEF Maximales
  <2> QED
    BY <2>1, <2>2
<1>13. freres'[n] \subseteq recus'[n]
  BY <1>2, <1>7 DEF Survivantes, Maximales
<1>14. \A m \in Noeuds :
         freres'[m] = {i \in recus'[m] : \A j \in recus'[m] : ~Precede(vc(i), vc(j))}
  BY <1>2, <1>7, <1>12, <1>13 DEF Maximales
<1>15. FreresMaximaux'
  BY <1>1, <1>14, Zenon DEF FreresMaximaux, Maximales
<1> QED
  BY <1>6, <1>8, <1>15 DEF ReceptionOrdonnee

LEMMA OrdonneNext ==
    ASSUME HorlogesAssumption, Permis = {}, Inv, Inv', ReceptionOrdonnee,
           [Next]_varsHorloges
    PROVE  ReceptionOrdonnee'
<1>1. CASE UNCHANGED <<versions, vc_noeud, freres, en_vol, recus, connus>>
  BY <1>1 DEF ReceptionOrdonnee, FreresMaximaux, Maximales, Ids, vc
<1>2. ASSUME NEW n \in Noeuds, Ecrire(n, {}) \/ Ecrire(n, lus)
      PROVE  ReceptionOrdonnee'
  <2>1. lus \in SUBSET Ids
    BY DEF Inv, TypeOK
  <2> QED
    BY <1>2, <2>1, OrdonneEcrire
<1>3. ASSUME NEW n \in Noeuds, NEW d \in Ids, Recevoir(d, n)
      PROVE  ReceptionOrdonnee'
  BY <1>3, OrdonneRecevoir
<1> QED
  BY <1>1, <1>2, <1>3 DEF Next, Lire, varsHorloges

-----------------------------------------------------------------------------
\* The theorems.

\* The clocks, the siblings and what is under way always have their types.
THEOREM TypeCorrect == ASSUME HorlogesAssumption PROVE Spec => []TypeOK
<1>1. Init => Inv
  BY InvInit
<1>2. Inv /\ [Next]_varsHorloges => Inv'
  BY InvNext
<1>3. Inv => TypeOK
  BY DEF Inv
<1> QED
  BY <1>1, <1>2, <1>3, PTL DEF Spec

\* Whatever the order in which versions arrive, one clock precedes another exactly
\* when the author of the second version knew of the first (relation_avec).
THEOREM CausaliteFideleCorrect ==
    ASSUME HorlogesAssumption
    PROVE  Spec => []CausaliteFidele
<1>1. Init => Inv
  BY InvInit
<1>2. Inv /\ [Next]_varsHorloges => Inv'
  BY InvNext
<1> QED
  BY <1>1, <1>2, Causal, PTL DEF Spec

\* Whatever the order in which versions arrive, no node drops a version that none of
\* those it received replaces (recevoir_replication, ecrire).
THEOREM RienDePerduCorrect ==
    ASSUME HorlogesAssumption
    PROVE  Spec => []RienDePerdu
<1>1. Init => Inv
  BY InvInit
<1>2. Inv /\ [Next]_varsHorloges => Inv'
  BY InvNext
<1>3. Inv => RienDePerdu
  BY DEF Inv
<1> QED
  BY <1>1, <1>2, <1>3, PTL DEF Spec

\* When versions arrive after those they know of, a node keeps exactly those that
\* nothing it received has replaced.
THEOREM FreresMaximauxCorrect ==
    ASSUME HorlogesAssumption, Permis = {}
    PROVE  Spec => []FreresMaximaux
<1>1. Init => Inv /\ ReceptionOrdonnee
  BY InvInit
<1>2. Inv /\ [Next]_varsHorloges => Inv'
  BY InvNext
<1>3. Inv /\ Inv' /\ ReceptionOrdonnee /\ [Next]_varsHorloges => ReceptionOrdonnee'
  BY OrdonneNext
<1>4. ReceptionOrdonnee => FreresMaximaux
  BY DEF ReceptionOrdonnee
<1> QED
  BY <1>1, <1>2, <1>3, <1>4, PTL DEF Spec
=============================================================================
