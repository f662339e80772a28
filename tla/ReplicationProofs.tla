------------------------- MODULE ReplicationProofs --------------------------
(***************************************************************************)
(* What TLAPS proves about the copies of MCReplication, for every set of   *)
(* nodes and every bound: QuorumWR, which the module extends, then, as     *)
(* instances, Gossip, Sharding, MultiMaitre and Anneau. They share nothing *)
(* but names of constants.                                                 *)
(*                                                                         *)
(* QuorumWR: the types, that an acknowledged write stays on W replicas,    *)
(* that a read sees it when W + R > N, and the repair.                     *)
(*                                                                         *)
(* Gossip: that no version goes back where a key has one writer.           *)
(*                                                                         *)
(* Sharding: that a key is in one shard, where reads and range queries     *)
(* find it.                                                                *)
(*                                                                         *)
(* MultiMaitre: that masters end with one value, and with MERGE with all   *)
(* of them.                                                                *)
(*                                                                         *)
(* Anneau: that the list of positions, the table and the nodes agree.      *)
(***************************************************************************)
EXTENDS QuorumWR, Sequences, FiniteSetTheorems, SequenceTheorems,
        WellFoundedInduction, TLAPS

CONSTANTS Cles, Auteurs, Degre, Coupures, PermisGossip,
          NbShards, Ecrivains, LecteursCles, MaxValeurs, MaxMigrations, Methodes,
          PermisSharding, Strategies, PermisMaitres,
          Personne, Taille, Vnodes, PermisAnneau
VARIABLES etat_gossip, generation, copie, voisins, contacte, recu, arretes, sursis, separes,
          methode, bornes, registre, contenu, appel, migration, valeurs, migrations,
          derniere, rendue,
          strategie_conflit, ecrits_maitres, entree, vers_maitres,
          hachage, occurrences, anneau, noeud_positions

\* Each with its own constants and variables, but for the nodes and the bound on writes.
Go == INSTANCE Gossip WITH k <- Degre, Permis <- PermisGossip
Sh == INSTANCE Sharding WITH Permis <- PermisSharding
Ma == INSTANCE MultiMaitre WITH Permis <- PermisMaitres, vers <- vers_maitres
An == INSTANCE Anneau WITH Permis <- PermisAnneau

-----------------------------------------------------------------------------
\* Writing a value of the right type keeps the type of a function.
LEMMA Ecriture ==
    ASSUME NEW S, NEW T, NEW f \in [S -> T], NEW x \in S, NEW v \in T
    PROVE  [f EXCEPT ![x] = v] \in [S -> T]
OBVIOUS

LEMMA EcritureDouble ==
    ASSUME NEW S, NEW T, NEW V, NEW f \in [S -> [T -> V]], NEW x \in S, NEW y \in T,
           NEW v \in V
    PROVE  [f EXCEPT ![x][y] = v] \in [S -> [T -> V]]
<1>1. [f[x] EXCEPT ![y] = v] \in [T -> V]
  OBVIOUS
<1> QED
  BY <1>1, Zenon

\* Every set of naturals that is not empty has a smallest member...
LEMMA MinimumExiste ==
    ASSUME NEW T, T \subseteq Nat, T # {}
    PROVE  \E x \in T : \A y \in T : x <= y
<1> DEFINE Inf == OpToRel(<, Nat)
<1>1. IsWellFoundedOn(Inf, Nat)
  BY NatLessThanWellFounded
<1>2. \A x, y \in Nat : <<x, y>> \in Inf <=> x < y
  BY DEF OpToRel
<1> HIDE DEF Inf
<1>3. PICK x \in T : \A y \in T : ~(<<y, x>> \in Inf)
  BY <1>1, WFMin, Zenon
<1>4. \A y \in T : ~(y < x)
  BY <1>2, <1>3
<1> QED
  BY <1>4

\* ... and, when it is bounded, a greatest one: PlusGrand is well defined.
LEMMA PlusGrandCorrect ==
    ASSUME NEW M \in Nat, NEW T, T \subseteq 0..M, T # {}
    PROVE  /\ PlusGrand(T) \in T
           /\ \A y \in T : y <= PlusGrand(T)
<1> DEFINE U == {M - x : x \in T}
<1>0. \A x \in T : M - x \in Nat
  OBVIOUS
<1>1. U \subseteq Nat /\ U # {}
  <2>1. U \subseteq Nat
    BY <1>0
  <2> QED
    BY <2>1
<1>2. PICK u \in U : \A v \in U : u <= v
  BY <1>1, MinimumExiste
<1>3. PICK x \in T : u = M - x
  BY <1>2
<1>4. \A y \in T : M - x <= M - y
  BY <1>2, <1>3
<1>5. \E z \in T : \A y \in T : y <= z
  BY <1>4
<1> QED
  BY <1>5, Zenon DEF PlusGrand

\* A set of replicas that only grows keeps its W members.
LEMMA Grandit ==
    ASSUME QuorumAssumption, NEW S \in SUBSET Noeuds, NEW T \in SUBSET Noeuds,
           S \subseteq T
    PROVE  /\ Cardinality(S) \in Nat /\ Cardinality(T) \in Nat
           /\ Cardinality(S) <= Cardinality(T)
<1>1. IsFiniteSet(Noeuds)
  BY DEF QuorumAssumption
<1>2. IsFiniteSet(S) /\ IsFiniteSet(T)
  BY <1>1, FS_Subset
<1> QED
  BY <1>2, FS_Subset, FS_CardinalityType

\* W and R with what the proofs use of them.
LEMMA Bornes ==
    ASSUME QuorumAssumption
    PROVE  /\ IsFiniteSet(Noeuds) /\ Cardinality(Noeuds) \in Nat
           /\ W \in Nat /\ R \in Nat /\ W >= 1 /\ R >= 1
           /\ MaxEcritures \in Nat
<1>1. IsFiniteSet(Noeuds) /\ Cardinality(Noeuds) \in Nat
  BY FS_CardinalityType DEF QuorumAssumption
<1>2. W \in 1..Cardinality(Noeuds) /\ R \in 1..Cardinality(Noeuds)
  BY DEF QuorumAssumption
<1> QED
  BY <1>1, <1>2 DEF QuorumAssumption

-----------------------------------------------------------------------------
\* The replicas that guarantee a read what was acknowledged when it began: they
\* hold it, and if they have already been read, gave it (or gave nothing).
Temoins(l) == {n \in Noeuds :
    /\ magasin[n] >= au_depart[l]
    /\ lu[l][n] \in {Attente, Absente} \/ lu[l][n] >= au_depart[l]}

InvEcritures ==
    /\ \A e \in Ecritures, n \in Noeuds :
           tentative[e][n] = "confirmee" => magasin[n] >= e
    /\ \A e \in Ecritures :
           ecriture[e] = "ok" => Cardinality(Confirmations(e)) >= W

InvLectures ==
    /\ \A l \in Lectures : lecture[l] = "absente" => \A n \in Noeuds : lu[l][n] = Attente
    /\ \A l \in Lectures : \A n \in reponses[l] : lu[l][n] # Attente
    /\ \A l \in Lectures : lecture[l] # "absente" /\ au_depart[l] >= 1
                              => Cardinality(Temoins(l)) >= W

InvReparations ==
    /\ \A l \in Lectures, n \in Noeuds : lu[l][n] <= magasin[n]
    /\ \A l \in Lectures : lecture[l] # "ok" => ~a_reparer[l] /\ repares[l] = {}
    /\ "panne" \notin Permis => ReparationComplete

Inv == TypeOK /\ InvEcritures /\ InvLectures /\ LectureForte /\ InvReparations

-----------------------------------------------------------------------------
\* NoeudReplique.ecrire never goes back, and leaves the replica with the
\* version offered or a newer one.
LEMMA RangerCorrect ==
    ASSUME TypeOK, NEW v \in 0..MaxEcritures, NEW n \in Noeuds, Ranger(v, n)
    PROVE  /\ magasin' \in [Noeuds -> 0..MaxEcritures]
           /\ \A m \in Noeuds : magasin'[m] >= magasin[m]
           /\ magasin'[n] >= v
<1>1. magasin \in [Noeuds -> 0..MaxEcritures]
  BY DEF TypeOK
<1>2. (IF PlusRecente(v, n) THEN v ELSE magasin[n]) \in 0..MaxEcritures
  BY <1>1
<1> QED
  BY <1>1, <1>2 DEF Ranger, PlusRecente

\* What Lire notes: 0, or a write that was acknowledged, and the newest.
LEMMA DepartCorrect ==
    ASSUME QuorumAssumption, TypeOK
    PROVE  PlusGrand(Acquittees) \in 0..MaxEcritures /\ PlusGrand(Acquittees) \in Acquittees
<1>1. Acquittees \subseteq 0..MaxEcritures /\ Acquittees # {}
  BY Bornes DEF Acquittees, Ecritures
<1>2. PlusGrand(Acquittees) \in Acquittees
  BY <1>1, Bornes, PlusGrandCorrect
<1> QED
  BY <1>1, <1>2

\* What a read returns: the newest of the useful answers.
LEMMA MeilleureCorrecte ==
    ASSUME QuorumAssumption, TypeOK, NEW l \in Lectures, Cardinality(Utiles(l)) >= R,
           \A n \in reponses[l] : lu[l][n] # Attente
    PROVE  /\ Meilleure(l) \in 0..MaxEcritures
           /\ \A n \in Utiles(l) : lu[l][n] <= Meilleure(l)
           /\ \A v \in Int : (\A n \in Noeuds : lu[l][n] <= v) => Meilleure(l) <= v
<1> DEFINE T == {lu[l][n] : n \in Utiles(l)}
<1>1. lu[l] \in [Noeuds -> -1..MaxEcritures] /\ reponses[l] \subseteq Noeuds
  BY DEF TypeOK
<1>2. Utiles(l) # {}
  BY Bornes, FS_EmptySet
<1>3. Utiles(l) \subseteq Noeuds
  BY <1>1 DEF Utiles
<1>4. \A n \in Utiles(l) : lu[l][n] \in 0..MaxEcritures
  BY <1>1, Bornes DEF Utiles, Attente
<1>5. T \subseteq 0..MaxEcritures /\ T # {}
  BY <1>2, <1>4
<1>6. PlusGrand(T) \in T /\ \A y \in T : y <= PlusGrand(T)
  BY <1>5, Bornes, PlusGrandCorrect
<1>7. Meilleure(l) = PlusGrand(T)
  BY DEF Meilleure
<1> HIDE DEF T
<1>8. \A n \in Utiles(l) : lu[l][n] \in T
  BY DEF T
<1>9. PICK n \in Utiles(l) : PlusGrand(T) = lu[l][n]
  BY <1>6 DEF T
<1> QED
  BY <1>3, <1>5, <1>6, <1>7, <1>8, <1>9

-----------------------------------------------------------------------------
\* A step keeps the types.
LEMMA PasTypeOK ==
    ASSUME QuorumAssumption, TypeOK, InvLectures, [Next]_varsQuorum
    PROVE  TypeOK'
<1>1. CASE Ecrire
  <2>0. horloge \in 0..MaxEcritures /\ horloge < MaxEcritures /\ horloge' = horloge + 1
    BY <1>1 DEF Ecrire, TypeOK
  <2>1. horloge' \in 0..MaxEcritures /\ horloge' \in Ecritures
    BY <2>0, Bornes DEF Ecritures
  <2>2. ecriture' \in [Ecritures -> {"absente", "en cours", "ok", "timeout"}]
    BY <1>1, <2>1 DEF Ecrire, TypeOK
  <2> QED
    BY <1>1, <2>1, <2>2 DEF Ecrire, TypeOK, lecteurs
<1>2. ASSUME NEW e \in Ecritures, ConclureEcriture(e)
      PROVE  TypeOK'
  <2>1. ecriture' \in [Ecritures -> {"absente", "en cours", "ok", "timeout"}]
    BY <1>2 DEF ConclureEcriture, TypeOK
  <2> QED
    BY <1>2, <2>1 DEF ConclureEcriture, TypeOK, lecteurs
<1>3. ASSUME NEW e \in Ecritures, NEW n \in Noeuds, TenterEcriture(e, n)
      PROVE  TypeOK'
  <2>1. tentative \in [Ecritures -> [Noeuds -> {"attente", "confirmee", "echec"}]]
    BY DEF TypeOK
  <2>2. \E v \in {"confirmee", "echec"} : tentative' = [tentative EXCEPT ![e][n] = v]
    BY <1>3 DEF TenterEcriture
  <2>3. tentative' \in [Ecritures -> [Noeuds -> {"attente", "confirmee", "echec"}]]
    BY <2>1, <2>2, EcritureDouble
  <2>4. e \in 0..MaxEcritures
    BY Bornes DEF Ecritures
  <2>5. magasin' = magasin \/ Ranger(e, n)
    BY <1>3 DEF TenterEcriture
  <2>6. magasin' \in [Noeuds -> 0..MaxEcritures]
    BY <2>4, <2>5, RangerCorrect DEF TypeOK
  <2> QED
    BY <1>3, <2>3, <2>6 DEF TenterEcriture, TypeOK, lecteurs
<1>4. ASSUME NEW l \in Lectures, Lire(l)
      PROVE  TypeOK'
  <2>1. lecture' \in [Lectures -> {"absente", "en cours", "ok", "timeout"}]
    BY <1>4 DEF Lire, TypeOK
  <2>2. au_depart' \in [Lectures -> 0..MaxEcritures]
    BY <1>4, DepartCorrect DEF Lire, TypeOK
  <2> QED
    BY <1>4, <2>1, <2>2 DEF Lire, TypeOK, ecrivains
<1>5. ASSUME NEW l \in Lectures, NEW n \in Noeuds, TenterLecture(l, n)
      PROVE  TypeOK'
  <2>1. magasin[n] \in 0..MaxEcritures /\ lu \in [Lectures -> [Noeuds -> -1..MaxEcritures]]
    BY DEF TypeOK
  <2>2. magasin[n] \in -1..MaxEcritures /\ Absente \in -1..MaxEcritures
    BY <2>1, Bornes DEF Absente
  <2>3. \E v \in {magasin[n], Absente} : lu' = [lu EXCEPT ![l][n] = v]
    BY <1>5 DEF TenterLecture
  <2>4. lu' \in [Lectures -> [Noeuds -> -1..MaxEcritures]]
    BY <2>1, <2>2, <2>3, EcritureDouble
  <2> QED
    BY <1>5, <2>4 DEF TenterLecture, TypeOK, ecrivains
<1>6. ASSUME NEW l \in Lectures, NEW n \in Noeuds, Repondre(l, n)
      PROVE  TypeOK'
  <2>1. reponses' \in [Lectures -> SUBSET Noeuds]
    BY <1>6 DEF Repondre, TypeOK
  <2> QED
    BY <1>6, <2>1 DEF Repondre, TypeOK, ecrivains
<1>7. ASSUME NEW l \in Lectures, ConclureLecture(l)
      PROVE  TypeOK'
  <2>1. lecture' \in [Lectures -> {"absente", "en cours", "ok", "timeout"}]
    BY <1>7 DEF ConclureLecture, TypeOK
  <2>2. meilleure' \in [Lectures -> 0..MaxEcritures]
    <3>1. meilleure \in [Lectures -> 0..MaxEcritures]
      BY DEF TypeOK
    <3>2. \/ meilleure' = meilleure
          \/ /\ Cardinality(Utiles(l)) >= R
             /\ meilleure' = [meilleure EXCEPT ![l] = Meilleure(l)]
      BY <1>7 DEF ConclureLecture
    <3>3. \A n \in reponses[l] : lu[l][n] # Attente
      BY DEF InvLectures
    <3>4. Cardinality(Utiles(l)) >= R => Meilleure(l) \in 0..MaxEcritures
      BY <3>3, MeilleureCorrecte
    <3> QED
      BY <3>1, <3>2, <3>4
  <2>3. a_reparer' \in [Lectures -> BOOLEAN]
    BY <1>7 DEF ConclureLecture, TypeOK
  <2> QED
    BY <1>7, <2>1, <2>2, <2>3 DEF ConclureLecture, TypeOK, ecrivains
<1>8. ASSUME NEW l \in Lectures, NEW n \in Noeuds, Reparer(l, n)
      PROVE  TypeOK'
  <2>1. repares' \in [Lectures -> SUBSET Noeuds]
    BY <1>8 DEF Reparer, TypeOK
  <2>2. magasin' \in [Noeuds -> 0..MaxEcritures]
    BY <1>8, RangerCorrect DEF Reparer, TypeOK
  <2> QED
    BY <1>8, <2>1, <2>2 DEF Reparer, TypeOK, ecrivains
<1>9. ASSUME NEW l \in Lectures, FinirReparation(l)
      PROVE  TypeOK'
  <2>1. a_reparer' \in [Lectures -> BOOLEAN]
    BY <1>9 DEF FinirReparation, TypeOK
  <2> QED
    BY <1>9, <2>1 DEF FinirReparation, TypeOK, ecrivains
<1>10. CASE UNCHANGED varsQuorum
  BY <1>10 DEF TypeOK, varsQuorum
<1> QED
  BY <1>1, <1>2, <1>3, <1>4, <1>5, <1>6, <1>7, <1>8, <1>9, <1>10 DEF Next

-----------------------------------------------------------------------------
\* No step takes a replica back.
LEMMA MagasinCroit ==
    ASSUME QuorumAssumption, TypeOK, [Next]_varsQuorum
    PROVE  \A m \in Noeuds : magasin'[m] >= magasin[m]
<1>1. magasin \in [Noeuds -> 0..MaxEcritures]
  BY DEF TypeOK
<1>2. CASE UNCHANGED magasin
  BY <1>1, <1>2
<1>3. ASSUME NEW e \in Ecritures, NEW n \in Noeuds, TenterEcriture(e, n)
      PROVE  UNCHANGED magasin \/ \E v \in 0..MaxEcritures, m \in Noeuds : Ranger(v, m)
  <2>1. e \in 0..MaxEcritures
    BY Bornes DEF Ecritures
  <2> QED
    BY <1>3, <2>1 DEF TenterEcriture
<1>4. ASSUME NEW l \in Lectures, NEW n \in Noeuds, Reparer(l, n)
      PROVE  UNCHANGED magasin \/ \E v \in 0..MaxEcritures, m \in Noeuds : Ranger(v, m)
  <2>1. meilleure[l] \in 0..MaxEcritures
    BY DEF TypeOK
  <2> QED
    BY <1>4, <2>1 DEF Reparer
<1>5. UNCHANGED magasin \/ \E v \in 0..MaxEcritures, m \in Noeuds : Ranger(v, m)
  BY <1>3, <1>4 DEF Next, Ecrire, ConclureEcriture, Lire, TenterLecture, Repondre,
                    ConclureLecture, FinirReparation, varsQuorum
<1> QED
  BY <1>2, <1>5, RangerCorrect

\* The steps that are no writer's.
LEMMA EcrivainsOuAutre ==
    ASSUME [Next]_varsQuorum
    PROVE  \/ Ecrire
           \/ \E e \in Ecritures : ConclureEcriture(e)
           \/ \E e \in Ecritures, n \in Noeuds : TenterEcriture(e, n)
           \/ UNCHANGED <<ecriture, tentative>>
BY DEF Next, Lire, TenterLecture, Repondre, ConclureLecture, Reparer, FinirReparation,
       varsQuorum, ecrivains

LEMMA PasEcritures ==
    ASSUME QuorumAssumption, TypeOK, TypeOK', InvEcritures, [Next]_varsQuorum
    PROVE  InvEcritures'
<1> DEFINE Fidele(e, n) == tentative[e][n] = "confirmee" => magasin[n] >= e
           Acquise(e) == ecriture[e] = "ok" => Cardinality(Confirmations(e)) >= W
<1>1. /\ \A e \in Ecritures, n \in Noeuds : Fidele(e, n)
      /\ \A e \in Ecritures : Acquise(e)
  BY DEF InvEcritures
<1>2. magasin \in [Noeuds -> 0..MaxEcritures] /\ magasin' \in [Noeuds -> 0..MaxEcritures]
  BY DEF TypeOK
<1>3. \A e \in Ecritures, n \in Noeuds :
         tentative'[e][n] = tentative[e][n] => Fidele(e, n)'
  <2> SUFFICES ASSUME NEW e \in Ecritures, NEW n \in Noeuds,
                      tentative'[e][n] = tentative[e][n], tentative[e][n] = "confirmee"
               PROVE  magasin'[n] >= e
    OBVIOUS
  <2>1. magasin[n] >= e
    BY <1>1
  <2>2. magasin'[n] >= magasin[n]
    BY MagasinCroit
  <2>3. e \in Int
    BY DEF Ecritures
  <2> QED
    BY <1>2, <2>1, <2>2, <2>3
<1>4. \A e \in Ecritures : Confirmations(e) \subseteq Confirmations(e)'
                           /\ ecriture'[e] = ecriture[e] => Acquise(e)'
  <2> SUFFICES ASSUME NEW e \in Ecritures, Confirmations(e) \subseteq Confirmations(e)',
                      ecriture'[e] = ecriture[e], ecriture[e] = "ok"
               PROVE  Cardinality(Confirmations(e)') >= W
    BY DEF Confirmations
  <2>1. Confirmations(e) \in SUBSET Noeuds /\ Confirmations(e)' \in SUBSET Noeuds
    BY DEF Confirmations
  <2>2. Cardinality(Confirmations(e)) >= W
    BY <1>1
  <2> QED
    BY <2>1, <2>2, Grandit, Bornes
<1>5. ASSUME UNCHANGED tentative
      PROVE  \A e \in Ecritures : Confirmations(e)' = Confirmations(e)
  BY <1>5 DEF Confirmations
<1>6. CASE Ecrire
  <2>1. UNCHANGED tentative
    BY <1>6 DEF Ecrire
  <2>2. \A e \in Ecritures : ecriture'[e] \in {ecriture[e], "en cours"}
    BY <1>6 DEF Ecrire, TypeOK
  <2>3. \A e \in Ecritures : Acquise(e)'
    BY <1>4, <1>5, <2>1, <2>2
  <2> QED
    BY <1>3, <2>1, <2>3 DEF InvEcritures
<1>7. ASSUME NEW d \in Ecritures, ConclureEcriture(d)
      PROVE  InvEcritures'
  <2>1. UNCHANGED tentative
    BY <1>7 DEF ConclureEcriture
  <2>2. \A e \in Ecritures \ {d} : ecriture'[e] = ecriture[e]
    BY <1>7 DEF ConclureEcriture, TypeOK
  <2>3. ecriture'[d] = "ok" => Cardinality(Confirmations(d)) >= W
    BY <1>7 DEF ConclureEcriture, TypeOK
  <2>4. \A e \in Ecritures : Acquise(e)'
    BY <1>4, <1>5, <2>1, <2>2, <2>3
  <2> QED
    BY <1>3, <2>1, <2>4 DEF InvEcritures
<1>8. ASSUME NEW d \in Ecritures, NEW m \in Noeuds, TenterEcriture(d, m)
      PROVE  InvEcritures'
  <2>1. tentative \in [Ecritures -> [Noeuds -> {"attente", "confirmee", "echec"}]]
    BY DEF TypeOK
  <2>2. PICK v \in {"confirmee", "echec"} : tentative' = [tentative EXCEPT ![d][m] = v]
    BY <1>8 DEF TenterEcriture
  <2>3. tentative[d][m] = "attente" /\ UNCHANGED ecriture
    BY <1>8 DEF TenterEcriture
  <2>4. tentative'[d][m] = v
        /\ \A e \in Ecritures, n \in Noeuds :
              <<e, n>> # <<d, m>> => tentative'[e][n] = tentative[e][n]
    BY <2>1, <2>2
  <2>5. \A e \in Ecritures : Acquise(e)'
    <3>1. \A e \in Ecritures : Confirmations(e) \subseteq Confirmations(e)'
      BY <2>3, <2>4 DEF Confirmations
    <3> QED
      BY <1>4, <2>3, <3>1
  <2>6. Fidele(d, m)'
    <3>1. CASE v = "echec"
      BY <2>4, <3>1
    <3>2. CASE v = "confirmee"
      <4>1. Ranger(d, m)
        BY <1>8, <2>1, <2>4, <3>2 DEF TenterEcriture
      <4>2. d \in 0..MaxEcritures
        BY Bornes DEF Ecritures
      <4> QED
        BY <4>1, <4>2, RangerCorrect
    <3> QED
      BY <3>1, <3>2
  <2>7. \A e \in Ecritures, n \in Noeuds : Fidele(e, n)'
    <3> SUFFICES ASSUME NEW e \in Ecritures, NEW n \in Noeuds
                 PROVE  Fidele(e, n)'
      OBVIOUS
    <3>1. CASE <<e, n>> = <<d, m>>
      BY <2>6, <3>1
    <3>2. CASE <<e, n>> # <<d, m>>
      BY <1>3, <2>4, <3>2
    <3> QED
      BY <3>1, <3>2
  <2> QED
    BY <2>5, <2>7 DEF InvEcritures
<1>9. CASE UNCHANGED <<ecriture, tentative>>
  BY <1>3, <1>4, <1>5, <1>9 DEF InvEcritures
<1> QED
  BY <1>6, <1>7, <1>8, <1>9, EcrivainsOuAutre

\* A write that is acknowledged is on W replicas.
LEMMA InvDonneEcritureDurable ==
    ASSUME QuorumAssumption, TypeOK, InvEcritures
    PROVE  EcritureDurable
<1> SUFFICES ASSUME NEW e \in Ecritures, ecriture[e] = "ok"
             PROVE  Cardinality({n \in Noeuds : magasin[n] >= e}) >= W
  BY DEF EcritureDurable
<1> DEFINE Detenteurs == {n \in Noeuds : magasin[n] >= e}
<1>1. Confirmations(e) \subseteq Detenteurs
  BY DEF InvEcritures, Confirmations
<1>2. Confirmations(e) \in SUBSET Noeuds /\ Detenteurs \in SUBSET Noeuds
  BY DEF Confirmations
<1>3. Cardinality(Confirmations(e)) >= W
  BY DEF InvEcritures
<1> HIDE DEF Detenteurs
<1>4. Cardinality(Detenteurs) >= W
  BY <1>1, <1>2, <1>3, Grandit, Bornes
<1> QED
  BY <1>4 DEF Detenteurs

-----------------------------------------------------------------------------
\* The witnesses of a read stay its witnesses: replicas only move forward, and
\* a thread reads what its replica holds, or nothing.
LEMMA TemoinsGrandit ==
    ASSUME QuorumAssumption, TypeOK, TypeOK', NEW l \in Lectures,
           au_depart'[l] = au_depart[l],
           \A n \in Noeuds : magasin'[n] >= magasin[n],
           \A n \in Noeuds : \/ lu'[l][n] = lu[l][n]
                             \/ lu'[l][n] \in {magasin[n], Absente}
    PROVE  Cardinality(Temoins(l)) >= W => Cardinality(Temoins(l)') >= W
<1>1. /\ magasin \in [Noeuds -> 0..MaxEcritures] /\ magasin' \in [Noeuds -> 0..MaxEcritures]
      /\ au_depart[l] \in 0..MaxEcritures
      /\ lu[l] \in [Noeuds -> -1..MaxEcritures] /\ lu'[l] \in [Noeuds -> -1..MaxEcritures]
  BY DEF TypeOK
<1>2. ASSUME NEW n \in Temoins(l)
      PROVE  n \in Temoins(l)'
  <2>1. n \in Noeuds /\ magasin[n] >= au_depart[l]
    BY DEF Temoins
  <2>2. magasin[n] \in Int /\ magasin'[n] \in Int /\ au_depart[l] \in Int
        /\ lu[l][n] \in Int /\ lu'[l][n] \in Int
    BY <1>1, <2>1
  <2>3. magasin'[n] >= au_depart'[l]
    BY <2>1, <2>2
  <2>4. lu'[l][n] \in {Attente, Absente} \/ lu'[l][n] >= au_depart'[l]
    BY <2>1, <2>2 DEF Temoins
  <2> QED
    BY <2>1, <2>3, <2>4 DEF Temoins
<1>3. Temoins(l) \in SUBSET Noeuds /\ Temoins(l)' \in SUBSET Noeuds
  BY DEF Temoins
<1> QED
  BY <1>2, <1>3, Grandit, Bornes

\* The steps that are no reader's.
LEMMA LecteursOuAutre ==
    ASSUME [Next]_varsQuorum
    PROVE  \/ \E l \in Lectures : Lire(l)
           \/ \E l \in Lectures, n \in Noeuds : TenterLecture(l, n)
           \/ \E l \in Lectures, n \in Noeuds : Repondre(l, n)
           \/ \E l \in Lectures : ConclureLecture(l)
           \/ UNCHANGED <<lecture, lu, reponses, meilleure, au_depart>>
BY DEF Next, Ecrire, ConclureEcriture, TenterEcriture, Reparer, FinirReparation,
       varsQuorum, lecteurs

LEMMA PasLectures ==
    ASSUME QuorumAssumption, TypeOK, TypeOK', InvEcritures, InvLectures, [Next]_varsQuorum
    PROVE  InvLectures'
<1> DEFINE Vierge(l) == lecture[l] = "absente" => \A n \in Noeuds : lu[l][n] = Attente
           Lus(l) == \A n \in reponses[l] : lu[l][n] # Attente
           Vus(l) == lecture[l] # "absente" /\ au_depart[l] >= 1
                        => Cardinality(Temoins(l)) >= W
<1>1. \A l \in Lectures : Vierge(l) /\ Lus(l) /\ Vus(l)
  BY DEF InvLectures
<1>2. SUFFICES \A l \in Lectures : Vierge(l)' /\ Lus(l)' /\ Vus(l)'
  BY DEF InvLectures
<1>3. SUFFICES ASSUME NEW l \in Lectures
               PROVE  Vierge(l)' /\ Lus(l)' /\ Vus(l)'
  OBVIOUS
<1>4. ASSUME /\ au_depart'[l] = au_depart[l] /\ lecture[l] # "absente"
             /\ \A n \in Noeuds : \/ lu'[l][n] = lu[l][n]
                                  \/ lu'[l][n] \in {magasin[n], Absente}
      PROVE  Vus(l)'
  BY <1>1, <1>4, MagasinCroit, TemoinsGrandit
<1>5. reponses[l] \subseteq Noeuds
  BY DEF TypeOK
<1>6. ASSUME NEW k \in Lectures, Lire(k)
      PROVE  Vierge(l)' /\ Lus(l)' /\ Vus(l)'
  <2>1. /\ lecture[k] = "absente" /\ UNCHANGED <<magasin, lu, reponses, ecriture>>
        /\ lecture' = [lecture EXCEPT ![k] = "en cours"]
        /\ au_depart' = [au_depart EXCEPT ![k] = PlusGrand(Acquittees)]
    BY <1>6 DEF Lire, ecrivains
  <2>2. CASE l # k
    <3>1. lecture'[l] = lecture[l] /\ au_depart'[l] = au_depart[l]
      BY <2>1, <2>2 DEF TypeOK
    <3>2. Vierge(l)' /\ Lus(l)'
      BY <1>1, <2>1, <3>1
    <3>3. Temoins(l)' = Temoins(l)
      BY <2>1, <3>1 DEF Temoins
    <3> QED
      BY <1>1, <3>1, <3>2, <3>3
  <2>3. CASE l = k
    <3>1. lecture'[l] = "en cours" /\ au_depart'[l] = PlusGrand(Acquittees)
      BY <2>1, <2>3 DEF TypeOK
    <3>2. \A n \in Noeuds : lu'[l][n] = Attente
      BY <1>1, <2>1, <2>3
    <3>3. Temoins(l)' = {n \in Noeuds : magasin[n] >= au_depart'[l]}
      BY <2>1, <3>2 DEF Temoins
    <3>4. ASSUME au_depart'[l] >= 1
          PROVE  Cardinality(Temoins(l)') >= W
      <4>0. au_depart'[l] \in Acquittees /\ au_depart'[l] \in 0..MaxEcritures
        BY <3>1, DepartCorrect
      <4>1. au_depart'[l] \in Acquittees /\ au_depart'[l] # 0
        BY <3>4, <4>0
      <4>2. au_depart'[l] \in Ecritures /\ ecriture[au_depart'[l]] = "ok"
        BY <4>1 DEF Acquittees
      <4> QED
        BY <3>3, <4>2, InvDonneEcritureDurable DEF EcritureDurable
    <3> QED
      BY <1>1, <2>1, <3>1, <3>2, <3>4
  <2> QED
    BY <2>2, <2>3
<1>7. ASSUME NEW k \in Lectures, NEW m \in Noeuds, TenterLecture(k, m)
      PROVE  Vierge(l)' /\ Lus(l)' /\ Vus(l)'
  <2>1. /\ lecture[k] # "absente" /\ UNCHANGED <<lecture, reponses, au_depart>>
        /\ \E v \in {magasin[m], Absente} : lu' = [lu EXCEPT ![k][m] = v]
    BY <1>7 DEF TenterLecture
  <2>2. PICK v \in {magasin[m], Absente} : lu' = [lu EXCEPT ![k][m] = v]
    BY <2>1
  <2>3. v # Attente
    <3>1. magasin[m] \in 0..MaxEcritures
      BY DEF TypeOK
    <3>2. magasin[m] # -1
      BY <3>1, Bornes
    <3> QED
      BY <2>2, <3>2 DEF Attente, Absente
  <2>4. lu \in [Lectures -> [Noeuds -> -1..MaxEcritures]]
    BY DEF TypeOK
  <2>5. \A n \in Noeuds : lu'[l][n] = lu[l][n] \/ (l = k /\ n = m /\ lu'[l][n] = v)
    BY <2>2, <2>4
  <2>6. Vierge(l)' /\ Lus(l)'
    BY <1>1, <1>5, <2>1, <2>3, <2>5
  <2>7. CASE lecture[l] = "absente"
    BY <2>1, <2>6, <2>7
  <2>8. CASE lecture[l] # "absente"
    BY <1>4, <2>1, <2>2, <2>5, <2>6, <2>8
  <2> QED
    BY <2>7, <2>8
<1>8. ASSUME UNCHANGED <<lu, au_depart>>, Lus(l)', Vierge(l)',
             lecture'[l] # "absente" => lecture[l] # "absente"
      PROVE  Vierge(l)' /\ Lus(l)' /\ Vus(l)'
  <2>1. CASE lecture[l] = "absente"
    BY <1>8, <2>1
  <2>2. CASE lecture[l] # "absente"
    BY <1>4, <1>8, <2>2
  <2> QED
    BY <2>1, <2>2
<1>9. ASSUME NEW k \in Lectures, NEW m \in Noeuds, Repondre(k, m)
      PROVE  Vierge(l)' /\ Lus(l)' /\ Vus(l)'
  <2>1. /\ lu[k][m] # Attente /\ UNCHANGED <<lecture, lu, au_depart>>
        /\ reponses' = [reponses EXCEPT ![k] = @ \union {m}]
    BY <1>9 DEF Repondre
  <2>2. \A n \in reponses'[l] : n \in reponses[l] \/ (l = k /\ n = m)
    BY <2>1 DEF TypeOK
  <2>3. Lus(l)' /\ Vierge(l)'
    BY <1>1, <2>1, <2>2
  <2> QED
    BY <1>8, <2>1, <2>3
<1>10. ASSUME NEW k \in Lectures, ConclureLecture(k)
       PROVE  Vierge(l)' /\ Lus(l)' /\ Vus(l)'
  <2>1. /\ UNCHANGED <<lu, reponses, au_depart>>
        /\ lecture[k] = "en cours"
        /\ \E r \in {"ok", "timeout"} : lecture' = [lecture EXCEPT ![k] = r]
    BY <1>10 DEF ConclureLecture
  <2>2. lecture'[l] = lecture[l] \/ (lecture[l] # "absente" /\ lecture'[l] # "absente")
    BY <2>1 DEF TypeOK
  <2>3. Lus(l)' /\ Vierge(l)'
    BY <1>1, <2>1, <2>2
  <2> QED
    BY <1>8, <2>1, <2>2, <2>3
<1>11. CASE UNCHANGED <<lecture, lu, reponses, meilleure, au_depart>>
  BY <1>1, <1>8, <1>11
<1> QED
  BY <1>6, <1>7, <1>9, <1>10, <1>11, LecteursOuAutre

-----------------------------------------------------------------------------
\* The W witnesses of a read and the R answers it used share a replica.
LEMMA PasLectureForte ==
    ASSUME QuorumAssumption, TypeOK, InvLectures, LectureForte, [Next]_varsQuorum
    PROVE  LectureForte'
<1> SUFFICES ASSUME W + R > Cardinality(Noeuds), NEW l \in Lectures, lecture'[l] = "ok"
             PROVE  meilleure'[l] >= au_depart'[l]
  BY DEF LectureForte
<1>1. ASSUME lecture[l] = "ok", meilleure'[l] = meilleure[l], au_depart'[l] = au_depart[l]
      PROVE  meilleure'[l] >= au_depart'[l]
  BY <1>1 DEF LectureForte
<1>2. ASSUME NEW k \in Lectures, Lire(k)
      PROVE  meilleure'[l] >= au_depart'[l]
  BY <1>1, <1>2 DEF Lire, TypeOK
<1>3. ASSUME NEW k \in Lectures, ConclureLecture(k), l # k
      PROVE  meilleure'[l] >= au_depart'[l]
  <2>1. /\ \E r \in {"ok", "timeout"} : lecture' = [lecture EXCEPT ![k] = r]
        /\ \E v : meilleure' = [meilleure EXCEPT ![k] = v]
        /\ UNCHANGED au_depart
    <3>1. meilleure' = meilleure => meilleure' = [meilleure EXCEPT ![k] = meilleure[k]]
      BY DEF TypeOK
    <3> QED
      BY <1>3, <3>1 DEF ConclureLecture
  <2> QED
    BY <1>1, <1>3, <2>1 DEF TypeOK
<1>4. ASSUME ConclureLecture(l)
      PROVE  meilleure'[l] >= au_depart'[l]
  <2>1. /\ Cardinality(Utiles(l)) >= R /\ lecture[l] = "en cours"
        /\ meilleure'[l] = Meilleure(l) /\ au_depart'[l] = au_depart[l]
    BY <1>4 DEF ConclureLecture, TypeOK
  <2>2. /\ Meilleure(l) \in 0..MaxEcritures
        /\ \A n \in Utiles(l) : lu[l][n] <= Meilleure(l)
    BY <2>1, MeilleureCorrecte DEF InvLectures
  <2>3. /\ au_depart[l] \in 0..MaxEcritures /\ reponses[l] \subseteq Noeuds
        /\ lu[l] \in [Noeuds -> -1..MaxEcritures]
    BY DEF TypeOK
  <2>4. CASE au_depart[l] = 0
    <3>1. Meilleure(l) >= au_depart[l]
      BY <2>2, <2>4
    <3> QED
      BY <2>1, <3>1, Zenon
  <2>5. CASE au_depart[l] >= 1
    <3>1. Cardinality(Temoins(l)) >= W
      BY <2>1, <2>5 DEF InvLectures
    <3>2. Temoins(l) \in SUBSET Noeuds /\ Utiles(l) \in SUBSET Noeuds
      BY <2>3 DEF Temoins, Utiles
    <3>3. Cardinality(Temoins(l)) \in Nat /\ Cardinality(Utiles(l)) \in Nat
      BY <3>2, Bornes, FS_Subset, FS_CardinalityType
    <3>4. Cardinality(Temoins(l)) + Cardinality(Utiles(l)) > Cardinality(Noeuds)
      <4>1. /\ Cardinality(Temoins(l)) >= W /\ Cardinality(Utiles(l)) >= R
            /\ W + R > Cardinality(Noeuds)
        BY <2>1, <3>1
      <4>2. W \in Nat /\ R \in Nat /\ Cardinality(Noeuds) \in Nat
        BY Bornes
      <4> QED
        BY <3>3, <4>1, <4>2
    <3>5. Temoins(l) \cap Utiles(l) # {}
      BY <3>2, <3>4, Bornes, FS_MajoritiesIntersect
    <3>6. PICK n \in Noeuds : n \in Temoins(l) /\ n \in Utiles(l)
      BY <3>2, <3>5
    <3>7. lu[l][n] # Absente /\ lu[l][n] # Attente
      BY <3>6 DEF Utiles, InvLectures
    <3>8. lu[l][n] >= au_depart[l]
      BY <3>6, <3>7 DEF Temoins
    <3>9. lu[l][n] <= Meilleure(l) /\ lu[l][n] \in Int
      BY <2>2, <2>3, <3>6
    <3> QED
      <4>1. Meilleure(l) \in Int /\ au_depart[l] \in Int
        BY <2>2, <2>3, Bornes
      <4> QED
        <5>1. Meilleure(l) >= au_depart[l]
          BY <3>8, <3>9, <4>1
        <5> QED
          BY <2>1, <5>1, Zenon
  <2> QED
    BY <2>3, <2>4, <2>5
<1>5. ASSUME NEW k \in Lectures, NEW n \in Noeuds, TenterLecture(k, n) \/ Repondre(k, n)
      PROVE  UNCHANGED <<lecture, meilleure, au_depart>>
  BY <1>5 DEF TenterLecture, Repondre
<1> QED
  BY <1>1, <1>2, <1>3, <1>4, <1>5, LecteursOuAutre

-----------------------------------------------------------------------------
\* What a thread has read, its replica still holds or has gone past.
LEMMA PasLuConnu ==
    ASSUME QuorumAssumption, TypeOK, TypeOK', [Next]_varsQuorum, InvReparations
    PROVE  \A l \in Lectures, n \in Noeuds : lu'[l][n] <= magasin'[n]
<1> SUFFICES ASSUME NEW l \in Lectures, NEW n \in Noeuds
             PROVE  lu'[l][n] <= magasin'[n]
  OBVIOUS
<1>1. /\ magasin[n] \in 0..MaxEcritures /\ magasin'[n] \in 0..MaxEcritures
      /\ lu[l][n] \in -1..MaxEcritures /\ lu'[l][n] \in -1..MaxEcritures
  <2>1. /\ magasin \in [Noeuds -> 0..MaxEcritures]
        /\ lu \in [Lectures -> [Noeuds -> -1..MaxEcritures]]
    BY DEF TypeOK
  <2>2. /\ magasin' \in [Noeuds -> 0..MaxEcritures]
        /\ lu' \in [Lectures -> [Noeuds -> -1..MaxEcritures]]
    BY DEF TypeOK
  <2> QED
    BY <2>1, <2>2
<1>2. magasin'[n] >= magasin[n] /\ lu[l][n] <= magasin[n]
  BY MagasinCroit DEF InvReparations
<1>3. ASSUME NEW k \in Lectures, NEW m \in Noeuds, TenterLecture(k, m)
      PROVE  lu'[l][n] \in {lu[l][n], magasin[n], 0}
  <2>1. lu \in [Lectures -> [Noeuds -> -1..MaxEcritures]]
    BY DEF TypeOK
  <2>2. PICK v \in {magasin[m], 0} : lu' = [lu EXCEPT ![k][m] = v]
    BY <1>3 DEF TenterLecture, Absente
  <2> QED
    BY <2>1, <2>2
<1>4. lu'[l][n] \in {lu[l][n], magasin[n], 0}
  BY <1>3, LecteursOuAutre DEF Lire, Repondre, ConclureLecture
<1> QED
  BY <1>1, <1>2, <1>4, Bornes

\* Repairs start once their read has its answer.
LEMMA PasReparationApres ==
    ASSUME QuorumAssumption, TypeOK, InvReparations, [Next]_varsQuorum
    PROVE  \A l \in Lectures : lecture'[l] # "ok" => ~a_reparer'[l] /\ repares'[l] = {}
<1> SUFFICES ASSUME NEW l \in Lectures, lecture'[l] # "ok"
             PROVE  ~a_reparer'[l] /\ repares'[l] = {}
  OBVIOUS
<1>1. lecture[l] # "ok" => ~a_reparer[l] /\ repares[l] = {}
  BY DEF InvReparations
<1>2. CASE UNCHANGED <<lecture, a_reparer, repares>>
  BY <1>1, <1>2
<1>3. ASSUME NEW k \in Lectures, Lire(k)
      PROVE  ~a_reparer'[l] /\ repares'[l] = {}
  BY <1>1, <1>3 DEF Lire, TypeOK
<1>4. ASSUME NEW k \in Lectures, ConclureLecture(k)
      PROVE  ~a_reparer'[l] /\ repares'[l] = {}
  BY <1>1, <1>4 DEF ConclureLecture, TypeOK
<1>5. ASSUME NEW k \in Lectures, NEW n \in Noeuds, Reparer(k, n)
      PROVE  ~a_reparer'[l] /\ repares'[l] = {}
  BY <1>1, <1>5 DEF Reparer, TypeOK
<1>6. ASSUME NEW k \in Lectures, FinirReparation(k)
      PROVE  ~a_reparer'[l] /\ repares'[l] = {}
  BY <1>1, <1>6 DEF FinirReparation, TypeOK
<1> QED
  BY <1>2, <1>3, <1>4, <1>5, <1>6
     DEF Next, Ecrire, ConclureEcriture, TenterEcriture, TenterLecture, Repondre,
         varsQuorum, lecteurs

\* A replica that has been looked at holds what the read returned.
LEMMA PasReparationComplete ==
    ASSUME QuorumAssumption, TypeOK, TypeOK', InvReparations, "panne" \notin Permis,
           [Next]_varsQuorum
    PROVE  ReparationComplete'
<1> SUFFICES ASSUME NEW l \in Lectures, NEW n \in Noeuds, n \in repares'[l]
             PROVE  magasin'[n] >= meilleure'[l]
  BY DEF ReparationComplete, TypeOK
<1>1. /\ magasin[n] \in 0..MaxEcritures /\ magasin'[n] \in 0..MaxEcritures
      /\ meilleure[l] \in 0..MaxEcritures /\ lu[l][n] \in -1..MaxEcritures
  <2>1. /\ magasin \in [Noeuds -> 0..MaxEcritures] /\ magasin' \in [Noeuds -> 0..MaxEcritures]
        /\ meilleure[l] \in 0..MaxEcritures /\ lu[l] \in [Noeuds -> -1..MaxEcritures]
    BY DEF TypeOK
  <2> QED
    BY <2>1
<1>2. magasin'[n] >= magasin[n] /\ lu[l][n] <= magasin[n]
  BY MagasinCroit DEF InvReparations
<1>3. n \in repares[l] => magasin[n] >= meilleure[l]
  BY DEF InvReparations, ReparationComplete
<1>4. ASSUME meilleure'[l] = meilleure[l], n \in repares[l]
      PROVE  magasin'[n] >= meilleure'[l]
  BY <1>1, <1>2, <1>3, <1>4, Bornes
<1>5. ASSUME NEW k \in Lectures, ConclureLecture(k)
      PROVE  magasin'[n] >= meilleure'[l]
  <2>1. UNCHANGED repares /\ lecture[k] = "en cours"
        /\ \A j \in Lectures \ {k} : meilleure'[j] = meilleure[j]
    BY <1>5 DEF ConclureLecture, TypeOK
  <2>2. repares[k] = {}
    BY <2>1 DEF InvReparations
  <2>3. l # k
    BY <2>1, <2>2
  <2> QED
    BY <1>4, <2>1, <2>3
<1>6. ASSUME NEW k \in Lectures, NEW m \in Noeuds, Reparer(k, m)
      PROVE  magasin'[n] >= meilleure'[l]
  <2>1. n \in repares[l] \/ (l = k /\ n = m)
    BY <1>6 DEF Reparer, TypeOK
  <2>2. UNCHANGED meilleure
    BY <1>6 DEF Reparer
  <2>3. CASE n \in repares[l]
    BY <1>4, <2>2, <2>3
  <2>4. CASE l = k /\ n = m
    <3>1. CASE EnRetard(l, n)
      <4>1. Ranger(meilleure[l], n)
        BY <1>6, <2>4, <3>1 DEF Reparer
      <4> QED
        BY <1>1, <2>2, <4>1, RangerCorrect
    <3>2. CASE ~EnRetard(l, n)
      <4>1. lu[l][n] >= meilleure[l]
        BY <1>1, <3>2, Bornes DEF EnRetard
      <4> QED
        BY <1>1, <1>2, <2>2, <4>1
    <3> QED
      BY <3>1, <3>2
  <2> QED
    BY <2>1, <2>3, <2>4
<1>7. CASE UNCHANGED <<meilleure, repares>>
  BY <1>4, <1>7
<1> QED
  BY <1>5, <1>6, <1>7
     DEF Next, Ecrire, ConclureEcriture, TenterEcriture, Lire, TenterLecture, Repondre,
         FinirReparation, varsQuorum, lecteurs

-----------------------------------------------------------------------------
\* Nothing has been written, read or repaired yet.
LEMMA InitInv ==
    ASSUME QuorumAssumption, Init
    PROVE  Inv
<1>1. TypeOK
  BY Bornes DEF Init, TypeOK, Absente, Attente
<1>2. InvEcritures /\ InvLectures
  BY DEF Init, InvEcritures, InvLectures
<1>3. LectureForte
  BY DEF Init, LectureForte
<1>4. InvReparations
  BY DEF Init, InvReparations, ReparationComplete, Absente, Attente
<1> QED
  BY <1>1, <1>2, <1>3, <1>4 DEF Inv

LEMMA PasInv ==
    ASSUME QuorumAssumption, Inv, [Next]_varsQuorum
    PROVE  Inv'
<1>1. TypeOK'
  BY PasTypeOK DEF Inv
<1>2. InvEcritures' /\ InvLectures' /\ LectureForte'
  BY <1>1, PasEcritures, PasLectures, PasLectureForte DEF Inv
<1>3. InvReparations'
  BY <1>1, PasLuConnu, PasReparationApres, PasReparationComplete DEF Inv, InvReparations
<1> QED
  BY <1>1, <1>2, <1>3 DEF Inv

\* Every state the threads of the reads and the writes can reach keeps the
\* types, the acknowledgements and the witnesses of every read.
THEOREM InvCorrect ==
    ASSUME QuorumAssumption
    PROVE  Spec => []Inv
<1>1. Init => Inv
  BY InitInv
<1>2. Inv /\ [Next]_varsQuorum => Inv'
  BY PasInv
<1> QED
  BY <1>1, <1>2, PTL DEF Spec

\* The types.
THEOREM TypeCorrect ==
    ASSUME QuorumAssumption
    PROVE  Spec => []TypeOK
<1>1. Inv => TypeOK
  BY DEF Inv
<1> QED
  BY <1>1, InvCorrect, PTL

\* A write ecrire has acknowledged is on W replicas for good, whatever older
\* writes and repairs reach them after it.
THEOREM EcritureDurableCorrect ==
    ASSUME QuorumAssumption
    PROVE  Spec => []EcritureDurable
<1>1. Inv => EcritureDurable
  BY InvDonneEcritureDurable DEF Inv
<1> QED
  BY <1>1, InvCorrect, PTL

\* With W + R > N a read returns at least the newest write acknowledged when it
\* began, with timeouts, silent replicas, late threads and repairs.
THEOREM LectureForteCorrect ==
    ASSUME QuorumAssumption
    PROVE  Spec => []LectureForte
<1>1. Inv => LectureForte
  BY DEF Inv
<1> QED
  BY <1>1, InvCorrect, PTL

\* When replicas answer, the read repair leaves none of those it looks at
\* behind what its read returned.
THEOREM ReparationCorrecte ==
    ASSUME QuorumAssumption, "panne" \notin Permis
    PROVE  Spec => []ReparationComplete
<1>1. Inv => ReparationComplete
  BY DEF Inv, InvReparations
<1> QED
  BY <1>1, InvCorrect, PTL

-----------------------------------------------------------------------------
\* Gossip.

\* Every key has at most one writer.
UnAuteur == \A c \in Cles : \A a, b \in Auteurs[c] : a = b

\* The types, at most one copy and one answer under way at a node.
TypeInvGossip ==
    /\ etat_gossip \in [Noeuds -> Go!Etats]
    /\ generation \in [Noeuds -> [Cles -> 0..MaxEcritures]]
    /\ copie \in [Noeuds -> SUBSET Go!Etats] /\ recu \in [Noeuds -> SUBSET Go!Etats]
    /\ \A n \in Noeuds : /\ \A e, f \in copie[n] : e = f
                         /\ \A e, f \in recu[n] : e = f
    /\ voisins \in [Noeuds -> SUBSET Noeuds]
    /\ contacte \in [Noeuds -> {0} \union Noeuds]
    /\ arretes \in SUBSET Noeuds /\ sursis \in SUBSET Noeuds /\ separes \in SUBSET Noeuds

\* No version of a key, held, copied or answered, is past what its writer has counted.
VersionsInv == \A c \in Cles : \A a \in Auteurs[c] : \A n \in Noeuds :
    /\ etat_gossip[n][c].version <= generation[a][c]
    /\ \A e \in copie[n] \union recu[n] : e[c].version <= generation[a][c]

\* A merge of two states is a state, not behind either of them.
LEMMA FusionType ==
  ASSUME NEW e \in Go!Etats, NEW f \in Go!Etats
  PROVE  /\ Go!Fusionner(e, f) \in Go!Etats
         /\ \A c \in Cles : /\ Go!Fusionner(e, f)[c] = e[c] \/ Go!Fusionner(e, f)[c] = f[c]
                            /\ Go!Fusionner(e, f)[c].version >= e[c].version
<1>1. \A c \in Cles : /\ e[c] \in [version : 0..MaxEcritures, noeud_src : {0} \union Noeuds]
                      /\ f[c] \in [version : 0..MaxEcritures, noeud_src : {0} \union Noeuds]
  BY DEF Go!Etats
<1>2. \A c \in Cles : Go!Fusionner(e, f)[c] = IF f[c].version > e[c].version THEN f[c] ELSE e[c]
  BY DEF Go!Fusionner, Go!EstPlusRecent
<1>3. Go!Fusionner(e, f) \in Go!Etats
  BY <1>1 DEF Go!Fusionner, Go!Etats
<1>4. \A c \in Cles : e[c].version \in 0..MaxEcritures /\ f[c].version \in 0..MaxEcritures
  BY <1>1
<1> QED BY <1>2, <1>3, <1>4

\* The types hold at first, and every action keeps them.
LEMMA TypeInitGossip == Go!GossipAssumption /\ Go!Init => TypeInvGossip
<1> SUFFICES ASSUME Go!GossipAssumption, Go!Init PROVE TypeInvGossip
  OBVIOUS
<1>1. 0 \in 0..MaxEcritures
  BY DEF Go!GossipAssumption
<1>2. [c \in Cles |-> Go!Absente] \in Go!Etats
  BY <1>1 DEF Go!Etats, Go!Absente, Go!Entree
<1> QED BY <1>1, <1>2 DEF Go!Init, TypeInvGossip

LEMMA TypeNextGossip ==
    Go!GossipAssumption /\ TypeInvGossip /\ [Go!Next]_Go!varsGossip => TypeInvGossip'
<1> SUFFICES ASSUME Go!GossipAssumption, TypeInvGossip, [Go!Next]_Go!varsGossip
                    PROVE TypeInvGossip'
  OBVIOUS
<1>0. MaxEcritures \in Nat /\ Coupures \subseteq SUBSET Noeuds /\ Noeuds \subseteq Nat
  BY DEF Go!GossipAssumption
<1>1. CASE UNCHANGED Go!varsGossip
  BY <1>1 DEF TypeInvGossip, Go!varsGossip
<1>2. ASSUME NEW n \in Noeuds, NEW c \in Cles, Go!EcrireLocal(n, c) PROVE TypeInvGossip'
  <2>1. generation[n][c] \in 0..MaxEcritures /\ generation[n][c] < MaxEcritures
    BY <1>2 DEF Go!EcrireLocal, TypeInvGossip
  <2>2. generation[n][c] + 1 \in 0..MaxEcritures
    BY <1>0, <2>1
  <2>3. generation' \in [Noeuds -> [Cles -> 0..MaxEcritures]]
    BY <1>2, <2>2 DEF Go!EcrireLocal, TypeInvGossip
  <2>4. Go!Entree(generation'[n][c], n) \in [version : 0..MaxEcritures,
           noeud_src : {0} \union Noeuds]
    BY <2>3 DEF Go!Entree
  <2>5. etat_gossip' \in [Noeuds -> Go!Etats]
    BY <1>2, <2>4 DEF Go!EcrireLocal, TypeInvGossip, Go!Etats
  <2> QED BY <1>2, <2>3, <2>5 DEF Go!EcrireLocal, TypeInvGossip
<1>3. ASSUME NEW n \in Noeuds, NEW choisis \in SUBSET Noeuds, Go!Commencer(n, choisis)
             PROVE TypeInvGossip'
  BY <1>3 DEF Go!Commencer, TypeInvGossip
<1>4. ASSUME NEW n \in Noeuds, NEW m \in Noeuds, Go!Echanger(n, m) PROVE TypeInvGossip'
  <2>1. PICK e \in copie[n] : etat_gossip' = [etat_gossip EXCEPT ![m] = Go!Fusionner(@, e)]
    BY <1>4 DEF Go!Echanger
  <2>2. e \in Go!Etats /\ etat_gossip[m] \in Go!Etats
    BY DEF TypeInvGossip
  <2>3. etat_gossip' \in [Noeuds -> Go!Etats]
    BY <2>1, <2>2, FusionType DEF TypeInvGossip
  <2> QED BY <1>4, <2>3 DEF Go!Echanger, Go!Suivant, TypeInvGossip
<1>5. ASSUME NEW n \in Noeuds, NEW m \in Noeuds, Go!EchangerEnVain(n, m) PROVE TypeInvGossip'
  BY <1>5 DEF Go!EchangerEnVain, Go!Suivant, TypeInvGossip
<1>6. ASSUME NEW n \in Noeuds, Go!Merger(n) PROVE TypeInvGossip'
  <2>1. PICK e \in recu[n] : etat_gossip' = [etat_gossip EXCEPT ![n] = Go!Fusionner(@, e)]
    BY <1>6 DEF Go!Merger
  <2>2. e \in Go!Etats /\ etat_gossip[n] \in Go!Etats
    BY DEF TypeInvGossip
  <2>3. etat_gossip' \in [Noeuds -> Go!Etats]
    BY <2>1, <2>2, FusionType DEF TypeInvGossip
  <2> QED BY <1>6, <2>3 DEF Go!Merger, TypeInvGossip
<1>7. ASSUME NEW n \in Noeuds, Go!Arreter(n) PROVE TypeInvGossip'
  BY <1>7 DEF Go!Arreter, TypeInvGossip
<1>8. ASSUME NEW g \in Coupures \union {{}}, Go!Partitionner(g) PROVE TypeInvGossip'
  BY <1>0, <1>8 DEF Go!Partitionner, TypeInvGossip
<1>9. ASSUME NEW n \in Noeuds, Go!Repondre(n) PROVE TypeInvGossip'
  <2>1. contacte[n] \in Noeuds
    BY <1>9 DEF Go!Repondre, TypeInvGossip
  <2>2. etat_gossip[contacte[n]] \in Go!Etats
    BY <2>1 DEF TypeInvGossip
  <2> QED BY <1>9, <2>2 DEF Go!Repondre, TypeInvGossip
<1> QED BY <1>1, <1>2, <1>3, <1>4, <1>5, <1>6, <1>7, <1>8, <1>9 DEF Go!Next, Go!Tour

\* The nodes and the states they exchange are typed, whatever is lost, cut off or stopped.
THEOREM TypeCorrectGossip == ASSUME Go!GossipAssumption PROVE Go!Spec => []Go!TypeOK
<1>1. TypeInvGossip => Go!TypeOK
  <2> SUFFICES ASSUME TypeInvGossip PROVE Go!TypeOK
    OBVIOUS
  <2> DEFINE Un == {{}} \union {{e} : e \in Go!Etats}
  <2>1. \A n \in Noeuds : copie[n] \in Un /\ recu[n] \in Un
    <3> TAKE n \in Noeuds
    <3>1. ASSUME NEW A \in SUBSET Go!Etats, \A e, f \in A : e = f PROVE A \in Un
      <4>1. CASE A = {}
        BY <4>1
      <4>2. ASSUME NEW e \in A PROVE A = {e}
        BY <3>1
      <4> QED BY <4>1, <4>2
    <3> HIDE DEF Un
    <3> QED BY <3>1 DEF TypeInvGossip
  <2>2. copie \in [Noeuds -> Un] /\ recu \in [Noeuds -> Un]
    <3> HIDE DEF Un
    <3> QED BY <2>1 DEF TypeInvGossip
  <2> HIDE DEF Un
  <2>3. {copie, recu} \subseteq [Noeuds -> {{}} \union {{e} : e \in Go!Etats}]
    BY <2>2 DEF Un
  <2> QED BY <2>3 DEF TypeInvGossip, Go!TypeOK
<1>2. Go!Init => TypeInvGossip
  BY TypeInitGossip
<1>3. TypeInvGossip /\ [Go!Next]_Go!varsGossip => TypeInvGossip'
  BY TypeNextGossip
<1> QED BY <1>1, <1>2, <1>3, PTL DEF Go!Spec

-----------------------------------------------------------------------------
\* The versions are numbers.
LEMMA VersionsType ==
  ASSUME TypeInvGossip
  PROVE  \A c \in Cles, n \in Noeuds :
           /\ etat_gossip[n] \in Go!Etats
           /\ etat_gossip[n][c].version \in 0..MaxEcritures
           /\ generation[n][c] \in 0..MaxEcritures
           /\ \A e \in copie[n] \union recu[n] : e \in Go!Etats
               /\ e[c].version \in 0..MaxEcritures
<1>1. \A e \in Go!Etats, c \in Cles : e[c].version \in 0..MaxEcritures
  BY DEF Go!Etats
<1> QED BY <1>1 DEF TypeInvGossip

\* The bound holds at first, and every action keeps it.
LEMMA VersionsInit == Go!GossipAssumption /\ Go!Init => VersionsInv
<1> SUFFICES ASSUME Go!GossipAssumption, Go!Init, NEW c \in Cles, NEW a \in Auteurs[c],
                    NEW n \in Noeuds
             PROVE  /\ etat_gossip[n][c].version <= generation[a][c]
                    /\ \A e \in copie[n] \union recu[n] : e[c].version <= generation[a][c]
  BY DEF VersionsInv
<1>1. a \in Noeuds
  BY DEF Go!GossipAssumption
<1> QED BY <1>1 DEF Go!Init, Go!Absente, Go!Entree

\* A merge of states that are not past the writer's count is not past it.
LEMMA FusionBornee ==
  ASSUME Go!GossipAssumption, TypeInvGossip, VersionsInv, NEW n \in Noeuds, NEW m \in Noeuds,
         NEW e \in copie[n] \union recu[n]
  PROVE  /\ \A c \in Cles : \A a \in Auteurs[c] :
              Go!Fusionner(etat_gossip[m], e)[c].version <= generation[a][c]
         /\ \A c \in Cles : Go!Fusionner(etat_gossip[m],
             e)[c].version >= etat_gossip[m][c].version
<1>1. e \in Go!Etats /\ etat_gossip[m] \in Go!Etats
  BY DEF TypeInvGossip
<1> QED BY <1>1, FusionType DEF VersionsInv

LEMMA VersionsNext ==
  ASSUME Go!GossipAssumption, UnAuteur, TypeInvGossip, VersionsInv, [Go!Next]_Go!varsGossip
  PROVE  /\ VersionsInv'
         /\ \A n \in Noeuds, c \in Cles :
              etat_gossip'[n][c].version >= etat_gossip[n][c].version
<1>0. \A c \in Cles : Auteurs[c] \subseteq Noeuds
  BY DEF Go!GossipAssumption
<1>a. MaxEcritures \in Nat
  BY DEF Go!GossipAssumption
<1>b. \A c \in Cles, n \in Noeuds : /\ etat_gossip[n][c].version \in Int
                                    /\ generation[n][c] \in Int
                                    /\ \A e \in copie[n] \union recu[n] : e[c].version \in Int
  BY VersionsType
<1>c. /\ etat_gossip \in [Noeuds -> Go!Etats] /\ copie \in [Noeuds -> SUBSET Go!Etats]
      /\ recu \in [Noeuds -> SUBSET Go!Etats]
  BY DEF TypeInvGossip
<1>1. ASSUME UNCHANGED <<etat_gossip, generation>>,
             \A n \in Noeuds : \A e \in copie'[n] \union recu'[n] :
                 e \in copie[n] \union recu[n] \/ \E m \in Noeuds : e = etat_gossip[m]
      PROVE  VersionsInv' /\ \A n \in Noeuds, c \in Cles :
                               etat_gossip'[n][c].version >= etat_gossip[n][c].version
  <2>1. VersionsInv'
    BY <1>1 DEF VersionsInv
  <2> QED BY <1>1, <1>b, <2>1
<1>2. CASE UNCHANGED Go!varsGossip
  BY <1>1, <1>2 DEF Go!varsGossip
<1>3. ASSUME NEW n \in Noeuds, NEW c \in Cles, Go!EcrireLocal(n, c)
      PROVE  VersionsInv' /\ \A m \in Noeuds, d \in Cles :
                               etat_gossip'[m][d].version >= etat_gossip[m][d].version
  <2>1. /\ n \in Auteurs[c] /\ copie' = copie /\ recu' = recu
        /\ generation' = [generation EXCEPT ![n][c] = @ + 1]
        /\ etat_gossip' = [etat_gossip EXCEPT ![n][c] = Go!Entree(generation'[n][c], n)]
    BY <1>3 DEF Go!EcrireLocal
  <2>2. /\ generation'[n][c] = generation[n][c] + 1
        /\ \A a \in Noeuds, d \in Cles : a # n \/ d # c => generation'[a][d] = generation[a][d]
    BY <2>1 DEF TypeInvGossip
  <2>3. /\ etat_gossip'[n][c].version = generation'[n][c]
        /\ \A a \in Noeuds, d \in Cles : a # n \/ d # c
            => etat_gossip'[a][d] = etat_gossip[a][d]
    BY <1>c, <2>1 DEF Go!Entree, Go!Etats
  <2>4. \A a \in Auteurs[c] : a = n
    BY <2>1 DEF UnAuteur
  <2>5. \A a \in Noeuds, d \in Cles : generation'[a][d] >= generation[a][d]
           /\ generation'[a][d] \in Int
    BY <1>b, <2>2
  <2>6. VersionsInv'
    <3> SUFFICES ASSUME NEW d \in Cles, NEW a \in Auteurs[d], NEW m \in Noeuds
                 PROVE  /\ etat_gossip'[m][d].version <= generation'[a][d]
                        /\ \A e \in copie[m] \union recu[m] : e[d].version <= generation'[a][d]
      BY <2>1 DEF VersionsInv
    <3>1. a \in Noeuds
      BY <1>0
    <3>2. /\ etat_gossip[m][d].version <= generation[a][d]
          /\ \A e \in copie[m] \union recu[m] : e[d].version <= generation[a][d]
      BY DEF VersionsInv
    <3>3. \A e \in copie[m] \union recu[m] : e[d].version <= generation'[a][d]
      BY <1>b, <2>5, <3>1, <3>2
    <3>4. CASE m = n /\ d = c
      BY <2>3, <2>4, <2>5, <3>1, <3>3, <3>4
    <3>5. CASE m # n \/ d # c
      BY <1>b, <2>3, <2>5, <3>1, <3>2, <3>3, <3>5
    <3> QED BY <3>4, <3>5
  <2>7. \A m \in Noeuds, d \in Cles : etat_gossip'[m][d].version >= etat_gossip[m][d].version
    <3> TAKE m \in Noeuds, d \in Cles
    <3>1. CASE m = n /\ d = c
      <4>1. etat_gossip[n][c].version <= generation[n][c]
        BY <2>1 DEF VersionsInv
      <4> QED BY <1>b, <2>2, <2>3, <3>1, <4>1
    <3>2. CASE m # n \/ d # c
      BY <1>b, <2>3, <3>2
    <3> QED BY <3>1, <3>2
  <2> QED BY <2>6, <2>7
<1>4. ASSUME NEW n \in Noeuds, NEW choisis \in SUBSET Noeuds, Go!Commencer(n, choisis)
      PROVE  VersionsInv' /\ \A m \in Noeuds, d \in Cles :
                               etat_gossip'[m][d].version >= etat_gossip[m][d].version
  <2>1. UNCHANGED <<etat_gossip, generation, recu>>
        /\ copie' = [copie EXCEPT ![n] = {etat_gossip[n]}]
    BY <1>4 DEF Go!Commencer
  <2>2. \A m \in Noeuds : copie'[m] \subseteq copie[m] \union {etat_gossip[m]}
    BY <1>c, <2>1
  <2> QED BY <1>1, <2>1, <2>2
<1>5. ASSUME NEW n \in Noeuds, NEW m \in Noeuds, Go!EchangerEnVain(n, m)
      PROVE  VersionsInv' /\ \A p \in Noeuds, d \in Cles :
                               etat_gossip'[p][d].version >= etat_gossip[p][d].version
  <2>1. UNCHANGED <<etat_gossip, generation, recu>>
        /\ copie' = [copie EXCEPT ![n] = IF voisins[n] = {m} THEN {} ELSE @]
    BY <1>5 DEF Go!EchangerEnVain, Go!Suivant
  <2>2. \A p \in Noeuds : copie'[p] \subseteq copie[p]
    BY <1>c, <2>1
  <2> QED BY <1>1, <2>1, <2>2
\* What is merged, at the neighbour and then at home.
<1>6. ASSUME NEW n \in Noeuds, NEW m \in Noeuds, NEW e \in copie[n] \union recu[n],
             etat_gossip' = [etat_gossip EXCEPT ![m] = Go!Fusionner(@, e)],
             UNCHANGED generation,
             \A p \in Noeuds : \A f \in copie'[p] \union recu'[p] :
                 f \in copie[p] \union recu[p] \/ f = etat_gossip'[m]
      PROVE  VersionsInv' /\ \A p \in Noeuds, d \in Cles :
                               etat_gossip'[p][d].version >= etat_gossip[p][d].version
  <2>1. /\ etat_gossip'[m] = Go!Fusionner(etat_gossip[m], e)
        /\ \A p \in Noeuds : p # m => etat_gossip'[p] = etat_gossip[p]
    BY <1>6, <1>c
  <2>2. /\ \A c \in Cles : \A a \in Auteurs[c] : etat_gossip'[m][c].version <= generation[a][c]
        /\ \A c \in Cles : etat_gossip'[m][c].version >= etat_gossip[m][c].version
    BY <2>1, FusionBornee
  <2>3. VersionsInv'
    BY <1>6, <2>1, <2>2 DEF VersionsInv
  <2>4. \A p \in Noeuds, d \in Cles : etat_gossip'[p][d].version >= etat_gossip[p][d].version
    BY <1>b, <2>1, <2>2
  <2> QED BY <2>3, <2>4
<1>7. ASSUME NEW n \in Noeuds, NEW m \in Noeuds, Go!Echanger(n, m)
      PROVE  VersionsInv' /\ \A p \in Noeuds, d \in Cles :
                               etat_gossip'[p][d].version >= etat_gossip[p][d].version
  <2>1. PICK e \in copie[n] : etat_gossip' = [etat_gossip EXCEPT ![m] = Go!Fusionner(@, e)]
    BY <1>7 DEF Go!Echanger
  <2>2. /\ UNCHANGED <<generation, recu>>
        /\ copie' = [copie EXCEPT ![n] = IF voisins[n] = {m} THEN {} ELSE @]
    BY <1>7 DEF Go!Echanger, Go!Suivant
  <2>3. \A p \in Noeuds : copie'[p] \subseteq copie[p]
    BY <1>c, <2>2
  <2>4. \A p \in Noeuds : recu'[p] = recu[p]
    BY <2>2
  <2>5. \A p \in Noeuds : \A f \in copie'[p] \union recu'[p] :
           f \in copie[p] \union recu[p] \/ f = etat_gossip'[m]
    BY <2>3, <2>4
  <2>6. UNCHANGED generation /\ e \in copie[n] \union recu[n]
    BY <2>2
  <2> QED BY <1>6, <2>1, <2>5, <2>6
<1>8. ASSUME NEW n \in Noeuds, Go!Merger(n)
      PROVE  VersionsInv' /\ \A p \in Noeuds, d \in Cles :
                               etat_gossip'[p][d].version >= etat_gossip[p][d].version
  <2>1. PICK e \in recu[n] : etat_gossip' = [etat_gossip EXCEPT ![n] = Go!Fusionner(@, e)]
    BY <1>8 DEF Go!Merger
  <2>2. UNCHANGED <<generation, copie>> /\ recu' = [recu EXCEPT ![n] = {}]
    BY <1>8 DEF Go!Merger
  <2>3. \A p \in Noeuds : recu'[p] \subseteq recu[p]
    BY <1>c, <2>2
  <2> QED BY <1>6, <2>1, <2>2, <2>3
<1>9. CASE (\E n \in Noeuds : Go!Arreter(n)) \/ \E g \in Coupures \union {{}} : Go!Partitionner(g)
  BY <1>1, <1>9 DEF Go!Arreter, Go!Partitionner
<1>10. ASSUME NEW n \in Noeuds, Go!Repondre(n)
       PROVE  VersionsInv' /\ \A p \in Noeuds, d \in Cles :
                                etat_gossip'[p][d].version >= etat_gossip[p][d].version
  <2>1. contacte[n] \in Noeuds
    BY <1>10 DEF Go!Repondre, TypeInvGossip
  <2>2. /\ UNCHANGED <<etat_gossip, generation, copie>>
        /\ recu' = [recu EXCEPT ![n] = {etat_gossip[contacte[n]]}]
    BY <1>10 DEF Go!Repondre
  <2>3. \A p \in Noeuds : recu'[p] \subseteq recu[p] \union {etat_gossip[contacte[n]]}
    BY <1>c, <2>2
  <2> QED BY <1>1, <2>1, <2>2, <2>3
<1> QED BY <1>2, <1>3, <1>4, <1>5, <1>7, <1>8, <1>9, <1>10 DEF Go!Next, Go!Tour

\* When every key has one writer, no version that a node holds ever goes back, although
\* the answer to a gossip is merged long after the state that it answers was sent.
THEOREM VersionsCroissantesVrai ==
  ASSUME Go!GossipAssumption, UnAuteur PROVE Go!Spec => Go!VersionsCroissantes
<1> DEFINE Borne == TypeInvGossip /\ VersionsInv
<1>0. Go!GossipAssumption /\ UnAuteur
  OBVIOUS
<1>1. Go!Init => Borne
  BY <1>0, TypeInitGossip, VersionsInit
<1>2. Borne /\ [Go!Next]_Go!varsGossip => Borne'
  BY <1>0, TypeNextGossip, VersionsNext
<1>3. Borne /\ [Go!Next]_Go!varsGossip =>
        [\A n \in Noeuds, c \in Cles :
           etat_gossip'[n][c].version >= etat_gossip[n][c].version]_etat_gossip
  BY <1>0, VersionsNext
<1> QED BY <1>1, <1>2, <1>3, PTL DEF Go!Spec, Go!VersionsCroissantes

-----------------------------------------------------------------------------
\* Sharding.

\* A call under way, and a move.
Appels == [cle : Cles, shard : Sh!Shards, valeur : 0..MaxValeurs]
Mouvements == [cle : Cles, de : Sh!Shards, vers : Sh!Shards, valeur : 0..MaxValeurs,
               phase : {"lire", "ecrire", "supprimer", "inscrire"}]

\* The types.
TypeInvSharding ==
    /\ methode \in {"directory", "range"}
    /\ bornes \in [Sh!Shards -> Cles]
    /\ \A c \in Cles : bornes[0] <= c
    /\ registre \in [Cles -> {{}} \union {{s} : s \in Sh!Shards}]
    /\ contenu \in [Sh!Shards -> [Cles -> 0..MaxValeurs]]
    /\ appel \in [Sh!Clients -> SUBSET Appels]
    /\ \A c \in Sh!Clients : \A a, b \in appel[c] : a = b
    /\ migration \in SUBSET Mouvements
    /\ \A m, n \in migration : m = n
    /\ valeurs \in 0..MaxValeurs /\ migrations \in 0..MaxMigrations
    /\ derniere \in [Cles -> 0..MaxValeurs]
    /\ rendue \in [LecteursCles -> [lue : 0..MaxValeurs, due : 0..MaxValeurs]]

-----------------------------------------------------------------------------
\* Every key has its range.
LEMMA PlageExiste ==
  ASSUME Sh!ShardingAssumption, TypeInvSharding, NEW c \in Cles
  PROVE  /\ Sh!PlagePour(c) \in Sh!Shards
         /\ bornes[Sh!PlagePour(c)] <= c
         /\ Sh!PlagePour(c) = NbShards - 1 \/ c < bornes[Sh!PlagePour(c) + 1]
<1>0. NbShards \in Nat /\ NbShards > 0 /\ Cles \subseteq Nat
  BY DEF Sh!ShardingAssumption
<1>1. /\ \A s : s \in Sh!Shards <=> s \in Nat /\ s <= NbShards - 1
      /\ bornes \in [Sh!Shards -> Cles] /\ bornes[0] <= c
  BY <1>0 DEF Sh!Shards, TypeInvSharding
<1> DEFINE T == {s \in Nat : s + 1 = NbShards \/ (s < NbShards /\ c < bornes[s + 1])}
<1>2. NbShards - 1 \in T /\ T \subseteq Nat
  BY <1>0
<1>3. PICK s \in T : \A t \in T : s <= t
  <2> HIDE DEF T
  <2> QED BY <1>2, MinimumExiste
<1>4. s \in Nat /\ s \in Sh!Shards /\ (s = NbShards - 1 \/ c < bornes[s + 1])
  BY <1>0, <1>1, <1>3
<1>5. bornes[s] <= c
  <2>1. CASE s = 0
    BY <1>1, <2>1
  <2>2. CASE s # 0
    <3>1. PICK q \in Nat : s = q + 1
      <4>1. s - 1 \in Nat /\ s = (s - 1) + 1
        BY <1>4, <2>2
      <4> QED BY <4>1
    <3>2. ~(s <= q)
      BY <3>1
    <3>3. q \notin T
      <4> HIDE DEF T
      <4> QED BY <1>3, <3>2
    <3>4. q < NbShards
      BY <1>0, <1>1, <1>4, <3>1
    <3>5. ~(c < bornes[q + 1])
      BY <3>3, <3>4
    <3>6. bornes[s] \in Nat /\ c \in Nat
      BY <1>0, <1>1, <1>4
    <3> QED BY <3>1, <3>5, <3>6
  <2> QED BY <2>1, <2>2
<1> QED BY <1>4, <1>5 DEF Sh!PlagePour

\* The sets of the instance are those of the library.
LEMMA EnsemblesSharding ==
    /\ \A T : Sh!IsFiniteSet(T) <=> IsFiniteSet(T)
    /\ \A T : Sh!Cardinality(T) = Cardinality(T)
<1>1. \A T : Sh!Cardinality(T) = Cardinality(T)
  BY DEF Sh!Cardinality, Cardinality
<1> QED
  BY <1>1 DEF Sh!IsFiniteSet, IsFiniteSet

\* The shard of a key is a shard, and the directory says which.
LEMMA ShardType ==
  ASSUME Sh!ShardingAssumption, TypeInvSharding, NEW c \in Cles
  PROVE  /\ Sh!ShardPour(c) \in Sh!Shards
         /\ methode = "directory" /\ registre[c] # {} => registre[c] = {Sh!ShardPour(c)}
<1>1. CASE methode = "range"
  BY <1>1, PlageExiste DEF Sh!ShardPour
<1>2. CASE methode # "range" /\ registre[c] = {}
  <2> DEFINE K == {d \in Cles : registre[d] # {}}
  <2>1. IsFiniteSet(Cles) /\ NbShards \in Nat /\ NbShards > 0
    BY EnsemblesSharding DEF Sh!ShardingAssumption
  <2>2. IsFiniteSet(K)
    BY <2>1, FS_Subset
  <2>3. Cardinality(K) \in Nat
    BY <2>2, FS_CardinalityType
  <2>4. Sh!Assigne \in Sh!Shards
    <3>1. Sh!Assigne = Cardinality(K) % NbShards
      BY EnsemblesSharding DEF Sh!Assigne
    <3> HIDE DEF K
    <3> QED BY <2>1, <2>3, <3>1 DEF Sh!Shards
  <2> QED BY <1>2, <2>4 DEF Sh!ShardPour
<1>3. CASE methode # "range" /\ registre[c] # {}
  <2>1. PICK s \in Sh!Shards : registre[c] = {s}
    BY <1>3 DEF TypeInvSharding
  <2> QED BY <1>3, <2>1 DEF Sh!ShardPour
<1> QED BY <1>1, <1>2, <1>3

\* The types hold at first, and every action keeps them.
LEMMA TypeInitSharding == Sh!ShardingAssumption /\ Sh!Init => TypeInvSharding
<1> SUFFICES ASSUME Sh!ShardingAssumption, Sh!Init PROVE TypeInvSharding
  OBVIOUS
<1>1. MaxValeurs \in Nat /\ MaxMigrations \in Nat /\ 0 \in 0..MaxValeurs
         /\ 0 \in 0..MaxMigrations
  BY DEF Sh!ShardingAssumption
<1>2. methode \in {"directory", "range"}
  BY DEF Sh!ShardingAssumption, Sh!Init
<1> QED BY <1>1, <1>2 DEF Sh!Init, TypeInvSharding, Sh!Rien

LEMMA TypeNextSharding ==
    Sh!ShardingAssumption /\ TypeInvSharding /\ [Sh!Next]_Sh!varsSharding => TypeInvSharding'
<1> SUFFICES ASSUME Sh!ShardingAssumption, TypeInvSharding, [Sh!Next]_Sh!varsSharding
                    PROVE TypeInvSharding'
  OBVIOUS
<1>0. MaxValeurs \in Nat /\ MaxMigrations \in Nat /\ 0 \in 0..MaxValeurs
  BY DEF Sh!ShardingAssumption
<1>1. CASE UNCHANGED Sh!varsSharding
  BY <1>1 DEF TypeInvSharding, Sh!varsSharding
<1>2. ASSUME NEW e \in Ecrivains, NEW c \in Cles, Sh!Chercher(e, c) PROVE TypeInvSharding'
  <2>1. /\ UNCHANGED <<methode, bornes, contenu, migration, migrations, derniere, rendue>>
        /\ valeurs < MaxValeurs /\ valeurs' = valeurs + 1
        /\ registre' = IF methode = "range" THEN registre
                       ELSE [registre EXCEPT ![c] = {Sh!ShardPour(c)}]
        /\ appel' = [appel EXCEPT ![e] =
             {[cle |-> c, shard |-> Sh!ShardPour(c), valeur |-> valeurs']}]
    BY <1>2 DEF Sh!Chercher
  <2>2. valeurs' \in 0..MaxValeurs
    BY <1>0, <2>1 DEF TypeInvSharding
  <2>3. Sh!ShardPour(c) \in Sh!Shards
    BY ShardType
  <2>4. registre' \in [Cles -> {{}} \union {{s} : s \in Sh!Shards}]
    BY <2>1, <2>3 DEF TypeInvSharding
  <2>5. [cle |-> c, shard |-> Sh!ShardPour(c), valeur |-> valeurs'] \in Appels
    BY <2>2, <2>3 DEF Appels
  <2>6. /\ appel' \in [Sh!Clients -> SUBSET Appels]
        /\ \A d \in Sh!Clients : \A a, b \in appel'[d] : a = b
    BY <2>1, <2>5 DEF TypeInvSharding, Sh!Clients
  <2> QED BY <2>1, <2>2, <2>4, <2>6 DEF TypeInvSharding
<1>3. ASSUME NEW e \in Ecrivains, Sh!Ecrire(e) PROVE TypeInvSharding'
  <2>1. PICK a \in appel[e] :
          /\ contenu' = [contenu EXCEPT ![a.shard][a.cle] = a.valeur]
          /\ derniere' = [derniere EXCEPT ![a.cle] = a.valeur]
    BY <1>3 DEF Sh!Ecrire
  <2>2. a \in Appels
    BY DEF TypeInvSharding, Sh!Clients
  <2>3. a.shard \in Sh!Shards /\ a.cle \in Cles /\ a.valeur \in 0..MaxValeurs
    BY <2>2 DEF Appels
  <2>4. contenu' \in [Sh!Shards -> [Cles -> 0..MaxValeurs]]
           /\ derniere' \in [Cles -> 0..MaxValeurs]
    BY <2>1, <2>3 DEF TypeInvSharding
  <2>5. /\ appel' \in [Sh!Clients -> SUBSET Appels]
        /\ \A d \in Sh!Clients : \A g, b \in appel'[d] : g = b
    BY <1>3 DEF Sh!Ecrire, TypeInvSharding, Sh!Clients
  <2> QED BY <1>3, <2>4, <2>5 DEF Sh!Ecrire, TypeInvSharding
<1>4. ASSUME NEW l \in LecteursCles, NEW c \in Cles, Sh!ChercherLecture(l, c)
             PROVE TypeInvSharding'
  <2>1. /\ UNCHANGED <<methode, bornes, registre, contenu, migration, valeurs, migrations,
                       derniere>>
        /\ rendue' = [rendue EXCEPT ![l] = [lue |-> derniere[c], due |-> derniere[c]]]
        /\ appel' = [appel EXCEPT ![l] =
             {[cle |-> c, shard |-> Sh!ShardPour(c), valeur |-> derniere[c]]}]
    BY <1>4 DEF Sh!ChercherLecture
  <2>2. Sh!ShardPour(c) \in Sh!Shards /\ derniere[c] \in 0..MaxValeurs
    BY ShardType DEF TypeInvSharding
  <2>3. [cle |-> c, shard |-> Sh!ShardPour(c), valeur |-> derniere[c]] \in Appels
    BY <2>2 DEF Appels
  <2>4. /\ appel' \in [Sh!Clients -> SUBSET Appels]
        /\ \A d \in Sh!Clients : \A a, b \in appel'[d] : a = b
    BY <2>1, <2>3 DEF TypeInvSharding, Sh!Clients
  <2>5. rendue' \in [LecteursCles -> [lue : 0..MaxValeurs, due : 0..MaxValeurs]]
    BY <2>1, <2>2 DEF TypeInvSharding
  <2> QED BY <2>1, <2>4, <2>5 DEF TypeInvSharding
<1>5. ASSUME NEW l \in LecteursCles, Sh!Lire(l) PROVE TypeInvSharding'
  <2>1. PICK a \in appel[l] :
          rendue' = [rendue EXCEPT ![l] = [lue |-> contenu[a.shard][a.cle], due |-> a.valeur]]
    BY <1>5 DEF Sh!Lire
  <2>2. a \in Appels
    BY DEF TypeInvSharding, Sh!Clients
  <2>3. a.valeur \in 0..MaxValeurs /\ contenu[a.shard][a.cle] \in 0..MaxValeurs
    BY <2>2 DEF Appels, TypeInvSharding
  <2>4. rendue' \in [LecteursCles -> [lue : 0..MaxValeurs, due : 0..MaxValeurs]]
    BY <2>1, <2>3 DEF TypeInvSharding
  <2>5. /\ appel' \in [Sh!Clients -> SUBSET Appels]
        /\ \A d \in Sh!Clients : \A g, b \in appel'[d] : g = b
    BY <1>5 DEF Sh!Lire, TypeInvSharding, Sh!Clients
  <2> QED BY <1>5, <2>4, <2>5 DEF Sh!Lire, TypeInvSharding
<1>6. ASSUME NEW c \in Cles, NEW s \in Sh!Shards, Sh!Migrer(c, s) PROVE TypeInvSharding'
  <2>1. /\ UNCHANGED <<methode, bornes, registre, contenu, appel, valeurs, derniere, rendue>>
        /\ migration' = {[cle |-> c, de |-> Sh!ShardPour(c), vers |-> s, valeur |-> Sh!Rien,
                          phase |-> "lire"]}
        /\ migrations < MaxMigrations /\ migrations' = migrations + 1
    BY <1>6 DEF Sh!Migrer
  <2>2. Sh!ShardPour(c) \in Sh!Shards
    BY ShardType
  <2>3. migration' \in SUBSET Mouvements /\ \A m, n \in migration' : m = n
    BY <1>0, <2>1, <2>2 DEF Mouvements, Sh!Rien
  <2>4. migrations' \in 0..MaxMigrations
    BY <1>0, <2>1 DEF TypeInvSharding
  <2> QED BY <2>1, <2>3, <2>4 DEF TypeInvSharding
<1>7. CASE Sh!Deplacer
  <2>1. PICK m \in migration :
         \/ /\ m.phase = "lire"
            /\ migration' = IF contenu[m.de][m.cle] = Sh!Rien THEN {}
                            ELSE {[m EXCEPT !.valeur = contenu[m.de][m.cle],
                                            !.phase = "ecrire"]}
            /\ UNCHANGED <<contenu, registre>>
         \/ /\ m.phase = "ecrire"
            /\ contenu' = [contenu EXCEPT ![m.vers][m.cle] = m.valeur]
            /\ migration' = {[m EXCEPT !.phase = "supprimer"]}
            /\ UNCHANGED registre
         \/ /\ m.phase = "supprimer"
            /\ contenu' = [contenu EXCEPT ![m.de][m.cle] = Sh!Rien]
            /\ migration' = {[m EXCEPT !.phase = "inscrire"]}
            /\ UNCHANGED registre
         \/ /\ m.phase = "inscrire"
            /\ registre' = [registre EXCEPT ![m.cle] = {m.vers}]
            /\ migration' = {}
            /\ UNCHANGED contenu
    BY <1>7 DEF Sh!Deplacer, Sh!Supprimee, Sh!Inscrit
  <2>2. m \in Mouvements
    BY DEF TypeInvSharding
  <2>3. /\ m.cle \in Cles /\ m.de \in Sh!Shards /\ m.vers \in Sh!Shards
            /\ m.valeur \in 0..MaxValeurs
        /\ contenu \in [Sh!Shards -> [Cles -> 0..MaxValeurs]]
        /\ contenu[m.de][m.cle] \in 0..MaxValeurs
    BY <2>2 DEF TypeInvSharding, Mouvements
  <2>4. contenu' \in [Sh!Shards -> [Cles -> 0..MaxValeurs]]
    BY <1>0, <2>1, <2>3 DEF Sh!Rien
  <2>5. registre' \in [Cles -> {{}} \union {{s} : s \in Sh!Shards}]
    <3>1. registre \in [Cles -> {{}} \union {{s} : s \in Sh!Shards}]
      BY DEF TypeInvSharding
    <3>2. {m.vers} \in {{}} \union {{s} : s \in Sh!Shards}
      BY <2>3
    <3>3. registre' = registre \/ registre' = [registre EXCEPT ![m.cle] = {m.vers}]
      BY <2>1
    <3> QED BY <3>1, <3>2, <3>3
  <2>6. migration' \in SUBSET Mouvements /\ \A n, p \in migration' : n = p
    <3>1. ASSUME NEW v \in 0..MaxValeurs,
                 NEW p \in {"lire", "ecrire", "supprimer", "inscrire"}
          PROVE  [m EXCEPT !.valeur = v, !.phase = p] \in Mouvements
                 /\ [m EXCEPT !.phase = p] \in Mouvements
      BY <2>2 DEF Mouvements
    <3> QED BY <2>1, <2>3, <3>1
  <2> QED BY <1>7, <2>4, <2>5, <2>6 DEF Sh!Deplacer, TypeInvSharding
<1> QED BY <1>1, <1>2, <1>3, <1>4, <1>5, <1>6, <1>7 DEF Sh!Next

\* A set no two members of which differ has one at most.
LEMMA AuPlusUn ==
  ASSUME NEW A, \A a, b \in A : a = b
  PROVE  Cardinality(A) <= 1
<1>1. CASE A = {}
  BY <1>1, FS_EmptySet
<1>2. ASSUME NEW a \in A PROVE Cardinality(A) <= 1
  <2>1. A = {a}
    OBVIOUS
  <2>2. Cardinality({a}) = 1
    BY FS_Singleton, Zenon
  <2> QED BY <2>1, <2>2
<1> QED BY <1>1, <1>2

\* Shards, directory, calls and moves are typed.
THEOREM TypeCorrectSharding == ASSUME Sh!ShardingAssumption PROVE Sh!Spec => []Sh!TypeOK
<1>0. Sh!ShardingAssumption
  OBVIOUS
<1>1. TypeInvSharding => Sh!TypeOK
  <2> SUFFICES ASSUME TypeInvSharding PROVE Sh!TypeOK
    OBVIOUS
  <2>1. \A c \in Sh!Clients : Cardinality(appel[c]) <= 1 /\ appel[c] \subseteq Appels
    BY AuPlusUn DEF TypeInvSharding
  <2>2. Cardinality(migration) <= 1 /\ migration \subseteq Mouvements
    BY AuPlusUn DEF TypeInvSharding
  <2>3. bornes \in [Sh!Shards -> Nat]
    BY <1>0 DEF TypeInvSharding, Sh!ShardingAssumption
  <2>4. /\ \A c \in Sh!Clients : Sh!Cardinality(appel[c]) <= 1 /\ appel[c] \subseteq Appels
        /\ Sh!Cardinality(migration) <= 1
    BY <2>1, <2>2, EnsemblesSharding
  <2> QED BY <2>2, <2>3, <2>4 DEF TypeInvSharding, Sh!TypeOK, Appels, Mouvements
<1>2. Sh!Init => TypeInvSharding
  BY <1>0, TypeInitSharding
<1>3. TypeInvSharding /\ [Sh!Next]_Sh!varsSharding => TypeInvSharding'
  BY <1>0, TypeNextSharding
<1> QED BY <1>1, <1>2, <1>3, PTL DEF Sh!Spec

-----------------------------------------------------------------------------
\* A key is not used while it is moved; with ranges nothing moves.
Sereine == methode = "range" \/ "trafic" \notin PermisSharding

\* The key has a shard: by ranges all have.
Connu(c) == methode = "range" \/ registre[c] # {}

\* The key is between two shards.
EnMouvement(c) == \E m \in migration : m.cle = c /\ m.phase # "lire"

\* The value of c that s should have.
Attendu(s, c) == IF Connu(c) /\ s = Sh!ShardPour(c) THEN derniere[c] ELSE Sh!Rien

\* A key that is not between two shards is in the one where it is looked for, with its
\* last value, and in no other.
ContenuInv == \A c \in Cles :
    /\ ~EnMouvement(c) => \A s \in Sh!Shards : contenu[s][c] = Attendu(s, c)
    /\ derniere[c] # Sh!Rien => Connu(c)

\* A call under way uses the shard where its key is looked for now.
AppelInv == \A cl \in Sh!Clients : \A a \in appel[cl] :
    Connu(a.cle) /\ a.shard = Sh!ShardPour(a.cle)

\* Where the value is in each phase of a move.
MoveInv == \A m \in migration :
    /\ methode = "directory" /\ registre[m.cle] # {} /\ ~Sh!EnUsage(m.cle)
    /\ m.de = Sh!ShardPour(m.cle) /\ m.vers # m.de
    /\ m.phase # "lire" =>
         /\ m.valeur = derniere[m.cle]
         /\ contenu[m.de][m.cle] = (IF m.phase = "inscrire" THEN Sh!Rien ELSE derniere[m.cle])
         /\ contenu[m.vers][m.cle] = (IF m.phase = "ecrire" THEN Sh!Rien ELSE derniere[m.cle])
         /\ \A s \in Sh!Shards \ {m.de, m.vers} : contenu[s][m.cle] = Sh!Rien

\* Every key is in its place.
PlaceInv == ContenuInv /\ AppelInv /\ MoveInv

\* The lookup of a key that has a place does not change while its entry does not.
LEMMA ShardStable ==
  ASSUME TypeInvSharding, NEW c \in Cles, Connu(c), UNCHANGED <<methode, bornes>>,
         registre'[c] = registre[c]
  PROVE  Sh!ShardPour(c)' = Sh!ShardPour(c) /\ Connu(c)'
BY DEF Sh!ShardPour, Connu, Sh!PlagePour, TypeInvSharding

\* Keys are in their places at first, and every action keeps them there.
LEMMA PlaceInit == Sh!ShardingAssumption /\ Sh!Init => PlaceInv
<1> SUFFICES ASSUME Sh!ShardingAssumption, Sh!Init PROVE PlaceInv
  OBVIOUS
<1>1. /\ contenu = [s \in Sh!Shards |-> [c \in Cles |-> Sh!Rien]]
          /\ derniere = [c \in Cles |-> Sh!Rien]
      /\ migration = {} /\ appel = [c \in Sh!Clients |-> {}]
  BY DEF Sh!Init
<1>2. ContenuInv
  BY <1>1 DEF ContenuInv, Attendu
<1>3. AppelInv /\ MoveInv
  BY <1>1 DEF AppelInv, MoveInv
<1> QED BY <1>2, <1>3 DEF PlaceInv

LEMMA PlaceChercher ==
  ASSUME Sh!ShardingAssumption, TypeInvSharding, PlaceInv, NEW e \in Ecrivains,
         NEW c \in Cles, Sh!Chercher(e, c)
  PROVE  PlaceInv'
<1>1. /\ UNCHANGED <<methode, bornes, contenu, derniere>> /\ migration = {} /\ migration' = {}
      /\ appel[e] = {}
      /\ registre' = IF methode = "range" THEN registre
                     ELSE [registre EXCEPT ![c] = {Sh!ShardPour(c)}]
      /\ appel' = [appel EXCEPT ![e] =
           {[cle |-> c, shard |-> Sh!ShardPour(c), valeur |-> valeurs']}]
  BY DEF Sh!Chercher
<1>2. /\ methode \in {"directory", "range"} /\ Sh!ShardPour(c) \in Sh!Shards
      /\ methode = "directory" /\ registre[c] # {} => registre[c] = {Sh!ShardPour(c)}
      /\ registre \in [Cles -> {{}} \union {{s} : s \in Sh!Shards}]
  BY ShardType DEF TypeInvSharding
<1>3. \A d \in Cles : Connu(d) => registre'[d] = registre[d]
  BY <1>1, <1>2 DEF Connu
<1>4. \A d \in Cles : Connu(d) => Sh!ShardPour(d)' = Sh!ShardPour(d) /\ Connu(d)'
  BY <1>1, <1>3, ShardStable
<1>5. Connu(c)' /\ Sh!ShardPour(c)' = Sh!ShardPour(c)
  BY <1>1, <1>2 DEF Connu, Sh!ShardPour, Sh!PlagePour
<1>6. \A d \in Cles : d # c /\ ~Connu(d) => ~Connu(d)'
  BY <1>1, <1>2 DEF Connu
<1>7. ContenuInv'
  <2> SUFFICES ASSUME NEW d \in Cles
               PROVE  /\ \A s \in Sh!Shards : contenu[s][d] = Attendu(s, d)'
                      /\ derniere[d] # Sh!Rien => Connu(d)'
    BY <1>1 DEF ContenuInv
  <2>1. /\ \A s \in Sh!Shards : contenu[s][d] = Attendu(s, d)
        /\ derniere[d] # Sh!Rien => Connu(d)
    BY <1>1 DEF PlaceInv, ContenuInv, EnMouvement
  <2> QED BY <1>1, <1>4, <1>5, <1>6, <2>1 DEF Attendu
<1>8. AppelInv'
  <2> SUFFICES ASSUME NEW cl \in Sh!Clients, NEW a \in appel'[cl]
               PROVE  Connu(a.cle)' /\ a.shard = Sh!ShardPour(a.cle)'
    BY DEF AppelInv
  <2>1. CASE cl = e
    <3>1. a = [cle |-> c, shard |-> Sh!ShardPour(c), valeur |-> valeurs']
      BY <1>1, <2>1 DEF TypeInvSharding
    <3>2. a.cle = c /\ a.shard = Sh!ShardPour(c)
      BY <3>1
    <3> QED BY <1>5, <3>2
  <2>2. CASE cl # e
    <3>1. a \in appel[cl] /\ a \in Appels
      BY <1>1, <2>2 DEF TypeInvSharding
    <3>2. a.cle \in Cles /\ Connu(a.cle) /\ a.shard = Sh!ShardPour(a.cle)
      BY <3>1 DEF PlaceInv, AppelInv, Appels
    <3> QED BY <1>4, <3>2
  <2> QED BY <2>1, <2>2
<1> QED BY <1>1, <1>7, <1>8 DEF PlaceInv, MoveInv

\* What a client does with its own call leaves the directory alone.
LEMMA PlaceAppels ==
  ASSUME Sh!ShardingAssumption, TypeInvSharding, PlaceInv,
         \/ \E e \in Ecrivains : Sh!Ecrire(e)
         \/ \E l \in LecteursCles : Sh!Lire(l) \/ \E c \in Cles : Sh!ChercherLecture(l, c)
  PROVE  PlaceInv'
<1>0. UNCHANGED <<methode, bornes, registre, migration>>
  BY DEF Sh!Ecrire, Sh!Lire, Sh!ChercherLecture
<1>1. /\ UNCHANGED <<methode, bornes, registre, migration>>
      /\ \A c : EnMouvement(c)' <=> EnMouvement(c)
      /\ \A c : Sh!ShardPour(c)' = Sh!ShardPour(c) /\ (Connu(c)' <=> Connu(c))
  BY <1>0 DEF EnMouvement, Sh!ShardPour, Sh!PlagePour, Connu, Sh!Assigne
<1>2. ASSUME NEW e \in Ecrivains, Sh!Ecrire(e) PROVE PlaceInv'
  <2>1. PICK a \in appel[e] :
          /\ contenu' = [contenu EXCEPT ![a.shard][a.cle] = a.valeur]
          /\ derniere' = [derniere EXCEPT ![a.cle] = a.valeur]
    BY <1>2 DEF Sh!Ecrire
  <2>2. e \in Sh!Clients /\ a \in Appels /\ appel' = [appel EXCEPT ![e] = {}]
    BY <1>2 DEF TypeInvSharding, Sh!Clients, Sh!Ecrire
  <2>3. /\ a.cle \in Cles /\ a.shard \in Sh!Shards /\ Connu(a.cle)
            /\ a.shard = Sh!ShardPour(a.cle)
        /\ Sh!EnUsage(a.cle)
    BY <2>2 DEF Appels, PlaceInv, AppelInv, Sh!EnUsage
  <2>4. \A m \in migration : m.cle # a.cle
    BY <2>3 DEF PlaceInv, MoveInv
  <2>5. /\ \A s \in Sh!Shards, c \in Cles :
             contenu'[s][c] = IF s = a.shard /\ c = a.cle THEN a.valeur ELSE contenu[s][c]
        /\ \A c \in Cles : derniere'[c] = IF c = a.cle THEN a.valeur ELSE derniere[c]
    BY <2>1, <2>3 DEF TypeInvSharding
  <2>6. ContenuInv'
    <3> SUFFICES ASSUME NEW c \in Cles
                 PROVE  /\ ~EnMouvement(c) => \A s \in Sh!Shards : contenu'[s][c] = Attendu(s,
                            c)'
                        /\ derniere'[c] # Sh!Rien => Connu(c)
      BY <1>1 DEF ContenuInv
    <3>1. /\ ~EnMouvement(c) => \A s \in Sh!Shards : contenu[s][c] = Attendu(s, c)
          /\ derniere[c] # Sh!Rien => Connu(c)
      BY DEF PlaceInv, ContenuInv
    <3>2. \A s \in Sh!Shards : Attendu(s, c)' = IF Connu(c)
             /\ s = Sh!ShardPour(c) THEN derniere'[c] ELSE Sh!Rien
      BY <1>1 DEF Attendu
    <3>3. CASE c = a.cle
      <4>1. ~EnMouvement(c)
        BY <2>4, <3>3 DEF EnMouvement
      <4> QED BY <2>3, <2>5, <3>1, <3>2, <3>3, <4>1 DEF Attendu
    <3>4. CASE c # a.cle
      BY <2>5, <3>1, <3>2, <3>4 DEF Attendu
    <3> QED BY <3>3, <3>4
  <2>7. \A cl \in Sh!Clients : appel'[cl] \subseteq appel[cl]
    BY <2>2 DEF TypeInvSharding
  <2>8. AppelInv'
    BY <1>1, <2>7 DEF PlaceInv, AppelInv
  <2>9. MoveInv'
    <3> SUFFICES ASSUME NEW m \in migration
                 PROVE  /\ methode = "directory" /\ registre[m.cle] # {} /\ ~Sh!EnUsage(m.cle)'
                        /\ m.de = Sh!ShardPour(m.cle) /\ m.vers # m.de
                        /\ m.phase # "lire" =>
                             /\ m.valeur = derniere'[m.cle]
                             /\ contenu'[m.de][m.cle] = (IF m.phase = "inscrire" THEN Sh!Rien
                                                         ELSE derniere'[m.cle])
                             /\ contenu'[m.vers][m.cle] = (IF m.phase = "ecrire" THEN Sh!Rien
                                                           ELSE derniere'[m.cle])
                             /\ \A s \in Sh!Shards \ {m.de,
                                 m.vers} : contenu'[s][m.cle] = Sh!Rien
      BY <1>1 DEF MoveInv
    <3>1. m.cle \in Cles /\ m.de \in Sh!Shards /\ m.vers \in Sh!Shards /\ m.cle # a.cle
      BY <2>4 DEF TypeInvSharding, Mouvements
    <3>2. ~Sh!EnUsage(m.cle)'
      BY <2>7 DEF PlaceInv, MoveInv, Sh!EnUsage
    <3> QED BY <2>5, <3>1, <3>2 DEF PlaceInv, MoveInv
  <2> QED BY <2>6, <2>8, <2>9 DEF PlaceInv
<1>3. ASSUME UNCHANGED <<contenu, derniere>>,
             \A cl \in Sh!Clients : \A a \in appel'[cl] :
               a \in appel[cl] \/ (migration = {} /\ Connu(a.cle)
                   /\ a.shard = Sh!ShardPour(a.cle))
      PROVE  PlaceInv'
  <2>1. ContenuInv'
    BY <1>1, <1>3 DEF PlaceInv, ContenuInv, Attendu
  <2>2. AppelInv'
    BY <1>1, <1>3 DEF PlaceInv, AppelInv
  <2>3. \A c : migration # {} /\ ~Sh!EnUsage(c) => ~Sh!EnUsage(c)'
    BY <1>3 DEF Sh!EnUsage
  <2>4. MoveInv'
    BY <1>1, <1>3, <2>3 DEF PlaceInv, MoveInv
  <2> QED BY <2>1, <2>2, <2>4 DEF PlaceInv
<1>4. ASSUME NEW l \in LecteursCles, Sh!Lire(l) PROVE PlaceInv'
  <2>1. \A cl \in Sh!Clients : appel'[cl] \subseteq appel[cl]
    BY <1>4 DEF Sh!Lire, TypeInvSharding
  <2> QED BY <1>3, <1>4, <2>1 DEF Sh!Lire
<1>5. ASSUME NEW l \in LecteursCles, NEW c \in Cles, Sh!ChercherLecture(l, c) PROVE PlaceInv'
  <2> DEFINE a0 == [cle |-> c, shard |-> Sh!ShardPour(c), valeur |-> derniere[c]]
  <2>1. /\ appel' = [appel EXCEPT ![l] = {a0}] /\ migration = {} /\ Connu(c)
        /\ UNCHANGED <<contenu, derniere>>
    BY <1>5 DEF Sh!ChercherLecture, Connu
  <2>2. a0.cle = c /\ a0.shard = Sh!ShardPour(c)
    OBVIOUS
  <2> HIDE DEF a0
  <2>3. \A cl \in Sh!Clients : \A a \in appel'[cl] : a \in appel[cl] \/ a = a0
    BY <2>1 DEF TypeInvSharding
  <2> QED BY <1>3, <2>1, <2>2, <2>3
<1> QED BY <1>2, <1>4, <1>5

LEMMA PlaceMigrer ==
  ASSUME Sh!ShardingAssumption, Sereine, TypeInvSharding, PlaceInv, NEW c \in Cles,
         NEW v \in Sh!Shards,
         Sh!Migrer(c, v)
  PROVE  PlaceInv'
<1>1. /\ UNCHANGED <<methode, bornes, registre, contenu, appel, derniere>>
      /\ methode = "directory" /\ migration = {} /\ ~Sh!EnUsage(c)
      /\ registre[c] # {} /\ v \notin registre[c]
      /\ migration' = {[cle |-> c, de |-> Sh!ShardPour(c), vers |-> v, valeur |-> Sh!Rien,
                        phase |-> "lire"]}
  BY DEF Sh!Migrer, Sereine
<1>2. registre[c] = {Sh!ShardPour(c)}
  BY <1>1, ShardType
<1>3. \A d : Sh!ShardPour(d)' = Sh!ShardPour(d) /\ (Connu(d)' <=> Connu(d))
         /\ (Sh!EnUsage(d)' <=> Sh!EnUsage(d))
  BY <1>1 DEF Sh!ShardPour, Sh!PlagePour, Connu, Sh!Assigne, Sh!EnUsage
<1>4. \A m \in migration' : /\ m.cle = c /\ m.de = Sh!ShardPour(c) /\ m.vers = v
         /\ m.phase = "lire"
  BY <1>1
<1>5. \A d : ~EnMouvement(d) /\ ~EnMouvement(d)'
  BY <1>1, <1>4 DEF EnMouvement
<1>6. ContenuInv' /\ AppelInv'
  BY <1>1, <1>3, <1>5 DEF PlaceInv, ContenuInv, AppelInv, Attendu
<1>7. MoveInv'
  BY <1>1, <1>2, <1>3, <1>4 DEF MoveInv
<1> QED BY <1>6, <1>7 DEF PlaceInv

LEMMA PlaceDeplacer ==
  ASSUME Sh!ShardingAssumption, TypeInvSharding, PlaceInv, Sh!Deplacer
  PROVE  PlaceInv'
<1>1. PICK m \in migration :
         \/ /\ m.phase = "lire"
            /\ migration' = IF contenu[m.de][m.cle] = Sh!Rien THEN {}
                            ELSE {[m EXCEPT !.valeur = contenu[m.de][m.cle],
                                            !.phase = "ecrire"]}
            /\ UNCHANGED <<contenu, registre>>
         \/ /\ m.phase = "ecrire"
            /\ contenu' = [contenu EXCEPT ![m.vers][m.cle] = m.valeur]
            /\ migration' = {[m EXCEPT !.phase = "supprimer"]}
            /\ UNCHANGED registre
         \/ /\ m.phase = "supprimer"
            /\ contenu' = [contenu EXCEPT ![m.de][m.cle] = Sh!Rien]
            /\ migration' = {[m EXCEPT !.phase = "inscrire"]}
            /\ UNCHANGED registre
         \/ /\ m.phase = "inscrire"
            /\ registre' = [registre EXCEPT ![m.cle] = {m.vers}]
            /\ migration' = {}
            /\ UNCHANGED contenu
  BY DEF Sh!Deplacer, Sh!Supprimee, Sh!Inscrit
<1>2. PICK k \in Cles, de \in Sh!Shards, vers \in Sh!Shards :
        m.cle = k /\ m.de = de /\ m.vers = vers /\ m \in Mouvements
  BY DEF TypeInvSharding, Mouvements
<1>3. /\ UNCHANGED <<methode, bornes, appel, derniere>> /\ methode = "directory"
      /\ registre[k] # {} /\ ~Sh!EnUsage(k) /\ de = Sh!ShardPour(k) /\ vers # de /\ Connu(k)
      /\ \A c : Sh!EnUsage(c)' <=> Sh!EnUsage(c)
      /\ \A n \in migration : n = m
  BY <1>2 DEF Sh!Deplacer, PlaceInv, MoveInv, Connu, Sh!EnUsage, TypeInvSharding
<1>4. /\ contenu \in [Sh!Shards -> [Cles -> 0..MaxValeurs]]
      /\ registre \in [Cles -> {{}} \union {{s} : s \in Sh!Shards}]
  BY DEF TypeInvSharding
<1>5. m.phase # "lire" =>
        /\ m.valeur = derniere[k]
        /\ contenu[de][k] = (IF m.phase = "inscrire" THEN Sh!Rien ELSE derniere[k])
        /\ contenu[vers][k] = (IF m.phase = "ecrire" THEN Sh!Rien ELSE derniere[k])
        /\ \A s \in Sh!Shards \ {de, vers} : contenu[s][k] = Sh!Rien
  BY <1>2 DEF PlaceInv, MoveInv
<1>6. \A c : EnMouvement(c) <=> c = k /\ m.phase # "lire"
  BY <1>2, <1>3 DEF EnMouvement
<1>7. \A c \in Cles : c # k => \A s \in Sh!Shards : contenu'[s][c] = contenu[s][c]
  BY <1>1, <1>2, <1>4
<1>8. \A c \in Cles : c # k =>
        /\ registre'[c] = registre[c]
        /\ Connu(c)' <=> Connu(c)
        /\ Connu(c) => Sh!ShardPour(c)' = Sh!ShardPour(c)
  <2> TAKE c \in Cles
  <2>1. c # k => registre'[c] = registre[c]
    BY <1>1, <1>2, <1>4
  <2>2. registre'[c] = registre[c] => (Connu(c)' <=> Connu(c))
    BY <1>3 DEF Connu
  <2>3. registre'[c] = registre[c] /\ Connu(c) => Sh!ShardPour(c)' = Sh!ShardPour(c)
    BY <1>3, ShardStable
  <2> QED BY <2>1, <2>2, <2>3
<1>9. AppelInv'
  <2> SUFFICES ASSUME NEW cl \in Sh!Clients, NEW a \in appel[cl]
               PROVE  Connu(a.cle)' /\ a.shard = Sh!ShardPour(a.cle)'
    BY <1>3 DEF AppelInv
  <2>1. a.cle \in Cles /\ a.cle # k
    BY <1>3 DEF TypeInvSharding, Appels, Sh!EnUsage
  <2> QED BY <1>8, <2>1 DEF PlaceInv, AppelInv
<1>10. ASSUME NEW c \in Cles, c # k
       PROVE  /\ ~EnMouvement(c) /\ \A s \in Sh!Shards : contenu'[s][c] = Attendu(s, c)'
              /\ derniere[c] # Sh!Rien => Connu(c)'
  <2>1. ~EnMouvement(c)
    BY <1>6, <1>10
  <2>2. /\ \A s \in Sh!Shards : contenu[s][c] = Attendu(s, c)
        /\ derniere[c] # Sh!Rien => Connu(c)
    BY <2>1 DEF PlaceInv, ContenuInv
  <2> QED BY <1>3, <1>7, <1>8, <1>10, <2>1, <2>2 DEF Attendu
<1>11. ASSUME Connu(k)', EnMouvement(k)' \/ \A s \in Sh!Shards : contenu'[s][k] = Attendu(s, k)'
       PROVE  ContenuInv'
  BY <1>3, <1>10, <1>11 DEF ContenuInv
<1>12. ASSUME migration' = {}, Connu(k)', \A s \in Sh!Shards : contenu'[s][k] = Attendu(s, k)'
       PROVE  PlaceInv'
  BY <1>9, <1>11, <1>12 DEF PlaceInv, MoveInv
\* The move goes on.
<1>13. ASSUME NEW n \in Mouvements, migration' = {n}, UNCHANGED registre,
              n.cle = k, n.de = de, n.vers = vers, n.phase # "lire", n.valeur = derniere[k],
              contenu'[de][k] = (IF n.phase = "inscrire" THEN Sh!Rien ELSE derniere[k]),
              contenu'[vers][k] = (IF n.phase = "ecrire" THEN Sh!Rien ELSE derniere[k]),
              \A s \in Sh!Shards \ {de, vers} : contenu'[s][k] = Sh!Rien
       PROVE  PlaceInv'
  <2>1. Connu(k)' /\ Sh!ShardPour(k)' = de
    BY <1>3, <1>13, ShardStable
  <2>2. EnMouvement(k)'
    BY <1>13 DEF EnMouvement
  <2>3. MoveInv'
    BY <1>3, <1>13, <2>1 DEF MoveInv
  <2> QED BY <1>9, <1>11, <2>1, <2>2, <2>3 DEF PlaceInv
<1>14. CASE m.phase = "lire"
  <2>1. UNCHANGED <<contenu, registre>>
    BY <1>1, <1>14
  <2>2. \A s \in Sh!Shards : contenu[s][k] = IF s = de THEN derniere[k] ELSE Sh!Rien
    <3>1. ~EnMouvement(k)
      BY <1>6, <1>14
    <3> QED BY <1>3, <3>1 DEF PlaceInv, ContenuInv, Attendu
  <2>3. CASE contenu[de][k] = Sh!Rien
    <3>1. migration' = {}
      BY <1>1, <1>2, <1>14, <2>3
    <3>2. Connu(k)' /\ Sh!ShardPour(k)' = de
      BY <1>3, <2>1, ShardStable
    <3>3. \A s \in Sh!Shards : contenu'[s][k] = Attendu(s, k)'
      BY <1>3, <2>1, <2>2, <3>2 DEF Attendu
    <3> QED BY <1>12, <3>1, <3>2, <3>3
  <2>4. CASE contenu[de][k] # Sh!Rien
    <3> DEFINE n == [m EXCEPT !.valeur = contenu[de][k], !.phase = "ecrire"]
    <3>1. migration' = {n}
      BY <1>1, <1>2, <1>14, <2>4
    <3>2. /\ n \in Mouvements /\ n.cle = k /\ n.de = de /\ n.vers = vers
          /\ n.phase = "ecrire" /\ n.valeur = contenu[de][k]
      <4>1. contenu[de][k] \in 0..MaxValeurs
        BY <1>4
      <4> QED BY <1>2, <4>1 DEF Mouvements
    <3> HIDE DEF n
    <3> QED BY <1>3, <1>13, <2>1, <2>2, <3>1, <3>2
  <2> QED BY <2>3, <2>4
<1>15. CASE m.phase = "ecrire"
  <2> DEFINE n == [m EXCEPT !.phase = "supprimer"]
  <2>1. /\ migration' = {n} /\ UNCHANGED registre
        /\ contenu' = [contenu EXCEPT ![vers][k] = m.valeur]
    BY <1>1, <1>2, <1>15
  <2>2. /\ n \in Mouvements /\ n.cle = k /\ n.de = de /\ n.vers = vers
        /\ n.phase = "supprimer" /\ n.valeur = m.valeur
    BY <1>2 DEF Mouvements
  <2> HIDE DEF n
  <2>3. \A s \in Sh!Shards : contenu'[s][k] = IF s = vers THEN m.valeur ELSE contenu[s][k]
    BY <1>4, <2>1
  <2> QED BY <1>3, <1>5, <1>13, <1>15, <2>1, <2>2, <2>3
<1>16. CASE m.phase = "supprimer"
  <2> DEFINE n == [m EXCEPT !.phase = "inscrire"]
  <2>1. /\ migration' = {n} /\ UNCHANGED registre
        /\ contenu' = [contenu EXCEPT ![de][k] = Sh!Rien]
    BY <1>1, <1>2, <1>16
  <2>2. /\ n \in Mouvements /\ n.cle = k /\ n.de = de /\ n.vers = vers
        /\ n.phase = "inscrire" /\ n.valeur = m.valeur
    BY <1>2 DEF Mouvements
  <2> HIDE DEF n
  <2>3. \A s \in Sh!Shards : contenu'[s][k] = IF s = de THEN Sh!Rien ELSE contenu[s][k]
    BY <1>4, <2>1
  <2> QED BY <1>3, <1>5, <1>13, <1>16, <2>1, <2>2, <2>3
<1>17. CASE m.phase = "inscrire"
  <2>1. /\ migration' = {} /\ UNCHANGED contenu
        /\ registre' = [registre EXCEPT ![k] = {vers}]
    BY <1>1, <1>2, <1>17
  <2>2. Connu(k)' /\ Sh!ShardPour(k)' = vers
    <3>1. registre'[k] = {vers} /\ methode' = "directory"
      BY <1>3, <1>4, <2>1
    <3> QED BY <3>1 DEF Connu, Sh!ShardPour
  <2>3. \A s \in Sh!Shards : contenu'[s][k] = Attendu(s, k)'
    BY <1>3, <1>5, <1>17, <2>1, <2>2 DEF Attendu
  <2> QED BY <1>12, <2>1, <2>2, <2>3
<1> QED BY <1>1, <1>14, <1>15, <1>16, <1>17

LEMMA PlaceNext ==
  ASSUME Sh!ShardingAssumption, Sereine, TypeInvSharding, PlaceInv, [Sh!Next]_Sh!varsSharding
  PROVE  PlaceInv'
<1>1. CASE UNCHANGED Sh!varsSharding
  <2>1. UNCHANGED <<methode, bornes, registre, contenu, appel, migration, derniere>>
    BY <1>1 DEF Sh!varsSharding
  <2>2. \A c : /\ Sh!ShardPour(c)' = Sh!ShardPour(c) /\ (Connu(c)' <=> Connu(c))
               /\ (Sh!EnUsage(c)' <=> Sh!EnUsage(c)) /\ (EnMouvement(c)' <=> EnMouvement(c))
    BY <2>1 DEF Sh!ShardPour, Sh!PlagePour, Connu, Sh!Assigne, Sh!EnUsage, EnMouvement
  <2>3. ContenuInv' /\ AppelInv'
    BY <2>1, <2>2 DEF PlaceInv, ContenuInv, AppelInv, Attendu
  <2>4. MoveInv'
    BY <2>1, <2>2 DEF PlaceInv, MoveInv
  <2> QED BY <2>3, <2>4 DEF PlaceInv
<1>2. CASE Sh!Next
  BY <1>2, PlaceChercher, PlaceAppels, PlaceMigrer, PlaceDeplacer DEF Sh!Next
<1> QED BY <1>1, <1>2

\* The inductive invariant.
InvSharding == TypeInvSharding /\ (Sereine => PlaceInv)

\* It holds always.
LEMMA InvToujours == ASSUME Sh!ShardingAssumption PROVE Sh!Spec => []InvSharding
<1>0. Sh!ShardingAssumption
  OBVIOUS
<1>1. Sh!Init => InvSharding
  BY <1>0, TypeInitSharding, PlaceInit DEF InvSharding
<1>2. InvSharding /\ [Sh!Next]_Sh!varsSharding => InvSharding'
  <2> SUFFICES ASSUME InvSharding, [Sh!Next]_Sh!varsSharding PROVE InvSharding'
    OBVIOUS
  <2>1. TypeInvSharding'
    BY <1>0, TypeNextSharding DEF InvSharding
  <2>2. methode' = methode
    BY DEF Sh!Next, Sh!varsSharding, Sh!Chercher, Sh!Ecrire, Sh!ChercherLecture, Sh!Lire,
           Sh!Migrer, Sh!Deplacer
  <2>3. Sereine' => Sereine
    BY <2>2 DEF Sereine
  <2> QED BY <1>0, <2>1, <2>3, PlaceNext DEF InvSharding
<1> QED BY <1>1, <1>2, PTL DEF Sh!Spec

\* When a key is not used while it is moved, it is in one shard between two moves, the
\* one where it is looked for.
THEOREM UneSeuleCopieVraie ==
  ASSUME Sh!ShardingAssumption, "trafic" \notin PermisSharding PROVE Sh!Spec
         => []Sh!UneSeuleCopie
<1>0. Sh!ShardingAssumption /\ "trafic" \notin PermisSharding
  OBVIOUS
<1>1. InvSharding => Sh!UneSeuleCopie
  <2> SUFFICES ASSUME InvSharding, migration = {}, NEW s \in Sh!Shards, NEW c \in Cles,
                      contenu[s][c] # Sh!Rien
               PROVE  s = Sh!ShardPour(c)
    BY DEF Sh!UneSeuleCopie
  <2>1. contenu[s][c] = Attendu(s, c)
    BY <1>0 DEF InvSharding, PlaceInv, ContenuInv, EnMouvement, Sereine
  <2> QED BY <2>1 DEF Attendu
<1> QED BY <1>0, <1>1, InvToujours, PTL

\* A query over a range of keys asks every shard that has one of them.
THEOREM PlageCompleteVraie ==
  ASSUME Sh!ShardingAssumption PROVE Sh!Spec => []Sh!PlageComplete
<1>0. Sh!ShardingAssumption
  OBVIOUS
<1>1. InvSharding => Sh!PlageComplete
  <2> SUFFICES ASSUME InvSharding, methode = "range", NEW a \in Cles, NEW b \in Cles,
                      NEW c \in Cles, a <= c, c <= b
               PROVE  derniere[c] # Sh!Rien <=> \E s \in Sh!Concernes(a,
                      b) : contenu[s][c] # Sh!Rien
    BY DEF Sh!PlageComplete
  <2>1. TypeInvSharding /\ PlaceInv
    BY DEF InvSharding, Sereine
  <2>2. \A s \in Sh!Shards : contenu[s][c] = Attendu(s, c)
    BY <2>1 DEF PlaceInv, ContenuInv, MoveInv, EnMouvement
  <2> DEFINE p == Sh!PlagePour(c)
  <2>3. p \in Sh!Shards /\ bornes[p] <= c /\ (p = NbShards - 1 \/ c < bornes[p + 1])
    BY <1>0, <2>1, PlageExiste
  <2>4. Sh!ShardPour(c) = p /\ Connu(c)
    BY DEF Sh!ShardPour, Connu
  <2> HIDE DEF p
  <2>5. p \in Sh!Concernes(a, b)
    <3>1. a \in Nat /\ b \in Nat /\ c \in Nat /\ bornes[p] \in Nat /\ NbShards \in Nat
      BY <1>0, <2>1, <2>3 DEF TypeInvSharding, Sh!ShardingAssumption
    <3>2. p # NbShards - 1 => bornes[p + 1] \in Nat
      <4>1. p # NbShards - 1 => p + 1 \in Sh!Shards
        BY <2>3, <3>1 DEF Sh!Shards
      <4> QED BY <1>0, <2>1, <4>1 DEF TypeInvSharding, Sh!ShardingAssumption
    <3> QED BY <2>3, <3>1, <3>2 DEF Sh!Concernes
  <2>6. Sh!Concernes(a, b) \subseteq Sh!Shards
    BY DEF Sh!Concernes
  <2> QED BY <2>2, <2>4, <2>5, <2>6 DEF Attendu
<1> QED BY <1>0, <1>1, InvToujours, PTL

\* One writer, one call at a time.
UnEcrivain == \A d, e \in Ecrivains : d = e

\* The writer's call has the last value there is; no call owes more than its key has.
LectureInv ==
    /\ \A c \in Cles : derniere[c] <= valeurs
    /\ \A e \in Ecrivains : \A a \in appel[e] : a.valeur = valeurs
    /\ \A l \in LecteursCles : \A a \in appel[l] : a.valeur <= derniere[a.cle]
    /\ \A l \in LecteursCles : rendue[l].lue >= rendue[l].due

\* What a call owes its caller, and what the writer has written.
LEMMA LectureNext ==
  ASSUME Sh!ShardingAssumption, UnEcrivain, TypeInvSharding, PlaceInv, LectureInv,
         [Sh!Next]_Sh!varsSharding
  PROVE  LectureInv'
<1>0. /\ Ecrivains \cap LecteursCles = {} /\ Sh!Clients = Ecrivains \union LecteursCles
      /\ appel \in [Sh!Clients -> SUBSET Appels] /\ valeurs \in Nat
      /\ \A c \in Cles : derniere[c] \in Nat
      /\ \A a \in Appels : a.cle \in Cles /\ a.shard \in Sh!Shards /\ a.valeur \in Nat
      /\ \A l \in LecteursCles : rendue[l].lue \in Nat /\ rendue[l].due \in Nat
      /\ derniere \in [Cles -> 0..MaxValeurs]
      /\ rendue \in [LecteursCles -> [lue : 0..MaxValeurs, due : 0..MaxValeurs]]
  BY DEF Sh!ShardingAssumption, TypeInvSharding, Sh!Clients, Appels
<1>1. ASSUME UNCHANGED <<appel, valeurs, derniere, rendue>> PROVE LectureInv'
  BY <1>1 DEF LectureInv
<1>2. ASSUME NEW e \in Ecrivains, NEW c \in Cles, Sh!Chercher(e, c) PROVE LectureInv'
  <2>1. /\ UNCHANGED <<derniere, rendue>> /\ valeurs' = valeurs + 1
        /\ appel' = [appel EXCEPT ![e] =
             {[cle |-> c, shard |-> Sh!ShardPour(c), valeur |-> valeurs']}]
    BY <1>2 DEF Sh!Chercher
  <2>2. \A l \in LecteursCles : appel'[l] = appel[l]
    BY <1>0, <2>1
  <2>3. \A a \in appel'[e] : a.valeur = valeurs'
    BY <1>0, <2>1
  <2>4. \A d \in Ecrivains : d = e
    BY DEF UnEcrivain
  <2>5. \A d \in Cles : derniere[d] <= valeurs'
    BY <1>0, <2>1 DEF LectureInv
  <2> QED BY <2>1, <2>2, <2>3, <2>4, <2>5 DEF LectureInv
<1>3. ASSUME NEW e \in Ecrivains, Sh!Ecrire(e) PROVE LectureInv'
  <2>1. PICK a \in appel[e] : derniere' = [derniere EXCEPT ![a.cle] = a.valeur]
    BY <1>3 DEF Sh!Ecrire
  <2>2. /\ UNCHANGED <<valeurs, rendue>> /\ appel' = [appel EXCEPT ![e] = {}]
    BY <1>3 DEF Sh!Ecrire
  <2>3. a \in Appels /\ a.valeur = valeurs /\ a.cle \in Cles
    BY <1>0 DEF LectureInv
  <2>4. \A c \in Cles : derniere'[c] = (IF c = a.cle THEN valeurs ELSE derniere[c])
    BY <1>0, <2>1, <2>3
  <2>5. \A c \in Cles : derniere[c] <= derniere'[c] /\ derniere'[c] <= valeurs
                        /\ derniere'[c] \in Nat
    BY <1>0, <2>4 DEF LectureInv
  <2>6. \A cl \in Sh!Clients : appel'[cl] \subseteq appel[cl]
    BY <1>0, <2>2
  <2>7. \A l \in LecteursCles : \A b \in appel'[l] : b.valeur <= derniere'[b.cle]
    <3> TAKE l \in LecteursCles
    <3> TAKE b \in appel'[l]
    <3>1. b \in appel[l] /\ b \in Appels
      BY <1>0, <2>6
    <3>2. b.valeur <= derniere[b.cle]
      BY <3>1 DEF LectureInv
    <3> QED BY <1>0, <2>5, <3>1, <3>2
  <2>8. \A d \in Ecrivains : \A b \in appel'[d] : b.valeur = valeurs
    BY <1>0, <2>6 DEF LectureInv
  <2> QED BY <2>2, <2>5, <2>7, <2>8 DEF LectureInv
<1>4. ASSUME NEW l \in LecteursCles, NEW c \in Cles, Sh!ChercherLecture(l, c) PROVE LectureInv'
  <2>1. /\ UNCHANGED <<valeurs, derniere>>
        /\ rendue' = [rendue EXCEPT ![l] = [lue |-> derniere[c], due |-> derniere[c]]]
        /\ appel' = [appel EXCEPT ![l] =
             {[cle |-> c, shard |-> Sh!ShardPour(c), valeur |-> derniere[c]]}]
    BY <1>4 DEF Sh!ChercherLecture
  <2>2. \A e \in Ecrivains : appel'[e] = appel[e]
    BY <1>0, <2>1
  <2>3. \A k \in LecteursCles : \A a \in appel'[k] :
          a \in appel[k] \/ (a.cle = c /\ a.valeur = derniere[c])
    BY <1>0, <2>1
  <2>4. \A k \in LecteursCles : \A a \in appel'[k] : a.valeur <= derniere[a.cle]
    BY <1>0, <2>3 DEF LectureInv
  <2>5. \A k \in LecteursCles : rendue'[k].lue >= rendue'[k].due
    BY <1>0, <2>1 DEF LectureInv
  <2> QED BY <2>1, <2>2, <2>4, <2>5 DEF LectureInv
<1>5. ASSUME NEW l \in LecteursCles, Sh!Lire(l) PROVE LectureInv'
  <2>1. PICK a \in appel[l] :
          rendue' = [rendue EXCEPT ![l] = [lue |-> contenu[a.shard][a.cle], due |-> a.valeur]]
    BY <1>5 DEF Sh!Lire
  <2>2. /\ UNCHANGED <<valeurs, derniere>> /\ appel' = [appel EXCEPT ![l] = {}]
    BY <1>5 DEF Sh!Lire
  <2>3. l \in Sh!Clients /\ a \in Appels /\ a.cle \in Cles /\ a.shard \in Sh!Shards
           /\ a.valeur \in Nat
    BY <1>0
  <2>4. ~EnMouvement(a.cle)
    <3>1. Sh!EnUsage(a.cle)
      BY <2>3 DEF Sh!EnUsage
    <3> QED BY <3>1 DEF PlaceInv, MoveInv, EnMouvement
  <2>5. contenu[a.shard][a.cle] = derniere[a.cle]
    <3>1. Connu(a.cle) /\ a.shard = Sh!ShardPour(a.cle)
      BY <2>3 DEF PlaceInv, AppelInv
    <3>2. contenu[a.shard][a.cle] = Attendu(a.shard, a.cle)
      BY <2>3, <2>4 DEF PlaceInv, ContenuInv
    <3> QED BY <3>1, <3>2 DEF Attendu
  <2>6. a.valeur <= derniere[a.cle]
    BY DEF LectureInv
  <2>7. \A k \in LecteursCles : rendue'[k].lue >= rendue'[k].due
    <3>1. rendue'[l].lue = derniere[a.cle] /\ rendue'[l].due = a.valeur
      BY <1>0, <2>1, <2>5
    <3>2. \A k \in LecteursCles : k # l => rendue'[k] = rendue[k]
      BY <1>0, <2>1
    <3> QED BY <1>0, <2>3, <2>6, <3>1, <3>2 DEF LectureInv
  <2>8. \A cl \in Sh!Clients : appel'[cl] \subseteq appel[cl]
    BY <1>0, <2>2
  <2> QED BY <1>0, <2>2, <2>7, <2>8 DEF LectureInv
<1> QED BY <1>1, <1>2, <1>3, <1>4, <1>5 DEF Sh!Next, Sh!varsSharding, Sh!Migrer, Sh!Deplacer

\* With one writer, and keys that are not used while they are moved, a read returns no less
\* than what its key had when it began, wherever the key was moved since.
THEOREM LectureTransparenteVraie ==
  ASSUME Sh!ShardingAssumption, "trafic" \notin PermisSharding, UnEcrivain
  PROVE  Sh!Spec => []Sh!LectureTransparente
<1>0. Sh!ShardingAssumption /\ UnEcrivain /\ "trafic" \notin PermisSharding
  OBVIOUS
<1>1. Sh!Init => LectureInv
  BY DEF Sh!Init, LectureInv, Sh!Clients, Sh!Rien
<1>2. InvSharding => TypeInvSharding /\ PlaceInv
  BY <1>0 DEF InvSharding, Sereine
<1>3. InvSharding /\ LectureInv /\ [Sh!Next]_Sh!varsSharding => LectureInv'
  BY <1>0, <1>2, LectureNext
<1>4. LectureInv => Sh!LectureTransparente
  BY DEF LectureInv, Sh!LectureTransparente
<1> QED BY <1>0, <1>1, <1>3, <1>4, InvToujours, PTL DEF Sh!Spec

-----------------------------------------------------------------------------
\* Masters.

\* The types.
TypeInvMaitres ==
    /\ strategie_conflit \in {"LWW", "FWW", "MERGE", "CUSTOM"}
    /\ ecrits_maitres \in Seq(Ma!Entrees) /\ Len(ecrits_maitres) <= MaxEcritures
    /\ entree \in [Noeuds -> SUBSET Ma!Entrees]
    /\ vers_maitres \in Seq(SUBSET Noeuds) /\ Len(vers_maitres) = Len(ecrits_maitres)

\* The writes that a master has got, its own among them.
Recus(n) == {i \in Ma!Rangs : n \notin vers_maitres[i]}

\* A master holds one entry as soon as it has got a write; an entry that bears the name
\* of a master is a write of it.
EntreesInv == \A n \in Noeuds :
    /\ \A e, f \in entree[n] : e = f
    /\ entree[n] = {} <=> Recus(n) = {}
    /\ \A e \in entree[n] : \/ \E i \in Recus(n) : e = ecrits_maitres[i]
                            \/ e.noeud_src \in {Ma!ParFusion, Ma!ParRegle}
    /\ \A i \in Ma!Rangs : ecrits_maitres[i].noeud_src = n => i \in Recus(n)

\* A write is made of itself and of writes before it; the later writes of a master are
\* made of more, and have a greater version.
FusionInv == strategie_conflit = "MERGE" =>
    /\ \A i \in Ma!Rangs : i \in ecrits_maitres[i].valeur
        /\ ecrits_maitres[i].valeur \subseteq Ma!Rangs
    /\ \A i, j \in Ma!Rangs :
          i < j /\ ecrits_maitres[i].noeud_src = ecrits_maitres[j].noeud_src =>
              /\ ecrits_maitres[i].version < ecrits_maitres[j].version
              /\ ecrits_maitres[i].valeur \subseteq ecrits_maitres[j].valeur
    /\ \A n \in Noeuds : \A e \in entree[n] :
          /\ Recus(n) \subseteq e.valeur /\ e.valeur \subseteq Ma!Rangs
          /\ \A i \in Ma!Rangs : ecrits_maitres[i].noeud_src = n =>
                /\ ecrits_maitres[i].version <= e.version
                /\ ecrits_maitres[i].valeur \subseteq e.valeur

\* A master writes once, at a time that says when.
UniqueInv == PermisMaitres = {} =>
    /\ \A i \in Ma!Rangs : ecrits_maitres[i].ts = i
    /\ strategie_conflit # "MERGE" => \A i \in Ma!Rangs : ecrits_maitres[i].valeur = {i}
    /\ \A i, j \in Ma!Rangs : ecrits_maitres[i].noeud_src = ecrits_maitres[j].noeud_src => i = j

\* What a master holds is a function of the set of the writes it has got: the last one,
\* the first one or what the rule makes of the last one.
Choisie(n, e, i) ==
    /\ strategie_conflit = "LWW" => e = ecrits_maitres[i] /\ \A j \in Recus(n) : j <= i
    /\ strategie_conflit = "FWW" => e = ecrits_maitres[i] /\ \A j \in Recus(n) : i <= j
    /\ strategie_conflit = "CUSTOM" => e.valeur = {i} /\ \A j \in Recus(n) : j <= i

\* Masters choose so, when each of them writes once.
ChoixInv == PermisMaitres = {} /\ strategie_conflit # "MERGE" =>
    \A n \in Noeuds : \A e \in entree[n] : \E i \in Recus(n) : Choisie(n, e, i)

\* A write bears the name of a master.
SourcesInv == \A i \in Ma!Rangs : ecrits_maitres[i].noeud_src \notin {Ma!ParFusion, Ma!ParRegle}

\* The inductive invariant.
InvMaitres == TypeInvMaitres /\ EntreesInv /\ SourcesInv /\ FusionInv /\ UniqueInv /\ ChoixInv

-----------------------------------------------------------------------------
\* ... and a finite bound gives a greatest one.
LEMMA MaximumExiste ==
  ASSUME NEW T, T \subseteq Nat, T # {}, NEW n \in Nat, \A x \in T : x <= n
  PROVE  \E x \in T : \A y \in T : y <= x
<1> DEFINE U == {u \in Nat : \A x \in T : x <= u}
<1>1. PICK u \in U : \A v \in U : u <= v
  <2>1. U \subseteq Nat /\ n \in U
    OBVIOUS
  <2> HIDE DEF U
  <2> QED BY <2>1, MinimumExiste
<1>2. u \in Nat /\ \A x \in T : x <= u
  BY <1>1
<1>3. CASE u = 0
  <2>1. PICK x \in T : TRUE
    OBVIOUS
  <2>2. \A y \in T : y \in Nat /\ y <= 0
    BY <1>2, <1>3
  <2> QED BY <2>1, <2>2
<1>4. CASE u # 0
  <2>1. u - 1 \in Nat /\ u - 1 \notin U
    <3> HIDE DEF U
    <3>1. u - 1 \in Nat
      BY <1>2, <1>4
    <3> QED BY <1>1, <1>2, <3>1
  <2>2. PICK x \in T : ~(x <= u - 1)
    BY <2>1
  <2>3. x = u
    BY <1>2, <2>2
  <2> QED BY <1>2, <2>3
<1> QED BY <1>3, <1>4

\* The operators by which conflicts are decided.
LEMMA PlusGrandeDeux ==
    ASSUME NEW a \in Nat, NEW b \in Nat
    PROVE  /\ Ma!PlusGrande({a, b}) \in {a, b}
           /\ a <= Ma!PlusGrande({a, b}) /\ b <= Ma!PlusGrande({a, b})
<1>1. \E v \in {a, b} : \A u \in {a, b} : u <= v
  <2>1. CASE a <= b
    BY <2>1
  <2>2. CASE b <= a
    BY <2>2
  <2> QED
    BY <2>1, <2>2
<1>2. PICK m : m = Ma!PlusGrande({a, b})
  OBVIOUS
<1>3. m \in {a, b} /\ \A u \in {a, b} : u <= m
  BY <1>1, <1>2 DEF Ma!PlusGrande
<1> QED
  BY <1>2, <1>3

LEMMA VersionCorrecte ==
    ASSUME TypeInvMaitres, EntreesInv, NEW n \in Noeuds
    PROVE  Ma!Version(n) \in Nat /\ \A e \in entree[n] : e.version < Ma!Version(n)
<1> DEFINE S == {0} \union {e.version : e \in entree[n]}
<1>0. entree[n] \subseteq Ma!Entrees /\ \A e, f \in entree[n] : e = f
  BY DEF TypeInvMaitres, EntreesInv
<1>1. PICK m \in Nat : m \in S /\ \A u \in S : u <= m
  <2>1. CASE entree[n] = {}
    <3>1. S = {0}
      BY <2>1
    <3> QED
      BY <3>1
  <2>2. ASSUME NEW e \in entree[n]
        PROVE  \E m \in Nat : m \in S /\ \A u \in S : u <= m
    <3>1. e.version \in Nat
      BY <1>0 DEF Ma!Entrees
    <3>2. S = {0, e.version}
      BY <1>0
    <3>3. e.version \in S /\ \A u \in S : u <= e.version
      BY <3>1, <3>2
    <3> QED
      BY <3>1, <3>3
  <2> QED
    BY <2>1, <2>2
<1>2. PICK p : p = Ma!PlusGrande(S)
  OBVIOUS
<1>3. p \in S /\ \A u \in S : u <= p
  BY <1>1, <1>2 DEF Ma!PlusGrande
<1>4. \A e \in entree[n] : e.version \in Nat
  BY <1>0 DEF Ma!Entrees
<1>5. p \in Nat
  BY <1>3, <1>4
<1>6. Ma!Version(n) = p + 1
  BY <1>2 DEF Ma!Version
<1>7. \A e \in entree[n] : e.version <= p
  BY <1>3
<1> QED
  BY <1>4, <1>5, <1>6, <1>7

LEMMA ValeurNonVide ==
    ASSUME NEW v, NEW S
    PROVE  v \in (SUBSET S) \ {{}} <=> v \subseteq S /\ v # {}
OBVIOUS

LEMMA EntreeType ==
    ASSUME NEW e \in Ma!Entrees
    PROVE  /\ e.valeur \subseteq 1..MaxEcritures /\ e.valeur # {}
           /\ e.ts \in 1..MaxEcritures
           /\ e.noeud_src \in Noeuds \union {Ma!ParFusion, Ma!ParRegle}
           /\ e.version \in Nat
<1>1. e.valeur \in (SUBSET (1..MaxEcritures)) \ {{}}
  BY DEF Ma!Entrees
<1>2. e.valeur \subseteq 1..MaxEcritures /\ e.valeur # {}
  BY <1>1, ValeurNonVide, Zenon
<1> QED
  BY <1>2 DEF Ma!Entrees

LEMMA ComposeeType ==
    ASSUME Ma!MaitresAssumption, NEW l \in Ma!Entrees, NEW d \in Ma!Entrees,
           NEW v \in (SUBSET (1..MaxEcritures)) \ {{}}, NEW s \in {Ma!ParFusion, Ma!ParRegle}
    PROVE  /\ Ma!Composee(l, d, v, s) \in Ma!Entrees
           /\ Ma!Composee(l, d, v, s).valeur = v
           /\ Ma!Composee(l, d, v, s).noeud_src = s
           /\ l.version <= Ma!Composee(l, d, v, s).version
           /\ d.version <= Ma!Composee(l, d, v, s).version
<1>1. /\ l.ts \in 1..MaxEcritures /\ d.ts \in 1..MaxEcritures
      /\ l.version \in Nat /\ d.version \in Nat
  BY DEF Ma!Entrees
<1>2. l.ts \in Nat /\ d.ts \in Nat
  BY <1>1 DEF Ma!MaitresAssumption
<1>3. PICK t : t = Ma!PlusGrande({l.ts, d.ts})
  OBVIOUS
<1>4. t \in 1..MaxEcritures
  BY <1>1, <1>2, <1>3, PlusGrandeDeux
<1>5. PICK w : w = Ma!PlusGrande({l.version, d.version})
  OBVIOUS
<1>6. w \in Nat /\ l.version <= w /\ d.version <= w
  BY <1>1, <1>5, PlusGrandeDeux
<1>7. Ma!Composee(l, d, v, s) = [valeur |-> v, ts |-> t, noeud_src |-> s, version |-> w + 1]
  BY <1>3, <1>5 DEF Ma!Composee
<1>8. w + 1 \in Nat /\ l.version <= w + 1 /\ d.version <= w + 1
  BY <1>1, <1>6
<1> QED
  BY <1>4, <1>7, <1>8 DEF Ma!Entrees

\* What becomes of two entries: one of them, or an entry made of both.
LEMMA RetenueType ==
    ASSUME Ma!MaitresAssumption, TypeInvMaitres, NEW l \in Ma!Entrees, NEW d \in Ma!Entrees
    PROVE  /\ Ma!Retenue(l, d) \in Ma!Entrees
           /\ \/ Ma!Retenue(l, d) \in {l, d}
              \/ Ma!Retenue(l, d).noeud_src \in {Ma!ParFusion, Ma!ParRegle}
<1>1. CASE Ma!Retenue(l, d) \in {l, d}
  BY <1>1
<1>2. CASE Ma!Retenue(l, d) = Ma!Fusion(l, d)
  <2>1. l.valeur \union d.valeur \in (SUBSET (1..MaxEcritures)) \ {{}}
    BY DEF Ma!Entrees
  <2> QED
    BY <1>2, <2>1, ComposeeType DEF Ma!Fusion
<1>3. CASE Ma!Retenue(l, d) = Ma!Custom(l, d)
  <2> DEFINE S == l.valeur \union d.valeur
  <2>0. /\ l.valeur \subseteq 1..MaxEcritures /\ l.valeur # {}
        /\ d.valeur \subseteq 1..MaxEcritures
        /\ MaxEcritures \in Nat
    BY EntreeType DEF Ma!MaitresAssumption
  <2>1. S \subseteq 1..MaxEcritures /\ S # {} /\ MaxEcritures \in Nat
    BY <2>0
  <2>1a. S \subseteq Nat /\ \A x \in S : x <= MaxEcritures
    BY <2>1
  <2>2. PICK m : m = Ma!PlusGrande(S)
    OBVIOUS
  <2>3. \E v \in S : \A u \in S : u <= v
    BY <2>1, <2>1a, MaximumExiste
  <2>4. m \in S
    BY <2>2, <2>3 DEF Ma!PlusGrande
  <2>5. {m} \in (SUBSET (1..MaxEcritures)) \ {{}}
    <3>1. {m} \subseteq 1..MaxEcritures /\ {m} # {}
      BY <2>1, <2>4
    <3> QED
      BY <3>1, ValeurNonVide, Zenon
  <2>6. Ma!Retenue(l, d) = Ma!Composee(l, d, {m}, Ma!ParRegle)
    BY <1>3, <2>2 DEF Ma!Custom
  <2> QED
    BY <2>5, <2>6, ComposeeType
<1> QED
  <2>1. \/ Ma!Retenue(l, d) \in {l, d} \/ Ma!Retenue(l, d) = Ma!ResoudreConflit(l, d)
    BY DEF Ma!Retenue, Ma!MemeSource
  <2>2. Ma!ResoudreConflit(l, d) \in {l, d, Ma!Fusion(l, d), Ma!Custom(l, d)}
    BY DEF TypeInvMaitres, Ma!ResoudreConflit, Ma!Lww, Ma!Fww
  <2> QED
    BY <1>1, <1>2, <1>3, <2>1, <2>2

-----------------------------------------------------------------------------
\* What a write changes.
LEMMA EcrireEffet ==
    ASSUME Ma!MaitresAssumption, InvMaitres, NEW n \in Noeuds, NEW ts \in 1..MaxEcritures,
           Ma!Ecrire(n, ts)
    PROVE  \E e \in Ma!Entrees, id \in Nat :
              /\ id = Len(ecrits_maitres) + 1
              /\ e.valeur = {id} \union (IF strategie_conflit = "MERGE"
                                         THEN UNION {l.valeur : l \in entree[n]} ELSE {})
              /\ e.ts = ts /\ e.noeud_src = n /\ e.version = Ma!Version(n)
              /\ Ma!Conforme(n, ts)
              /\ UNCHANGED strategie_conflit
              /\ TypeInvMaitres'
              /\ Ma!Rangs = 1..(id - 1) /\ Ma!Rangs' = 1..id
              /\ \A i \in Ma!Rangs : ecrits_maitres'[i] = ecrits_maitres[i]
              /\ ecrits_maitres'[id] = e
              /\ \A m \in Noeuds : entree'[m] = IF m = n THEN {e} ELSE entree[m]
              /\ \A m \in Noeuds : Recus(m)' = IF m = n THEN Recus(n) \union {id}
                                                ELSE Recus(m)
<1>0. /\ ecrits_maitres \in Seq(Ma!Entrees) /\ Len(ecrits_maitres) <= MaxEcritures
      /\ entree \in [Noeuds -> SUBSET Ma!Entrees]
      /\ vers_maitres \in Seq(SUBSET Noeuds) /\ Len(vers_maitres) = Len(ecrits_maitres)
      /\ MaxEcritures \in Nat
  BY DEF InvMaitres, TypeInvMaitres, Ma!MaitresAssumption
<1>1. PICK id \in Nat : id = Len(ecrits_maitres) + 1
  BY <1>0
<1>2. PICK e : e = [valeur |-> {id} \union (IF strategie_conflit = "MERGE"
                                          THEN UNION {l.valeur : l \in entree[n]} ELSE {}),
                    ts |-> ts, noeud_src |-> n, version |-> Ma!Version(n)]
  OBVIOUS
<1>3. /\ id <= MaxEcritures
      /\ Ma!Conforme(n, ts)
      /\ ecrits_maitres' = Append(ecrits_maitres, e)
      /\ entree' = [entree EXCEPT ![n] = {e}]
      /\ vers_maitres' = Append(vers_maitres, Noeuds \ {n})
      /\ UNCHANGED strategie_conflit
  BY <1>1, <1>2 DEF Ma!Ecrire
<1>4. /\ e.valeur = {id} \union (IF strategie_conflit = "MERGE"
                                 THEN UNION {l.valeur : l \in entree[n]} ELSE {})
      /\ e.ts = ts /\ e.noeud_src = n /\ e.version = Ma!Version(n)
  BY <1>2
<1>5. e \in Ma!Entrees
  <2>1. Ma!Version(n) \in Nat
    BY VersionCorrecte DEF InvMaitres
  <2>2. \A l \in entree[n] : l.valeur \subseteq 1..MaxEcritures
    BY <1>0 DEF Ma!Entrees
  <2>3. PICK v : v = {id} \union (IF strategie_conflit = "MERGE"
                                 THEN UNION {l.valeur : l \in entree[n]} ELSE {})
    OBVIOUS
  <2>4. v \subseteq 1..MaxEcritures /\ id \in v
    BY <1>0, <1>1, <1>3, <2>2, <2>3
  <2>5. e = [valeur |-> v, ts |-> ts, noeud_src |-> n, version |-> Ma!Version(n)]
    BY <1>2, <2>3
  <2>6. v \in (SUBSET (1..MaxEcritures)) \ {{}}
    BY <2>4, ValeurNonVide
  <2> QED
    BY <2>1, <2>5, <2>6 DEF Ma!Entrees
<1>6. /\ ecrits_maitres' \in Seq(Ma!Entrees) /\ Len(ecrits_maitres') = id
      /\ \A i \in 1..(id - 1) : ecrits_maitres'[i] = ecrits_maitres[i]
      /\ ecrits_maitres'[id] = e
  BY <1>0, <1>1, <1>3, <1>5
<1>7. /\ vers_maitres' \in Seq(SUBSET Noeuds) /\ Len(vers_maitres') = id
      /\ \A i \in 1..(id - 1) : vers_maitres'[i] = vers_maitres[i]
      /\ vers_maitres'[id] = Noeuds \ {n}
  BY <1>0, <1>1, <1>3
<1>8. Ma!Rangs = 1..(id - 1) /\ Ma!Rangs' = 1..id
  BY <1>0, <1>1, <1>6 DEF Ma!Rangs
<1>9. /\ entree' \in [Noeuds -> SUBSET Ma!Entrees]
      /\ \A m \in Noeuds : entree'[m] = IF m = n THEN {e} ELSE entree[m]
  BY <1>0, <1>3, <1>5
<1>10. TypeInvMaitres'
  BY <1>3, <1>6, <1>7, <1>9 DEF InvMaitres, TypeInvMaitres
<1>11. \A m \in Noeuds : Recus(m)' = IF m = n THEN Recus(n) \union {id} ELSE Recus(m)
  <2> SUFFICES ASSUME NEW m \in Noeuds
               PROVE  Recus(m)' = IF m = n THEN Recus(n) \union {id} ELSE Recus(m)
    OBVIOUS
  <2>1. Recus(m) = {i \in 1..(id - 1) : m \notin vers_maitres[i]}
    BY <1>8 DEF Recus
  <2>2. Recus(m)' = {i \in 1..id : m \notin vers_maitres'[i]}
    BY <1>8 DEF Recus
  <2>3. 1..id = (1..(id - 1)) \union {id}
    BY <1>0, <1>1
  <2>4. id \notin 1..(id - 1)
    BY <1>1
  <2> QED
    BY <1>7, <2>1, <2>2, <2>3, <2>4
<1> QED
  BY <1>1, <1>3, <1>4, <1>5, <1>6, <1>8, <1>9, <1>10, <1>11

\* A write keeps the invariant.
LEMMA EcrireInv ==
    ASSUME Ma!MaitresAssumption, InvMaitres, NEW n \in Noeuds, NEW ts \in 1..MaxEcritures,
           Ma!Ecrire(n, ts)
    PROVE  InvMaitres'
<1>1. PICK e \in Ma!Entrees, id \in Nat :
              /\ id = Len(ecrits_maitres) + 1
              /\ e.valeur = {id} \union (IF strategie_conflit = "MERGE"
                                         THEN UNION {l.valeur : l \in entree[n]} ELSE {})
              /\ e.ts = ts /\ e.noeud_src = n /\ e.version = Ma!Version(n)
              /\ Ma!Conforme(n, ts)
              /\ UNCHANGED strategie_conflit
              /\ TypeInvMaitres'
              /\ Ma!Rangs = 1..(id - 1) /\ Ma!Rangs' = 1..id
              /\ \A i \in Ma!Rangs : ecrits_maitres'[i] = ecrits_maitres[i]
              /\ ecrits_maitres'[id] = e
              /\ \A m \in Noeuds : entree'[m] = IF m = n THEN {e} ELSE entree[m]
              /\ \A m \in Noeuds : Recus(m)' = IF m = n THEN Recus(n) \union {id}
                                                ELSE Recus(m)
  BY EcrireEffet
<1>2. /\ \A i \in Ma!Rangs' : i = id \/ i \in Ma!Rangs
      /\ \A i \in Ma!Rangs : i \in Ma!Rangs' /\ i < id /\ i \in Nat
      /\ id \in Ma!Rangs' /\ id \notin Ma!Rangs
  <2>1. id >= 1
    BY <1>1 DEF InvMaitres, TypeInvMaitres
  <2> QED
    BY <1>1, <2>1
<1>3. \A m \in Noeuds : Recus(m) \subseteq Ma!Rangs
  BY DEF Recus
<1>4. EntreesInv'
  <2> SUFFICES ASSUME NEW m \in Noeuds
               PROVE  /\ \A f, g \in entree'[m] : f = g
                      /\ entree'[m] = {} <=> Recus(m)' = {}
                      /\ \A f \in entree'[m] : \/ \E i \in Recus(m)' : f = ecrits_maitres'[i]
                                               \/ f.noeud_src \in {Ma!ParFusion, Ma!ParRegle}
                      /\ \A i \in Ma!Rangs' : ecrits_maitres'[i].noeud_src = m
                          => i \in Recus(m)'
    BY DEF EntreesInv
  <2>1. CASE m = n
    <3>1. entree'[n] = {e} /\ Recus(n)' = Recus(n) \union {id} /\ e = ecrits_maitres'[id]
      BY <1>1
    <3>2. \A i \in Ma!Rangs : ecrits_maitres[i].noeud_src = n => i \in Recus(n)
      BY DEF InvMaitres, EntreesInv
    <3>3. \A i \in Ma!Rangs' : ecrits_maitres'[i].noeud_src = n => i \in Recus(n)'
      BY <1>1, <1>2, <3>1, <3>2
    <3> QED
      BY <2>1, <3>1, <3>3
  <2>2. CASE m # n
    <3>1. entree'[m] = entree[m] /\ Recus(m)' = Recus(m)
      BY <1>1, <2>2
    <3> QED
      BY <1>1, <1>2, <1>3, <2>2, <3>1 DEF InvMaitres, EntreesInv
  <2> QED
    BY <2>1, <2>2
<1>5. FusionInv'
  <2> SUFFICES ASSUME strategie_conflit = "MERGE"
               PROVE  FusionInv'
    BY <1>1 DEF FusionInv
  <2>1. /\ \A i \in Ma!Rangs : /\ i \in ecrits_maitres[i].valeur
                               /\ ecrits_maitres[i].valeur \subseteq Ma!Rangs
        /\ \A i, j \in Ma!Rangs :
             i < j /\ ecrits_maitres[i].noeud_src = ecrits_maitres[j].noeud_src =>
              /\ ecrits_maitres[i].version < ecrits_maitres[j].version
              /\ ecrits_maitres[i].valeur \subseteq ecrits_maitres[j].valeur
        /\ \A m \in Noeuds : \A l \in entree[m] :
             /\ Recus(m) \subseteq l.valeur /\ l.valeur \subseteq Ma!Rangs
             /\ \A i \in Ma!Rangs : ecrits_maitres[i].noeud_src = m =>
                  /\ ecrits_maitres[i].version <= l.version
                  /\ ecrits_maitres[i].valeur \subseteq l.valeur
    BY DEF InvMaitres, FusionInv
  <2>2. e.valeur = {id} \union UNION {l.valeur : l \in entree[n]}
    BY <1>1
  <2>3. e.valeur \subseteq Ma!Rangs' /\ id \in e.valeur
    BY <1>2, <2>1, <2>2
  <2>4. \A l \in entree[n] : l.valeur \subseteq e.valeur /\ l.version < e.version
    BY <1>1, <2>2, VersionCorrecte DEF InvMaitres
  <2>5. Recus(n)' \subseteq e.valeur
    <3>1. \A i \in Recus(n) : \E l \in entree[n] : i \in l.valeur
      BY <2>1 DEF InvMaitres, EntreesInv
    <3> QED
      BY <1>1, <2>3, <2>4, <3>1
  <2>6. \A i \in Ma!Rangs : ecrits_maitres[i].noeud_src = n =>
           /\ ecrits_maitres[i].version < e.version
           /\ ecrits_maitres[i].valeur \subseteq e.valeur
    <3> SUFFICES ASSUME NEW i \in Ma!Rangs, ecrits_maitres[i].noeud_src = n
                 PROVE  /\ ecrits_maitres[i].version < e.version
                        /\ ecrits_maitres[i].valeur \subseteq e.valeur
      OBVIOUS
    <3>1. PICK l \in entree[n] : TRUE
      BY DEF InvMaitres, EntreesInv
    <3>2. ecrits_maitres[i].version <= l.version /\ ecrits_maitres[i].valeur \subseteq l.valeur
      BY <2>1
    <3>3. ecrits_maitres[i] \in Ma!Entrees /\ l \in Ma!Entrees
      BY DEF InvMaitres, TypeInvMaitres, Ma!Rangs
    <3>4. ecrits_maitres[i].version \in Nat /\ l.version \in Nat /\ e.version \in Nat
      BY <3>3 DEF Ma!Entrees
    <3> QED
      BY <2>4, <3>2, <3>4
  <2>7. \A i \in Ma!Rangs' : /\ i \in ecrits_maitres'[i].valeur
                              /\ ecrits_maitres'[i].valeur \subseteq Ma!Rangs'
    BY <1>1, <1>2, <2>1, <2>3
  <2>8. ASSUME NEW i \in Ma!Rangs', NEW j \in Ma!Rangs', i < j,
               ecrits_maitres'[i].noeud_src = ecrits_maitres'[j].noeud_src
        PROVE  /\ ecrits_maitres'[i].version < ecrits_maitres'[j].version
               /\ ecrits_maitres'[i].valeur \subseteq ecrits_maitres'[j].valeur
    <3>1. i \in Ma!Rangs
      <4> SUFFICES ASSUME i = id
                   PROVE  FALSE
        BY <1>2
      <4> QED
        BY <1>2, <2>8
    <3>2. CASE j = id
      BY <1>1, <2>6, <2>8, <3>1, <3>2
    <3>3. CASE j \in Ma!Rangs
      BY <1>1, <2>1, <2>8, <3>1, <3>3
    <3> QED
      BY <1>2, <3>2, <3>3
  <2>9. ASSUME NEW m \in Noeuds, NEW l \in entree'[m]
        PROVE  /\ Recus(m)' \subseteq l.valeur /\ l.valeur \subseteq Ma!Rangs'
               /\ \A i \in Ma!Rangs' : ecrits_maitres'[i].noeud_src = m =>
                    /\ ecrits_maitres'[i].version <= l.version
                    /\ ecrits_maitres'[i].valeur \subseteq l.valeur
    <3>1. CASE m = n
      <4>1. l = e
        BY <1>1, <2>9, <3>1
      <4>2. e.version \in Nat /\ \A i \in Ma!Rangs : ecrits_maitres[i].version \in Nat
        <5>1. \A i \in Ma!Rangs : ecrits_maitres[i] \in Ma!Entrees
          BY DEF InvMaitres, TypeInvMaitres, Ma!Rangs
        <5> QED
          BY <5>1, EntreeType
      <4> QED
        BY <1>1, <1>2, <2>3, <2>5, <2>6, <3>1, <4>1, <4>2
    <3>2. CASE m # n
      <4>1. l \in entree[m] /\ Recus(m)' = Recus(m)
        BY <1>1, <2>9, <3>2
      <4> QED
        BY <1>1, <1>2, <2>1, <3>2, <4>1
    <3> QED
      BY <3>1, <3>2
  <2> QED
    BY <2>7, <2>8, <2>9 DEF FusionInv
<1>6. UniqueInv'
  <2> SUFFICES ASSUME PermisMaitres = {}
               PROVE  UniqueInv'
    BY DEF UniqueInv
  <2>1. ts = id
    BY <1>1 DEF Ma!Conforme
  <2>2. \A i \in Ma!Rangs : ecrits_maitres[i].noeud_src # n
    BY <1>1 DEF Ma!Conforme
  <2>3. /\ \A i \in Ma!Rangs : ecrits_maitres[i].ts = i
        /\ strategie_conflit # "MERGE" => \A i \in Ma!Rangs : ecrits_maitres[i].valeur = {i}
        /\ \A i, j \in Ma!Rangs : ecrits_maitres[i].noeud_src = ecrits_maitres[j].noeud_src
            => i = j
    BY DEF InvMaitres, UniqueInv
  <2>4. strategie_conflit # "MERGE" => e.valeur = {id}
    BY <1>1
  <2> QED
    BY <1>1, <1>2, <2>1, <2>2, <2>3, <2>4 DEF UniqueInv
<1>7. ChoixInv'
  <2> SUFFICES ASSUME PermisMaitres = {}, strategie_conflit # "MERGE",
                      NEW m \in Noeuds, NEW f \in entree'[m]
               PROVE  \E i \in Recus(m)' : Choisie(m, f, i)'
    BY <1>1 DEF ChoixInv
  <2>1. CASE m # n
    <3>1. f \in entree[m] /\ Recus(m)' = Recus(m)
      BY <1>1, <2>1
    <3>2. PICK i \in Recus(m) : Choisie(m, f, i)
      BY <3>1 DEF InvMaitres, ChoixInv
    <3>3. i \in Ma!Rangs
      BY <1>3
    <3>4. Choisie(m, f, i)'
      BY <1>1, <3>1, <3>2, <3>3 DEF Choisie
    <3> QED
      BY <3>1, <3>4
  <2>2. CASE m = n
    <3>1. f = e /\ Recus(n)' = Recus(n) \union {id}
      BY <1>1, <2>2
    <3>2. e.valeur = {id} /\ ecrits_maitres'[id] = e
      BY <1>1
    <3>3. \A j \in Recus(n) \union {id} : j <= id
      BY <1>2, <1>3
    <3>4. strategie_conflit = "FWW" => \A j \in Recus(n) \union {id} : id <= j
      <4>1. strategie_conflit = "FWW" => Recus(n) = {}
        BY <1>1 DEF Ma!Conforme, InvMaitres, EntreesInv
      <4> QED
        BY <1>2, <4>1
    <3>5. Choisie(n, e, id)'
      BY <1>1, <3>1, <3>2, <3>3, <3>4 DEF Choisie
    <3> QED
      BY <2>2, <3>1, <3>5
  <2> QED
    BY <2>1, <2>2
<1>8. SourcesInv'
  <2>1. n \notin {Ma!ParFusion, Ma!ParRegle}
    BY DEF Ma!MaitresAssumption, Ma!ParFusion, Ma!ParRegle
  <2> QED
    BY <1>1, <1>2, <2>1 DEF InvMaitres, SourcesInv
<1> QED
  BY <1>1, <1>4, <1>5, <1>6, <1>7, <1>8 DEF InvMaitres

-----------------------------------------------------------------------------
\* What the arrival of a write changes.
LEMMA RecevoirEffet ==
    ASSUME Ma!MaitresAssumption, InvMaitres, NEW i \in Ma!Rangs, NEW n \in Noeuds,
           Ma!Recevoir(i, n)
    PROVE  /\ UNCHANGED <<strategie_conflit, ecrits_maitres>>
           /\ TypeInvMaitres'
           /\ ecrits_maitres[i] \in Ma!Entrees
           /\ i \notin Recus(n)
           /\ \A m \in Noeuds : Recus(m)' = IF m = n THEN Recus(n) \union {i} ELSE Recus(m)
           /\ \A m \in Noeuds : m # n => entree'[m] = entree[m]
           /\ entree[n] = {} => entree'[n] = {ecrits_maitres[i]}
           /\ \A l \in entree[n] : l \in Ma!Entrees /\ entree'[n] = {Ma!Retenue(l,
               ecrits_maitres[i])}
<1>0. /\ ecrits_maitres \in Seq(Ma!Entrees)
      /\ entree \in [Noeuds -> SUBSET Ma!Entrees]
      /\ vers_maitres \in Seq(SUBSET Noeuds) /\ Len(vers_maitres) = Len(ecrits_maitres)
      /\ DOMAIN vers_maitres = Ma!Rangs
  BY DEF InvMaitres, TypeInvMaitres, Ma!Rangs
<1>1. PICK d : d = ecrits_maitres[i]
  OBVIOUS
<1>2. d \in Ma!Entrees
  BY <1>0, <1>1 DEF Ma!Rangs
<1>3. /\ n \in vers_maitres[i]
      /\ vers_maitres' = [vers_maitres EXCEPT ![i] = @ \ {n}]
      /\ entree' = [entree EXCEPT ![n] =
           IF @ = {} THEN {d} ELSE {Ma!Retenue(l, d) : l \in @}]
      /\ UNCHANGED <<strategie_conflit, ecrits_maitres>>
  BY <1>1 DEF Ma!Recevoir
<1>4. /\ \A m \in Noeuds : m # n => entree'[m] = entree[m]
      /\ entree'[n] = IF entree[n] = {} THEN {d} ELSE {Ma!Retenue(l, d) : l \in entree[n]}
  BY <1>0, <1>3
<1>5. \A l \in entree[n] : l \in Ma!Entrees /\ entree'[n] = {Ma!Retenue(l, d)}
  BY <1>0, <1>4 DEF InvMaitres, EntreesInv
<1>6. entree[n] = {} => entree'[n] = {d}
  BY <1>4
<1>7. entree'[n] \subseteq Ma!Entrees
  <2>1. \A l \in entree[n] : Ma!Retenue(l, d) \in Ma!Entrees
    BY <1>2, <1>5, RetenueType DEF InvMaitres
  <2> QED
    BY <1>2, <1>4, <2>1
<1>8. entree' \in [Noeuds -> SUBSET Ma!Entrees]
  BY <1>0, <1>3, <1>4, <1>7
<1>9. /\ vers_maitres' \in Seq(SUBSET Noeuds) /\ Len(vers_maitres') = Len(vers_maitres)
      /\ \A j \in Ma!Rangs : vers_maitres'[j] = IF j = i THEN vers_maitres[i] \ {n} ELSE vers_maitres[j]
  <2>1. vers_maitres[i] \ {n} \in SUBSET Noeuds
    BY <1>0
  <2> QED
    BY <1>0, <1>3, <2>1
<1>10. TypeInvMaitres'
  BY <1>0, <1>3, <1>8, <1>9 DEF InvMaitres, TypeInvMaitres
<1>11. Ma!Rangs' = Ma!Rangs
  BY <1>3 DEF Ma!Rangs
<1>12. i \notin Recus(n)
  BY <1>3 DEF Recus
<1>13. \A m \in Noeuds : Recus(m)' = IF m = n THEN Recus(n) \union {i} ELSE Recus(m)
  <2> SUFFICES ASSUME NEW m \in Noeuds
               PROVE  Recus(m)' = IF m = n THEN Recus(n) \union {i} ELSE Recus(m)
    OBVIOUS
  <2>1. Recus(m)' = {j \in Ma!Rangs : m \notin vers_maitres'[j]}
    BY <1>11 DEF Recus
  <2>2. Recus(m) = {j \in Ma!Rangs : m \notin vers_maitres[j]}
    BY DEF Recus
  <2> QED
    BY <1>9, <2>1, <2>2
<1> QED
  BY <1>1, <1>2, <1>3, <1>4, <1>5, <1>6, <1>10, <1>12, <1>13

\* So does the arrival of a write at a master.
LEMMA RecevoirInv ==
    ASSUME Ma!MaitresAssumption, InvMaitres, NEW i \in Ma!Rangs, NEW n \in Noeuds,
           Ma!Recevoir(i, n)
    PROVE  InvMaitres'
<1>1. /\ UNCHANGED <<strategie_conflit, ecrits_maitres>>
      /\ TypeInvMaitres'
      /\ ecrits_maitres[i] \in Ma!Entrees
      /\ i \notin Recus(n)
      /\ \A m \in Noeuds : Recus(m)' = IF m = n THEN Recus(n) \union {i} ELSE Recus(m)
      /\ \A m \in Noeuds : m # n => entree'[m] = entree[m]
      /\ entree[n] = {} => entree'[n] = {ecrits_maitres[i]}
      /\ \A l \in entree[n] : l \in Ma!Entrees /\ entree'[n] = {Ma!Retenue(l,
          ecrits_maitres[i])}
  BY RecevoirEffet
<1>2. Ma!Rangs' = Ma!Rangs /\ Ma!Rangs \subseteq Nat
  BY <1>1 DEF Ma!Rangs, InvMaitres, TypeInvMaitres
<1>3. PICK d : d = ecrits_maitres[i]
  OBVIOUS
<1>4. \A m \in Noeuds : Recus(m) \subseteq Ma!Rangs
  BY DEF Recus
\* The source of a write is a master.
<1>5. /\ d \in Ma!Entrees
      /\ d.noeud_src \in Noeuds \union {Ma!ParFusion, Ma!ParRegle}
      /\ \A l \in entree[n] : l.noeud_src \in Noeuds \union {Ma!ParFusion, Ma!ParRegle}
  BY <1>1, <1>3, EntreeType
<1>6. PICK r : entree'[n] = {r} /\ (entree[n] = {} => r = d)
                /\ \A l \in entree[n] : r = Ma!Retenue(l, d)
  <2>1. CASE entree[n] = {}
    BY <1>1, <1>3, <2>1
  <2>2. ASSUME NEW l \in entree[n]
        PROVE  entree'[n] = {Ma!Retenue(l, d)} /\ \A m \in entree[n] : m = l
    BY <1>1, <1>3 DEF InvMaitres, EntreesInv
  <2> QED
    BY <2>1, <2>2
<1>7. EntreesInv'
  <2> SUFFICES ASSUME NEW m \in Noeuds
               PROVE  /\ \A f, g \in entree'[m] : f = g
                      /\ entree'[m] = {} <=> Recus(m)' = {}
                      /\ \A f \in entree'[m] : \/ \E j \in Recus(m)' : f = ecrits_maitres[j]
                                               \/ f.noeud_src \in {Ma!ParFusion, Ma!ParRegle}
                      /\ \A j \in Ma!Rangs : ecrits_maitres[j].noeud_src = m => j \in Recus(m)'
    BY <1>1, <1>2 DEF EntreesInv
  <2>1. CASE m # n
    <3>1. entree'[m] = entree[m] /\ Recus(m)' = Recus(m)
      BY <1>1, <2>1
    <3> QED
      BY <3>1 DEF InvMaitres, EntreesInv
  <2>2. CASE m = n
    <3>1. Recus(n)' = Recus(n) \union {i}
      BY <1>1
    <3>2. \A j \in Ma!Rangs : ecrits_maitres[j].noeud_src = n => j \in Recus(n)'
      BY <3>1 DEF InvMaitres, EntreesInv
    <3>3. \/ \E j \in Recus(n)' : r = ecrits_maitres[j]
          \/ r.noeud_src \in {Ma!ParFusion, Ma!ParRegle}
      <4>1. CASE r = d
        BY <1>3, <3>1, <4>1
      <4>2. ASSUME NEW l \in entree[n], r = Ma!Retenue(l, d)
            PROVE  \/ \E j \in Recus(n)' : r = ecrits_maitres[j]
                   \/ r.noeud_src \in {Ma!ParFusion, Ma!ParRegle}
        <5>1. r \in {l, d} \/ r.noeud_src \in {Ma!ParFusion, Ma!ParRegle}
          BY <1>1, <1>5, <4>2, RetenueType DEF InvMaitres
        <5>2. \/ \E j \in Recus(n) : l = ecrits_maitres[j]
              \/ l.noeud_src \in {Ma!ParFusion, Ma!ParRegle}
          BY DEF InvMaitres, EntreesInv
        <5> QED
          BY <3>1, <4>1, <5>1, <5>2
      <4> QED
        BY <1>6, <4>1, <4>2
    <3> QED
      BY <1>6, <2>2, <3>1, <3>2, <3>3
  <2> QED
    BY <2>1, <2>2
<1>8. FusionInv'
  <2> SUFFICES ASSUME strategie_conflit = "MERGE"
               PROVE  FusionInv'
    BY <1>1 DEF FusionInv
  <2>1. /\ \A j \in Ma!Rangs : /\ j \in ecrits_maitres[j].valeur
                               /\ ecrits_maitres[j].valeur \subseteq Ma!Rangs
        /\ \A j, k \in Ma!Rangs :
             j < k /\ ecrits_maitres[j].noeud_src = ecrits_maitres[k].noeud_src =>
              /\ ecrits_maitres[j].version < ecrits_maitres[k].version
              /\ ecrits_maitres[j].valeur \subseteq ecrits_maitres[k].valeur
        /\ \A m \in Noeuds : \A l \in entree[m] :
             /\ Recus(m) \subseteq l.valeur /\ l.valeur \subseteq Ma!Rangs
             /\ \A j \in Ma!Rangs : ecrits_maitres[j].noeud_src = m =>
                  /\ ecrits_maitres[j].version <= l.version
                  /\ ecrits_maitres[j].valeur \subseteq l.valeur
    BY DEF InvMaitres, FusionInv
  \* What is kept is made of both.
  <2>2. ASSUME NEW l \in entree[n], r = Ma!Retenue(l, d)
        PROVE  /\ l.valeur \subseteq r.valeur /\ d.valeur \subseteq r.valeur
               /\ r.valeur \subseteq Ma!Rangs /\ l.version <= r.version
    <3>1. l \in Ma!Entrees /\ l.version \in Nat /\ d.version \in Nat
      BY <1>1, <1>5, EntreeType
    <3>2. l.valeur \subseteq Ma!Rangs /\ d.valeur \subseteq Ma!Rangs
      BY <1>3, <2>1
    <3>3. CASE l.valeur = d.valeur
      <4>1. r = l
        BY <2>2, <3>3 DEF Ma!Retenue
      <4> QED
        BY <3>1, <3>2, <3>3, <4>1
    <3>4. CASE l.valeur # d.valeur /\ l.noeud_src = d.noeud_src
      <4>1. d.noeud_src \notin {Ma!ParFusion, Ma!ParRegle}
               => \E j \in Ma!Rangs : l = ecrits_maitres[j]
        BY <1>4, <3>4 DEF InvMaitres, EntreesInv
      <4>2. d.noeud_src \notin {Ma!ParFusion, Ma!ParRegle}
        BY <1>3 DEF InvMaitres, SourcesInv
      <4>3. PICK j \in Ma!Rangs : l = ecrits_maitres[j]
        BY <4>1, <4>2
      <4>4. j # i
        BY <1>3, <3>4, <4>3
      <4>5. CASE j < i
        <5>1. l.version < d.version /\ l.valeur \subseteq d.valeur
          BY <1>3, <2>1, <3>4, <4>3, <4>5
        <5>2. r = d
          BY <2>2, <3>4, <5>1 DEF Ma!Retenue, Ma!MemeSource
        <5> QED
          BY <3>1, <3>2, <5>1, <5>2
      <4>6. CASE i < j
        <5>1. d.version < l.version /\ d.valeur \subseteq l.valeur
          BY <1>3, <2>1, <3>4, <4>3, <4>6
        <5>2. ~(d.version > l.version)
          BY <3>1, <5>1
        <5>3. r = l
          BY <2>2, <3>4, <5>2 DEF Ma!Retenue, Ma!MemeSource
        <5> QED
          BY <3>1, <3>2, <5>1, <5>3
      <4> QED
        BY <1>2, <4>4, <4>5, <4>6
    <3>5. CASE l.valeur # d.valeur /\ l.noeud_src # d.noeud_src
      <4>1. r = Ma!Fusion(l, d)
        BY <2>2, <3>5 DEF Ma!Retenue, Ma!ResoudreConflit
      <4>2. l.valeur \union d.valeur \in (SUBSET (1..MaxEcritures)) \ {{}}
        BY <1>5, <3>1, EntreeType, ValeurNonVide
      <4>3. r.valeur = l.valeur \union d.valeur /\ l.version <= r.version
        BY <1>5, <3>1, <4>1, <4>2, ComposeeType DEF Ma!Fusion
      <4> QED
        BY <3>2, <4>3
    <3> QED
      BY <3>3, <3>4, <3>5
  <2>3. ASSUME NEW m \in Noeuds, NEW f \in entree'[m]
        PROVE  /\ Recus(m)' \subseteq f.valeur /\ f.valeur \subseteq Ma!Rangs
               /\ \A j \in Ma!Rangs : ecrits_maitres[j].noeud_src = m =>
                    /\ ecrits_maitres[j].version <= f.version
                    /\ ecrits_maitres[j].valeur \subseteq f.valeur
    <3>1. CASE m # n
      <4>1. f \in entree[m] /\ Recus(m)' = Recus(m)
        BY <1>1, <2>3, <3>1
      <4> QED
        BY <2>1, <4>1
    <3>2. CASE m = n /\ entree[n] = {}
      <4>1. f = d /\ Recus(n) = {} /\ Recus(n)' = {i}
        BY <1>1, <1>6, <2>3, <3>2 DEF InvMaitres, EntreesInv
      <4>2. \A j \in Ma!Rangs : ecrits_maitres[j].noeud_src # n
        BY <4>1 DEF InvMaitres, EntreesInv
      <4> QED
        BY <1>3, <2>1, <3>2, <4>1, <4>2
    <3>3. ASSUME m = n, NEW l \in entree[n]
          PROVE  /\ Recus(m)' \subseteq f.valeur /\ f.valeur \subseteq Ma!Rangs
                 /\ \A j \in Ma!Rangs : ecrits_maitres[j].noeud_src = m =>
                      /\ ecrits_maitres[j].version <= f.version
                      /\ ecrits_maitres[j].valeur \subseteq f.valeur
      <4>1. f = r /\ r = Ma!Retenue(l, d) /\ Recus(n)' = Recus(n) \union {i}
        BY <1>1, <1>6, <2>3, <3>3
      <4>2. /\ l.valeur \subseteq r.valeur /\ d.valeur \subseteq r.valeur
            /\ r.valeur \subseteq Ma!Rangs /\ l.version <= r.version
        BY <2>2, <4>1
      <4>3. i \in d.valeur /\ Recus(n) \subseteq l.valeur
        BY <1>3, <2>1
      <4>4. \A j \in Ma!Rangs : ecrits_maitres[j].noeud_src = n =>
                /\ ecrits_maitres[j].version <= l.version
                /\ ecrits_maitres[j].valeur \subseteq l.valeur
        BY <2>1
      <4>5. \A j \in Ma!Rangs : ecrits_maitres[j].version \in Nat
        <5>1. \A j \in Ma!Rangs : ecrits_maitres[j] \in Ma!Entrees
          BY DEF InvMaitres, TypeInvMaitres, Ma!Rangs
        <5> QED
          BY <5>1, EntreeType
      <4>6. l.version \in Nat /\ r.version \in Nat
        <5>1. l \in Ma!Entrees /\ r \in Ma!Entrees
          BY <1>1, <1>5, <4>1, RetenueType DEF InvMaitres
        <5> QED
          BY <5>1, EntreeType
      <4> QED
        BY <3>3, <4>1, <4>2, <4>3, <4>4, <4>5, <4>6
    <3> QED
      BY <3>1, <3>2, <3>3
  <2> QED
    BY <1>1, <1>2, <2>1, <2>3 DEF FusionInv
<1>9. UniqueInv' /\ SourcesInv'
  BY <1>1, <1>2 DEF InvMaitres, UniqueInv, SourcesInv
<1>10. ChoixInv'
  <2> SUFFICES ASSUME PermisMaitres = {}, strategie_conflit # "MERGE",
                      NEW m \in Noeuds, NEW f \in entree'[m]
               PROVE  \E j \in Recus(m)' : Choisie(m, f, j)'
    BY <1>1 DEF ChoixInv
  <2>1. CASE m # n
    <3>1. f \in entree[m] /\ Recus(m)' = Recus(m)
      BY <1>1, <2>1
    <3>2. PICK j \in Recus(m) : Choisie(m, f, j)
      BY <3>1 DEF InvMaitres, ChoixInv
    <3>3. Choisie(m, f, j)'
      BY <1>1, <3>1, <3>2 DEF Choisie
    <3> QED
      BY <3>1, <3>3
  <2>2. d.ts = i /\ d.valeur = {i} /\ i \in Nat
    BY <1>2, <1>3 DEF InvMaitres, UniqueInv
  <2>3. CASE m = n /\ entree[n] = {}
    <3>1. f = d /\ Recus(n)' = {i}
      BY <1>1, <1>6, <2>3 DEF InvMaitres, EntreesInv
    <3>2. Choisie(n, d, i)'
      BY <1>1, <1>3, <2>2, <3>1 DEF Choisie
    <3> QED
      BY <2>3, <3>1, <3>2
  <2>4. ASSUME m = n, NEW l \in entree[n]
        PROVE  \E j \in Recus(m)' : Choisie(m, f, j)'
    <3>1. f = Ma!Retenue(l, d) /\ Recus(n)' = Recus(n) \union {i}
      BY <1>1, <1>6, <2>4
    <3>2. PICK j \in Recus(n) : Choisie(n, l, j)
      BY DEF InvMaitres, ChoixInv
    <3>3. j \in Ma!Rangs /\ j \in Nat /\ j # i /\ Recus(n) \subseteq Nat
      BY <1>1, <1>2, <1>4
    <3>4. \A k \in Ma!Rangs : ecrits_maitres[k].ts = k /\ ecrits_maitres[k].valeur = {k}
      BY DEF InvMaitres, UniqueInv
    <3>5. l.valeur = {j}
      BY <3>2, <3>3, <3>4 DEF Choisie, InvMaitres, TypeInvMaitres
    <3>6. l.valeur # d.valeur
      BY <2>2, <3>3, <3>5
    <3>7. l.noeud_src # d.noeud_src
      <4> SUFFICES ASSUME l.noeud_src = d.noeud_src
                   PROVE  FALSE
        OBVIOUS
      <4>1. d.noeud_src \notin {Ma!ParFusion, Ma!ParRegle}
        BY <1>3 DEF InvMaitres, SourcesInv
      <4>2. PICK k \in Recus(n) : l = ecrits_maitres[k]
        BY <4>1 DEF InvMaitres, EntreesInv
      <4>3. k \in Ma!Rangs /\ k # i
        BY <1>1, <1>4
      <4> QED
        BY <1>3, <4>2, <4>3 DEF InvMaitres, UniqueInv
    <3>8. f = Ma!ResoudreConflit(l, d)
      BY <3>1, <3>6, <3>7 DEF Ma!Retenue
    <3>9. CASE strategie_conflit = "LWW"
      <4>1. l = ecrits_maitres[j] /\ l.ts = j /\ \A k \in Recus(n) : k <= j
        BY <3>2, <3>3, <3>4, <3>9 DEF Choisie
      <4>2. f = IF i > j THEN d ELSE l
        BY <2>2, <3>8, <3>9, <4>1 DEF Ma!ResoudreConflit, Ma!Lww
      <4>3. CASE i > j
        <5>1. Choisie(n, f, i)'
          BY <1>1, <1>3, <3>1, <3>3, <3>9, <4>1, <4>2, <4>3, <2>2 DEF Choisie
        <5> QED
          BY <2>4, <3>1, <5>1
      <4>4. CASE ~(i > j)
        <5>1. Choisie(n, f, j)'
          BY <1>1, <3>1, <3>3, <3>9, <4>1, <4>2, <4>4, <2>2 DEF Choisie
        <5> QED
          BY <2>4, <3>1, <5>1
      <4> QED
        BY <4>3, <4>4
    <3>10. CASE strategie_conflit = "FWW"
      <4>1. l = ecrits_maitres[j] /\ l.ts = j /\ \A k \in Recus(n) : j <= k
        BY <3>2, <3>3, <3>4, <3>10 DEF Choisie
      <4>2. f = IF j <= i THEN l ELSE d
        BY <2>2, <3>8, <3>10, <4>1 DEF Ma!ResoudreConflit, Ma!Fww
      <4>3. CASE j <= i
        <5>1. Choisie(n, f, j)'
          BY <1>1, <3>1, <3>3, <3>10, <4>1, <4>2, <4>3, <2>2 DEF Choisie
        <5> QED
          BY <2>4, <3>1, <5>1
      <4>4. CASE ~(j <= i)
        <5>1. Choisie(n, f, i)'
          BY <1>1, <1>3, <3>1, <3>3, <3>10, <4>1, <4>2, <4>4, <2>2 DEF Choisie
        <5> QED
          BY <2>4, <3>1, <5>1
      <4> QED
        BY <4>3, <4>4
    <3>11. CASE strategie_conflit = "CUSTOM"
      <4>1. \A k \in Recus(n) : k <= j
        BY <3>2, <3>11 DEF Choisie
      <4>2. PICK g : g = Ma!PlusGrande({j, i})
        OBVIOUS
      <4>3. g \in {j, i} /\ j <= g /\ i <= g
        BY <2>2, <3>3, <4>2, PlusGrandeDeux
      <4>4. f = Ma!Custom(l, d) /\ l.valeur \union d.valeur = {j, i}
        BY <2>2, <3>5, <3>8, <3>11 DEF Ma!ResoudreConflit
      <4>5. f.valeur = {g}
        BY <4>2, <4>4 DEF Ma!Custom, Ma!Composee
      <4>6. \A k \in Recus(n) \union {i} : k <= g
        BY <3>3, <4>1, <4>3, <2>2
      <4>7. Choisie(n, f, g)'
        BY <1>1, <3>1, <3>11, <4>5, <4>6 DEF Choisie
      <4> QED
        BY <2>4, <3>1, <4>3, <4>7
    <3> QED
      BY <3>9, <3>10, <3>11 DEF InvMaitres, TypeInvMaitres
  <2> QED
    BY <2>1, <2>3, <2>4
<1> QED
  BY <1>1, <1>7, <1>8, <1>9, <1>10 DEF InvMaitres

\* The invariant holds at first.
LEMMA InvInit == Ma!MaitresAssumption /\ Ma!Init => InvMaitres
<1> SUFFICES ASSUME Ma!MaitresAssumption, Ma!Init
             PROVE  InvMaitres
  OBVIOUS
<1>1. /\ strategie_conflit \in {"LWW", "FWW", "MERGE", "CUSTOM"}
      /\ ecrits_maitres = <<>> /\ vers_maitres = <<>>
      /\ entree = [n \in Noeuds |-> {}]
      /\ MaxEcritures \in Nat
  BY DEF Ma!Init, Ma!MaitresAssumption
<1>2. Ma!Rangs = {}
  BY <1>1 DEF Ma!Rangs
<1>3. TypeInvMaitres
  BY <1>1 DEF TypeInvMaitres
<1> QED
  BY <1>1, <1>2, <1>3
     DEF InvMaitres, EntreesInv, SourcesInv, FusionInv, UniqueInv, ChoixInv, Recus

\* The inductive invariant holds always.
THEOREM InvCorrectMaitres == ASSUME Ma!MaitresAssumption PROVE Ma!Spec => []InvMaitres
<1>1. Ma!Init => InvMaitres
  BY InvInit
<1>2. ASSUME InvMaitres, [Ma!Next]_Ma!varsMaitres
      PROVE  InvMaitres'
  <2>1. ASSUME NEW n \in Noeuds, NEW ts \in 1..MaxEcritures, Ma!Ecrire(n, ts)
        PROVE  InvMaitres'
    BY <1>2, <2>1, EcrireInv
  <2>2. ASSUME NEW i \in Ma!Rangs, NEW n \in Noeuds, Ma!Recevoir(i, n)
        PROVE  InvMaitres'
    BY <1>2, <2>2, RecevoirInv
  <2>3. CASE UNCHANGED Ma!varsMaitres
    <3>1. /\ strategie_conflit' = strategie_conflit /\ ecrits_maitres' = ecrits_maitres
          /\ entree' = entree /\ vers_maitres' = vers_maitres
      BY <2>3 DEF Ma!varsMaitres
    <3>2. Ma!Rangs' = Ma!Rangs /\ \A n : Recus(n)' = Recus(n)
      BY <3>1 DEF Ma!Rangs, Recus
    <3>3. TypeInvMaitres' /\ EntreesInv' /\ SourcesInv' /\ FusionInv' /\ UniqueInv'
      BY <1>2, <3>1, <3>2 DEF InvMaitres, TypeInvMaitres, EntreesInv, SourcesInv, FusionInv,
         UniqueInv
    <3>4. ChoixInv'
      BY <1>2, <3>1, <3>2 DEF InvMaitres, ChoixInv, Choisie
    <3> QED
      BY <3>3, <3>4 DEF InvMaitres
  <2> QED
    BY <1>2, <2>1, <2>2, <2>3 DEF Ma!Next
<1> QED
  BY <1>1, <1>2, PTL DEF Ma!Spec

\* The cardinality of the instance is that of the library.
LEMMA CardinaliteMaitres == \A T : Ma!Cardinality(T) = Cardinality(T)
BY DEF Ma!Cardinality, Cardinality

\* Masters, their entries and the writes on their way are typed.
THEOREM TypeCorrectMaitres == ASSUME Ma!MaitresAssumption PROVE Ma!Spec => []Ma!TypeOK
<1>1. InvMaitres => Ma!TypeOK
  <2> SUFFICES ASSUME InvMaitres, NEW n \in Noeuds
               PROVE  Cardinality(entree[n]) <= 1
    BY CardinaliteMaitres DEF InvMaitres, TypeInvMaitres, Ma!TypeOK, Ma!Rangs
  <2>1. CASE entree[n] = {}
    <3>1. Cardinality({}) = 0
      BY FS_EmptySet, Zenon
    <3> QED
      BY <2>1, <3>1
  <2>2. ASSUME NEW e \in entree[n]
        PROVE  Cardinality(entree[n]) <= 1
    <3>1. entree[n] = {e}
      BY DEF InvMaitres, EntreesInv
    <3>2. Cardinality({e}) = 1
      BY FS_Singleton, Zenon
    <3> QED
      BY <3>1, <3>2
  <2> QED
    BY <2>1, <2>2
<1> QED
  BY <1>1, InvCorrectMaitres, PTL

\* When nothing is on its way every master has got every write.
LEMMA ToutRecu ==
    ASSUME InvMaitres, Ma!Calme, NEW n \in Noeuds
    PROVE  /\ Recus(n) = Ma!Rangs
           /\ Ma!Rangs = {} => {e.valeur : e \in entree[n]} = {}
           /\ Ma!Rangs # {} => \E e \in entree[n] : {f.valeur : f \in entree[n]} = {e.valeur}
<1>1. Recus(n) = Ma!Rangs
  BY DEF Ma!Calme, Recus
<1>2. /\ \A e, f \in entree[n] : e = f
      /\ entree[n] = {} <=> Ma!Rangs = {}
  BY <1>1 DEF InvMaitres, EntreesInv
<1>3. Ma!Rangs # {} => \E e \in entree[n] : {f.valeur : f \in entree[n]} = {e.valeur}
  BY <1>2
<1> QED
  BY <1>1, <1>2, <1>3

\* With MERGE what a master holds is then made of all of them.
LEMMA FusionComplete ==
    ASSUME InvMaitres, strategie_conflit = "MERGE", Ma!Calme, Ma!Rangs # {}, NEW n \in Noeuds
    PROVE  {e.valeur : e \in entree[n]} = {Ma!Rangs}
<1>1. PICK e \in entree[n] : {f.valeur : f \in entree[n]} = {e.valeur}
  BY ToutRecu
<1>2. Recus(n) = Ma!Rangs
  BY ToutRecu
<1>3. e.valeur = Ma!Rangs
  <2>1. Recus(n) \subseteq e.valeur /\ e.valeur \subseteq Ma!Rangs
    BY DEF InvMaitres, FusionInv
  <2> QED
    BY <1>2, <2>1
<1> QED
  BY <1>1, <1>3

\* The invariant gives the two properties.
LEMMA InvDonneAucunePerte == InvMaitres => Ma!AucunePerte
<1> SUFFICES ASSUME InvMaitres, strategie_conflit = "MERGE", Ma!Calme, ecrits_maitres # <<>>
             PROVE  Ma!Valeurs = {{Ma!Rangs}}
  BY DEF Ma!AucunePerte
<1>1. 1 \in Ma!Rangs /\ ecrits_maitres[1] \in Ma!Entrees
  BY DEF InvMaitres, TypeInvMaitres, Ma!Rangs
<1>2. ecrits_maitres[1].noeud_src \in Noeuds
  BY <1>1, EntreeType DEF InvMaitres, SourcesInv
<1>3. \A n \in Noeuds : {e.valeur : e \in entree[n]} = {Ma!Rangs}
  BY <1>1, FusionComplete
<1> QED
  BY <1>2, <1>3 DEF Ma!Valeurs

\* When each master writes once, two of them that have got the same writes agree.
LEMMA MemeChoix ==
    ASSUME InvMaitres, PermisMaitres = {}, strategie_conflit # "MERGE", NEW m \in Noeuds,
           NEW n \in Noeuds,
           NEW e \in entree[m], NEW f \in entree[n], Recus(m) = Recus(n)
    PROVE  e.valeur = f.valeur
<1>1. PICK i \in Recus(m) : Choisie(m, e, i)
  BY DEF InvMaitres, ChoixInv
<1>2. PICK j \in Recus(n) : Choisie(n, f, j)
  BY DEF InvMaitres, ChoixInv
<1>3. i \in Nat /\ j \in Nat /\ i \in Ma!Rangs /\ j \in Ma!Rangs
  BY DEF Recus, Ma!Rangs, InvMaitres, TypeInvMaitres
<1>4. strategie_conflit \in {"LWW", "FWW", "CUSTOM"}
  BY DEF InvMaitres, TypeInvMaitres
<1>5. i = j
  <2>1. CASE strategie_conflit \in {"LWW", "CUSTOM"}
    <3>1. j <= i /\ i <= j
      BY <1>1, <1>2, <2>1 DEF Choisie
    <3> QED
      BY <1>3, <3>1
  <2>2. CASE strategie_conflit = "FWW"
    <3>1. i <= j /\ j <= i
      BY <1>1, <1>2, <2>2 DEF Choisie
    <3> QED
      BY <1>3, <3>1
  <2> QED
    BY <1>4, <2>1, <2>2
<1> QED
  BY <1>1, <1>2, <1>4, <1>5 DEF Choisie

LEMMA InvDonneConvergence ==
    ASSUME Noeuds # {}, PermisMaitres = {} \/ Strategies = {"MERGE"}, InvMaitres,
           strategie_conflit \in Strategies
    PROVE  Ma!Convergence
<1> SUFFICES ASSUME Ma!Calme
             PROVE  Cardinality(Ma!Valeurs) = 1
  BY CardinaliteMaitres DEF Ma!Convergence
<1>1. PICK n \in Noeuds : TRUE
  OBVIOUS
<1>2. \A m \in Noeuds : {e.valeur : e \in entree[m]} = {e.valeur : e \in entree[n]}
  <2> SUFFICES ASSUME NEW m \in Noeuds
               PROVE  {e.valeur : e \in entree[m]} = {e.valeur : e \in entree[n]}
    OBVIOUS
  <2>1. CASE Ma!Rangs = {}
    BY <2>1, ToutRecu
  <2>2. CASE Ma!Rangs # {} /\ strategie_conflit = "MERGE"
    BY <2>2, FusionComplete
  <2>3. CASE Ma!Rangs # {} /\ strategie_conflit # "MERGE"
    <3>1. PICK e \in entree[m] : {f.valeur : f \in entree[m]} = {e.valeur}
      BY <2>3, ToutRecu
    <3>2. PICK g \in entree[n] : {f.valeur : f \in entree[n]} = {g.valeur}
      BY <2>3, ToutRecu
    <3>3. Recus(m) = Recus(n)
      BY ToutRecu
    <3>4. PermisMaitres = {}
      BY <2>3
    <3>5. e.valeur = g.valeur
      BY <2>3, <3>3, <3>4, MemeChoix
    <3> QED
      BY <3>1, <3>2, <3>5
  <2> QED
    BY <2>1, <2>2, <2>3
<1>3. PICK v : v = {e.valeur : e \in entree[n]}
  OBVIOUS
<1>4. Ma!Valeurs = {v}
  BY <1>2, <1>3 DEF Ma!Valeurs
<1>5. Cardinality({v}) = 1
  BY FS_Singleton, Zenon
<1> QED
  BY <1>4, <1>5

\* With MERGE no write is lost: once nothing is on its way the masters hold what all of
\* them make, however often they wrote and in whatever order writes arrived.
THEOREM AucunePerteVraie == ASSUME Ma!MaitresAssumption PROVE Ma!Spec => []Ma!AucunePerte
  BY InvCorrectMaitres, InvDonneAucunePerte, PTL

\* When nothing is on its way all masters hold the same value: in every strategy when
\* each writes once, with MERGE however often they write.
THEOREM ConvergenceVraie ==
    ASSUME Ma!MaitresAssumption, Noeuds # {}, PermisMaitres = {} \/ Strategies = {"MERGE"}
    PROVE  Ma!Spec => []Ma!Convergence
<1>1. Ma!Spec => [](strategie_conflit \in Strategies)
  <2>1. Ma!Init => strategie_conflit \in Strategies
    BY DEF Ma!Init
  <2>2. ASSUME strategie_conflit \in Strategies, [Ma!Next]_Ma!varsMaitres
        PROVE  (strategie_conflit \in Strategies)'
    BY <2>2 DEF Ma!Next, Ma!Ecrire, Ma!Recevoir, Ma!varsMaitres
  <2> QED
    BY <2>1, <2>2, PTL DEF Ma!Spec
<1>2. InvMaitres /\ strategie_conflit \in Strategies => Ma!Convergence
  BY InvDonneConvergence
<1> QED
  BY <1>1, <1>2, InvCorrectMaitres, PTL

-----------------------------------------------------------------------------
\* The ring.

\* Virtual nodes do not collide.
HachageInv ==
    \A n, m \in Noeuds : \A i, j \in 1..Vnodes :
        hachage[n][i] = hachage[m][j] => n = m /\ i = j

\* A node has positions of its virtual nodes; the list and the table have exactly the
\* positions that some node has, the list once each.
PositionsInv ==
    /\ \A n \in Noeuds : noeud_positions[n] \subseteq {hachage[n][i] : i \in 1..Vnodes}
    /\ \A p \in An!Positions :
         /\ \A n \in Noeuds : anneau[p] = n <=> p \in noeud_positions[n]
         /\ occurrences[p] = IF anneau[p] = Personne THEN 0 ELSE 1

\* The inductive invariant.
InvAnneau == An!TypeOK /\ HachageInv /\ PositionsInv

\* A node that joins keeps it, and so does one that leaves.
LEMMA AjouterAnneau ==
  ASSUME An!AnneauAssumption, "doublon" \notin PermisAnneau, InvAnneau,
         NEW n \in Noeuds, NEW nb \in 1..Vnodes, An!Ajouter(n, nb)
  PROVE  InvAnneau'
<1> DEFINE siennes == {hachage[n][i] : i \in 1..nb}
<1>1. /\ n \notin An!Presents
      /\ anneau' = [p \in An!Positions |-> IF p \in siennes THEN n ELSE anneau[p]]
      /\ occurrences' = [p \in An!Positions |->
           occurrences[p] + (IF p \in siennes THEN 1 ELSE 0)]
      /\ noeud_positions' = [noeud_positions EXCEPT ![n] = siennes]
      /\ hachage' = hachage
  BY DEF An!Ajouter
<1>2. 1..nb \subseteq 1..Vnodes
  BY DEF An!AnneauAssumption
<1>3. siennes \subseteq An!Positions /\ siennes \subseteq {hachage[n][i] : i \in 1..Vnodes}
  <2>1. hachage[n] \in [1..Vnodes -> An!Positions]
    BY DEF InvAnneau, An!TypeOK
  <2> QED
    BY <1>2, <2>1
<1>4. noeud_positions[n] = {}
  BY <1>1 DEF An!Presents
\* Nobody has them yet.
<1>5. \A p \in siennes : p \in An!Positions /\ anneau[p] = Personne /\ occurrences[p] = 0
  <2> SUFFICES ASSUME NEW p \in siennes
               PROVE  p \in An!Positions /\ anneau[p] = Personne /\ occurrences[p] = 0
    OBVIOUS
  <2>1. p \in An!Positions
    BY <1>3
  <2>2. PICK i \in 1..Vnodes : p = hachage[n][i]
    BY <1>3
  <2>3. ASSUME NEW m \in Noeuds, p \in noeud_positions[m]
        PROVE  FALSE
    <3>1. PICK j \in 1..Vnodes : p = hachage[m][j]
      BY <2>3 DEF InvAnneau, PositionsInv
    <3>2. hachage[n][i] = hachage[m][j]
      BY <2>2, <3>1
    <3>3. n = m
      BY <3>2 DEF InvAnneau, HachageInv
    <3> QED
      BY <1>4, <2>3, <3>3
  <2>4. anneau[p] = Personne
    BY <2>1, <2>3 DEF InvAnneau, PositionsInv, An!TypeOK
  <2> QED
    BY <2>1, <2>4 DEF InvAnneau, PositionsInv
<1> HIDE DEF siennes
<1>6. An!TypeOK'
  BY <1>1, <1>3 DEF InvAnneau, An!TypeOK
<1>7. HachageInv'
  BY <1>1 DEF InvAnneau, HachageInv
<1>8. PositionsInv'
  <2>1. \A m \in Noeuds : noeud_positions'[m] \subseteq {hachage'[m][i] : i \in 1..Vnodes}
    <3>1. \A m \in Noeuds : noeud_positions[m] \subseteq {hachage[m][i] : i \in 1..Vnodes}
      BY DEF InvAnneau, PositionsInv
    <3>2. \A m \in Noeuds : noeud_positions'[m] = IF m = n THEN siennes ELSE noeud_positions[m]
      BY <1>1 DEF InvAnneau, An!TypeOK
    <3> QED
      BY <1>1, <1>3, <3>1, <3>2
  <2>2. ASSUME NEW p \in An!Positions, NEW m \in Noeuds
        PROVE  anneau'[p] = m <=> p \in noeud_positions'[m]
    <3>1. CASE p \in siennes
      <4>1. anneau'[p] = n
        BY <1>1, <3>1
      <4>2. p \in noeud_positions'[m] <=> m = n
        BY <1>1, <1>5, <3>1 DEF InvAnneau, PositionsInv, An!TypeOK, An!AnneauAssumption
      <4> QED
        BY <4>1, <4>2
    <3>2. CASE p \notin siennes
      BY <1>1, <1>4, <3>2 DEF InvAnneau, PositionsInv, An!TypeOK
    <3> QED
      BY <3>1, <3>2
  <2>3. ASSUME NEW p \in An!Positions
        PROVE  occurrences'[p] = IF anneau'[p] = Personne THEN 0 ELSE 1
    BY <1>1, <1>5 DEF InvAnneau, PositionsInv, An!AnneauAssumption
  <2> QED
    BY <2>1, <2>2, <2>3 DEF PositionsInv
<1> QED
  BY <1>6, <1>7, <1>8 DEF InvAnneau

LEMMA RetirerAnneau ==
  ASSUME An!AnneauAssumption, InvAnneau, NEW n \in Noeuds, An!Retirer(n)
  PROVE  InvAnneau'
<1>1. /\ anneau' = [p \in An!Positions |-> IF p \in noeud_positions[n] THEN Personne ELSE anneau[p]]
      /\ occurrences' = [p \in An!Positions |->
           occurrences[p] - (IF p \in noeud_positions[n] THEN 1 ELSE 0)]
      /\ noeud_positions' = [noeud_positions EXCEPT ![n] = {}]
      /\ hachage' = hachage
  BY DEF An!Retirer, An!ARetirer
<1>2. \A p \in An!Positions : /\ p \in noeud_positions[n] <=> anneau[p] = n
                              /\ p \in noeud_positions[n] => occurrences[p] = 1
  BY DEF InvAnneau, PositionsInv, An!AnneauAssumption
<1>3. An!TypeOK'
  <2>1. \A p \in An!Positions : occurrences'[p] \in Nat
    BY <1>1, <1>2 DEF InvAnneau, An!TypeOK
  <2> QED
    BY <1>1, <2>1 DEF InvAnneau, An!TypeOK
<1>4. HachageInv'
  BY <1>1 DEF InvAnneau, HachageInv
<1>5. PositionsInv'
  <2>1. \A m \in Noeuds : noeud_positions'[m] \subseteq {hachage'[m][i] : i \in 1..Vnodes}
    BY <1>1 DEF InvAnneau, PositionsInv, An!TypeOK
  <2>2. ASSUME NEW p \in An!Positions, NEW m \in Noeuds
        PROVE  anneau'[p] = m <=> p \in noeud_positions'[m]
    BY <1>1, <1>2 DEF InvAnneau, PositionsInv, An!TypeOK, An!AnneauAssumption
  <2>3. ASSUME NEW p \in An!Positions
        PROVE  occurrences'[p] = IF anneau'[p] = Personne THEN 0 ELSE 1
    BY <1>1, <1>2 DEF InvAnneau, PositionsInv
  <2> QED
    BY <2>1, <2>2, <2>3 DEF PositionsInv
<1> QED
  BY <1>3, <1>4, <1>5 DEF InvAnneau

\* The list of positions, the table and the positions of each node say the same, whatever
\* nodes join and leave, when none joins twice.
THEOREM AnneauCoherentCorrect ==
  ASSUME An!AnneauAssumption, "doublon" \notin PermisAnneau
  PROVE  An!Spec => [](An!TypeOK /\ An!AnneauCoherent)
<1>1. An!Init => InvAnneau
  BY DEF An!Init, InvAnneau, An!TypeOK, HachageInv, PositionsInv, An!AnneauAssumption
<1>2. InvAnneau /\ [An!Next]_An!varsAnneau => InvAnneau'
  <2>1. CASE UNCHANGED An!varsAnneau
    BY <2>1 DEF An!varsAnneau, InvAnneau, An!TypeOK, HachageInv, PositionsInv
  <2> QED
    BY <2>1, AjouterAnneau, RetirerAnneau DEF An!Next
<1>3. InvAnneau => An!TypeOK /\ An!AnneauCoherent
  <2> SUFFICES ASSUME InvAnneau, NEW p \in An!Positions
               PROVE  (occurrences[p] > 0)
                      <=> (\E n \in An!Presents : anneau[p] = n /\ p \in noeud_positions[n])
    BY DEF InvAnneau, An!AnneauCoherent
  <2>1. (occurrences[p] > 0) <=> anneau[p] # Personne
    BY DEF InvAnneau, PositionsInv
  <2>2. \A n \in Noeuds : anneau[p] = n => n \in An!Presents /\ p \in noeud_positions[n]
    BY DEF InvAnneau, PositionsInv, An!Presents
  <2>3. anneau[p] \in Noeuds \union {Personne} /\ An!Presents \subseteq Noeuds
    BY DEF InvAnneau, An!TypeOK, An!Presents
  <2> QED
    BY <2>1, <2>2, <2>3 DEF An!AnneauAssumption
<1> QED
  BY <1>1, <1>2, <1>3, PTL DEF An!Spec
=============================================================================
