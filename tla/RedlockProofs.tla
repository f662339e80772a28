---------------------------- MODULE RedlockProofs ----------------------------
(***************************************************************************)
(* What TLAPS proves about Redlock for every number of clients, instances  *)
(* and attempts, every TTL and drift, whichever instances stop and pause:  *)
(* the types, that no two clients hold the lock validly unless an instance *)
(* restarts without its keys, and that the resource accepts the write of a *)
(* valid holder that writes once and does not pause before its token.      *)
(***************************************************************************)
EXTENDS Redlock, FiniteSetTheorems, TLAPS

Possede(c) == pc[c] \in {"jeton", "tient", "ecrit"}
EnCours(c) == pc[c] = "tentative" \/ Possede(c)

-----------------------------------------------------------------------------
\* The inductive invariant.

\* An attempt has a number from its begin, and begins before now.
EssaiCommence ==
    \A c \in Clients : /\ pc[c] # "repos" => essai[c] >= 1
                       /\ debut[c] <= temps

\* Between two attempts nobody is counted; a holder has counted a quorum.
AccordsComptes ==
    \A c \in Clients : /\ ~EnCours(c) => accords[c] = {}
                       /\ Possede(c) => Quorum(accords[c])

\* However late a release is, the attempt it belongs to is over.
ReleasesDuPasse ==
    \A r \in releases \union releases_admis :
        LET c == r[1][1] IN r[1][2] = essai[c] => ~EnCours(c)

ReleasesCommences ==
    \A r \in releases \union releases_admis : r[1][2] <= essai[r[1][1]]

\* While the validity time of an attempt runs, the instances that it counts
\* have its key, and will have it for that long.
ClesAcquises ==
    \A c \in Clients : EnCours(c) /\ Valide(c) =>
        \A i \in accords[c] : /\ store[i] # Personne
                              /\ store[i].jeton = Jeton(c)
                              /\ store[i].expire >= debut[c] + TTL

\* A token is drawn by who holds the lock, once, from a counter that grows;
\* the resource has seen tokens of those that have written.
JetonsTires ==
    \A c \in Clients :
        /\ fencing[c] <= fencing_counter
        /\ pc[c] = "tient" => fencing[c] >= 1
        /\ c \in rejetes => pc[c] \in {"ecrit", "fini"}

DernierEcrivain ==
    dernier_token = 0 \/ \E d \in Clients : /\ pc[d] \in {"ecrit", "fini"}
                                            /\ dernier_token = fencing[d]

\* Without a pause before the token nobody draws it too late, so that of a
\* valid holder is the newest.
JetonATemps == \A c \in Clients : pc[c] = "jeton" => Valide(c)

JetonLePlusRecent ==
    \A c, d \in Clients :
        pc[c] \in {"tient", "ecrit"} /\ Valide(c) /\ c # d
          => fencing[d] < fencing[c]

TypeInv == TypeOK /\ EssaiCommence

ClesInv == AccordsComptes /\ ReleasesDuPasse /\ ReleasesCommences /\ ClesAcquises

JetonInv == JetonsTires /\ DernierEcrivain /\ JetonATemps /\ JetonLePlusRecent

-----------------------------------------------------------------------------
\* Types.

LEMMA TypeInit ==
    ASSUME RedlockAssumption, Init
    PROVE  TypeInv
<1> USE DEF Init, TypeInv
<1>1. 0 \in 0..RetryCount
  BY DEF RedlockAssumption
<1> QED
  BY <1>1 DEF TypeOK, EssaiCommence

\* A release is that of an attempt which has begun.
LEMMA TypeLiberer ==
    ASSUME RedlockAssumption, TypeInv, NEW c \in Clients, pc[c] # "repos",
           LibererPartout(c)
    PROVE  /\ releases' \subseteq Jetons \X Instances
           /\ releases_admis' \subseteq Jetons \X Instances
<1>1. Jeton(c) \in Jetons
  BY DEF RedlockAssumption, TypeInv, TypeOK, EssaiCommence, Jeton, Jetons
<1>2. Fragiles \subseteq Instances
  BY DEF RedlockAssumption
<1> QED
  BY <1>1, <1>2 DEF LibererPartout, TypeInv, TypeOK

\* Every step preserves the types and the numbering of the attempts.
LEMMA TypePas ==
    ASSUME RedlockAssumption, TypeInv, [Next]_vars
    PROVE  TypeInv'
<1> USE DEF instances, client, appels, ressource
<1>0. TTL \in Nat /\ Derive \in Nat /\ RetryCount \in Nat /\ Fragiles \subseteq Instances
  BY DEF RedlockAssumption
<1>1. ASSUME NEW c \in Clients, Tenter(c)
      PROVE  TypeInv'
  <2>1. essai[c] + 1 \in 1..RetryCount
    BY <1>0, <1>1 DEF TypeInv, TypeOK, Tenter, EncoreUnEssai
  <2>2. <<c, essai[c] + 1>> \in Jetons
    BY <2>1 DEF Jetons
  <2>3. essai' \in [Clients -> 0..RetryCount] /\ debut' \in [Clients -> Nat]
    BY <1>0, <1>1, <2>1 DEF TypeInv, TypeOK, Tenter
  <2>4. TypeOK'
    BY <1>0, <1>1, <2>2, <2>3 DEF TypeInv, TypeOK, Tenter
  <2>5. EssaiCommence'
    BY <1>0, <1>1, <2>1 DEF TypeInv, TypeOK, Tenter, EssaiCommence
  <2> QED
    BY <2>4, <2>5 DEF TypeInv
<1>2. ASSUME NEW c \in Clients, Evaluer(c)
      PROVE  TypeInv'
  <2>1. CASE Quorum(accords[c]) /\ Valide(c)
    BY <1>2, <2>1 DEF TypeInv, TypeOK, Evaluer, EssaiCommence
  <2>2. CASE ~(Quorum(accords[c]) /\ Valide(c))
    <3>1. /\ releases' \subseteq Jetons \X Instances
          /\ releases_admis' \subseteq Jetons \X Instances
      BY <1>2, <2>2, TypeLiberer DEF Evaluer
    <3> QED
      BY <1>2, <2>2, <3>1 DEF TypeInv, TypeOK, Evaluer, Oublier, EssaiCommence
  <2> QED
    BY <2>1, <2>2
<1>3. ASSUME NEW c \in Clients, TirerJeton(c)
      PROVE  TypeInv'
  BY <1>3 DEF TypeInv, TypeOK, TirerJeton, JetonSuivant, EssaiCommence
<1>4. ASSUME NEW c \in Clients, Ecrire(c)
      PROVE  TypeInv'
  BY <1>4 DEF TypeInv, TypeOK, Ecrire, EssaiCommence
<1>5. ASSUME NEW c \in Clients, Liberer(c)
      PROVE  TypeInv'
  <2>1. /\ releases' \subseteq Jetons \X Instances
        /\ releases_admis' \subseteq Jetons \X Instances
    BY <1>5, TypeLiberer DEF Liberer
  <2> QED
    BY <1>5, <2>1 DEF TypeInv, TypeOK, Liberer, Oublier, EssaiCommence
<1>6. ASSUME NEW k \in Jetons, NEW i \in Instances, AdmettreSet(k, i)
      PROVE  TypeInv'
  BY <1>6 DEF TypeInv, TypeOK, AdmettreSet, EssaiCommence
<1>7. ASSUME NEW k \in Jetons, NEW i \in Instances, SetNX(k, i)
      PROVE  TypeInv'
  <2>1. [jeton |-> k, expire |-> temps + TTL] \in Cles /\ k[1] \in Clients
    BY <1>0 DEF TypeInv, TypeOK, Cles, Jetons
  <2>2. store' \in [Instances -> Cles \union {Personne}]
    BY <1>7, <2>1 DEF TypeInv, TypeOK, SetNX
  <2>3. accords' \in [Clients -> SUBSET Instances]
    BY <1>7, <2>1 DEF TypeInv, TypeOK, SetNX
  <2> QED
    BY <1>7, <2>2, <2>3 DEF TypeInv, TypeOK, SetNX, EssaiCommence
<1>8. ASSUME NEW k \in Jetons, NEW i \in Instances, AdmettreRelease(k, i)
      PROVE  TypeInv'
  BY <1>8 DEF TypeInv, TypeOK, AdmettreRelease, EssaiCommence
<1>9. ASSUME NEW k \in Jetons, NEW i \in Instances, Release(k, i)
      PROVE  TypeInv'
  BY <1>9 DEF TypeInv, TypeOK, Release, EssaiCommence
<1>10. ASSUME NEW i \in Instances, Tomber(i) \/ FinPause(i) \/ Redemarrer(i)
       PROVE  TypeInv'
  BY <1>10 DEF TypeInv, TypeOK, Tomber, FinPause, Redemarrer, EssaiCommence
<1>11. CASE Passer
  BY <1>11 DEF TypeInv, TypeOK, Passer, EssaiCommence
<1>12. CASE UNCHANGED vars
  BY <1>12 DEF TypeInv, TypeOK, vars, EssaiCommence
<1> QED
  BY <1>1, <1>2, <1>3, <1>4, <1>5, <1>6, <1>7, <1>8, <1>9, <1>10, <1>11, <1>12
     DEF Next

-----------------------------------------------------------------------------
\* Keys.

LEMMA ClesInit ==
    ASSUME Init
    PROVE  ClesInv
BY DEF Init, ClesInv, AccordsComptes, ReleasesDuPasse, ReleasesCommences,
       ClesAcquises, EnCours, Possede

\* Nobody else can set the key that an attempt counts, nor can it expire, while
\* the validity time runs.
LEMMA NonLibre ==
    ASSUME RedlockAssumption, TypeInv, ClesInv,
           NEW c \in Clients, EnCours(c), Valide(c), NEW i \in accords[c]
    PROVE  ~Libre(i)
<1>1. store[i] # Personne /\ store[i].expire >= debut[c] + TTL
  BY DEF ClesInv, ClesAcquises
<1>2. i \in Instances /\ debut[c] \in Nat /\ temps \in Nat
  BY DEF TypeInv, TypeOK
<1>3. store[i] \in Cles
  BY <1>1, <1>2 DEF TypeInv, TypeOK
<1>4. store[i].expire \in Nat
  BY <1>3 DEF Cles
<1> QED
  BY <1>1, <1>2, <1>4 DEF Libre, Valide, Echeance, RedlockAssumption

\* A step of c alone, which leaves stores and time alone and does not count
\* another instance, keeps the keys if it does not begin an attempt.
LEMMA ClesDunPas ==
    ASSUME TypeInv, ClesInv, NEW c \in Clients,
           NEW p \in {"repos", "tentative", "jeton", "tient", "ecrit", "fini"},
           pc' = [pc EXCEPT ![c] = p],
           p \in {"tentative", "jeton", "tient", "ecrit"} => EnCours(c),
           UNCHANGED <<temps, store, essai, debut, accords>>
    PROVE  ClesAcquises'
<1>1. \A d \in Clients : EnCours(d)' => EnCours(d)
  BY DEF TypeInv, TypeOK, EnCours, Possede
<1> QED
  BY <1>1 DEF ClesInv, ClesAcquises, Valide, Echeance, Jeton

\* No step but the restart of an instance without its keys takes a key from an
\* attempt whose validity time runs.
LEMMA ClesPas ==
    ASSUME RedlockAssumption, "redemarrage" \notin Permis,
           TypeInv, ClesInv, [Next]_vars
    PROVE  ClesInv'
<1> USE DEF instances, client, appels, ressource
<1>0. TTL \in Nat /\ Derive \in Nat
  BY DEF RedlockAssumption
<1>1. ASSUME NEW c \in Clients, Tenter(c)
      PROVE  ClesInv'
  <2>1. accords[c] = {} /\ pc[c] = "repos" /\ essai[c] \in Nat
    BY <1>1 DEF Tenter, ClesInv, AccordsComptes, EnCours, Possede, TypeInv, TypeOK
  <2>2. AccordsComptes'
    BY <1>1, <2>1 DEF Tenter, ClesInv, AccordsComptes, EnCours, Possede, Quorum,
                      TypeInv, TypeOK
  <2>3. ReleasesDuPasse' /\ ReleasesCommences'
    <3> SUFFICES ASSUME NEW r \in releases \union releases_admis
                 PROVE  /\ r[1][2] <= essai'[r[1][1]]
                        /\ r[1][2] = essai'[r[1][1]] => ~EnCours(r[1][1])'
      BY <1>1 DEF Tenter, ReleasesDuPasse, ReleasesCommences
    <3>1. /\ r[1][1] \in Clients /\ r[1][2] \in Nat
          /\ r[1][2] <= essai[r[1][1]] /\ essai[r[1][1]] \in Nat
          /\ r[1][2] = essai[r[1][1]] => ~EnCours(r[1][1])
      BY DEF ClesInv, ReleasesDuPasse, ReleasesCommences, TypeInv, TypeOK, Jetons
    <3>2. CASE r[1][1] = c
      BY <1>1, <2>1, <3>1, <3>2 DEF Tenter, TypeInv, TypeOK
    <3>3. CASE r[1][1] # c
      BY <1>1, <3>1, <3>3 DEF Tenter, TypeInv, TypeOK, EnCours, Possede
    <3> QED
      BY <3>2, <3>3
  <2>4. ClesAcquises'
    BY <1>1, <2>1 DEF Tenter, ClesInv, ClesAcquises, EnCours, Possede, Valide,
                      Echeance, Jeton, TypeInv, TypeOK
  <2> QED
    BY <2>2, <2>3, <2>4 DEF ClesInv
<1>2. ASSUME NEW c \in Clients, Evaluer(c), Quorum(accords[c]), Valide(c)
      PROVE  ClesInv'
  <2>1. /\ pc' = [pc EXCEPT ![c] = "jeton"] /\ pc[c] = "tentative"
        /\ UNCHANGED <<temps, store, essai, debut, accords, releases, releases_admis>>
    BY <1>2 DEF Evaluer
  <2>2. ClesAcquises'
    BY <2>1, ClesDunPas DEF EnCours
  <2>3. AccordsComptes' /\ ReleasesDuPasse' /\ ReleasesCommences'
    BY <1>2, <2>1 DEF ClesInv, AccordsComptes, ReleasesDuPasse, ReleasesCommences,
                      EnCours, Possede, Quorum, TypeInv, TypeOK, Jetons
  <2> QED
    BY <2>2, <2>3 DEF ClesInv
<1>3. ASSUME NEW c \in Clients, EnCours(c), LibererPartout(c), Oublier(c),
             pc' \in {[pc EXCEPT ![c] = "repos"], [pc EXCEPT ![c] = "fini"]},
             UNCHANGED <<temps, store, essai>>
      PROVE  ClesInv'
  <2>1. AccordsComptes'
    BY <1>3 DEF Oublier, ClesInv, AccordsComptes, EnCours, Possede, Quorum, TypeInv,
                TypeOK
  <2>2. ReleasesDuPasse' /\ ReleasesCommences'
    <3> SUFFICES ASSUME NEW r \in (releases \union releases_admis)'
                 PROVE  /\ r[1][2] <= essai[r[1][1]]
                        /\ r[1][2] = essai[r[1][1]] => ~EnCours(r[1][1])'
      BY <1>3 DEF ReleasesDuPasse, ReleasesCommences
    <3>1. CASE r \in releases \union releases_admis
      <4>1. /\ r[1][1] \in Clients
            /\ r[1][2] <= essai[r[1][1]]
            /\ r[1][2] = essai[r[1][1]] => ~EnCours(r[1][1])
        BY <3>1 DEF ClesInv, ReleasesDuPasse, ReleasesCommences, TypeInv, TypeOK,
                    Jetons
      <4> QED
        BY <1>3, <4>1 DEF EnCours, Possede, TypeInv, TypeOK
    <3>2. CASE r \notin releases \union releases_admis
      <4>1. r[1] = Jeton(c)
        BY <1>3, <3>2 DEF LibererPartout
      <4>2. r[1][1] = c /\ r[1][2] = essai[c] /\ essai[c] \in Nat
        BY <4>1 DEF Jeton, TypeInv, TypeOK
      <4> QED
        BY <1>3, <4>2 DEF EnCours, Possede, TypeInv, TypeOK
    <3> QED
      BY <3>1, <3>2
  <2>3. ClesAcquises'
    BY <1>3 DEF Oublier, ClesInv, ClesAcquises, EnCours, Possede, Valide, Echeance,
                Jeton, TypeInv, TypeOK
  <2> QED
    BY <2>1, <2>2, <2>3 DEF ClesInv
<1>4. ASSUME NEW c \in Clients, Evaluer(c)
      PROVE  ClesInv'
  <2>1. CASE Quorum(accords[c]) /\ Valide(c)
    BY <1>2, <1>4, <2>1
  <2>2. CASE ~(Quorum(accords[c]) /\ Valide(c))
    BY <1>3, <1>4, <2>2 DEF Evaluer, EnCours
  <2> QED
    BY <2>1, <2>2
<1>5. ASSUME NEW c \in Clients, Liberer(c)
      PROVE  ClesInv'
  BY <1>3, <1>5 DEF Liberer, EnCours, Possede
<1>6. ASSUME NEW c \in Clients, TirerJeton(c) \/ Ecrire(c)
      PROVE  ClesInv'
  <2>1. PICK p \in {"tient", "ecrit"} : pc' = [pc EXCEPT ![c] = p]
    BY <1>6 DEF TirerJeton, Ecrire
  <2>2. /\ Possede(c)
        /\ UNCHANGED <<temps, store, essai, debut, accords, releases, releases_admis>>
    BY <1>6 DEF TirerJeton, Ecrire, Possede
  <2>3. ClesAcquises'
    BY <2>1, <2>2, ClesDunPas DEF EnCours
  <2>4. AccordsComptes' /\ ReleasesDuPasse' /\ ReleasesCommences'
    BY <2>1, <2>2 DEF ClesInv, AccordsComptes, ReleasesDuPasse, ReleasesCommences,
                      EnCours, Possede, Quorum, TypeInv, TypeOK, Jetons
  <2> QED
    BY <2>3, <2>4 DEF ClesInv
<1>7. ASSUME NEW k \in Jetons, NEW i \in Instances, SetNX(k, i)
      PROVE  ClesInv'
  <2>0. UNCHANGED <<temps, pc, essai, debut, releases, releases_admis>>
    BY <1>7 DEF SetNX
  <2>1. ReleasesDuPasse' /\ ReleasesCommences'
    BY <2>0 DEF ClesInv, ReleasesDuPasse, ReleasesCommences, EnCours, Possede
  <2>2. CASE ~Accepte(i)
    BY <1>7, <2>0, <2>1, <2>2 DEF SetNX, ClesInv, AccordsComptes, ClesAcquises,
       EnCours, Possede, Quorum, Valide, Echeance, Jeton
  <2>3. CASE Accepte(i)
    <3>1. /\ store' = [store EXCEPT ![i] = [jeton |-> k, expire |-> temps + TTL]]
          /\ accords' = IF pc[k[1]] = "tentative" /\ Jeton(k[1]) = k
                        THEN [accords EXCEPT ![k[1]] = @ \union {i}]
                        ELSE accords
      BY <1>7, <2>3 DEF SetNX
    <3>2. \A c \in Clients :
            accords'[c] = IF c = k[1] /\ pc[c] = "tentative" /\ Jeton(c) = k
                          THEN accords[c] \union {i} ELSE accords[c]
      BY <3>1 DEF TypeInv, TypeOK
    <3>3. AccordsComptes'
      <4> SUFFICES ASSUME NEW c \in Clients
                   PROVE  /\ ~EnCours(c) => accords'[c] = {}
                          /\ Possede(c) => Quorum(accords'[c])
        BY <2>0 DEF AccordsComptes, EnCours, Possede, Quorum
      <4> QED
        BY <3>2 DEF ClesInv, AccordsComptes, EnCours, Possede
    <3>4. ClesAcquises'
      <4> SUFFICES ASSUME NEW c \in Clients, EnCours(c), Valide(c),
                          NEW j \in accords'[c]
                   PROVE  /\ store'[j] # Personne
                          /\ store'[j].jeton = Jeton(c)
                          /\ store'[j].expire >= debut[c] + TTL
        BY <2>0 DEF ClesAcquises, EnCours, Possede, Valide, Echeance, Jeton
      <4>1. CASE j \in accords[c]
        <5>1. j # i
          BY <2>3, <4>1, NonLibre DEF Accepte
        <5>2. store'[j] = store[j]
          BY <3>1, <5>1 DEF TypeInv, TypeOK
        <5> QED
          BY <4>1, <5>2 DEF ClesInv, ClesAcquises
      <4>2. CASE j \notin accords[c]
        <5>1. c = k[1] /\ j = i /\ Jeton(c) = k
          BY <3>2, <4>2
        <5>2. store'[i] = [jeton |-> k, expire |-> temps + TTL]
          BY <3>1 DEF TypeInv, TypeOK
        <5>3. /\ store'[i] \in Cles /\ store'[i].jeton = k
              /\ store'[i].expire = temps + TTL
          BY <1>0, <5>2 DEF Cles, TypeInv, TypeOK
        <5>4. debut[c] <= temps /\ debut[c] \in Nat /\ temps \in Nat
          BY DEF TypeInv, TypeOK, EssaiCommence
        <5> QED
          BY <1>0, <5>1, <5>3, <5>4 DEF RedlockAssumption
      <4> QED
        BY <4>1, <4>2
    <3> QED
      BY <2>1, <3>3, <3>4 DEF ClesInv
  <2> QED
    BY <2>2, <2>3
<1>8. ASSUME NEW k \in Jetons, NEW i \in Instances, AdmettreSet(k, i)
      PROVE  ClesInv'
  BY <1>8 DEF AdmettreSet, ClesInv, AccordsComptes, ReleasesDuPasse, ReleasesCommences,
              ClesAcquises, EnCours, Possede, Quorum, Valide, Echeance, Jeton
<1>9. ASSUME NEW k \in Jetons, NEW i \in Instances, AdmettreRelease(k, i)
      PROVE  ClesInv'
  <2>1. (releases \union releases_admis)' \subseteq releases \union releases_admis
    BY <1>9 DEF AdmettreRelease
  <2>2. ReleasesDuPasse' /\ ReleasesCommences'
    BY <1>9, <2>1 DEF AdmettreRelease, ClesInv, ReleasesDuPasse, ReleasesCommences,
                      EnCours, Possede
  <2>3. AccordsComptes' /\ ClesAcquises'
    BY <1>9 DEF AdmettreRelease, ClesInv, AccordsComptes, ClesAcquises, EnCours,
                Possede, Quorum, Valide, Echeance, Jeton
  <2> QED
    BY <2>2, <2>3 DEF ClesInv
<1>10. ASSUME NEW k \in Jetons, NEW i \in Instances, Release(k, i)
       PROVE  ClesInv'
  <2>0. UNCHANGED <<temps, pc, essai, debut, accords, releases>>
    BY <1>10 DEF Release
  <2>1. (releases \union releases_admis)' \subseteq releases \union releases_admis
    BY <1>10 DEF Release
  <2>2. ReleasesDuPasse' /\ ReleasesCommences' /\ AccordsComptes'
    BY <2>0, <2>1 DEF ClesInv, ReleasesDuPasse, ReleasesCommences, AccordsComptes,
                      EnCours, Possede, Quorum
  <2>3. ClesAcquises'
    <3> SUFFICES ASSUME NEW c \in Clients, EnCours(c), Valide(c), NEW j \in accords[c]
                 PROVE  store'[j] = store[j]
      BY <2>0 DEF ClesInv, ClesAcquises, EnCours, Possede, Valide, Echeance, Jeton
    <3>1. k # Jeton(c)
      <4>1. k = Jeton(c) => k[1] = c /\ k[2] = essai[c]
        BY DEF Jeton
      <4>2. <<k, i>> \in releases \union releases_admis
        BY <1>10 DEF Release
      <4>3. k[2] = essai[k[1]] => ~EnCours(k[1])
        BY <4>2 DEF ClesInv, ReleasesDuPasse
      <4> QED
        BY <4>1, <4>3
    <3>2. store[j].jeton = Jeton(c)
      BY DEF ClesInv, ClesAcquises
    <3>3. Tenue(k, i) => i # j
      BY <3>1, <3>2 DEF Tenue
    <3> QED
      BY <1>10, <3>3 DEF Release, TypeInv, TypeOK
  <2> QED
    BY <2>2, <2>3 DEF ClesInv
<1>11. ASSUME NEW i \in Instances, Tomber(i) \/ FinPause(i)
       PROVE  ClesInv'
  BY <1>11 DEF Tomber, FinPause, ClesInv, AccordsComptes, ReleasesDuPasse,
     ReleasesCommences, ClesAcquises, EnCours, Possede, Quorum, Valide, Echeance, Jeton
<1>12. ASSUME NEW i \in Instances, Redemarrer(i)
       PROVE  ClesInv'
  <2>0. UNCHANGED <<temps, pc, essai, debut, accords, releases, releases_admis>>
    BY <1>12 DEF Redemarrer
  <2>1. ReleasesDuPasse' /\ ReleasesCommences' /\ AccordsComptes'
    BY <2>0 DEF ClesInv, ReleasesDuPasse, ReleasesCommences, AccordsComptes, EnCours,
                Possede, Quorum
  <2>2. ClesAcquises'
    <3> SUFFICES ASSUME NEW c \in Clients, EnCours(c), Valide(c), NEW j \in accords[c]
                 PROVE  store'[j] = store[j]
      BY <2>0 DEF ClesInv, ClesAcquises, EnCours, Possede, Valide, Echeance, Jeton
    <3>1. j # i
      BY <1>12, NonLibre DEF Redemarrer
    <3> QED
      BY <1>12, <3>1 DEF Redemarrer, TypeInv, TypeOK
  <2> QED
    BY <2>1, <2>2 DEF ClesInv
<1>13. CASE Passer
  <2>0. temps' = temps + 1 /\ temps \in Nat
    BY <1>13 DEF Passer, TypeInv, TypeOK
  <2>1. \A c \in Clients : Valide(c)' => Valide(c)
    BY <1>0, <1>13, <2>0 DEF Passer, Valide, Echeance, TypeInv, TypeOK
  <2> QED
    BY <1>13, <2>1 DEF Passer, ClesInv, ReleasesDuPasse, ReleasesCommences,
       AccordsComptes, ClesAcquises, EnCours, Possede, Quorum, Jeton
<1>14. CASE UNCHANGED vars
  BY <1>14 DEF vars, ClesInv, AccordsComptes, ReleasesDuPasse, ReleasesCommences,
     ClesAcquises, EnCours, Possede, Quorum, Valide, Echeance, Jeton
<1> QED
  BY <1>1, <1>4, <1>5, <1>6, <1>7, <1>8, <1>9, <1>10, <1>11, <1>12, <1>13, <1>14
     DEF Next

-----------------------------------------------------------------------------
\* Two quorums share an instance, and it has one key: two clients do not both
\* hold the lock within its validity time.
LEMMA UnSeulDetenteur ==
    ASSUME RedlockAssumption, TypeInv, ClesInv
    PROVE  ExclusionMutuelle
<1> SUFFICES ASSUME NEW c \in Clients, NEW d \in Clients, Detient(c), Detient(d)
             PROVE  c = d
  BY DEF ExclusionMutuelle
<1>1. /\ IsFiniteSet(Instances)
      /\ accords[c] \subseteq Instances /\ accords[d] \subseteq Instances
  BY DEF RedlockAssumption, TypeInv, TypeOK
<1>2. /\ Cardinality(Instances) \in Nat
      /\ IsFiniteSet(accords[c]) /\ Cardinality(accords[c]) \in Nat
      /\ IsFiniteSet(accords[d]) /\ Cardinality(accords[d]) \in Nat
  BY <1>1, FS_CardinalityType, FS_Subset
<1>3. Quorum(accords[c]) /\ Quorum(accords[d])
  BY DEF Detient, ClesInv, AccordsComptes, Possede
<1>4. Cardinality(accords[c]) + Cardinality(accords[d]) > Cardinality(Instances)
  BY <1>2, <1>3 DEF Quorum
<1>5. accords[c] \cap accords[d] # {}
  BY <1>1, <1>4, FS_MajoritiesIntersect
<1>6. PICK i : i \in accords[c] /\ i \in accords[d]
  BY <1>5
<1>7. store[i].jeton = Jeton(c) /\ store[i].jeton = Jeton(d)
  BY <1>6 DEF Detient, ClesInv, ClesAcquises, EnCours, Possede
<1> QED
  BY <1>7 DEF Jeton

LEMMA ClesTenues ==
    ASSUME RedlockAssumption, TypeInv, ClesInv
    PROVE  ClesDuDetenteur
<1> SUFFICES ASSUME NEW c \in Clients, Detient(c), NEW i \in accords[c]
             PROVE  /\ store[i] # Personne
                    /\ store[i].jeton = Jeton(c)
                    /\ store[i].expire >= Echeance(c)
  BY DEF ClesDuDetenteur
<1>1. /\ store[i] # Personne
      /\ store[i].jeton = Jeton(c)
      /\ store[i].expire >= debut[c] + TTL
  BY DEF Detient, ClesInv, ClesAcquises, EnCours, Possede
<1>2. i \in Instances /\ debut[c] \in Nat
  BY DEF TypeInv, TypeOK
<1>3. store[i] \in Cles
  BY <1>1, <1>2 DEF TypeInv, TypeOK
<1>4. store[i].expire \in Nat
  BY <1>3 DEF Cles
<1> QED
  BY <1>1, <1>2, <1>4 DEF Echeance, RedlockAssumption

-----------------------------------------------------------------------------
\* Fencing tokens.

LEMMA JetonInit ==
    ASSUME Init
    PROVE  JetonInv
BY DEF Init, JetonInv, JetonsTires, DernierEcrivain, JetonATemps, JetonLePlusRecent

\* A step that draws no token and writes nothing, and makes no attempt valid
\* again, keeps the order of the tokens.
LEMMA JetonDunPas ==
    ASSUME JetonInv, UNCHANGED <<fencing_counter, fencing, dernier_token, rejetes>>,
           \A c \in Clients : pc'[c] = "jeton" => Valide(c)',
           \A c \in Clients : pc'[c] \in {"tient", "ecrit"}
                               => pc'[c] = pc[c] /\ (Valide(c)' => Valide(c)),
           \A c \in Clients : pc[c] \in {"ecrit", "fini"} => pc'[c] \in {"ecrit", "fini"}
    PROVE  JetonInv'
<1>1. JetonsTires'
  BY DEF JetonInv, JetonsTires
<1>2. DernierEcrivain'
  BY DEF JetonInv, DernierEcrivain
<1>3. JetonATemps'
  BY DEF JetonInv, JetonATemps
<1>4. JetonLePlusRecent'
  BY DEF JetonInv, JetonLePlusRecent
<1> QED
  BY <1>1, <1>2, <1>3, <1>4 DEF JetonInv

\* No step makes the token of a valid holder anything but the newest: who draws
\* one holds the lock validly, and then nobody else does.
LEMMA JetonPas ==
    ASSUME RedlockAssumption, "pause_jeton" \notin Permis,
           "deux_ecritures" \notin Permis,
           TypeInv, ClesInv, JetonInv, [Next]_vars
    PROVE  JetonInv'
<1> USE DEF instances, client, appels, ressource
<1>0. TTL \in Nat /\ Derive \in Nat
  BY DEF RedlockAssumption
<1>1. ASSUME NEW c \in Clients, Tenter(c)
      PROVE  JetonInv'
  <2>0. UNCHANGED <<fencing_counter, fencing, dernier_token, rejetes>>
    BY <1>1 DEF Tenter
  <2>1. \A d \in Clients : pc'[d] = "jeton" => Valide(d)'
    BY <1>1 DEF Tenter, JetonInv, JetonATemps, TypeInv, TypeOK, Valide, Echeance
  <2>2. \A d \in Clients : pc'[d] \in {"tient", "ecrit"}
                           => pc'[d] = pc[d] /\ (Valide(d)' => Valide(d))
    BY <1>1 DEF Tenter, TypeInv, TypeOK, Valide, Echeance
  <2>3. \A d \in Clients : pc[d] \in {"ecrit", "fini"} => pc'[d] \in {"ecrit", "fini"}
    BY <1>1 DEF Tenter, TypeInv, TypeOK
  <2> QED
    BY <2>0, <2>1, <2>2, <2>3, JetonDunPas
<1>2. ASSUME NEW c \in Clients, Evaluer(c)
      PROVE  JetonInv'
  <2>0. UNCHANGED <<fencing_counter, fencing, dernier_token, rejetes>>
    BY <1>2 DEF Evaluer, Oublier
  <2>1. \A d \in Clients : pc'[d] = "jeton" => Valide(d)'
    BY <1>2 DEF Evaluer, Oublier, JetonInv, JetonATemps, TypeInv, TypeOK, Valide, Echeance
  <2>2. \A d \in Clients : pc'[d] \in {"tient", "ecrit"}
                           => pc'[d] = pc[d] /\ (Valide(d)' => Valide(d))
    BY <1>2 DEF Evaluer, Oublier, TypeInv, TypeOK, Valide, Echeance
  <2>3. \A d \in Clients : pc[d] \in {"ecrit", "fini"} => pc'[d] \in {"ecrit", "fini"}
    BY <1>2 DEF Evaluer, Oublier, TypeInv, TypeOK
  <2> QED
    BY <2>0, <2>1, <2>2, <2>3, JetonDunPas
<1>3. ASSUME NEW c \in Clients, TirerJeton(c)
      PROVE  JetonInv'
  <2>0. /\ \A d \in Clients : fencing[d] \in Nat /\ fencing[d] <= fencing_counter
        /\ fencing_counter \in Nat /\ dernier_token \in Nat
    BY DEF TypeInv, TypeOK, JetonInv, JetonsTires
  <2>1. /\ pc[c] = "jeton" /\ pc' = [pc EXCEPT ![c] = "tient"]
        /\ fencing' = [fencing EXCEPT ![c] = fencing_counter + 1]
        /\ fencing_counter' = fencing_counter + 1
        /\ UNCHANGED <<temps, debut, dernier_token, rejetes>>
    BY <1>3 DEF TirerJeton, JetonSuivant
  <2>2. fencing'[c] = fencing_counter + 1 /\ pc'[c] = "tient"
    BY <2>1 DEF TypeInv, TypeOK
  <2>3. \A d \in Clients : d # c => fencing'[d] = fencing[d] /\ pc'[d] = pc[d]
    BY <2>1 DEF TypeInv, TypeOK
  <2>4. JetonsTires'
    BY <2>0, <2>1, <2>2, <2>3 DEF JetonInv, JetonsTires
  <2>5. DernierEcrivain'
    BY <2>0, <2>1, <2>3 DEF JetonInv, DernierEcrivain
  <2>6. \A d \in Clients : Valide(d)' <=> Valide(d)
    BY <2>1 DEF Valide, Echeance
  <2>7. JetonATemps'
    BY <2>2, <2>3, <2>6 DEF JetonInv, JetonATemps
  <2>8. \A d \in Clients : d # c => ~(pc[d] \in {"tient", "ecrit"} /\ Valide(d))
    <3>1. Detient(c)
      BY <2>1 DEF Detient, JetonInv, JetonATemps
    <3> QED
      BY <3>1, UnSeulDetenteur DEF ExclusionMutuelle, Detient
  <2>9. JetonLePlusRecent'
    <3> SUFFICES ASSUME NEW d \in Clients, NEW e \in Clients,
                        pc'[d] \in {"tient", "ecrit"}, Valide(d)', d # e
                 PROVE  fencing'[e] < fencing'[d]
      BY DEF JetonLePlusRecent
    <3>1. d = c
      BY <2>3, <2>6, <2>8
    <3> QED
      BY <2>0, <2>2, <2>3, <3>1
  <2> QED
    BY <2>4, <2>5, <2>7, <2>9 DEF JetonInv
<1>4. ASSUME NEW c \in Clients, Ecrire(c)
      PROVE  JetonInv'
  <2>1. /\ pc[c] = "tient" /\ pc' = [pc EXCEPT ![c] = "ecrit"]
        /\ rejetes' \subseteq rejetes \union {c}
        /\ dernier_token' \in {dernier_token, fencing[c]}
        /\ UNCHANGED <<temps, debut, fencing, fencing_counter>>
    BY <1>4 DEF Ecrire
  <2>2. /\ pc'[c] = "ecrit" /\ \A d \in Clients : d # c => pc'[d] = pc[d]
    BY <2>1 DEF TypeInv, TypeOK
  <2>3. JetonsTires'
    BY <2>1, <2>2 DEF JetonInv, JetonsTires
  <2>4. DernierEcrivain'
    BY <2>1, <2>2 DEF JetonInv, DernierEcrivain
  <2>5. JetonATemps'
    BY <2>1, <2>2 DEF JetonInv, JetonATemps, Valide, Echeance
  <2>6. JetonLePlusRecent'
    BY <2>1, <2>2 DEF JetonInv, JetonLePlusRecent, Valide, Echeance
  <2> QED
    BY <2>3, <2>4, <2>5, <2>6 DEF JetonInv
<1>5. ASSUME NEW c \in Clients, Liberer(c)
      PROVE  JetonInv'
  <2>0. UNCHANGED <<fencing_counter, fencing, dernier_token, rejetes>>
    BY <1>5 DEF Liberer, Oublier
  <2>1. \A d \in Clients : pc'[d] = "jeton" => Valide(d)'
    BY <1>5 DEF Liberer, Oublier, JetonInv, JetonATemps, TypeInv, TypeOK, Valide, Echeance
  <2>2. \A d \in Clients : pc'[d] \in {"tient", "ecrit"}
                           => pc'[d] = pc[d] /\ (Valide(d)' => Valide(d))
    BY <1>5 DEF Liberer, Oublier, TypeInv, TypeOK, Valide, Echeance
  <2>3. \A d \in Clients : pc[d] \in {"ecrit", "fini"} => pc'[d] \in {"ecrit", "fini"}
    BY <1>5 DEF Liberer, Oublier, TypeInv, TypeOK
  <2> QED
    BY <2>0, <2>1, <2>2, <2>3, JetonDunPas
<1>6. ASSUME UNCHANGED <<temps, pc, debut, fencing_counter, fencing, ressource>>
      PROVE  JetonInv'
  <2>1. \A d \in Clients : Valide(d)' <=> Valide(d)
    BY <1>6 DEF Valide, Echeance
  <2> QED
    BY <1>6, <2>1 DEF JetonInv, JetonsTires, DernierEcrivain, JetonATemps,
                      JetonLePlusRecent
<1>7. ASSUME NEW k \in Jetons, NEW i \in Instances,
             AdmettreSet(k, i) \/ SetNX(k, i) \/ AdmettreRelease(k, i) \/ Release(k, i)
      PROVE  JetonInv'
  BY <1>6, <1>7 DEF AdmettreSet, SetNX, AdmettreRelease, Release
<1>8. ASSUME NEW i \in Instances, Tomber(i) \/ FinPause(i) \/ Redemarrer(i)
      PROVE  JetonInv'
  BY <1>6, <1>8 DEF Tomber, FinPause, Redemarrer
<1>9. CASE Passer
  <2>0. temps' = temps + 1 /\ temps \in Nat
    BY <1>9 DEF Passer, TypeInv, TypeOK
  <2>1. \A c \in Clients : Valide(c)' => Valide(c)
    BY <1>0, <1>9, <2>0 DEF Passer, Valide, Echeance, TypeInv, TypeOK
  <2>2. \A c \in Clients : pc[c] # "jeton"
    BY <1>9 DEF Passer
  <2> QED
    BY <1>9, <2>1, <2>2, JetonDunPas DEF Passer
<1>10. CASE UNCHANGED vars
  BY <1>6, <1>10 DEF vars
<1> QED
  BY <1>1, <1>2, <1>3, <1>4, <1>5, <1>7, <1>8, <1>9, <1>10 DEF Next

\* With the newest token, a valid holder that writes is not turned away.
LEMMA EcritureAcceptee ==
    ASSUME "deux_ecritures" \notin Permis, TypeInv, JetonInv,
           NEW c \in Clients, Ecrire(c), Detient(c)
    PROVE  c \notin rejetes'
<1>1. pc[c] = "tient" /\ Valide(c)
  BY DEF Ecrire, Detient
<1>2. c \notin rejetes /\ fencing[c] >= 1
  BY <1>1 DEF JetonInv, JetonsTires
<1>3. ~(fencing[c] <= dernier_token)
  <2>1. CASE dernier_token = 0
    BY <1>2, <2>1 DEF TypeInv, TypeOK
  <2>2. ASSUME NEW d \in Clients, pc[d] \in {"ecrit", "fini"}, dernier_token = fencing[d]
        PROVE  ~(fencing[c] <= dernier_token)
    <3>1. fencing[d] < fencing[c]
      BY <1>1, <2>2 DEF JetonInv, JetonLePlusRecent
    <3> QED
      BY <2>2, <3>1 DEF TypeInv, TypeOK
  <2> QED
    BY <2>1, <2>2 DEF JetonInv, DernierEcrivain
<1> QED
  BY <1>2, <1>3 DEF Ecrire

-----------------------------------------------------------------------------
\* The variables keep their types, whatever Permis allows.
THEOREM TypeCorrect ==
    ASSUME RedlockAssumption
    PROVE  Spec => []TypeOK
<1>1. Init => TypeInv
  BY TypeInit
<1>2. TypeInv /\ [Next]_vars => TypeInv'
  BY TypePas
<1>3. TypeInv => TypeOK
  BY DEF TypeInv
<1> QED
  BY <1>1, <1>2, <1>3, PTL DEF Spec

\* What the exclusion rests on: the keys that an attempt counted stay in their
\* stores while its validity time runs, however late the calls are.
THEOREM ClesInvCorrect ==
    ASSUME RedlockAssumption, "redemarrage" \notin Permis
    PROVE  Spec => [](TypeInv /\ ClesInv)
<1>1. Init => TypeInv /\ ClesInv
  BY TypeInit, ClesInit
<1>2. TypeInv /\ ClesInv /\ [Next]_vars => (TypeInv /\ ClesInv)'
  BY TypePas, ClesPas
<1> QED
  BY <1>1, <1>2, PTL DEF Spec

\* "empecher deux services d'acceder a la meme ressource en meme temps", for
\* any number of instances that stop and pause, unless one restarts empty.
THEOREM ExclusionMutuelleCorrect ==
    ASSUME RedlockAssumption, "redemarrage" \notin Permis
    PROVE  Spec => []ExclusionMutuelle
<1>1. Spec => [](TypeInv /\ ClesInv)
  BY ClesInvCorrect
<1>2. TypeInv /\ ClesInv => ExclusionMutuelle
  BY UnSeulDetenteur
<1> QED
  BY <1>1, <1>2, PTL

\* A holder's keys are in the stores of the instances that granted them for at
\* least its validity time, under the same condition.
THEOREM ClesDuDetenteurCorrect ==
    ASSUME RedlockAssumption, "redemarrage" \notin Permis
    PROVE  Spec => []ClesDuDetenteur
<1>1. Spec => [](TypeInv /\ ClesInv)
  BY ClesInvCorrect
<1>2. TypeInv /\ ClesInv => ClesDuDetenteur
  BY ClesTenues
<1> QED
  BY <1>1, <1>2, PTL

\* "la derniere ecriture valide gagne": the resource accepts the write of a
\* valid holder, if clients do not pause before their token nor write twice.
THEOREM EcritureValideAccepteeCorrect ==
    ASSUME RedlockAssumption, "redemarrage" \notin Permis,
           "pause_jeton" \notin Permis, "deux_ecritures" \notin Permis
    PROVE  Spec => EcritureValideAcceptee
<1>1. Init => TypeInv /\ ClesInv /\ JetonInv
  BY TypeInit, ClesInit, JetonInit
<1>2. TypeInv /\ ClesInv /\ JetonInv /\ [Next]_vars => (TypeInv /\ ClesInv /\ JetonInv)'
  BY TypePas, ClesPas, JetonPas
<1>3. TypeInv /\ JetonInv
        => [\A c \in Clients : Ecrire(c) /\ Detient(c) => c \notin rejetes']_vars
  BY EcritureAcceptee
<1> QED
  BY <1>1, <1>2, <1>3, PTL DEF Spec, EcritureValideAcceptee

=============================================================================
