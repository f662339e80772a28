------------------------------ MODULE Redlock -------------------------------
(***************************************************************************)
(* The lock of jour15-redlock/redlock.py over independent instances:       *)
(* InstanceRedis, ClientRedlock, RessourceProtegee, for one resource and   *)
(* one call of acquerir() by each client.                                  *)
(*                                                                         *)
(* Every SET and every release is a thread that nobody cancels: it tests   *)
(* _actif, sleeps, and takes effect whenever it wakes up.  Time is one     *)
(* discrete clock, since every duration is measured in one process; retry  *)
(* delays are time passing.  Locals are reset when their call returns.     *)
(* An instance that never stops passes the test at once: it has no step.   *)
(*                                                                         *)
(* Permis says what happens to the processes:                              *)
(*   "redemarrage"    an instance restarts, its keys lost                  *)
(*   "pause_jeton"    a client pauses before it draws its fencing token    *)
(*   "deux_ecritures" a holder writes more than once                       *)
(***************************************************************************)
EXTENDS Integers, FiniteSets

CONSTANTS Clients, Instances,
          TTL,          \* ttl_ms
          Derive,       \* the margin for clock drift, in the same unit
          RetryCount,   \* retry_count
          Fragiles,     \* the instances that stop and pause
          Personne,     \* no key in the store
          Permis,
          MaxTemps      \* bound: the clock stops there

\* The uuid of an attempt.
Jetons == Clients \X (1..RetryCount)

\* InstanceRedis._store[resource].
Cles == [jeton : Jetons, expire : Nat]

\* What the constants are.
RedlockAssumption ==
    /\ IsFiniteSet(Instances)
    /\ TTL \in Nat \ {0} /\ Derive \in Nat
    /\ RetryCount \in Nat \ {0}
    /\ MaxTemps \in Nat
    /\ Fragiles \subseteq Instances
    /\ Personne \notin Cles

VARIABLES
    temps,
    actif,          \* InstanceRedis._actif
    store,          \* InstanceRedis._store: [jeton, expire] or Personne
    pc,             \* where the client is
    essai,          \* the attempts begun
    debut,          \* t_debut of the current one
    sets,           \* <<jeton, instance>>: SET not yet begun
    sets_admis,     \* SET that found the instance up, and sleeps
    releases,       \* the same for releases
    releases_admis,
    accords,        \* instances_ok
    fencing_counter,
    fencing,        \* ResultatVerrou.fencing_token
    dernier_token,  \* RessourceProtegee._dernier_token
    rejetes         \* the clients whose last write was rejected

instances == <<actif, store>>
client    == <<pc, essai, debut, accords, fencing>>
appels    == <<sets, sets_admis, releases, releases_admis>>
ressource == <<dernier_token, rejetes>>
vars == <<temps, instances, client, appels, fencing_counter, ressource>>

Jeton(c) == <<c, essai[c]>>

\* Mutant: N // 2.
Quorum_Moins(s) == Cardinality(s) >= Cardinality(Instances) \div 2

\* quorum = N // 2 + 1.
Quorum(s) == Cardinality(s) >= Cardinality(Instances) \div 2 + 1

-----------------------------------------------------------------------------
Init ==
    /\ temps = 0
    /\ actif = [i \in Instances |-> TRUE]
    /\ store = [i \in Instances |-> Personne]
    /\ pc = [c \in Clients |-> "repos"]
    /\ essai = [c \in Clients |-> 0]
    /\ debut = [c \in Clients |-> 0]
    /\ sets = {} /\ sets_admis = {}
    /\ releases = {} /\ releases_admis = {}
    /\ accords = [c \in Clients |-> {}]
    /\ fencing_counter = 0
    /\ fencing = [c \in Clients |-> 0]
    /\ dernier_token = 0
    /\ rejetes = {}

\* acquerir: for tentative in range(retry_count).
EncoreUnEssai(c) == essai[c] < RetryCount

\* _tentative_acquisition: a SET to every instance.
Tenter(c) ==
    /\ pc[c] = "repos"
    /\ EncoreUnEssai(c)
    /\ pc' = [pc EXCEPT ![c] = "tentative"]
    /\ essai' = [essai EXCEPT ![c] = @ + 1]
    /\ debut' = [debut EXCEPT ![c] = temps]
    /\ sets' = sets \union {<<<<c, essai[c] + 1>>, i>> : i \in Fragiles}
    /\ sets_admis' = sets_admis
                     \union {<<<<c, essai[c] + 1>>, i>> : i \in Instances \ Fragiles}
    /\ UNCHANGED <<temps, instances, releases, releases_admis,
                   accords, fencing_counter, fencing, ressource>>

\* set_nx_px: if not self._actif.
AdmettreSet(k, i) ==
    /\ <<k, i>> \in sets
    /\ sets' = sets \ {<<k, i>>}
    /\ sets_admis' = IF actif[i] THEN sets_admis \union {<<k, i>>} ELSE sets_admis
    /\ UNCHANGED <<temps, instances, client, releases, releases_admis,
                   fencing_counter, ressource>>

\* _expirer, then NX.
Libre(i) == store[i] # Personne => store[i].expire <= temps

Accepte(i) == Libre(i)

\* set_nx_px after its sleep, and tenter_instance.  An answer that comes after
\* the attempt was evaluated goes to a list nobody reads any more.
SetNX(k, i) ==
    /\ <<k, i>> \in sets_admis
    /\ sets_admis' = sets_admis \ {<<k, i>>}
    /\ IF Accepte(i)
       THEN /\ store' = [store EXCEPT ![i] = [jeton |-> k, expire |-> temps + TTL]]
            /\ accords' = IF pc[k[1]] = "tentative" /\ Jeton(k[1]) = k
                          THEN [accords EXCEPT ![k[1]] = @ \union {i}]
                          ELSE accords
       ELSE UNCHANGED <<store, accords>>
    /\ UNCHANGED <<temps, actif, pc, essai, debut, fencing, sets, releases,
                   releases_admis, fencing_counter, ressource>>

\* validity_ms > 0.
Echeance(c) == debut[c] + TTL - Derive
Valide(c) == temps < Echeance(c)

\* The joins end when every thread has, or at the latest ttl_ms after.
Reponses(c) ==
    \/ \A i \in Instances : <<Jeton(c), i>> \notin sets \union sets_admis
    \/ temps >= debut[c] + TTL

LibererPartout(c) ==
    /\ releases' = releases \union {<<Jeton(c), i>> : i \in Fragiles}
    /\ releases_admis' = releases_admis
                         \union {<<Jeton(c), i>> : i \in Instances \ Fragiles}

\* The locals of an attempt that is over.
Oublier(c) ==
    /\ debut' = [debut EXCEPT ![c] = 0]
    /\ accords' = [accords EXCEPT ![c] = {}]

\* _tentative_acquisition, once the threads are joined.
Evaluer(c) ==
    /\ pc[c] = "tentative"
    /\ Reponses(c)
    /\ IF Quorum(accords[c]) /\ Valide(c)
       THEN /\ pc' = [pc EXCEPT ![c] = "jeton"]
            /\ UNCHANGED <<releases, releases_admis, debut, accords>>
       ELSE /\ pc' = [pc EXCEPT ![c] = "repos"]
            /\ LibererPartout(c)
            /\ Oublier(c)
    /\ UNCHANGED <<temps, instances, essai, fencing, sets, sets_admis,
                   fencing_counter, ressource>>

\* Mutant: the counter is read and not incremented.
JetonSuivant_Fige == IF fencing_counter = 0 THEN 1 ELSE fencing_counter

JetonSuivant == fencing_counter + 1

\* _prochain_fencing_token, and acquerir returns.
TirerJeton(c) ==
    /\ pc[c] = "jeton"
    /\ fencing_counter' = JetonSuivant
    /\ fencing' = [fencing EXCEPT ![c] = fencing_counter']
    /\ pc' = [pc EXCEPT ![c] = "tient"]
    /\ UNCHANGED <<temps, instances, appels, essai, debut, accords, ressource>>

\* RessourceProtegee.ecrire: nothing checks that the lock is still valid.
Ecrire(c) ==
    /\ pc[c] = "tient" \/ (pc[c] = "ecrit" /\ "deux_ecritures" \in Permis)
    /\ pc' = [pc EXCEPT ![c] = "ecrit"]
    /\ IF fencing[c] <= dernier_token
       THEN rejetes' = rejetes \union {c} /\ UNCHANGED dernier_token
       ELSE dernier_token' = fencing[c] /\ UNCHANGED rejetes
    /\ UNCHANGED <<temps, instances, appels, essai, debut, accords, fencing,
                   fencing_counter>>

\* liberer.
Liberer(c) ==
    /\ pc[c] \in {"tient", "ecrit"}
    /\ pc' = [pc EXCEPT ![c] = "fini"]
    /\ LibererPartout(c)
    /\ Oublier(c)
    /\ UNCHANGED <<temps, instances, essai, fencing, sets, sets_admis,
                   fencing_counter, ressource>>

\* InstanceRedis.release: if not self._actif.
AdmettreRelease(k, i) ==
    /\ <<k, i>> \in releases
    /\ releases' = releases \ {<<k, i>>}
    /\ releases_admis' = IF actif[i] THEN releases_admis \union {<<k, i>>}
                         ELSE releases_admis
    /\ UNCHANGED <<temps, instances, client, sets, sets_admis, fencing_counter,
                   ressource>>

\* The key holds that token.
Tenue(k, i) == ~Libre(i) /\ store[i].jeton = k

\* InstanceRedis.release after its sleep.
Release(k, i) ==
    /\ <<k, i>> \in releases_admis
    /\ releases_admis' = releases_admis \ {<<k, i>>}
    /\ store' = IF Tenue(k, i) THEN [store EXCEPT ![i] = Personne] ELSE store
    /\ UNCHANGED <<temps, actif, client, sets, sets_admis, releases,
                   fencing_counter, ressource>>

-----------------------------------------------------------------------------
\* tomber, and the first half of simuler_gc_pause.
Tomber(i) ==
    /\ i \in Fragiles /\ actif[i]
    /\ actif' = [actif EXCEPT ![i] = FALSE]
    /\ UNCHANGED <<temps, store, client, appels, fencing_counter, ressource>>

\* The second half of simuler_gc_pause: the keys are still there.
FinPause(i) ==
    /\ ~actif[i]
    /\ actif' = [actif EXCEPT ![i] = TRUE]
    /\ UNCHANGED <<temps, store, client, appels, fencing_counter, ressource>>

\* redemarrer.  Without "redemarrage" in Permis, only once the key it had
\* granted has expired.
Redemarrer(i) ==
    /\ ~actif[i]
    /\ Libre(i) \/ "redemarrage" \in Permis
    /\ actif' = [actif EXCEPT ![i] = TRUE]
    /\ store' = [store EXCEPT ![i] = Personne]
    /\ UNCHANGED <<temps, client, appels, fencing_counter, ressource>>

Passer ==
    /\ temps < MaxTemps
    /\ (\E c \in Clients : pc[c] = "jeton") => "pause_jeton" \in Permis
    /\ temps' = temps + 1
    /\ UNCHANGED <<instances, client, appels, fencing_counter, ressource>>

Next ==
    \/ \E c \in Clients : \/ Tenter(c) \/ Evaluer(c) \/ TirerJeton(c)
                          \/ Ecrire(c) \/ Liberer(c)
    \/ \E k \in Jetons, i \in Instances : \/ AdmettreSet(k, i) \/ SetNX(k, i)
                                          \/ AdmettreRelease(k, i) \/ Release(k, i)
    \/ \E i \in Instances : Tomber(i) \/ FinPause(i) \/ Redemarrer(i)
    \/ Passer

Spec == Init /\ [][Next]_vars

-----------------------------------------------------------------------------
\* Type correctness.
TypeOK ==
    /\ temps \in Nat
    /\ actif \in [Instances -> BOOLEAN]
    /\ store \in [Instances -> Cles \union {Personne}]
    /\ pc \in [Clients -> {"repos", "tentative", "jeton", "tient", "ecrit", "fini"}]
    /\ essai \in [Clients -> 0..RetryCount]
    /\ debut \in [Clients -> Nat]
    /\ sets \subseteq Jetons \X Instances /\ sets_admis \subseteq Jetons \X Instances
    /\ releases \subseteq Jetons \X Instances
    /\ releases_admis \subseteq Jetons \X Instances
    /\ accords \in [Clients -> SUBSET Instances]
    /\ fencing_counter \in Nat
    /\ fencing \in [Clients -> Nat]
    /\ dernier_token \in Nat
    /\ rejetes \subseteq Clients

\* The client has the lock and its validity time is not over.
Detient(c) == pc[c] \in {"jeton", "tient", "ecrit"} /\ Valide(c)

\* "empecher deux services d'acceder a la meme ressource en meme temps": two
\* clients never hold the lock within its validity time, whatever instances
\* stop or pause, and however late a SET or a release gets there.
ExclusionMutuelle ==
    \A c, d \in Clients : Detient(c) /\ Detient(d) => c = d

\* What the exclusion rests on: a holder's keys are in the stores of the
\* instances that granted them, for at least its validity time.
ClesDuDetenteur ==
    \A c \in Clients : Detient(c) =>
        \A i \in accords[c] :
            /\ store[i] # Personne
            /\ store[i].jeton = Jeton(c)
            /\ store[i].expire >= Echeance(c)

\* "Le fencing token garantit que la derniere ecriture valide gagne quelle que
\* soit la temporisation reseau ou les pauses GC": the resource accepts the
\* write of a client whose lock is valid.
EcritureValideAcceptee ==
    [][\A c \in Clients : Ecrire(c) /\ Detient(c) => c \notin rejetes']_vars

\* "Si non : liberer le verrou sur TOUTES les instances (meme celles qui ont
\* echoue)": once a client has given up its attempts, or its lock, and every
\* release has been carried out, no instance is locked for it.
LiberationComplete ==
    \A c \in Clients, i \in Instances :
        /\ pc[c] \in {"repos", "fini"}
        /\ \A k \in Jetons : k[1] = c => <<k, i>> \notin releases \union releases_admis
        => Libre(i) \/ store[i].jeton[1] # c
=============================================================================
