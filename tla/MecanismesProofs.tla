-------------------------- MODULE MecanismesProofs --------------------------
(***************************************************************************)
(* What TLAPS proves, for every value of their constants, about the        *)
(* mechanisms of MCMecanismes: Idempotence, which the module extends,      *)
(* then, as instances, Kafka, VolDeTravail, Lamport, Saga, Cache and       *)
(* FileBornee. They share nothing but constants.                           *)
(*                                                                         *)
(* Idempotence, for every number of requests, keys and payloads, when      *)
(* neither the wait nor the TTL is shorter than the handler: the types,    *)
(* that the handler runs once for each life of a key's entry, and that     *)
(* every answer comes from an execution of the same key and payload.       *)
(*                                                                         *)
(* Kafka: the types; without retention, that what is below a committed     *)
(* offset was processed and that partitions are processed in order.        *)
(*                                                                         *)
(* VolDeTravail: that no task is in two places.                            *)
(*                                                                         *)
(* Lamport: the clock condition, the total order, the order of journals.   *)
(*                                                                         *)
(* Saga: that what was undone leaves nothing; of sagas that do not         *)
(* overlap, that all is done or nothing, in order.                         *)
(*                                                                         *)
(* Cache: that one thread recomputes a key; where keys are not written     *)
(* while they are read, that reads are fresh.                              *)
(*                                                                         *)
(* FileBornee: that no task is lost without being counted, that nobody     *)
(* sleeps in vain, what each strategy gives up.                            *)
(***************************************************************************)
EXTENDS Idempotence, Sequences, FiniteSetTheorems, SequenceTheorems,
        WellFoundedInduction, TLAPS

CONSTANTS NbPartitions, Consommateurs, MaxLot, PermisKafka, MaxMessages, MaxMouvements,
          Travaux, Ouvriers, PermisVol, Programmes, Sagas, Orchestrees, PermisSaga,
          Lecteurs, PermisCache, MaxVersion,
          Taches, capacite, Priorite, Strategies, PermisFile
VARIABLES journal, ecrits, offsets, membres, assignation, activite, a_lire, depuis, lot,
          faits, traites, mouvements,
          queues, choisie, position, a_voir, tenu, executees, ouvert,
          programme, fait, compteur, evenements, en_cours, messages, connus,
          entrees_saga, etat_saga, etape, etapes_ok, a_compenser, derniere,
          source, cache, invalide, ecriture, meneurs, lecteur, protege, voulue, lue,
          au_depart,
          strategie, file, tache, echeance, ouvrier, en_main, actif, comptes

\* What is proved about each: an instance with its own constants and variables.
K == INSTANCE Kafka WITH Permis <- PermisKafka
V == INSTANCE VolDeTravail WITH Permis <- PermisVol
L == INSTANCE Lamport
Sa == INSTANCE Saga WITH Permis <- PermisSaga, entrees <- entrees_saga
Ca == INSTANCE Cache WITH Permis <- PermisCache
Fi == INSTANCE FileBornee WITH Permis <- PermisFile

\* No timeout, no TTL that ends before the handler does.
Patient == Personne \notin Requetes /\ Permis = {}

-----------------------------------------------------------------------------
\* The inductive invariant.

\* An entry is of its key, and its event is there exactly while its request has
\* the handler to execute.
EntreesEnPlace ==
    \A k \in Cles :
        /\ store[k] # Personne =>
             /\ cle[store[k]] = k
             /\ EnCours(store[k]) => /\ pc[store[k]] \in {"execute", "marque"}
                                     /\ verrous[k] = store[k]
        /\ verrous[k] # Personne => verrous[k] = store[k] /\ EnCours(store[k])

\* Who executes has made the entry of its key.
ExecutantsReserves ==
    \A r \in Requetes : pc[r] \in {"execute", "marque"} => store[cle[r]] = r /\ EnCours(r)

\* An entry is complete once its own request has marked it.
EntreesMarquees ==
    \A r \in Requetes :
        /\ pc[r] = "marque" => issue[r] # "aucune"
        /\ issue[r] # "aucune" => pc[r] = "marque" \/ ~EnCours(r)
        /\ ~EnCours(r) => /\ issue[r] # "aucune"
                          /\ resultat[r] = r
                          /\ pc[r] \in Terminees

\* An event is set, and an entry gets old, after that.
SignalesMarques == \A r \in signales \union vieilles : ~EnCours(r)

\* Who waits, waits for the entry of its key, which stays.
AttentesFondees ==
    \A r \in Requetes : pc[r] = "attente" =>
        /\ objet[r] \in Requetes \ vieilles
        /\ store[cle[r]] = objet[r]
        /\ MemePayload(r, objet[r])

RejeuxFondes ==
    \A r \in Requetes : pc[r] = "rejeu" =>
        /\ objet[r] \in Requetes
        /\ ~EnCours(objet[r])
        /\ cle[objet[r]] = cle[r]
        /\ MemePayload(r, objet[r])

Executantes(k) == {r \in Requetes : cle[r] = k /\ Execution(r)}

\* The executions of a key: one for the entry that is there, and one for every
\* entry that has expired.
ExecutionsComptees ==
    \A k \in Cles :
        /\ IsFiniteSet(Executantes(k))
        /\ Cardinality(Executantes(k))
             = expirations[k] + (IF store[k] = Personne THEN 0 ELSE 1)

Arguments == cle \in [Requetes -> Cles] /\ payload \in [Requetes -> Payloads]

Inv == /\ TypeOK /\ Arguments
       /\ EntreesEnPlace /\ ExecutantsReserves /\ EntreesMarquees
       /\ SignalesMarques /\ AttentesFondees /\ RejeuxFondes
       /\ ReponseFidele /\ ExecutionsComptees

-----------------------------------------------------------------------------
\* What _nettoyer_expires leaves: expired entries are complete, so that no event
\* goes with them, and nobody executes or waits for them.
LEMMA Nettoyage ==
    ASSUME Patient, Inv
    PROVE  /\ Nettoye(store) \in [Cles -> Requetes \union {Personne}]
           /\ Nettoye(verrous) = verrous
           /\ \A k \in Cles :
                /\ k \in Expirees => /\ store[k] \in Requetes
                                     /\ ~EnCours(store[k])
                                     /\ Nettoye(store)[k] = Personne
                /\ k \notin Expirees => Nettoye(store)[k] = store[k]
           /\ \A r \in Requetes :
                pc[r] \in {"execute", "marque", "attente"} => cle[r] \notin Expirees
<1>. USE DEF Patient
<1>1. \A k \in Cles : k \in Expirees => store[k] \in Requetes /\ ~EnCours(store[k])
  BY DEF Inv, TypeOK, SignalesMarques, Expirees
<1>2. \A k \in Cles : k \in Expirees => verrous[k] = Personne
  BY <1>1 DEF Inv, EntreesEnPlace
<1>3. Nettoye(verrous) = verrous
  BY <1>2 DEF Inv, TypeOK, Nettoye
<1>4. \A r \in Requetes :
        pc[r] \in {"execute", "marque"} => cle[r] \notin Expirees
  BY <1>1 DEF Inv, Arguments, ExecutantsReserves
<1>5. \A r \in Requetes : pc[r] = "attente" => cle[r] \notin Expirees
  BY DEF Inv, AttentesFondees, Expirees
<1>6. \A k \in Cles : /\ k \in Expirees => Nettoye(store)[k] = Personne
                      /\ k \notin Expirees => Nettoye(store)[k] = store[k]
  BY DEF Nettoye
<1>7. Nettoye(store) \in [Cles -> Requetes \union {Personne}]
  BY DEF Inv, TypeOK, Nettoye
<1> QED
  BY <1>1, <1>3, <1>4, <1>5, <1>6, <1>7

\* What the cleaning counts: an expired entry moves from the store to the count.
LEMMA Comptage ==
    ASSUME Patient, Inv, Compter, NEW k \in Cles
    PROVE  /\ expirations' \in [Cles -> Nat]
           /\ Cardinality(Executantes(k))
                = expirations'[k] + (IF Nettoye(store)[k] = Personne THEN 0 ELSE 1)
<1>1. expirations' \in [Cles -> Nat]
  BY DEF Inv, TypeOK, Compter
<1>2. expirations[k] \in Nat
  BY DEF Inv, TypeOK
<1>3. Cardinality(Executantes(k)) = expirations[k] + (IF store[k] = Personne THEN 0 ELSE 1)
  BY DEF Inv, ExecutionsComptees
<1>4. CASE k \in Expirees
  <2>1. store[k] # Personne /\ Nettoye(store)[k] = Personne
    BY <1>4, Nettoyage DEF Patient
  <2>2. expirations'[k] = expirations[k] + 1
    BY <1>4 DEF Compter
  <2> QED
    BY <1>1, <1>2, <1>3, <2>1, <2>2
<1>5. CASE k \notin Expirees
  <2>1. Nettoye(store)[k] = store[k]
    BY <1>5, Nettoyage
  <2>2. expirations'[k] = expirations[k]
    BY <1>5 DEF Compter
  <2> QED
    BY <1>1, <1>3, <2>1, <2>2
<1> QED
  BY <1>4, <1>5

LEMMA InvInit ==
    ASSUME Patient, Init
    PROVE  Inv
<1>. USE DEF Patient, Init
<1>1. TypeOK /\ Arguments
  BY DEF TypeOK, Arguments, Terminees
<1>2. /\ EntreesEnPlace /\ ExecutantsReserves /\ EntreesMarquees
      /\ SignalesMarques /\ AttentesFondees /\ RejeuxFondes /\ ReponseFidele
  BY DEF EntreesEnPlace, ExecutantsReserves, EntreesMarquees, SignalesMarques,
         AttentesFondees, RejeuxFondes, ReponseFidele, EnCours
<1>3. ExecutionsComptees
  <2>1. \A k \in Cles : Executantes(k) = {}
    BY DEF Executantes, Execution
  <2> QED
    BY <2>1, FS_EmptySet DEF ExecutionsComptees
<1> QED
  BY <1>1, <1>2, <1>3 DEF Inv

\* Reserver: no entry of that key is there, so nobody executes or waits for it.
LEMMA InvReserver ==
    ASSUME Patient, Inv, NEW r \in Requetes, Reserver(r)
    PROVE  Inv'
<1>. USE DEF Patient
<1>0. TypeOK /\ Arguments
  BY DEF Inv
<1>1. /\ cle[r] \in Cles /\ pc[r] = "appel"
      /\ Nettoye(store)[cle[r]] = Personne
      /\ pc' = [pc EXCEPT ![r] = "execute"]
      /\ store' = [Nettoye(store) EXCEPT ![cle[r]] = r]
      /\ verrous' = [verrous EXCEPT ![cle[r]] = r]
  BY <1>0, Nettoyage DEF Arguments, Reserver, Nouvelle, Aller
<1>2. UNCHANGED <<signales, vieilles, statut, resultat, cle, payload, objet, issue,
                  reponse>>
  BY DEF Reserver, entrees, arguments
<1>3. EnCours(r) /\ issue[r] = "aucune"
  BY <1>0, <1>1 DEF Inv, EntreesMarquees, Terminees
<1>4. \A q \in Requetes : pc[q] \in {"execute", "marque", "attente"} => cle[q] # cle[r]
  <2> SUFFICES ASSUME NEW q \in Requetes, pc[q] \in {"execute", "marque", "attente"},
                      cle[q] = cle[r]
               PROVE  FALSE
    OBVIOUS
  <2>1. store[cle[q]] = Personne
    BY <1>1, Nettoyage
  <2> QED
    BY <2>1 DEF Inv, ExecutantsReserves, AttentesFondees
<1>5. TypeOK' /\ Arguments'
  <2>1. expirations' \in [Cles -> Nat]
    BY Comptage, <1>1 DEF Reserver
  <2>2. store' \in [Cles -> Requetes \union {Personne}]
    BY <1>1, Nettoyage
  <2> QED
    BY <1>0, <1>1, <1>2, <2>1, <2>2 DEF TypeOK, Arguments
<1>6. EntreesEnPlace'
  <2> SUFFICES ASSUME NEW k \in Cles
               PROVE  /\ store'[k] # Personne =>
                           /\ cle[store'[k]] = k
                           /\ statut[store'[k]] = "EN_COURS" =>
                                /\ pc'[store'[k]] \in {"execute", "marque"}
                                /\ verrous'[k] = store'[k]
                      /\ verrous'[k] # Personne =>
                           verrous'[k] = store'[k] /\ statut[store'[k]] = "EN_COURS"
    BY <1>2 DEF EntreesEnPlace, EnCours
  <2>1. CASE k = cle[r]
    BY <2>1, <1>0, <1>1, <1>3, Nettoyage DEF TypeOK, EnCours
  <2>2. CASE k # cle[r]
    <3>1. store'[k] = Nettoye(store)[k] /\ verrous'[k] = verrous[k]
      BY <2>2, <1>0, <1>1, Nettoyage DEF TypeOK
    <3>2. CASE k \in Expirees
      <4>1. store'[k] = Personne /\ ~EnCours(store[k])
        BY <3>1, <3>2, Nettoyage
      <4> QED
        BY <3>1, <4>1 DEF Inv, EntreesEnPlace
    <3>3. CASE k \notin Expirees
      <4>1. store'[k] = store[k]
        BY <3>1, <3>3, Nettoyage
      <4>2. store[k] # Personne => store[k] \in Requetes \ {r}
        BY <1>0, <2>2 DEF TypeOK, Inv, EntreesEnPlace
      <4>3. store[k] # Personne => pc'[store[k]] = pc[store[k]]
        BY <1>0, <1>1, <4>2 DEF TypeOK
      <4> QED
        BY <3>1, <4>1, <4>3 DEF Inv, EntreesEnPlace, EnCours
    <3> QED
      BY <3>2, <3>3
  <2> QED
    BY <2>1, <2>2
<1>7. ExecutantsReserves'
  <2> SUFFICES ASSUME NEW q \in Requetes, pc'[q] \in {"execute", "marque"}
               PROVE  store'[cle[q]] = q /\ EnCours(q)
    BY <1>2 DEF ExecutantsReserves, EnCours
  <2>1. CASE q = r
    BY <2>1, <1>1, <1>3, Nettoyage
  <2>2. CASE q # r
    <3>1. pc[q] \in {"execute", "marque"}
      BY <2>2, <1>0, <1>1 DEF TypeOK
    <3>2. cle[q] \in Cles /\ cle[q] # cle[r]
      BY <3>1, <1>0, <1>4 DEF Arguments
    <3>3. store'[cle[q]] = store[cle[q]]
      BY <3>1, <3>2, <1>1, Nettoyage
    <3> QED
      BY <3>1, <3>3 DEF Inv, ExecutantsReserves
  <2> QED
    BY <2>1, <2>2
<1>8. EntreesMarquees' /\ SignalesMarques'
  BY <1>0, <1>1, <1>2, <1>3 DEF Inv, EntreesMarquees, SignalesMarques, EnCours, TypeOK
<1>9. AttentesFondees'
  <2> SUFFICES ASSUME NEW q \in Requetes, pc'[q] = "attente"
               PROVE  /\ objet[q] \in Requetes \ vieilles
                      /\ store'[cle[q]] = objet[q]
                      /\ MemePayload(q, objet[q])
    BY <1>2 DEF AttentesFondees, MemePayload
  <2>1. pc[q] = "attente"
    BY <1>0, <1>1 DEF TypeOK
  <2>2. cle[q] \in Cles /\ cle[q] # cle[r]
    BY <2>1, <1>0, <1>4 DEF Arguments
  <2>3. store'[cle[q]] = store[cle[q]]
    BY <2>1, <2>2, <1>1, Nettoyage
  <2> QED
    BY <2>1, <2>3 DEF Inv, AttentesFondees
<1>10. RejeuxFondes' /\ ReponseFidele'
  BY <1>0, <1>1, <1>2 DEF Inv, RejeuxFondes, ReponseFidele, EnCours, MemePayload, TypeOK
<1>11. ExecutionsComptees'
  <2> SUFFICES ASSUME NEW k \in Cles
               PROVE  /\ IsFiniteSet(Executantes(k)')
                      /\ Cardinality(Executantes(k)')
                           = expirations'[k] + (IF store'[k] = Personne THEN 0 ELSE 1)
    BY DEF ExecutionsComptees
  <2>1. IsFiniteSet(Executantes(k))
    BY DEF Inv, ExecutionsComptees
  <2>2. /\ expirations'[k] \in Nat
        /\ Cardinality(Executantes(k))
             = expirations'[k] + (IF Nettoye(store)[k] = Personne THEN 0 ELSE 1)
    BY Comptage DEF Reserver
  <2>3. CASE k = cle[r]
    <3>1. Executantes(k)' = Executantes(k) \union {r}
      BY <2>3, <1>0, <1>1, <1>2 DEF Executantes, Execution, TypeOK
    <3>2. r \notin Executantes(k)
      BY <1>1, <1>3 DEF Executantes, Execution
    <3>3. store'[k] = r
      BY <2>3, <1>1, Nettoyage
    <3> QED
      BY <2>1, <2>2, <2>3, <3>1, <3>2, <3>3, <1>1, FS_AddElement
  <2>4. CASE k # cle[r]
    <3>1. Executantes(k)' = Executantes(k)
      BY <2>4, <1>0, <1>1, <1>2 DEF Executantes, Execution, TypeOK
    <3>2. store'[k] = Nettoye(store)[k]
      BY <2>4, <1>1, Nettoyage
    <3> QED
      BY <2>1, <2>2, <3>1, <3>2
  <2> QED
    BY <2>3, <2>4
<1> QED
  BY <1>5, <1>6, <1>7, <1>8, <1>9, <1>10, <1>11 DEF Inv

\* Retrouver: the entry that is there, complete or not, has not expired; while it is
\* not complete it has its event, so that nobody executes for want of one.
LEMMA InvRetrouver ==
    ASSUME Patient, Inv, NEW r \in Requetes, Retrouver(r)
    PROVE  Inv'
<1>. USE DEF Patient
<1>. DEFINE e == store[cle[r]]
<1>0. TypeOK /\ Arguments
  BY DEF Inv
<1>1. /\ cle[r] \in Cles /\ cle[r] \notin Expirees /\ pc[r] = "appel"
      /\ e \in Requetes \ vieilles /\ cle[e] = cle[r]
      /\ EnCours(e) => verrous[cle[r]] = e
  <2>1. cle[r] \in Cles /\ pc[r] = "appel"
    BY <1>0 DEF Arguments, Retrouver
  <2>2. cle[r] \notin Expirees
    BY <2>1, Nettoyage DEF Retrouver, Nouvelle
  <2>3. e # Personne
    BY <2>1, <2>2, Nettoyage DEF Retrouver, Nouvelle
  <2> QED
    BY <2>1, <2>2, <2>3, <1>0 DEF TypeOK, Expirees, Inv, EntreesEnPlace
<1>2. /\ store' = Nettoye(store) /\ verrous' = verrous
      /\ UNCHANGED <<signales, vieilles, statut, resultat, cle, payload, issue, reponse>>
  BY Nettoyage DEF Retrouver, entrees, arguments
<1>3. /\ pc' \in [Requetes -> {"appel", "attente", "rejeu", "execute", "marque"}
                              \union Terminees]
      /\ objet' \in [Requetes -> Requetes \union {Personne}]
      /\ \A q \in Requetes \ {r} : pc'[q] = pc[q] /\ objet'[q] = objet[q]
      /\ \/ pc'[r] = "conflit"
         \/ pc'[r] = "rejeu" /\ objet'[r] = e /\ ~EnCours(e) /\ MemePayload(r, e)
         \/ pc'[r] = "attente" /\ objet'[r] = e /\ EnCours(e) /\ MemePayload(r, e)
  <2>1. CASE ~MemePayload(r, e)
    BY <2>1, <1>0, <1>1 DEF Retrouver, Aller, TypeOK, Terminees
  <2>2. CASE MemePayload(r, e) /\ ~EnCours(e)
    BY <2>2, <1>0, <1>1 DEF Retrouver, Aller, TypeOK
  <2>3. CASE MemePayload(r, e) /\ EnCours(e)
    BY <2>3, <1>0, <1>1 DEF Retrouver, Aller, TypeOK
  <2> QED
    BY <2>1, <2>2, <2>3
<1>4. \A q \in Requetes : pc[q] \in {"execute", "marque", "attente"} =>
                              cle[q] \in Cles /\ store'[cle[q]] = store[cle[q]]
  BY <1>0, <1>2, Nettoyage DEF Arguments
<1>5. TypeOK' /\ Arguments'
  <2>1. expirations' \in [Cles -> Nat]
    BY Comptage, <1>1 DEF Retrouver
  <2>2. store' \in [Cles -> Requetes \union {Personne}]
    BY <1>2, Nettoyage
  <2> QED
    BY <1>0, <1>2, <1>3, <2>1, <2>2 DEF TypeOK, Arguments
<1>6. EntreesEnPlace'
  <2> SUFFICES ASSUME NEW k \in Cles
               PROVE  /\ store'[k] # Personne =>
                           /\ cle[store'[k]] = k
                           /\ EnCours(store'[k]) =>
                                /\ pc'[store'[k]] \in {"execute", "marque"}
                                /\ verrous[k] = store'[k]
                      /\ verrous[k] # Personne => verrous[k] = store'[k] /\ EnCours(store'[k])
    BY <1>2 DEF EntreesEnPlace, EnCours
  <2>1. CASE k \in Expirees
    BY <2>1, <1>2, Nettoyage DEF Inv, EntreesEnPlace
  <2>2. CASE k \notin Expirees
    <3>1. store'[k] = store[k]
      BY <2>2, <1>2, Nettoyage
    <3>2. store[k] # Personne /\ EnCours(store[k]) =>
            store[k] \in Requetes /\ pc'[store[k]] = pc[store[k]]
      BY <1>0, <1>1, <1>3 DEF TypeOK, Inv, EntreesEnPlace
    <3> QED
      BY <3>1, <3>2 DEF Inv, EntreesEnPlace
  <2> QED
    BY <2>1, <2>2
<1>7. ExecutantsReserves'
  BY <1>2, <1>3, <1>4 DEF Inv, ExecutantsReserves, EnCours
<1>8. EntreesMarquees' /\ SignalesMarques'
  BY <1>0, <1>1, <1>2, <1>3
  DEF Inv, EntreesMarquees, SignalesMarques, EnCours, TypeOK, Terminees
<1>9. AttentesFondees'
  <2> SUFFICES ASSUME NEW q \in Requetes, pc'[q] = "attente"
               PROVE  /\ objet'[q] \in Requetes \ vieilles
                      /\ store'[cle[q]] = objet'[q]
                      /\ MemePayload(q, objet'[q])
    BY <1>2 DEF AttentesFondees, MemePayload
  <2>1. CASE q = r
    BY <2>1, <1>1, <1>2, <1>3, Nettoyage
  <2>2. CASE q # r
    BY <2>2, <1>3, <1>4 DEF Inv, AttentesFondees
  <2> QED
    BY <2>1, <2>2
<1>10. RejeuxFondes'
  <2> SUFFICES ASSUME NEW q \in Requetes, pc'[q] = "rejeu"
               PROVE  /\ objet'[q] \in Requetes /\ ~EnCours(objet'[q])
                      /\ cle[objet'[q]] = cle[q] /\ MemePayload(q, objet'[q])
    BY <1>2 DEF RejeuxFondes, EnCours, MemePayload
  <2>1. CASE q = r
    BY <2>1, <1>1, <1>3
  <2>2. CASE q # r
    BY <2>2, <1>3 DEF Inv, RejeuxFondes
  <2> QED
    BY <2>1, <2>2
<1>11. ReponseFidele'
  BY <1>2, <1>3 DEF Inv, ReponseFidele
<1>12. ExecutionsComptees'
  <2> SUFFICES ASSUME NEW k \in Cles
               PROVE  /\ IsFiniteSet(Executantes(k)')
                      /\ Cardinality(Executantes(k)')
                           = expirations'[k] + (IF store'[k] = Personne THEN 0 ELSE 1)
    BY DEF ExecutionsComptees
  <2>1. Executantes(k)' = Executantes(k)
    BY <1>1, <1>2, <1>3 DEF Executantes, Execution
  <2>2. IsFiniteSet(Executantes(k))
    BY DEF Inv, ExecutionsComptees
  <2> QED
    BY <2>1, <2>2, <1>2, Comptage DEF Retrouver
<1> QED
  BY <1>5, <1>6, <1>7, <1>8, <1>9, <1>10, <1>11, <1>12 DEF Inv

\* The count changes when an execution begins or an entry goes, only.
LEMMA ComptesInchanges ==
    ASSUME Inv, UNCHANGED <<cle, store, expirations>>,
           \A q \in Requetes : Execution(q)' = Execution(q)
    PROVE  ExecutionsComptees'
<1>1. \A k \in Cles : Executantes(k)' = Executantes(k)
  BY DEF Executantes
<1> QED
  BY <1>1 DEF Inv, ExecutionsComptees

\* Reveiller: the event is set, so that the entry is complete.
LEMMA InvReveiller ==
    ASSUME Patient, Inv, NEW r \in Requetes, Reveiller(r)
    PROVE  Inv'
<1>0. TypeOK /\ Arguments
  BY DEF Inv
<1>1. /\ objet[r] \in Requetes /\ store[cle[r]] = objet[r] /\ MemePayload(r, objet[r])
      /\ ~EnCours(objet[r]) /\ cle[r] \in Cles /\ pc[r] = "attente"
  BY <1>0
  DEF Patient, Reveiller, Inv, Arguments, AttentesFondees, SignalesMarques
<1>2. pc' = [pc EXCEPT ![r] = "rejeu"] /\ objet' = [objet EXCEPT ![r] = objet[r]]
  BY <1>1 DEF Patient, Reveiller, Aller
<1>3. UNCHANGED <<store, verrous, signales, vieilles, statut, resultat, cle, payload,
                  issue, reponse, expirations>>
  BY DEF Reveiller, entrees, arguments
<1>4. objet' = objet /\ cle[objet[r]] = cle[r]
  BY <1>0, <1>1, <1>2 DEF TypeOK, Patient, Inv, EntreesEnPlace
<1>5. TypeOK' /\ Arguments'
  BY <1>0, <1>2, <1>3, <1>4 DEF TypeOK, Arguments
<1>6. EntreesEnPlace'
  BY <1>0, <1>1, <1>2, <1>3 DEF Inv, EntreesEnPlace, EnCours, TypeOK
<1>7. ExecutantsReserves' /\ EntreesMarquees' /\ SignalesMarques'
  BY <1>0, <1>1, <1>2, <1>3
  DEF Inv, ExecutantsReserves, EntreesMarquees, SignalesMarques, EnCours, TypeOK, Terminees
<1>8. AttentesFondees' /\ RejeuxFondes' /\ ReponseFidele'
  BY <1>0, <1>1, <1>2, <1>3, <1>4
  DEF Inv, AttentesFondees, RejeuxFondes, ReponseFidele, EnCours, MemePayload, TypeOK
<1>9. ExecutionsComptees'
  BY <1>0, <1>1, <1>2, <1>3, ComptesInchanges DEF Execution, TypeOK
<1> QED
  BY <1>5, <1>6, <1>7, <1>8, <1>9 DEF Inv

\* Rejouer: the result of a complete entry is that of its own request.
LEMMA InvRejouer ==
    ASSUME Patient, Inv, NEW r \in Requetes, Rejouer(r)
    PROVE  Inv'
<1>0. TypeOK /\ Arguments
  BY DEF Inv
<1>. DEFINE e == objet[r]
<1>1. /\ pc[r] = "rejeu" /\ e \in Requetes /\ ~EnCours(e) /\ resultat[e] = e
      /\ issue[e] # "aucune" /\ cle[e] = cle[r] /\ payload[e] = payload[r]
  BY DEF Inv, RejeuxFondes, EntreesMarquees, MemePayload, Rejouer
<1>2. PICK fin \in {"fini", "erreur"} : pc' = [pc EXCEPT ![r] = fin]
  BY DEF Rejouer, Aller
<1>3. /\ reponse' = [reponse EXCEPT ![r] = e]
      /\ UNCHANGED <<store, verrous, signales, vieilles, statut, resultat, cle, payload,
                     objet, issue, expirations>>
  BY <1>1 DEF Rejouer, entrees, arguments
<1>4. EnCours(r) /\ issue[r] = "aucune"
  BY <1>0, <1>1 DEF Inv, EntreesMarquees, Terminees
<1>5. TypeOK' /\ Arguments'
  BY <1>0, <1>1, <1>2, <1>3 DEF TypeOK, Arguments, Terminees
<1>6. EntreesEnPlace'
  BY <1>0, <1>1, <1>2, <1>3 DEF Inv, EntreesEnPlace, EnCours, TypeOK
<1>7. ExecutantsReserves' /\ EntreesMarquees' /\ SignalesMarques'
  BY <1>0, <1>2, <1>3, <1>4
  DEF Inv, ExecutantsReserves, EntreesMarquees, SignalesMarques, EnCours, TypeOK, Terminees
<1>8. AttentesFondees' /\ RejeuxFondes'
  BY <1>0, <1>2, <1>3
  DEF Inv, AttentesFondees, RejeuxFondes, EnCours, MemePayload, TypeOK
<1>9. ReponseFidele'
  BY <1>0, <1>1, <1>2, <1>3 DEF Patient, Inv, ReponseFidele, TypeOK
<1>10. ExecutionsComptees'
  BY <1>0, <1>1, <1>2, <1>3, ComptesInchanges DEF Execution, TypeOK
<1> QED
  BY <1>5, <1>6, <1>7, <1>8, <1>9, <1>10 DEF Inv

\* Executer: the request was counted as executing already.
LEMMA InvExecuter ==
    ASSUME Patient, Inv, NEW r \in Requetes, Executer(r)
    PROVE  Inv'
<1>0. TypeOK /\ Arguments
  BY DEF Inv
<1>1. pc[r] = "execute" /\ pc' = [pc EXCEPT ![r] = "marque"] /\ EnCours(r)
  BY DEF Executer, Aller, Inv, ExecutantsReserves
<1>2. PICK i \in {"ok", "metier", "reseau"} : issue' = [issue EXCEPT ![r] = i]
  BY DEF Executer
<1>3. UNCHANGED <<store, verrous, signales, vieilles, statut, resultat, cle, payload,
                  objet, reponse, expirations>>
  BY DEF Executer, entrees, arguments
<1>4. TypeOK' /\ Arguments'
  BY <1>0, <1>1, <1>2, <1>3 DEF TypeOK, Arguments
<1>5. EntreesEnPlace'
  BY <1>0, <1>1, <1>3 DEF Inv, EntreesEnPlace, EnCours, TypeOK
<1>6. ExecutantsReserves' /\ EntreesMarquees' /\ SignalesMarques'
  BY <1>0, <1>1, <1>2, <1>3
  DEF Inv, ExecutantsReserves, EntreesMarquees, SignalesMarques, EnCours, TypeOK, Terminees
<1>7. AttentesFondees' /\ RejeuxFondes'
  BY <1>0, <1>1, <1>3
  DEF Inv, AttentesFondees, RejeuxFondes, EnCours, MemePayload, TypeOK
<1>8. ReponseFidele'
  BY <1>0, <1>1, <1>2, <1>3 DEF Inv, ReponseFidele, TypeOK
<1>9. ExecutionsComptees'
  BY <1>0, <1>1, <1>2, <1>3, ComptesInchanges DEF Execution, TypeOK
<1> QED
  BY <1>4, <1>5, <1>6, <1>7, <1>8, <1>9 DEF Inv

\* Marquer: the entry and the event that the key has by now are the request's own.
LEMMA InvMarquer ==
    ASSUME Patient, Inv, NEW r \in Requetes, Marquer(r)
    PROVE  Inv'
<1>0. TypeOK /\ Arguments
  BY DEF Inv
<1>1. /\ pc[r] = "marque" /\ store[cle[r]] = r /\ EnCours(r) /\ cle[r] \in Cles
      /\ verrous[cle[r]] = r /\ issue[r] # "aucune" /\ r # Personne
  BY <1>0
  DEF Patient, Marquer, Inv, Arguments, ExecutantsReserves, EntreesEnPlace, EntreesMarquees
<1>2. PICK etat \in {"COMPLETE", "ERREUR"} : statut' = [statut EXCEPT ![r] = etat]
  BY <1>1 DEF Marquer
<1>3. PICK fin \in {"fini", "erreur"} : pc' = [pc EXCEPT ![r] = fin]
  BY DEF Marquer, Aller
<1>4. /\ resultat' = [resultat EXCEPT ![r] = r]
      /\ signales' = signales \union {r}
      /\ verrous' = [verrous EXCEPT ![cle[r]] = Personne]
      /\ reponse' = [reponse EXCEPT ![r] = r]
      /\ UNCHANGED <<store, vieilles, cle, payload, objet, issue, expirations>>
  BY <1>1 DEF Marquer, Reveil, arguments
<1>5. TypeOK' /\ Arguments'
  BY <1>0, <1>1, <1>2, <1>3, <1>4 DEF TypeOK, Arguments, Terminees
<1>6. EntreesEnPlace'
  <2> SUFFICES ASSUME NEW k \in Cles
               PROVE  /\ store[k] # Personne =>
                           /\ cle[store[k]] = k
                           /\ statut'[store[k]] = "EN_COURS" =>
                                /\ pc'[store[k]] \in {"execute", "marque"}
                                /\ verrous'[k] = store[k]
                      /\ verrous'[k] # Personne =>
                           verrous'[k] = store[k] /\ statut'[store[k]] = "EN_COURS"
    BY <1>4 DEF EntreesEnPlace, EnCours
  <2>1. CASE k = cle[r]
    BY <2>1, <1>0, <1>1, <1>2, <1>4 DEF TypeOK
  <2>2. CASE k # cle[r]
    <3>1. verrous'[k] = verrous[k]
      BY <2>2, <1>0, <1>4 DEF TypeOK
    <3>2. store[k] # Personne => store[k] \in Requetes \ {r} /\ cle[store[k]] = k
      BY <2>2, <1>0 DEF TypeOK, Inv, EntreesEnPlace
    <3>3. store[k] # Personne => /\ statut'[store[k]] = statut[store[k]]
                                 /\ pc'[store[k]] = pc[store[k]]
      BY <3>2, <1>0, <1>2, <1>3 DEF TypeOK
    <3> QED
      BY <3>1, <3>2, <3>3 DEF Inv, EntreesEnPlace, EnCours
  <2> QED
    BY <2>1, <2>2
<1>7. ExecutantsReserves'
  BY <1>0, <1>1, <1>2, <1>3, <1>4 DEF Inv, ExecutantsReserves, EnCours, TypeOK
<1>8. EntreesMarquees' /\ SignalesMarques'
  BY <1>0, <1>1, <1>2, <1>3, <1>4
  DEF Inv, EntreesMarquees, SignalesMarques, EnCours, TypeOK, Terminees
<1>9. AttentesFondees' /\ RejeuxFondes'
  BY <1>0, <1>2, <1>3, <1>4
  DEF Inv, AttentesFondees, RejeuxFondes, EnCours, MemePayload, TypeOK
<1>10. ReponseFidele'
  BY <1>0, <1>1, <1>3, <1>4 DEF Inv, ReponseFidele, TypeOK
<1>11. ExecutionsComptees'
  BY <1>0, <1>1, <1>3, <1>4, ComptesInchanges DEF Execution, TypeOK
<1> QED
  BY <1>5, <1>6, <1>7, <1>8, <1>9, <1>10, <1>11 DEF Inv

\* Vieillir: without a TTL that is too short, only a complete entry that nobody
\* waits for gets old.
LEMMA InvVieillir ==
    ASSUME Patient, Inv, NEW k \in Cles, Vieillir(k)
    PROVE  Inv'
<1>1. /\ store[k] \in Requetes /\ ~EnCours(store[k])
      /\ \A r \in Requetes : cle[r] = k => pc[r] # "attente"
      /\ vieilles' = vieilles \union {store[k]}
      /\ UNCHANGED <<store, verrous, signales, statut, resultat, pc, cle, payload, objet,
                     issue, reponse, expirations>>
  BY DEF Patient, Vieillir, entrees, arguments
<1>2. /\ TypeOK' /\ Arguments' /\ EntreesEnPlace' /\ ExecutantsReserves'
      /\ EntreesMarquees' /\ SignalesMarques' /\ RejeuxFondes' /\ ReponseFidele'
  BY <1>1
  DEF Inv, TypeOK, Arguments, EntreesEnPlace, ExecutantsReserves, EntreesMarquees,
      SignalesMarques, RejeuxFondes, ReponseFidele, EnCours, MemePayload, Terminees
<1>3. AttentesFondees'
  BY <1>1 DEF Patient, Inv, Arguments, AttentesFondees, EntreesEnPlace, MemePayload
<1>4. ExecutionsComptees'
  BY <1>1, ComptesInchanges DEF Execution
<1> QED
  BY <1>2, <1>3, <1>4 DEF Inv

LEMMA InvStutter ==
    ASSUME Inv, UNCHANGED vars
    PROVE  Inv'
<1>1. UNCHANGED <<store, verrous, signales, vieilles, statut, resultat, pc, cle, payload,
                  objet, issue, reponse, expirations>>
  BY DEF vars, entrees, arguments
<1>2. ExecutionsComptees'
  BY <1>1, ComptesInchanges DEF Execution
<1> QED
  BY <1>1, <1>2
  DEF Inv, TypeOK, Arguments, EntreesEnPlace, ExecutantsReserves, EntreesMarquees,
      SignalesMarques, AttentesFondees, RejeuxFondes, ReponseFidele, EnCours,
      MemePayload, Terminees

LEMMA InvNext ==
    ASSUME Patient, Inv, [Next]_vars
    PROVE  Inv'
<1>1. ASSUME NEW r \in Requetes, Etape(r)
      PROVE  Inv'
  BY <1>1, InvReserver, InvRetrouver, InvReveiller, InvRejouer, InvExecuter, InvMarquer
  DEF Etape
<1>2. ASSUME NEW k \in Cles, Vieillir(k)
      PROVE  Inv'
  BY <1>2, InvVieillir
<1>3. ASSUME Fin \/ UNCHANGED vars
      PROVE  Inv'
  BY <1>3, InvStutter DEF Fin
<1> QED
  BY <1>1, <1>2, <1>3 DEF Next

LEMMA InvCorrect ==
    ASSUME Patient
    PROVE  Spec => []Inv
<1>1. Init => Inv
  BY InvInit
<1>2. Inv /\ [Next]_vars => Inv'
  BY InvNext
<1> QED
  BY <1>1, <1>2, PTL DEF Spec

-----------------------------------------------------------------------------
\* Every reachable state is typed.
THEOREM TypeCorrect ==
    ASSUME Patient
    PROVE  Spec => []TypeOK
<1>1. Inv => TypeOK
  BY DEF Inv
<1> QED
  BY <1>1, InvCorrect, PTL

\* The handler runs once for a key, and once more for every entry of that key that
\* has expired, however requests meet.
THEOREM SansDoublonCorrect ==
    ASSUME Patient
    PROVE  Spec => []SansDoublon
<1>1. Inv => SansDoublon
  <2> SUFFICES ASSUME Inv, NEW k \in Cles
               PROVE  Cardinality(Executantes(k)) <= expirations[k] + 1
    BY DEF SansDoublon, Executantes
  <2>1. expirations[k] \in Nat
    BY DEF Inv, TypeOK
  <2> QED
    BY <2>1 DEF Inv, ExecutionsComptees
<1> QED
  BY <1>1, InvCorrect, PTL

\* The answer a caller gets, replayed or not, comes from an execution for its key
\* and its payload that has ended.
THEOREM ReponseFideleCorrect ==
    ASSUME Patient
    PROVE  Spec => []ReponseFidele
<1>1. Inv => ReponseFidele
  BY DEF Inv
<1> QED
  BY <1>1, InvCorrect, PTL

-----------------------------------------------------------------------------
\* Kafka.

\* A message of the log, and one that a consumer has polled.
Message == [offset : Nat, rang : Nat]
MessageLu == [partition : K!Partitions, offset : Nat, rang : Nat]

\* The types, without the bounds: those follow from it.
TypeInvKafka ==
    /\ journal \in [K!Partitions -> Seq(Message)]
    /\ ecrits \in [K!Partitions -> Nat]
    /\ offsets \in [K!Partitions -> Nat]
    /\ membres \subseteq Consommateurs
    /\ assignation \in [Consommateurs -> SUBSET K!Partitions]
    /\ activite \in [Consommateurs -> {"repos", "lecture", "offset_lu", "traitement"}]
    /\ a_lire \in [Consommateurs -> SUBSET K!Partitions]
    /\ depuis \in [Consommateurs -> Nat]
    /\ lot \in [Consommateurs -> Seq(MessageLu)]
    /\ faits \in [Consommateurs -> Nat]
    /\ traites \in [K!Partitions -> SUBSET Nat]
    /\ mouvements \in Nat

\* The loop of a consumer: it counts what it has processed of the batch it holds, and
\* holds none when it rests.
LoopInv == \A c \in Consommateurs :
    /\ faits[c] <= Len(lot[c])
    /\ activite[c] = "repos" => lot[c] = <<>>
    /\ activite[c] # "traitement" => faits[c] = 0
    /\ activite[c] = "offset_lu" => a_lire[c] # {}

\* No offset is committed past what was produced.
OffsetsInv == \A p \in K!Partitions : offsets[p] <= ecrits[p]

\* What is left of a log was produced, and its offsets do not pass its ranks.
JournalInvKafka == \A p \in K!Partitions :
         /\ Len(journal[p]) <= ecrits[p]
         /\ \A i \in DOMAIN journal[p] :
              journal[p][i].rang \in 1..ecrits[p] /\ journal[p][i].offset < journal[p][i].rang

\* A polled message was produced.
LotInv == \A c \in Consommateurs : \A i \in DOMAIN lot[c] :
    lot[c][i].offset < ecrits[lot[c][i].partition]

InvKafka == TypeInvKafka /\ LoopInv /\ OffsetsInv /\ JournalInvKafka /\ LotInv

LEMMA PartitionsNat == K!KafkaAssumption => K!Partitions \subseteq Nat /\ K!Partitions # {}
<1> SUFFICES ASSUME K!KafkaAssumption PROVE K!Partitions \subseteq Nat /\ 0 \in K!Partitions
  OBVIOUS
<1> QED BY DEF K!Partitions, K!KafkaAssumption

\* The invariant holds at first, and every action keeps it.
LEMMA Initial == K!KafkaAssumption /\ K!Init => InvKafka
<1> SUFFICES ASSUME K!KafkaAssumption, K!Init PROVE InvKafka
  OBVIOUS
<1>1. TypeInvKafka
  BY PartitionsNat DEF K!Init, TypeInvKafka
<1>2. LoopInv
  BY DEF K!Init, LoopInv
<1>3. OffsetsInv /\ JournalInvKafka /\ LotInv
  BY DEF K!Init, OffsetsInv, JournalInvKafka, LotInv
<1> QED BY <1>1, <1>2, <1>3 DEF InvKafka

LEMMA ProduireInv ==
  ASSUME InvKafka, NEW p \in K!Partitions, K!Produire(p)
  PROVE  InvKafka'
<1> DEFINE m == [offset |-> Len(journal[p]), rang |-> ecrits[p] + 1]
<1>0. /\ journal \in [K!Partitions -> Seq(Message)] /\ ecrits \in [K!Partitions -> Nat]
      /\ offsets \in [K!Partitions -> Nat] /\ lot \in [Consommateurs -> Seq(MessageLu)]
      /\ Len(journal[p]) \in Nat
  BY LenProperties DEF TypeInvKafka, InvKafka
<1>1. m \in Message /\ m.offset = Len(journal[p]) /\ m.rang = ecrits[p] + 1
  BY <1>0 DEF Message
<1>2. /\ journal' = [journal EXCEPT ![p] = Append(@, m)]
      /\ ecrits' = [ecrits EXCEPT ![p] = @ + 1]
      /\ UNCHANGED <<offsets, membres, assignation, mouvements, activite, a_lire, depuis,
                     lot, faits, traites>>
  BY DEF K!Produire, K!groupe, K!boucle
<1> HIDE DEF m
<1>3. journal' \in [K!Partitions -> Seq(Message)] /\ ecrits' \in [K!Partitions -> Nat]
  BY <1>0, <1>1, <1>2
<1>4. TypeInvKafka'
  BY <1>3, <1>2 DEF TypeInvKafka, InvKafka
<1>5. LoopInv'
  BY <1>2 DEF LoopInv, InvKafka
<1>6. OffsetsInv'
  BY <1>0, <1>2 DEF OffsetsInv, InvKafka
<1>7. JournalInvKafka'
  <2> SUFFICES ASSUME NEW q \in K!Partitions
               PROVE  /\ Len(journal'[q]) <= ecrits'[q]
                      /\ \A i \in DOMAIN journal'[q] : /\ journal'[q][i].rang \in 1..ecrits'[q]
                                                       /\ journal'[q][i].offset < journal'[q][i].rang
    BY DEF JournalInvKafka
  <2>1. /\ Len(journal[q]) <= ecrits[q]
        /\ \A i \in DOMAIN journal[q] : /\ journal[q][i].rang \in 1..ecrits[q]
                                        /\ journal[q][i].offset < journal[q][i].rang
    BY DEF JournalInvKafka, InvKafka
  <2>2. CASE q # p
    BY <1>0, <1>2, <2>1, <2>2
  <2>3. CASE q = p
    <3>1. /\ journal'[p] = Append(journal[p], m) /\ ecrits'[p] = ecrits[p] + 1
          /\ journal[p] \in Seq(Message) /\ ecrits[p] \in Nat
      BY <1>0, <1>2
    <3>2. /\ Len(journal'[p]) = Len(journal[p]) + 1
          /\ DOMAIN journal'[p] = 1..Len(journal[p]) + 1
          /\ \A i \in 1..Len(journal[p]) : journal'[p][i] = journal[p][i]
          /\ journal'[p][Len(journal[p]) + 1] = m
          /\ DOMAIN journal[p] = 1..Len(journal[p])
      BY <3>1, <1>1
    <3> QED BY <1>0, <1>1, <2>1, <2>3, <3>1, <3>2
  <2> QED BY <2>2, <2>3
<1>8. LotInv'
  <2> SUFFICES ASSUME NEW c \in Consommateurs, NEW i \in DOMAIN lot[c]
               PROVE  lot[c][i].offset < ecrits'[lot[c][i].partition]
    BY <1>2 DEF LotInv
  <2>1. lot[c][i] \in MessageLu
    BY <1>0
  <2>2. lot[c][i].partition \in K!Partitions /\ lot[c][i].offset \in Nat
    BY <2>1 DEF MessageLu
  <2>3. lot[c][i].offset < ecrits[lot[c][i].partition]
    BY DEF LotInv, InvKafka
  <2> QED BY <1>0, <1>2, <2>2, <2>3
<1> QED BY <1>4, <1>5, <1>6, <1>7, <1>8 DEF InvKafka

LEMMA PurgerInv ==
  ASSUME InvKafka, NEW p \in K!Partitions, K!Purger(p)
  PROVE  InvKafka'
<1>0. journal \in [K!Partitions -> Seq(Message)] /\ ecrits \in [K!Partitions -> Nat]
  BY DEF TypeInvKafka, InvKafka
<1>1. PICK n \in 1..Len(journal[p]) :
         journal' = [journal EXCEPT ![p] = SubSeq(@, n + 1, Len(@))]
  BY DEF K!Purger
<1>2. UNCHANGED <<ecrits, offsets, membres, assignation, mouvements, activite, a_lire,
                  depuis, lot, faits, traites>>
  BY DEF K!Purger, K!groupe, K!boucle
<1>3. /\ journal'[p] \in Seq(Message)
      /\ Len(journal'[p]) = Len(journal[p]) - n
      /\ \A i \in 1..Len(journal[p]) - n : journal'[p][i] = journal[p][n + i]
      /\ Len(journal[p]) \in Nat /\ DOMAIN journal[p] = 1..Len(journal[p])
      /\ DOMAIN journal'[p] = 1..Len(journal[p]) - n
  <2>1. journal[p] \in Seq(Message) /\ journal'[p] = SubSeq(journal[p], n + 1, Len(journal[p]))
    BY <1>0, <1>1
  <2>2. Len(journal[p]) \in Nat /\ DOMAIN journal[p] = 1..Len(journal[p])
    BY <2>1, LenProperties
  <2> HIDE DEF Message
  <2>3. n \in Nat /\ n >= 1 /\ n <= Len(journal[p])
    BY <2>2
  <2> QED BY <2>1, <2>2, <2>3
<1>4. \A q \in K!Partitions : q # p => journal'[q] = journal[q]
  BY <1>0, <1>1
<1>5. journal' \in [K!Partitions -> Seq(Message)]
  BY <1>0, <1>1, <1>3
<1>6. TypeInvKafka'
  BY <1>5, <1>2 DEF TypeInvKafka, InvKafka
<1>7. LoopInv' /\ OffsetsInv' /\ LotInv'
  BY <1>2 DEF LoopInv, OffsetsInv, LotInv, InvKafka
<1>8. JournalInvKafka'
  <2>1. /\ Len(journal[p]) <= ecrits[p]
        /\ \A i \in DOMAIN journal[p] : /\ journal[p][i].rang \in 1..ecrits[p]
                                        /\ journal[p][i].offset < journal[p][i].rang
    BY DEF JournalInvKafka, InvKafka
  <2>2. n \in Nat /\ n >= 1 /\ ecrits[p] \in Nat
    <3>1. ecrits[p] \in Nat
      BY <1>0
    <3> QED BY <3>1, <1>3
  <2>3. /\ Len(journal'[p]) <= ecrits[p]
        /\ \A i \in DOMAIN journal'[p] : /\ journal'[p][i].rang \in 1..ecrits[p]
                                         /\ journal'[p][i].offset < journal'[p][i].rang
    <3>1. \A i \in 1..Len(journal[p]) - n : n + i \in 1..Len(journal[p])
      BY <1>3, <2>2
    <3>2. Len(journal'[p]) <= ecrits[p]
      BY <1>3, <2>1, <2>2
    <3> QED BY <1>3, <2>1, <3>1, <3>2
  <2> QED BY <2>3, <1>4, <1>2 DEF JournalInvKafka, InvKafka
<1> QED BY <1>6, <1>7, <1>8 DEF InvKafka

LEMMA GroupeInv ==
  ASSUME K!KafkaAssumption, InvKafka, NEW c \in Consommateurs, K!Rejoindre(c) \/ K!Quitter(c)
  PROVE  InvKafka'
<1>1. UNCHANGED <<journal, ecrits, offsets, activite, a_lire, depuis, lot, faits, traites>>
  BY DEF K!Rejoindre, K!Quitter, K!boucle
<1>2. membres' \subseteq Consommateurs
  BY DEF K!Rejoindre, K!Quitter, InvKafka, TypeInvKafka
<1>3. assignation' \in [Consommateurs -> SUBSET K!Partitions]
  BY DEF K!Rejoindre, K!Quitter, K!Rebalancer
<1>4. mouvements' \in Nat
  <2>1. mouvements \in Nat /\ mouvements' = mouvements + 1
    BY DEF K!Rejoindre, K!Quitter, InvKafka, TypeInvKafka
  <2> QED BY <2>1
<1>5. TypeInvKafka'
  BY <1>1, <1>2, <1>3, <1>4 DEF TypeInvKafka, InvKafka
<1>6. LoopInv' /\ OffsetsInv' /\ JournalInvKafka' /\ LotInv'
  BY <1>1 DEF LoopInv, OffsetsInv, JournalInvKafka, LotInv, InvKafka
<1> QED BY <1>5, <1>6 DEF InvKafka

\* The loop variables of a step of member c: typed, and of the others nothing changes.
LEMMA DemanderInv ==
  ASSUME InvKafka, NEW c \in Consommateurs, K!Demander(c)
  PROVE  InvKafka'
<1>0. /\ activite \in [Consommateurs -> {"repos", "lecture", "offset_lu", "traitement"}]
      /\ a_lire \in [Consommateurs -> SUBSET K!Partitions]
      /\ assignation \in [Consommateurs -> SUBSET K!Partitions]
  BY DEF TypeInvKafka, InvKafka
<1>1. /\ activite[c] = "repos"
      /\ activite' = [activite EXCEPT ![c] = "lecture"]
      /\ a_lire' = [a_lire EXCEPT ![c] = assignation[c]]
      /\ UNCHANGED <<journal, ecrits, offsets, membres, assignation, mouvements, depuis, lot,
                     faits, traites>>
  BY DEF K!Demander, K!groupe
<1>2. /\ activite' \in [Consommateurs -> {"repos", "lecture", "offset_lu", "traitement"}]
      /\ a_lire' \in [Consommateurs -> SUBSET K!Partitions]
  BY <1>0, <1>1
<1>3. TypeInvKafka'
  BY <1>1, <1>2 DEF TypeInvKafka, InvKafka
<1>4. LoopInv'
  BY <1>0, <1>1 DEF LoopInv, InvKafka
<1>5. OffsetsInv' /\ JournalInvKafka' /\ LotInv'
  BY <1>1 DEF OffsetsInv, JournalInvKafka, LotInv, InvKafka
<1> QED BY <1>3, <1>4, <1>5 DEF InvKafka

\* Every set of naturals that is not empty has a smallest member.
LEMMA MinimumExiste ==
  ASSUME NEW T, T \subseteq Nat, T # {}
  PROVE  \E x \in T : \A y \in T : x <= y
<1> DEFINE Inf == OpToRel(<, Nat)
<1>1. IsWellFoundedOn(Inf, Nat)
  BY NatLessThanWellFounded
<1>2. \A x, y \in Nat : <<x, y>> \in Inf <=> x < y
  BY DEF OpToRel
<1> HIDE DEF Inf
<1>3. PICK x \in T : \A y \in T : ~(<<y, x>> \in Inf)
  BY <1>1, WFMin, Zenon
<1>4. \A y \in T : ~(y < x)
  BY <1>2, <1>3
<1> QED
  BY <1>4

\* ... and a finite bound gives a greatest one.
LEMMA MaximumExiste ==
  ASSUME NEW T, T \subseteq Nat, T # {}, NEW n \in Nat, \A x \in T : x <= n
  PROVE  \E x \in T : \A y \in T : y <= x
<1> DEFINE U == {u \in Nat : \A x \in T : x <= u}
<1>1. PICK u \in U : \A v \in U : u <= v
  <2>1. U \subseteq Nat /\ n \in U
    OBVIOUS
  <2> HIDE DEF U
  <2> QED BY <2>1, MinimumExiste
<1>2. u \in Nat /\ \A x \in T : x <= u
  BY <1>1
<1>3. CASE u = 0
  <2>1. PICK x \in T : TRUE
    OBVIOUS
  <2>2. \A y \in T : y \in Nat /\ y <= 0
    BY <1>2, <1>3
  <2> QED BY <2>1, <2>2
<1>4. CASE u # 0
  <2>1. u - 1 \in Nat /\ u - 1 \notin U
    <3> HIDE DEF U
    <3>1. u - 1 \in Nat
      BY <1>2, <1>4
    <3> QED BY <1>1, <1>2, <3>1
  <2>2. PICK x \in T : ~(x <= u - 1)
    BY <2>1
  <2>3. x = u
    BY <1>2, <2>2
  <2> QED BY <1>2, <2>3
<1> QED BY <1>3, <1>4

\* The next partition to poll is one of those that are left.
LEMMA PremiereDedans ==
  ASSUME K!KafkaAssumption, NEW S \in SUBSET K!Partitions, S # {}
  PROVE  K!Premiere(S) \in S
<1>1. S \subseteq Nat
  BY PartitionsNat
<1>2. \E p \in S : \A q \in S : p <= q
  BY <1>1, MinimumExiste
<1> QED BY <1>2 DEF K!Premiere

LEMMA LireOffsetInv ==
  ASSUME K!KafkaAssumption, InvKafka, NEW c \in Consommateurs, K!LireOffset(c)
  PROVE  InvKafka'
<1>0. /\ activite \in [Consommateurs -> {"repos", "lecture", "offset_lu", "traitement"}]
      /\ a_lire \in [Consommateurs -> SUBSET K!Partitions]
      /\ depuis \in [Consommateurs -> Nat] /\ offsets \in [K!Partitions -> Nat]
  BY DEF TypeInvKafka, InvKafka
<1>1. /\ activite[c] = "lecture" /\ a_lire[c] # {}
      /\ activite' = [activite EXCEPT ![c] = "offset_lu"]
      /\ depuis' = [depuis EXCEPT ![c] = offsets[K!Premiere(a_lire[c])]]
      /\ UNCHANGED <<journal, ecrits, offsets, membres, assignation, mouvements, a_lire, lot,
                     faits, traites>>
  BY DEF K!LireOffset, K!groupe
<1>2. K!Premiere(a_lire[c]) \in K!Partitions
  BY <1>0, <1>1, PremiereDedans
<1>3. /\ activite' \in [Consommateurs -> {"repos", "lecture", "offset_lu", "traitement"}]
      /\ depuis' \in [Consommateurs -> Nat]
  BY <1>0, <1>1, <1>2
<1>4. TypeInvKafka'
  BY <1>1, <1>3 DEF TypeInvKafka, InvKafka
<1>5. LoopInv'
  BY <1>0, <1>1 DEF LoopInv, InvKafka
<1>6. OffsetsInv' /\ JournalInvKafka' /\ LotInv'
  BY <1>1 DEF OffsetsInv, JournalInvKafka, LotInv, InvKafka
<1> QED BY <1>4, <1>5, <1>6 DEF InvKafka

\* A poll returns messages of the log, in order, from the offset it starts at.
LEMMA LireCorrect ==
  ASSUME NEW p \in K!Partitions, NEW debut \in Nat, K!KafkaAssumption,
         journal[p] \in Seq(Message)
  PROVE  /\ K!Lire(p, debut) \in Seq(MessageLu)
         /\ \A i \in 1..Len(K!Lire(p, debut)) :
              /\ debut + i \in 1..Len(journal[p])
              /\ K!Lire(p, debut)[i] = [partition |-> p,
                  offset |-> journal[p][debut + i].offset,
                                        rang |-> journal[p][debut + i].rang]
<1> DEFINE fin == IF debut + MaxLot < Len(journal[p]) THEN debut + MaxLot ELSE Len(journal[p])
           n == IF fin - debut > 0 THEN fin - debut ELSE 0
           e(i) == [partition |-> p, offset |-> journal[p][debut + i].offset,
                    rang |-> journal[p][debut + i].rang]
<1>1. Len(journal[p]) \in Nat /\ MaxLot \in Nat
  BY LenProperties DEF K!KafkaAssumption
<1>2. n \in Nat /\ 1..n = 1..fin - debut
  BY <1>1
<1>3. \A i \in 1..n : debut + i \in 1..Len(journal[p])
  BY <1>1
<1>4. K!Lire(p, debut) = [i \in 1..n |-> e(i)]
  BY <1>2 DEF K!Lire
<1>5. \A i \in 1..n : e(i) \in MessageLu
  <2> TAKE i \in 1..n
  <2>1. journal[p][debut + i] \in Message
    BY <1>3, ElementOfSeq
  <2> QED BY <2>1 DEF Message, MessageLu
<1> HIDE DEF n, e
<1>6. [i \in 1..n |-> e(i)] \in Seq(MessageLu)
  BY <1>2, <1>5, IsASeq
<1>7. Len([i \in 1..n |-> e(i)]) = n
  BY <1>2, <1>6, LenProperties
<1> QED BY <1>3, <1>4, <1>6, <1>7 DEF e

LEMMA LirePartitionInv ==
  ASSUME K!KafkaAssumption, InvKafka, NEW c \in Consommateurs, K!LirePartition(c)
  PROVE  InvKafka'
<1> DEFINE p == K!Premiere(a_lire[c])
           lus == K!Lire(p, depuis[c])
<1>0. /\ activite \in [Consommateurs -> {"repos", "lecture", "offset_lu", "traitement"}]
      /\ a_lire \in [Consommateurs -> SUBSET K!Partitions]
      /\ depuis \in [Consommateurs -> Nat] /\ lot \in [Consommateurs -> Seq(MessageLu)]
      /\ journal \in [K!Partitions -> Seq(Message)] /\ ecrits \in [K!Partitions -> Nat]
      /\ faits \in [Consommateurs -> Nat]
  BY DEF TypeInvKafka, InvKafka
<1>1. /\ activite[c] = "offset_lu"
      /\ a_lire' = [a_lire EXCEPT ![c] = @ \ {p}]
      /\ lot' = [lot EXCEPT ![c] = @ \o lus]
      /\ activite' = [activite EXCEPT ![c] =
           IF a_lire'[c] # {} THEN "lecture"
           ELSE IF lot'[c] # <<>> THEN "traitement" ELSE "repos"]
      /\ depuis' = [depuis EXCEPT ![c] = 0]
      /\ UNCHANGED <<journal, ecrits, offsets, membres, assignation, mouvements, faits,
                     traites>>
  BY DEF K!LirePartition, K!groupe
<1>2. p \in K!Partitions
  BY <1>0, <1>1, PremiereDedans DEF LoopInv, InvKafka
<1>3. /\ lus \in Seq(MessageLu)
      /\ \A i \in 1..Len(lus) :
           /\ depuis[c] + i \in 1..Len(journal[p])
           /\ lus[i] = [partition |-> p, offset |-> journal[p][depuis[c] + i].offset,
                        rang |-> journal[p][depuis[c] + i].rang]
  BY <1>0, <1>2, LireCorrect
<1> HIDE DEF p, lus
<1>4. /\ lot[c] \in Seq(MessageLu) /\ lot'[c] = lot[c] \o lus
      /\ \A d \in Consommateurs : d # c => lot'[d] = lot[d]
  BY <1>0, <1>1
<1>5. /\ lot'[c] \in Seq(MessageLu)
      /\ Len(lot'[c]) = Len(lot[c]) + Len(lus)
      /\ Len(lot[c]) \in Nat /\ Len(lus) \in Nat
      /\ DOMAIN lot[c] = 1..Len(lot[c])
      /\ DOMAIN lot'[c] = 1..Len(lot[c]) + Len(lus)
      /\ \A i \in 1..Len(lot[c]) + Len(lus) :
           lot'[c][i] = IF i <= Len(lot[c]) THEN lot[c][i] ELSE lus[i - Len(lot[c])]
  <2>1. lot[c] \o lus \in Seq(MessageLu)
    BY <1>3, <1>4, ConcatProperties
  <2> QED BY <1>3, <1>4, <2>1, ConcatProperties, LenProperties
<1>6. lot' \in [Consommateurs -> Seq(MessageLu)]
  BY <1>0, <1>1, <1>4, <1>5
<1>7. /\ activite' \in [Consommateurs -> {"repos", "lecture", "offset_lu", "traitement"}]
      /\ a_lire' \in [Consommateurs -> SUBSET K!Partitions]
      /\ depuis' \in [Consommateurs -> Nat]
  BY <1>0, <1>1
<1>8. TypeInvKafka'
  BY <1>1, <1>6, <1>7 DEF TypeInvKafka, InvKafka
<1>9. LoopInv'
  <2>1. ASSUME NEW d \in Consommateurs, d # c
        PROVE  /\ lot'[d] = lot[d] /\ faits'[d] = faits[d]
               /\ activite'[d] = activite[d] /\ a_lire'[d] = a_lire[d]
    BY <1>0, <1>1, <1>4, <2>1
  <2>2. /\ activite'[c] \in {"lecture", "repos", "traitement"}
        /\ activite'[c] = "repos" => lot'[c] = <<>>
        /\ faits'[c] = faits[c]
    BY <1>0, <1>1
  <2>3. faits[c] = 0
    BY <1>1 DEF LoopInv, InvKafka
  <2>4. faits'[c] <= Len(lot'[c])
    BY <1>5, <2>2, <2>3
  <2>5. ASSUME NEW d \in Consommateurs
        PROVE  /\ faits'[d] <= Len(lot'[d])
               /\ activite'[d] = "repos" => lot'[d] = <<>>
               /\ activite'[d] # "traitement" => faits'[d] = 0
               /\ activite'[d] = "offset_lu" => a_lire'[d] # {}
    <3>1. CASE d = c
      BY <2>2, <2>3, <2>4, <3>1
    <3>2. CASE d # c
      BY <2>1, <3>2 DEF LoopInv, InvKafka
    <3> QED BY <3>1, <3>2
  <2> QED BY <2>5 DEF LoopInv
<1>10. LotInv'
  <2> SUFFICES ASSUME NEW d \in Consommateurs, NEW i \in DOMAIN lot'[d]
               PROVE  lot'[d][i].offset < ecrits[lot'[d][i].partition]
    BY <1>1 DEF LotInv
  <2>1. \A e \in Consommateurs : \A j \in DOMAIN lot[e] :
          lot[e][j].offset < ecrits[lot[e][j].partition]
    BY DEF LotInv, InvKafka
  <2>2. CASE d # c
    BY <1>4, <2>1, <2>2
  <2>5. d = c => i \in 1..Len(lot[c]) + Len(lus)
    BY <1>5
  <2>3. CASE d = c /\ i <= Len(lot[c])
    <3>1. lot'[d][i] = lot[c][i]
      BY <1>5, <2>3, <2>5
    <3>2. i \in DOMAIN lot[c]
      BY <1>5, <2>3, <2>5
    <3> QED BY <2>1, <3>1, <3>2
  <2>4. CASE d = c /\ ~(i <= Len(lot[c]))
    <3>0. Len(lot[c]) \in Nat /\ Len(lus) \in Nat
      BY <1>3, <1>4
    <3>1. i - Len(lot[c]) \in 1..Len(lus) /\ lot'[d][i] = lus[i - Len(lot[c])]
      <4>1. i \in Len(lot[c]) + 1..Len(lot[c]) + Len(lus)
        BY <2>4, <2>5, <3>0
      <4>2. i - Len(lot[c]) \in 1..Len(lus)
        BY <3>0, <4>1
      <4>3. lot'[c][i] = lus[i - Len(lot[c])]
        BY <1>5, <4>1
      <4> QED
        BY <2>4, <4>2, <4>3
    <3>2. PICK k \in 1..Len(journal[p]) :
            lot'[d][i] = [partition |-> p, offset |-> journal[p][k].offset,
                          rang |-> journal[p][k].rang]
      BY <1>3, <3>1
    <3>3. DOMAIN journal[p] = 1..Len(journal[p]) /\ journal[p][k] \in Message
      BY <1>0, <1>2, LenProperties, ElementOfSeq
    <3>4. /\ journal[p][k].rang \in 1..ecrits[p]
          /\ journal[p][k].offset < journal[p][k].rang
      BY <1>2, <3>3 DEF JournalInvKafka, InvKafka
    <3>5. ecrits[p] \in Nat /\ journal[p][k].offset \in Nat
      BY <1>0, <1>2, <3>3 DEF Message
    <3>6. journal[p][k].offset < ecrits[p]
      BY <3>4, <3>5
    <3> QED BY <3>2, <3>6
  <2> QED BY <2>2, <2>3, <2>4
<1>11. OffsetsInv' /\ JournalInvKafka'
  BY <1>1 DEF OffsetsInv, JournalInvKafka, InvKafka
<1> QED BY <1>8, <1>9, <1>10, <1>11 DEF InvKafka

LEMMA TraiterInv ==
  ASSUME InvKafka, NEW c \in Consommateurs, K!Traiter(c)
  PROVE  InvKafka'
<1> DEFINE m == lot[c][faits[c] + 1]
<1>0. /\ lot \in [Consommateurs -> Seq(MessageLu)] /\ faits \in [Consommateurs -> Nat]
      /\ traites \in [K!Partitions -> SUBSET Nat]
  BY DEF TypeInvKafka, InvKafka
<1>1. /\ activite[c] = "traitement" /\ faits[c] < Len(lot[c])
      /\ faits' = [faits EXCEPT ![c] = @ + 1]
      /\ traites' = [traites EXCEPT ![m.partition] = @ \union {m.rang}]
      /\ UNCHANGED <<journal, ecrits, offsets, membres, assignation, mouvements, activite,
                     a_lire, depuis, lot>>
  BY DEF K!Traiter, K!groupe
<1>2. lot[c] \in Seq(MessageLu) /\ Len(lot[c]) \in Nat /\ faits[c] \in Nat
  BY <1>0, LenProperties
<1>3. m \in MessageLu
  <2>1. faits[c] + 1 \in 1..Len(lot[c])
    BY <1>1, <1>2
  <2> QED BY <1>2, <2>1, ElementOfSeq
<1>4. m.partition \in K!Partitions /\ m.rang \in Nat
  BY <1>3 DEF MessageLu
<1> HIDE DEF m
<1>5. faits' \in [Consommateurs -> Nat] /\ traites' \in [K!Partitions -> SUBSET Nat]
  BY <1>0, <1>1, <1>4
<1>6. TypeInvKafka'
  BY <1>1, <1>5 DEF TypeInvKafka, InvKafka
<1>7. LoopInv'
  <2>1. faits'[c] <= Len(lot[c]) /\ \A d \in Consommateurs : d # c => faits'[d] = faits[d]
    BY <1>0, <1>1, <1>2
  <2> QED BY <1>1, <2>1 DEF LoopInv, InvKafka
<1>8. OffsetsInv' /\ JournalInvKafka' /\ LotInv'
  BY <1>1 DEF OffsetsInv, JournalInvKafka, LotInv, InvKafka
<1> QED BY <1>6, <1>7, <1>8 DEF InvKafka

\* The offsets a commit chooses among: naturals, with a greatest one.
LEMMA AvancerCorrect ==
  ASSUME InvKafka, NEW c \in Consommateurs, NEW p \in K!Partitions, K!Avancer(c)
  PROVE  /\ offsets'[p] \in {offsets[p]} \union K!Suivants(K!ACommiter(c), p)
         /\ \A o \in {offsets[p]} \union K!Suivants(K!ACommiter(c), p) : o <= offsets'[p]
         /\ offsets'[p] <= ecrits[p]
         /\ \A o \in K!Suivants(K!ACommiter(c), p) : \E i \in 1..faits[c] :
              /\ i \in 1..Len(lot[c]) /\ lot[c][i] \in MessageLu
              /\ lot[c][i].partition = p /\ o = lot[c][i].offset + 1
<1> DEFINE T == {offsets[p]} \union K!Suivants(K!ACommiter(c), p)
<1>0. /\ lot[c] \in Seq(MessageLu) /\ faits[c] \in Nat /\ Len(lot[c]) \in Nat
      /\ DOMAIN lot[c] = 1..Len(lot[c]) /\ offsets[p] \in Nat /\ ecrits[p] \in Nat
  <2>1. /\ lot \in [Consommateurs -> Seq(MessageLu)] /\ faits \in [Consommateurs -> Nat]
        /\ offsets \in [K!Partitions -> Nat] /\ ecrits \in [K!Partitions -> Nat]
    BY DEF TypeInvKafka, InvKafka
  <2> QED BY <2>1, LenProperties
<1>1. faits[c] <= Len(lot[c])
  BY DEF LoopInv, InvKafka
<1>2. /\ DOMAIN K!ACommiter(c) = 1..faits[c]
      /\ \A i \in 1..faits[c] : K!ACommiter(c)[i] = lot[c][i]
  <2> HIDE DEF MessageLu
  <2> QED BY <1>0, <1>1 DEF K!ACommiter
<1>3. ASSUME NEW o \in K!Suivants(K!ACommiter(c), p)
      PROVE  \E i \in 1..faits[c] :
               /\ i \in 1..Len(lot[c]) /\ lot[c][i] \in MessageLu
               /\ lot[c][i].partition = p /\ o = lot[c][i].offset + 1
  <2>1. PICK i \in 1..faits[c] : lot[c][i].partition = p /\ o = lot[c][i].offset + 1
    BY <1>2 DEF K!Suivants
  <2>2. i \in 1..Len(lot[c])
    BY <1>0, <1>1
  <2>3. lot[c][i] \in MessageLu
    BY <1>0, <2>2, ElementOfSeq
  <2> QED BY <2>1, <2>2, <2>3
<1>4. \A o \in T : o \in Nat /\ o <= ecrits[p]
  <2> TAKE o \in T
  <2>1. CASE o = offsets[p]
    BY <1>0, <2>1 DEF OffsetsInv, InvKafka
  <2>2. CASE o \in K!Suivants(K!ACommiter(c), p)
    <3>1. PICK i \in 1..Len(lot[c]) : /\ lot[c][i] \in MessageLu
                                      /\ lot[c][i].partition = p /\ o = lot[c][i].offset + 1
      BY <1>3, <2>2
    <3>2. lot[c][i].offset < ecrits[p] /\ lot[c][i].offset \in Nat
      BY <1>0, <3>1 DEF LotInv, InvKafka, MessageLu
    <3> QED BY <1>0, <3>1, <3>2
  <2> QED BY <2>1, <2>2
<1>5. \E o \in T : \A q \in T : q <= o
  <2>1. T \subseteq Nat /\ T # {}
    BY <1>4
  <2> HIDE DEF T
  <2> QED BY <1>0, <1>4, <2>1, MaximumExiste
<1>6. offsets'[p] = CHOOSE o \in T : \A q \in T : q <= o
  BY DEF K!Avancer
<1>7. offsets'[p] \in T /\ \A q \in T : q <= offsets'[p]
  <2> HIDE DEF T
  <2> QED BY <1>5, <1>6
<1> QED BY <1>3, <1>4, <1>7

LEMMA LotVide == <<>> \in Seq(MessageLu) /\ Len(<<>>) = 0 /\ DOMAIN <<>> = {}
<1> HIDE DEF MessageLu
<1> QED BY EmptySeq

\* The end of a turn of the loop.
LEMMA FinDeTour ==
  ASSUME InvKafka, NEW c \in Consommateurs,
         /\ activite' = [activite EXCEPT ![c] = "repos"]
         /\ lot' = [lot EXCEPT ![c] = <<>>]
         /\ faits' = [faits EXCEPT ![c] = 0]
  PROVE  /\ lot' \in [Consommateurs -> Seq(MessageLu)] /\ faits' \in [Consommateurs -> Nat]
         /\ activite' \in [Consommateurs -> {"repos", "lecture", "offset_lu", "traitement"}]
         /\ lot'[c] = <<>> /\ faits'[c] = 0 /\ activite'[c] = "repos"
         /\ \A d \in Consommateurs : d # c =>
              lot'[d] = lot[d] /\ faits'[d] = faits[d] /\ activite'[d] = activite[d]
         /\ faits'[c] <= Len(lot'[c])
<1> DEFINE vide == <<>>
<1>1. vide \in Seq(MessageLu) /\ Len(vide) = 0
  BY LotVide
<1>2. lot' = [lot EXCEPT ![c] = vide]
  OBVIOUS
<1> HIDE DEF vide
<1>3. /\ lot \in [Consommateurs -> Seq(MessageLu)] /\ faits \in [Consommateurs -> Nat]
      /\ activite \in [Consommateurs -> {"repos", "lecture", "offset_lu", "traitement"}]
  BY DEF TypeInvKafka, InvKafka
<1>4. /\ lot' \in [Consommateurs -> Seq(MessageLu)] /\ lot'[c] = vide
      /\ \A d \in Consommateurs : d # c => lot'[d] = lot[d]
  BY <1>1, <1>2, <1>3
<1>5. /\ faits' \in [Consommateurs -> Nat] /\ faits'[c] = 0
      /\ \A d \in Consommateurs : d # c => faits'[d] = faits[d]
  BY <1>3
<1>6. /\ activite' \in [Consommateurs -> {"repos", "lecture", "offset_lu", "traitement"}]
      /\ activite'[c] = "repos"
      /\ \A d \in Consommateurs : d # c => activite'[d] = activite[d]
  BY <1>3
<1>7. lot'[c] = <<>>
  BY <1>4 DEF vide
<1>8. faits'[c] <= Len(lot'[c])
  BY <1>1, <1>4, <1>5
<1> QED BY <1>4, <1>5, <1>6, <1>7, <1>8

LEMMA CommiterInv ==
  ASSUME InvKafka, NEW c \in Consommateurs, K!Commiter(c)
  PROVE  InvKafka'
<1>0. /\ offsets \in [K!Partitions -> Nat] /\ lot \in [Consommateurs -> Seq(MessageLu)]
      /\ faits \in [Consommateurs -> Nat] /\ ecrits \in [K!Partitions -> Nat]
      /\ activite \in [Consommateurs -> {"repos", "lecture", "offset_lu", "traitement"}]
  BY DEF TypeInvKafka, InvKafka
<1>1. /\ activite[c] = "traitement" /\ K!Avancer(c)
      /\ \/ /\ activite' = [activite EXCEPT ![c] = "repos"]
            /\ lot' = [lot EXCEPT ![c] = <<>>]
            /\ faits' = [faits EXCEPT ![c] = 0]
         \/ UNCHANGED <<activite, lot, faits>>
      /\ UNCHANGED <<journal, ecrits, membres, assignation, mouvements, a_lire, depuis,
                     traites>>
  BY DEF K!Commiter, K!groupe
<1>2. \A p \in K!Partitions : offsets'[p] \in Nat /\ offsets'[p] <= ecrits[p]
  <2> TAKE p \in K!Partitions
  <2>1. /\ offsets'[p] \in {offsets[p]} \union K!Suivants(K!ACommiter(c), p)
        /\ offsets'[p] <= ecrits[p]
        /\ \A o \in K!Suivants(K!ACommiter(c), p) : \E i \in 1..faits[c] :
             lot[c][i] \in MessageLu /\ o = lot[c][i].offset + 1
    BY <1>1, AvancerCorrect
  <2>2. \A o \in K!Suivants(K!ACommiter(c), p) : o \in Nat
    BY <2>1 DEF MessageLu
  <2> QED BY <1>0, <2>1, <2>2
<1>3. offsets' \in [K!Partitions -> Nat]
  <2>1. offsets' = [p \in K!Partitions |-> offsets'[p]]
    BY <1>1 DEF K!Avancer
  <2> QED BY <1>2, <2>1
<1>4. /\ lot' \in [Consommateurs -> Seq(MessageLu)] /\ faits' \in [Consommateurs -> Nat]
      /\ activite' \in [Consommateurs -> {"repos", "lecture", "offset_lu", "traitement"}]
  BY <1>0, <1>1, FinDeTour
<1>5. TypeInvKafka'
  BY <1>1, <1>3, <1>4 DEF TypeInvKafka, InvKafka
<1>6. LoopInv'
  <2>1. CASE UNCHANGED <<activite, lot, faits>>
    BY <1>1, <2>1 DEF LoopInv, InvKafka
  <2>2. CASE ~UNCHANGED <<activite, lot, faits>>
    BY <1>1, <2>2, FinDeTour DEF LoopInv, InvKafka
  <2> QED BY <2>1, <2>2
<1>7. OffsetsInv' /\ JournalInvKafka'
  BY <1>1, <1>2 DEF OffsetsInv, JournalInvKafka, InvKafka
<1>8. LotInv'
  BY <1>0, <1>1, LotVide DEF LotInv, InvKafka
<1> QED BY <1>5, <1>6, <1>7, <1>8 DEF InvKafka

LEMMA TomberInv ==
  ASSUME InvKafka, NEW c \in Consommateurs, K!Tomber(c)
  PROVE  InvKafka'
<1>0. /\ a_lire \in [Consommateurs -> SUBSET K!Partitions]
      /\ depuis \in [Consommateurs -> Nat] /\ lot \in [Consommateurs -> Seq(MessageLu)]
      /\ faits \in [Consommateurs -> Nat] /\ mouvements \in Nat
      /\ activite \in [Consommateurs -> {"repos", "lecture", "offset_lu", "traitement"}]
  BY DEF TypeInvKafka, InvKafka
<1>1. /\ mouvements' = mouvements + 1
      /\ activite' = [activite EXCEPT ![c] = "repos"]
      /\ a_lire' = [a_lire EXCEPT ![c] = {}]
      /\ depuis' = [depuis EXCEPT ![c] = 0]
      /\ lot' = [lot EXCEPT ![c] = <<>>]
      /\ faits' = [faits EXCEPT ![c] = 0]
      /\ UNCHANGED <<journal, ecrits, offsets, membres, assignation, traites>>
  BY DEF K!Tomber
<1>2. /\ a_lire' \in [Consommateurs -> SUBSET K!Partitions]
      /\ depuis' \in [Consommateurs -> Nat] /\ lot' \in [Consommateurs -> Seq(MessageLu)]
      /\ faits' \in [Consommateurs -> Nat] /\ mouvements' \in Nat
      /\ activite' \in [Consommateurs -> {"repos", "lecture", "offset_lu", "traitement"}]
  <2>1. a_lire' \in [Consommateurs -> SUBSET K!Partitions]
    <3>1. /\ a_lire \in [Consommateurs -> SUBSET K!Partitions]
          /\ a_lire' = [a_lire EXCEPT ![c] = {}]
      BY <1>0, <1>1
    <3> QED BY <3>1
  <2>2. depuis' \in [Consommateurs -> Nat]
    <3>1. depuis \in [Consommateurs -> Nat] /\ depuis' = [depuis EXCEPT ![c] = 0]
      BY <1>0, <1>1
    <3> QED BY <3>1
  <2>3. mouvements' \in Nat
    <3>1. mouvements \in Nat /\ mouvements' = mouvements + 1
      BY <1>0, <1>1
    <3> QED BY <3>1
  <2> QED BY <1>1, <2>1, <2>2, <2>3, FinDeTour
<1>3. TypeInvKafka'
  BY <1>1, <1>2 DEF TypeInvKafka, InvKafka
<1>4. LoopInv'
  <2>1. ASSUME NEW d \in Consommateurs, d # c PROVE a_lire'[d] = a_lire[d]
    BY <1>0, <1>1, <2>1
  <2> QED BY <1>1, <2>1, FinDeTour DEF LoopInv, InvKafka
<1>5. OffsetsInv' /\ JournalInvKafka'
  BY <1>1 DEF OffsetsInv, JournalInvKafka, InvKafka
<1>6. LotInv'
  BY <1>0, <1>1, LotVide DEF LotInv, InvKafka
<1> QED BY <1>3, <1>4, <1>5, <1>6 DEF InvKafka

LEMMA InvStep == K!KafkaAssumption /\ InvKafka /\ [K!Next]_K!varsKafka => InvKafka'
<1> SUFFICES ASSUME K!KafkaAssumption, InvKafka, [K!Next]_K!varsKafka PROVE InvKafka'
  OBVIOUS
<1>1. CASE UNCHANGED K!varsKafka
  BY <1>1 DEF K!varsKafka, InvKafka, TypeInvKafka, LoopInv, OffsetsInv, JournalInvKafka, LotInv
<1>2. ASSUME NEW p \in K!Partitions, K!Produire(p) \/ K!Purger(p) PROVE InvKafka'
  BY <1>2, ProduireInv, PurgerInv
<1>3. ASSUME NEW c \in Consommateurs,
             \/ K!Rejoindre(c) \/ K!Quitter(c) \/ K!Tomber(c) \/ K!Demander(c) \/ K!LireOffset(c)
             \/ K!LirePartition(c) \/ K!Traiter(c) \/ K!Commiter(c)
      PROVE  InvKafka'
  BY <1>3, GroupeInv, TomberInv, DemanderInv, LireOffsetInv, LirePartitionInv, TraiterInv,
     CommiterInv
<1> QED BY <1>1, <1>2, <1>3 DEF K!Next

\* The invariant gives the bounds of the types.
LEMMA TypesDeInvKafka == InvKafka => K!TypeOK
<1> SUFFICES ASSUME InvKafka PROVE K!TypeOK
  OBVIOUS
<1>1. \A c \in Consommateurs : faits[c] \in 0..Len(lot[c])
  <2> TAKE c \in Consommateurs
  <2>1. /\ lot \in [Consommateurs -> Seq(MessageLu)]
        /\ faits \in [Consommateurs -> Nat] /\ faits[c] <= Len(lot[c])
    BY DEF InvKafka, TypeInvKafka, LoopInv
  <2> QED BY <2>1, LenProperties
<1>2. ASSUME NEW p \in K!Partitions, NEW i \in DOMAIN journal[p]
      PROVE  journal[p][i].offset \in Nat /\ journal[p][i].rang \in 1..ecrits[p]
  <2>1. journal \in [K!Partitions -> Seq(Message)]
    BY DEF InvKafka, TypeInvKafka
  <2>2. journal[p][i] \in Message
    BY <2>1, LenProperties
  <2> QED BY <2>2 DEF InvKafka, JournalInvKafka, Message
<1> QED BY <1>1, <1>2 DEF K!TypeOK, InvKafka, TypeInvKafka, OffsetsInv

\* The broker and its consumers are typed, with retention or without, whatever members
\* join, leave or crash.
THEOREM TypeCorrectKafka == ASSUME K!KafkaAssumption PROVE K!Spec => []K!TypeOK
<1>1. K!KafkaAssumption
  OBVIOUS
<1>2. K!Init => InvKafka
  BY <1>1, Initial
<1>3. InvKafka /\ [K!Next]_K!varsKafka => InvKafka'
  BY <1>1, InvStep
<1> QED BY <1>2, <1>3, TypesDeInvKafka, PTL DEF K!Spec

-----------------------------------------------------------------------------
\* Without retention.
SansRetention == "retention" \notin PermisKafka

\* An offset is a place in the log: the rank of the message.
RangsInv ==
    /\ \A p \in K!Partitions :
         /\ Len(journal[p]) = ecrits[p]
         /\ \A i \in DOMAIN journal[p] : journal[p][i].offset = i - 1 /\ journal[p][i].rang = i
    /\ \A c \in Consommateurs : \A i \in DOMAIN lot[c] :
         lot[c][i].rang = lot[c][i].offset + 1

\* What was processed of a partition is a prefix of it, and the committed offset is in it.
PrefixeInv == \A p \in K!Partitions : \E n \in Nat : traites[p] = 1..n /\ offsets[p] <= n

\* A poll starts at an offset that was committed.
DepuisInv == \A c \in Consommateurs :
    activite[c] = "offset_lu" => depuis[c] <= offsets[K!Premiere(a_lire[c])]

\* The batch of c has the message of rank r before its message i.
Avant(c, i, r) == \E j \in 1..i - 1 : /\ lot[c][j].partition = lot[c][i].partition
                                      /\ lot[c][j].rang = r

\* Before a message of a batch, the messages of its partition were processed or are
\* earlier in the batch.
SuiteInv == \A c \in Consommateurs : \A i \in 1..Len(lot[c]) :
    \A r \in 1..lot[c][i].rang - 1 :
        r \in traites[lot[c][i].partition] \/ Avant(c, i, r)

\* What a consumer counts as processed was processed.
FaitsInv == \A c \in Consommateurs : \A i \in 1..faits[c] :
    lot[c][i].rang \in traites[lot[c][i].partition]

\* The strengthening, under which the two properties are inductive.
Suivi == InvKafka /\ RangsInv /\ PrefixeInv /\ DepuisInv /\ SuiteInv /\ FaitsInv

\* It holds at first, and every action keeps it.
LEMMA InitialSuivi == K!KafkaAssumption /\ K!Init => Suivi
<1> SUFFICES ASSUME K!KafkaAssumption, K!Init PROVE Suivi
  OBVIOUS
<1>1. InvKafka
  BY Initial
<1>2. RangsInv
  BY DEF K!Init, RangsInv
<1>3. PrefixeInv
  <2> SUFFICES ASSUME NEW p \in K!Partitions PROVE \E n \in Nat : traites[p] = 1..n
                      /\ offsets[p] <= n
    BY DEF PrefixeInv
  <2>1. traites[p] = 1..0 /\ offsets[p] <= 0
    BY DEF K!Init
  <2> QED BY <2>1
<1>4. DepuisInv /\ SuiteInv /\ FaitsInv
  BY DEF K!Init, DepuisInv, SuiteInv, FaitsInv
<1> QED BY <1>1, <1>2, <1>3, <1>4 DEF Suivi

\* Steps that change neither what was processed nor the batches.
LEMMA ProduireSuivi ==
  ASSUME Suivi, InvKafka', NEW p \in K!Partitions, K!Produire(p)
  PROVE  Suivi'
<1> DEFINE m == [offset |-> Len(journal[p]), rang |-> ecrits[p] + 1]
<1>0. /\ journal \in [K!Partitions -> Seq(Message)] /\ ecrits \in [K!Partitions -> Nat]
      /\ Len(journal[p]) \in Nat
  BY LenProperties DEF Suivi, TypeInvKafka, InvKafka
<1>1. m \in Message /\ m.offset = Len(journal[p]) /\ m.rang = ecrits[p] + 1
  BY <1>0 DEF Message
<1>2. /\ journal' = [journal EXCEPT ![p] = Append(@, m)]
      /\ ecrits' = [ecrits EXCEPT ![p] = @ + 1]
      /\ UNCHANGED <<offsets, membres, assignation, mouvements, activite, a_lire, depuis,
                     lot, faits, traites>>
  BY DEF K!Produire, K!groupe, K!boucle
<1> HIDE DEF m
<1>3. RangsInv'
  <2> SUFFICES ASSUME NEW q \in K!Partitions
               PROVE  /\ Len(journal'[q]) = ecrits'[q]
                      /\ \A i \in DOMAIN journal'[q] : /\ journal'[q][i].offset = i - 1
                                                       /\ journal'[q][i].rang = i
    BY <1>2 DEF RangsInv, Suivi
  <2>1. /\ Len(journal[q]) = ecrits[q]
        /\ \A i \in DOMAIN journal[q] : journal[q][i].offset = i - 1 /\ journal[q][i].rang = i
    BY DEF RangsInv, Suivi
  <2>2. CASE q # p
    BY <1>0, <1>2, <2>1, <2>2
  <2>3. CASE q = p
    <3>1. /\ journal'[p] = Append(journal[p], m) /\ ecrits'[p] = ecrits[p] + 1
          /\ journal[p] \in Seq(Message) /\ ecrits[p] \in Nat
      BY <1>0, <1>2
    <3>2. /\ Len(journal'[p]) = Len(journal[p]) + 1
          /\ DOMAIN journal'[p] = 1..Len(journal[p]) + 1
          /\ \A i \in 1..Len(journal[p]) : journal'[p][i] = journal[p][i]
          /\ journal'[p][Len(journal[p]) + 1] = m
          /\ DOMAIN journal[p] = 1..Len(journal[p])
      BY <3>1, <1>1
    <3> QED BY <1>0, <1>1, <2>1, <2>3, <3>1, <3>2
  <2> QED BY <2>2, <2>3
<1>4. PrefixeInv' /\ DepuisInv' /\ FaitsInv'
  BY <1>2 DEF PrefixeInv, DepuisInv, FaitsInv, Suivi
<1>5. SuiteInv'
  BY <1>2 DEF SuiteInv, Suivi, Avant
<1> QED BY <1>3, <1>4, <1>5 DEF Suivi

LEMMA GroupeSuivi ==
  ASSUME Suivi, InvKafka', NEW c \in Consommateurs, K!Rejoindre(c) \/ K!Quitter(c)
  PROVE  Suivi'
<1>1. UNCHANGED <<journal, ecrits, offsets, activite, a_lire, depuis, lot, faits, traites>>
  BY DEF K!Rejoindre, K!Quitter, K!boucle
<1>2. RangsInv' /\ PrefixeInv'
  BY <1>1 DEF Suivi, RangsInv, PrefixeInv
<1>3. DepuisInv' /\ FaitsInv'
  BY <1>1 DEF Suivi, DepuisInv, FaitsInv
<1>4. SuiteInv'
  BY <1>1 DEF Suivi, SuiteInv, Avant
<1> QED BY <1>2, <1>3, <1>4 DEF Suivi

LEMMA DemanderSuivi ==
  ASSUME Suivi, InvKafka', NEW c \in Consommateurs, K!Demander(c) \/ K!LireOffset(c)
  PROVE  Suivi'
<1>0. /\ activite \in [Consommateurs -> {"repos", "lecture", "offset_lu", "traitement"}]
      /\ a_lire \in [Consommateurs -> SUBSET K!Partitions]
      /\ depuis \in [Consommateurs -> Nat] /\ offsets' \in [K!Partitions -> Nat]
      /\ depuis' \in [Consommateurs -> Nat]
  BY DEF TypeInvKafka, InvKafka, Suivi
<1>1. UNCHANGED <<journal, ecrits, offsets, membres, assignation, mouvements, lot, faits,
                  traites>>
  BY DEF K!Demander, K!LireOffset, K!groupe
<1>2. RangsInv' /\ PrefixeInv' /\ SuiteInv' /\ FaitsInv'
  BY <1>1 DEF Suivi, RangsInv, PrefixeInv, SuiteInv, FaitsInv, Avant
<1>3. DepuisInv'
  <2> SUFFICES ASSUME NEW d \in Consommateurs, activite'[d] = "offset_lu"
               PROVE  depuis'[d] <= offsets'[K!Premiere(a_lire'[d])]
    BY DEF DepuisInv
  <2>1. CASE d # c
    <3>1. activite'[d] = activite[d] /\ depuis'[d] = depuis[d] /\ a_lire'[d] = a_lire[d]
      BY <1>0, <2>1 DEF K!Demander, K!LireOffset
    <3> QED BY <1>1, <3>1 DEF DepuisInv, Suivi
  <2>2. CASE d = c
    <3>1. K!LireOffset(c)
      BY <1>0, <2>2 DEF K!Demander
    <3>2. depuis'[c] = offsets[K!Premiere(a_lire[c])] /\ a_lire' = a_lire
      BY <1>0, <3>1 DEF K!LireOffset
    <3>3. depuis'[c] \in Nat /\ offsets' = offsets
      BY <1>0, <1>1
    <3>4. depuis'[c] = offsets'[K!Premiere(a_lire'[c])]
      BY <3>2, <3>3
    <3>5. \A x \in Nat : x <= x
      OBVIOUS
    <3>6. depuis'[c] <= depuis'[c]
      BY <3>3, <3>5
    <3> QED BY <2>2, <3>4, <3>6
  <2> QED BY <2>1, <2>2
<1> QED BY <1>2, <1>3 DEF Suivi

LEMMA LirePartitionSuivi ==
  ASSUME K!KafkaAssumption, Suivi, InvKafka', NEW c \in Consommateurs, K!LirePartition(c)
  PROVE  Suivi'
<1> DEFINE p == K!Premiere(a_lire[c])
           lus == K!Lire(p, depuis[c])
           l == Len(lot[c])
<1>0. /\ activite \in [Consommateurs -> {"repos", "lecture", "offset_lu", "traitement"}]
      /\ a_lire \in [Consommateurs -> SUBSET K!Partitions]
      /\ depuis \in [Consommateurs -> Nat] /\ lot \in [Consommateurs -> Seq(MessageLu)]
      /\ journal \in [K!Partitions -> Seq(Message)] /\ offsets \in [K!Partitions -> Nat]
      /\ faits \in [Consommateurs -> Nat]
  BY DEF TypeInvKafka, InvKafka, Suivi
<1>1. /\ activite[c] = "offset_lu"
      /\ a_lire' = [a_lire EXCEPT ![c] = @ \ {p}]
      /\ lot' = [lot EXCEPT ![c] = @ \o lus]
      /\ activite' = [activite EXCEPT ![c] =
           IF a_lire'[c] # {} THEN "lecture"
           ELSE IF lot'[c] # <<>> THEN "traitement" ELSE "repos"]
      /\ depuis' = [depuis EXCEPT ![c] = 0]
      /\ journal' = journal /\ ecrits' = ecrits /\ offsets' = offsets /\ faits' = faits
      /\ traites' = traites
  BY DEF K!LirePartition, K!groupe
<1>2. p \in K!Partitions
  BY <1>0, <1>1, PremiereDedans DEF LoopInv, InvKafka, Suivi
<1>3. /\ lus \in Seq(MessageLu)
      /\ \A i \in 1..Len(lus) :
           /\ depuis[c] + i \in 1..Len(journal[p])
           /\ lus[i] = [partition |-> p, offset |-> journal[p][depuis[c] + i].offset,
                        rang |-> journal[p][depuis[c] + i].rang]
  BY <1>0, <1>2, LireCorrect
<1>3a. depuis[c] <= offsets[p] /\ depuis[c] \in Nat
  BY <1>0, <1>1 DEF DepuisInv, Suivi
<1> HIDE DEF p, lus
<1>3b. \A i \in 1..Len(lus) : depuis[c] + i \in 1..Len(journal[p])
  BY <1>3, Zenon
<1>3c. \A i \in 1..Len(lus) :
         lus[i] = [partition |-> p, offset |-> journal[p][depuis[c] + i].offset,
                   rang |-> journal[p][depuis[c] + i].rang]
  BY <1>3, Zenon
<1>4. /\ lot[c] \in Seq(MessageLu) /\ lot'[c] = lot[c] \o lus
      /\ \A d \in Consommateurs : d # c => lot'[d] = lot[d]
  BY <1>0, <1>1
<1>5. /\ Len(lot'[c]) = l + Len(lus)
      /\ l \in Nat /\ Len(lus) \in Nat
      /\ DOMAIN lot[c] = 1..l
      /\ DOMAIN lot'[c] = 1..l + Len(lus)
      /\ \A i \in 1..l + Len(lus) :
           lot'[c][i] = IF i <= l THEN lot[c][i] ELSE lus[i - l]
  <2>1. lot[c] \o lus \in Seq(MessageLu)
    BY <1>3, <1>4, ConcatProperties
  <2> QED BY <1>3, <1>4, <2>1, ConcatProperties, LenProperties
<1>6. \A k \in 1..Len(lus) :
        /\ lus[k].partition = p /\ lus[k].offset = depuis[c] + k - 1
        /\ lus[k].rang = depuis[c] + k
  <2> TAKE k \in 1..Len(lus)
  <2>1. DOMAIN journal[p] = 1..Len(journal[p])
    BY <1>0, <1>2, LenProperties
  <2>2. /\ journal[p][depuis[c] + k].offset = depuis[c] + k - 1
        /\ journal[p][depuis[c] + k].rang = depuis[c] + k
    <3>1. \A i \in 1..Len(journal[p]) : journal[p][i].offset = i - 1 /\ journal[p][i].rang = i
      BY <1>2, <2>1 DEF RangsInv, Suivi
    <3>2. depuis[c] + k \in 1..Len(journal[p])
      BY <1>3b
    <3>3. ASSUME NEW x \in 1..Len(journal[p]), x = depuis[c] + k
          PROVE  journal[p][x].offset = depuis[c] + k - 1 /\ journal[p][x].rang = depuis[c] + k
      BY <1>3a, <1>5, <3>1, <3>3
    <3> QED BY <3>2, <3>3
  <2>3. lus[k] = [partition |-> p, offset |-> journal[p][depuis[c] + k].offset,
                  rang |-> journal[p][depuis[c] + k].rang]
    BY <1>3c
  <2> QED BY <2>2, <2>3
<1> HIDE DEF l
<1>7. \A i \in 1..l + Len(lus) : i > l => i - l \in 1..Len(lus) /\ lot'[c][i] = lus[i - l]
  BY <1>5
<1>8. \A i \in 1..l : i \in 1..l + Len(lus) /\ lot'[c][i] = lot[c][i]
  BY <1>5
<1>9. RangsInv'
  <2>1. ASSUME NEW d \in Consommateurs, NEW i \in DOMAIN lot'[d]
        PROVE  lot'[d][i].rang = lot'[d][i].offset + 1
    <3>1. CASE d # c
      BY <1>4, <3>1 DEF RangsInv, Suivi
    <3>2. CASE d = c
      <4>1. i \in 1..l + Len(lus)
        BY <1>5, <3>2
      <4>2. CASE i > l
        <5>1. i - l \in 1..Len(lus) /\ lot'[c][i] = lus[i - l]
          BY <1>7, <4>1, <4>2
        <5> QED BY <1>3a, <1>6, <3>2, <5>1
      <4>3. CASE ~(i > l)
        <5>1. i \in 1..l /\ lot'[c][i] = lot[c][i]
          BY <1>5, <1>8, <4>1, <4>3
        <5> QED BY <1>5, <3>2, <5>1 DEF RangsInv, Suivi
      <4> QED BY <4>2, <4>3
    <3> QED BY <3>1, <3>2
  <2> QED BY <1>1, <2>1 DEF RangsInv, Suivi
<1>10. PrefixeInv'
  BY <1>1 DEF PrefixeInv, Suivi
<1>11. DepuisInv'
  <2> SUFFICES ASSUME NEW d \in Consommateurs, activite'[d] = "offset_lu"
               PROVE  depuis'[d] <= offsets'[K!Premiere(a_lire'[d])]
    BY DEF DepuisInv
  <2>1. d # c
    BY <1>0, <1>1
  <2>2. activite'[d] = activite[d] /\ depuis'[d] = depuis[d] /\ a_lire'[d] = a_lire[d]
    BY <1>0, <1>1, <2>1
  <2> QED BY <1>1, <2>2 DEF DepuisInv, Suivi
<1>12. SuiteInv'
  <2> SUFFICES ASSUME NEW d \in Consommateurs, NEW i \in 1..Len(lot'[d]),
                      NEW r \in 1..lot'[d][i].rang - 1
               PROVE  r \in traites[lot'[d][i].partition] \/ Avant(d, i, r)'
    BY <1>1 DEF SuiteInv
  <2>1. CASE d # c
    <3>1. lot'[d] = lot[d]
      BY <1>4, <2>1
    <3> QED BY <3>1 DEF SuiteInv, Suivi, Avant
  <2>2. CASE d = c /\ ~(i > l)
    <3>1. i \in 1..l /\ lot'[c][i] = lot[c][i]
      BY <1>5, <1>8, <2>2
    <3>2. r \in traites[lot[c][i].partition] \/ Avant(c, i, r)
      BY <2>2, <3>1 DEF SuiteInv, Suivi, l
    <3>3. ASSUME Avant(c, i, r) PROVE Avant(c, i, r)'
      <4>1. PICK j \in 1..i - 1 : /\ lot[c][j].partition = lot[c][i].partition
                                  /\ lot[c][j].rang = r
        BY <3>3 DEF Avant
      <4>2. j \in 1..l /\ lot'[c][j] = lot[c][j]
        BY <1>5, <1>8, <3>1
      <4> QED BY <3>1, <4>1, <4>2 DEF Avant
    <3> QED BY <2>2, <3>1, <3>2, <3>3
  <2>3. CASE d = c /\ i > l
    <3> DEFINE k == i - l
    <3>1. k \in 1..Len(lus) /\ lot'[c][i] = lus[k]
      BY <1>5, <1>7, <2>3
    <3>2. /\ lus[k].partition = p /\ lus[k].rang = depuis[c] + k
      BY <1>6, <3>1
    <3>2a. k \in Nat /\ k >= 1
      BY <1>5, <3>1
    <3> HIDE DEF k
    <3>2b. lot'[d][i].rang = depuis[c] + k
      BY <2>3, <3>1, <3>2
    <3>3. r \in 1..depuis[c] + k - 1
      BY <1>3a, <3>2a, <3>2b
    <3>4. CASE r <= depuis[c]
      <4>1. PICK n \in Nat : traites[p] = 1..n /\ offsets[p] <= n
        BY <1>2 DEF PrefixeInv, Suivi
      <4>2. offsets[p] \in Nat
        BY <1>0, <1>2
      <4>3. r \in 1..n
        BY <1>3a, <3>3, <3>4, <4>1, <4>2
      <4> QED BY <2>3, <3>1, <3>2, <4>1, <4>3
    <3>5. CASE ~(r <= depuis[c])
      <4> DEFINE h == r - depuis[c]
      <4>1. h \in 1..k - 1 /\ h \in 1..Len(lus) /\ depuis[c] + h = r
        <5>1. h \in Nat /\ h >= 1 /\ h <= k - 1 /\ depuis[c] + h = r
          BY <1>3a, <3>2a, <3>3, <3>5
        <5> QED BY <1>5, <3>1, <3>2a, <5>1
      <4>2. l + h \in 1..i - 1 /\ l + h \in 1..l + Len(lus) /\ l + h > l /\ (l + h) - l = h
        <5>1. i = l + k
          BY <1>5, <2>3 DEF k
        <5> HIDE DEF h
        <5>2. h \in Nat /\ h >= 1 /\ h <= k - 1 /\ k <= Len(lus)
          BY <1>5, <3>1, <3>2a, <4>1
        <5> QED BY <1>5, <3>2a, <5>1, <5>2
      <4>3. lot'[c][l + h] = lus[h]
        BY <1>7, <4>2
      <4>4. lot'[c][l + h].partition = p /\ lot'[c][l + h].rang = r
        BY <1>6, <4>1, <4>3
      <4> HIDE DEF h
      <4>5. Avant(c, i, r)'
        BY <3>1, <3>2, <4>2, <4>4 DEF Avant
      <4> QED BY <2>3, <4>5
    <3> QED BY <3>4, <3>5
  <2> QED BY <2>1, <2>2, <2>3
<1>13. FaitsInv'
  <2> SUFFICES ASSUME NEW d \in Consommateurs, NEW i \in 1..faits[d]
               PROVE  lot'[d][i].rang \in traites[lot'[d][i].partition]
    BY <1>1 DEF FaitsInv
  <2>1. lot[d][i].rang \in traites[lot[d][i].partition]
    BY DEF FaitsInv, Suivi
  <2>2. lot'[d][i] = lot[d][i]
    <3>1. CASE d # c
      BY <1>4, <3>1
    <3>2. CASE d = c
      <4>1. faits[c] <= l /\ faits[c] \in Nat
        BY <1>0 DEF LoopInv, InvKafka, Suivi, l
      <4>2. i \in 1..l
        BY <1>5, <3>2, <4>1
      <4> QED BY <1>8, <3>2, <4>2
    <3> QED BY <3>1, <3>2
  <2> QED BY <2>1, <2>2
<1> QED BY <1>9, <1>10, <1>11, <1>12, <1>13 DEF Suivi

LEMMA TraiterSuivi ==
  ASSUME Suivi, InvKafka', NEW c \in Consommateurs, K!Traiter(c)
  PROVE  Suivi'
<1> DEFINE k == faits[c] + 1
           m == lot[c][k]
<1>0. /\ lot \in [Consommateurs -> Seq(MessageLu)] /\ faits \in [Consommateurs -> Nat]
      /\ traites \in [K!Partitions -> SUBSET Nat]
  BY DEF TypeInvKafka, InvKafka, Suivi
<1>1. /\ activite[c] = "traitement" /\ faits[c] < Len(lot[c])
      /\ faits' = [faits EXCEPT ![c] = @ + 1]
      /\ traites' = [traites EXCEPT ![m.partition] = @ \union {m.rang}]
      /\ journal' = journal /\ ecrits' = ecrits /\ offsets' = offsets
      /\ activite' = activite /\ a_lire' = a_lire /\ depuis' = depuis /\ lot' = lot
  BY DEF K!Traiter, K!groupe
<1>2. lot[c] \in Seq(MessageLu) /\ Len(lot[c]) \in Nat /\ faits[c] \in Nat
  BY <1>0, LenProperties
<1>3. k \in 1..Len(lot[c]) /\ k \in Nat
  BY <1>1, <1>2
<1>4. m \in MessageLu
  BY <1>2, <1>3, ElementOfSeq
<1>5. m.partition \in K!Partitions /\ m.rang \in Nat /\ m.offset \in Nat
  BY <1>4 DEF MessageLu
<1>6. m.rang = m.offset + 1
  <2>1. k \in DOMAIN lot[c]
    BY <1>2, <1>3, LenProperties
  <2> QED BY <2>1 DEF RangsInv, Suivi
<1>7. /\ \A p \in K!Partitions : p # m.partition => traites'[p] = traites[p]
      /\ traites'[m.partition] = traites[m.partition] \union {m.rang}
  <2> HIDE DEF m
  <2> QED BY <1>0, <1>1, <1>5
<1>8. \A p \in K!Partitions : traites[p] \subseteq traites'[p]
  <2> HIDE DEF m
  <2> QED BY <1>7
<1>9. \A r \in 1..m.rang - 1 : r \in traites[m.partition]
  <2> TAKE r \in 1..m.rang - 1
  <2>1. CASE Avant(c, k, r)
    <3>1. PICK j \in 1..k - 1 : lot[c][j].partition = m.partition /\ lot[c][j].rang = r
      BY <2>1 DEF Avant
    <3>2. j \in 1..faits[c]
      BY <1>2
    <3>3. lot[c][j].rang \in traites[lot[c][j].partition]
      BY <3>2 DEF FaitsInv, Suivi
    <3> QED BY <3>1, <3>3
  <2>2. r \in traites[m.partition] \/ Avant(c, k, r)
    BY <1>3 DEF SuiteInv, Suivi
  <2> QED BY <2>1, <2>2
<1>10. RangsInv' /\ DepuisInv'
  BY <1>1 DEF RangsInv, DepuisInv, Suivi
<1>11. PrefixeInv'
  <2> SUFFICES ASSUME NEW p \in K!Partitions
               PROVE  \E n \in Nat : traites'[p] = 1..n /\ offsets[p] <= n
    BY <1>1 DEF PrefixeInv
  <2>1. PICK n \in Nat : traites[p] = 1..n /\ offsets[p] <= n
    BY DEF PrefixeInv, Suivi
  <2>2. CASE p # m.partition
    BY <1>7, <2>1, <2>2
  <2>3. CASE p = m.partition
    <3> HIDE DEF m
    <3>1. 1..m.rang - 1 \subseteq 1..n
      BY <1>9, <2>1, <2>3
    <3>2. m.rang <= n + 1 /\ m.rang >= 1
      <4>1. CASE m.rang = 1
        BY <4>1
      <4>2. CASE m.rang # 1
        <5>1. m.rang - 1 \in 1..m.rang - 1
          BY <1>5, <1>6, <4>2
        <5>2. m.rang - 1 \in 1..n
          BY <3>1, <5>1
        <5> QED BY <1>5, <5>2
      <4> QED BY <4>1, <4>2
    <3>3. traites'[p] = (1..n) \union {m.rang}
      BY <1>7, <2>1, <2>3
    <3>4. CASE m.rang <= n
      <4>1. traites'[p] = 1..n
        BY <1>5, <3>2, <3>3, <3>4
      <4> QED BY <2>1, <4>1
    <3>5. CASE ~(m.rang <= n)
      <4>1. m.rang = n + 1
        BY <1>5, <3>2, <3>5
      <4>2. traites'[p] = 1..n + 1
        BY <3>3, <4>1
      <4>3. offsets[p] <= n + 1 /\ n + 1 \in Nat
        <5>1. offsets[p] \in Nat
          BY DEF Suivi, InvKafka, TypeInvKafka
        <5> QED BY <2>1, <5>1
      <4> QED BY <4>2, <4>3
    <3> QED BY <3>4, <3>5
  <2> QED BY <2>2, <2>3
<1>12. SuiteInv'
  <2> SUFFICES ASSUME NEW d \in Consommateurs, NEW i \in 1..Len(lot[d]),
                      NEW r \in 1..lot[d][i].rang - 1
               PROVE  r \in traites'[lot[d][i].partition] \/ Avant(d, i, r)
    BY <1>1 DEF SuiteInv, Avant
  <2>1. r \in traites[lot[d][i].partition] \/ Avant(d, i, r)
    BY DEF SuiteInv, Suivi
  <2>2. lot[d][i].partition \in K!Partitions
    <3>1. lot[d][i] \in MessageLu
      BY <1>0, ElementOfSeq
    <3> QED BY <3>1 DEF MessageLu
  <2> QED BY <1>8, <2>1, <2>2
<1>13. FaitsInv'
  <2> SUFFICES ASSUME NEW d \in Consommateurs, NEW i \in 1..faits'[d]
               PROVE  lot[d][i].rang \in traites'[lot[d][i].partition]
    BY <1>1 DEF FaitsInv
  <2>1. CASE d = c /\ i = k
    BY <1>5, <1>7, <2>1
  <2>2. CASE ~(d = c /\ i = k)
    <3>1. i \in 1..faits[d]
      BY <1>0, <1>1, <1>2, <2>2
    <3>2. lot[d][i].rang \in traites[lot[d][i].partition]
      BY <3>1 DEF FaitsInv, Suivi
    <3>3. lot[d][i].partition \in K!Partitions
      <4>1. /\ faits[d] <= Len(lot[d]) /\ faits[d] \in Nat /\ lot[d] \in Seq(MessageLu)
            /\ Len(lot[d]) \in Nat
        BY <1>0, LenProperties DEF LoopInv, InvKafka, Suivi
      <4>2. i \in 1..Len(lot[d])
        BY <3>1, <4>1
      <4>3. lot[d][i] \in MessageLu
        BY <4>1, <4>2, ElementOfSeq
      <4> QED BY <4>3 DEF MessageLu
    <3> QED BY <1>8, <3>2, <3>3
  <2> QED BY <2>1, <2>2
<1> QED BY <1>10, <1>11, <1>12, <1>13 DEF Suivi

LEMMA CommiterSuivi ==
  ASSUME K!KafkaAssumption, Suivi, InvKafka', NEW c \in Consommateurs, K!Commiter(c)
  PROVE  Suivi'
<1>0. /\ lot \in [Consommateurs -> Seq(MessageLu)] /\ faits \in [Consommateurs -> Nat]
      /\ offsets \in [K!Partitions -> Nat] /\ depuis \in [Consommateurs -> Nat]
      /\ a_lire \in [Consommateurs -> SUBSET K!Partitions] /\ offsets' \in [K!Partitions -> Nat]
  BY DEF TypeInvKafka, InvKafka, Suivi
<1>1. /\ activite[c] = "traitement" /\ K!Avancer(c)
      /\ \/ /\ activite' = [activite EXCEPT ![c] = "repos"]
            /\ lot' = [lot EXCEPT ![c] = <<>>]
            /\ faits' = [faits EXCEPT ![c] = 0]
         \/ UNCHANGED <<activite, lot, faits>>
      /\ journal' = journal /\ ecrits' = ecrits /\ a_lire' = a_lire /\ depuis' = depuis
      /\ traites' = traites
  BY DEF K!Commiter, K!groupe
<1>2. ASSUME NEW p \in K!Partitions
      PROVE  /\ offsets[p] <= offsets'[p]
             /\ offsets'[p] = offsets[p] \/ offsets'[p] \in traites[p]
  <2>1. /\ offsets'[p] \in {offsets[p]} \union K!Suivants(K!ACommiter(c), p)
        /\ \A o \in {offsets[p]} \union K!Suivants(K!ACommiter(c), p) : o <= offsets'[p]
        /\ \A o \in K!Suivants(K!ACommiter(c), p) : \E i \in 1..faits[c] :
              /\ i \in 1..Len(lot[c]) /\ lot[c][i] \in MessageLu
              /\ lot[c][i].partition = p /\ o = lot[c][i].offset + 1
    BY <1>1, AvancerCorrect DEF Suivi
  <2>2. CASE offsets'[p] \in K!Suivants(K!ACommiter(c), p)
    <3>1. PICK i \in 1..faits[c] :
              /\ i \in 1..Len(lot[c])
              /\ lot[c][i].partition = p /\ offsets'[p] = lot[c][i].offset + 1
      BY <2>1, <2>2
    <3>2. i \in DOMAIN lot[c]
      BY <1>0, <3>1, LenProperties
    <3>3. lot[c][i].rang = offsets'[p]
      BY <3>1, <3>2 DEF RangsInv, Suivi
    <3>4. lot[c][i].rang \in traites[lot[c][i].partition]
      BY DEF FaitsInv, Suivi
    <3> QED BY <2>1, <3>1, <3>3, <3>4
  <2> QED BY <2>1, <2>2
<1>3. PrefixeInv'
  <2> SUFFICES ASSUME NEW p \in K!Partitions
               PROVE  \E n \in Nat : traites[p] = 1..n /\ offsets'[p] <= n
    BY <1>1 DEF PrefixeInv
  <2>1. PICK n \in Nat : traites[p] = 1..n /\ offsets[p] <= n
    BY DEF PrefixeInv, Suivi
  <2>2. offsets'[p] = offsets[p] \/ offsets'[p] \in 1..n
    BY <1>2, <2>1
  <2> QED BY <2>1, <2>2
<1>4. \A d \in Consommateurs :
        \/ lot'[d] = lot[d] /\ faits'[d] = faits[d] /\ activite'[d] = activite[d]
        \/ /\ lot'[d] = <<>> /\ faits'[d] = 0 /\ Len(lot'[d]) = 0 /\ DOMAIN lot'[d] = {}
           /\ activite'[d] = "repos"
  <2>1. CASE UNCHANGED <<activite, lot, faits>>
    BY <2>1
  <2>2. CASE ~UNCHANGED <<activite, lot, faits>>
    BY <1>1, <2>2, FinDeTour, LotVide DEF Suivi
  <2> QED BY <2>1, <2>2
<1>5. RangsInv'
  <2>1. \A d \in Consommateurs : \A i \in DOMAIN lot'[d] :
           lot'[d][i].rang = lot'[d][i].offset + 1
    BY <1>4 DEF RangsInv, Suivi
  <2> QED BY <1>1, <2>1 DEF RangsInv, Suivi
<1>6. DepuisInv'
  <2> SUFFICES ASSUME NEW d \in Consommateurs, activite'[d] = "offset_lu"
               PROVE  depuis[d] <= offsets'[K!Premiere(a_lire[d])]
    BY <1>1 DEF DepuisInv
  <2> DEFINE p == K!Premiere(a_lire[d])
  <2>1. activite[d] = "offset_lu"
    BY <1>4
  <2>2. depuis[d] <= offsets[p] /\ depuis[d] \in Nat
    BY <1>0, <2>1 DEF DepuisInv, Suivi
  <2>3. p \in K!Partitions
    BY <1>0, <2>1, PremiereDedans DEF LoopInv, InvKafka, Suivi
  <2> HIDE DEF p
  <2>4. offsets[p] \in Nat /\ offsets'[p] \in Nat /\ offsets[p] <= offsets'[p]
    BY <1>0, <1>2, <2>3
  <2>5. depuis[d] <= offsets'[p]
    BY <2>2, <2>4
  <2> QED BY <2>5 DEF p
<1>7. SuiteInv'
  <2> SUFFICES ASSUME NEW d \in Consommateurs, NEW i \in 1..Len(lot'[d]),
                      NEW r \in 1..lot'[d][i].rang - 1
               PROVE  r \in traites[lot'[d][i].partition] \/ Avant(d, i, r)'
    BY <1>1 DEF SuiteInv
  <2>1. lot'[d] = lot[d]
    BY <1>4
  <2> QED BY <2>1 DEF SuiteInv, Suivi, Avant
<1>8. FaitsInv'
  <2> SUFFICES ASSUME NEW d \in Consommateurs, NEW i \in 1..faits'[d]
               PROVE  lot'[d][i].rang \in traites[lot'[d][i].partition]
    BY <1>1 DEF FaitsInv
  <2>1. lot'[d] = lot[d] /\ faits'[d] = faits[d]
    BY <1>4
  <2> QED BY <2>1 DEF FaitsInv, Suivi
<1> QED BY <1>3, <1>5, <1>6, <1>7, <1>8 DEF Suivi

LEMMA TomberSuivi ==
  ASSUME Suivi, InvKafka', NEW c \in Consommateurs, K!Tomber(c)
  PROVE  Suivi'
<1>0. /\ a_lire \in [Consommateurs -> SUBSET K!Partitions] /\ depuis \in [Consommateurs -> Nat]
  BY DEF TypeInvKafka, InvKafka, Suivi
<1>1. /\ activite' = [activite EXCEPT ![c] = "repos"]
      /\ a_lire' = [a_lire EXCEPT ![c] = {}]
      /\ depuis' = [depuis EXCEPT ![c] = 0]
      /\ lot' = [lot EXCEPT ![c] = <<>>]
      /\ faits' = [faits EXCEPT ![c] = 0]
      /\ journal' = journal /\ ecrits' = ecrits /\ offsets' = offsets /\ traites' = traites
  BY DEF K!Tomber
<1>2. \A d \in Consommateurs :
        \/ lot'[d] = lot[d] /\ faits'[d] = faits[d] /\ activite'[d] = activite[d] /\ d # c
        \/ /\ lot'[d] = <<>> /\ faits'[d] = 0 /\ Len(lot'[d]) = 0 /\ DOMAIN lot'[d] = {}
           /\ activite'[d] = "repos"
  BY <1>1, FinDeTour, LotVide DEF Suivi
<1>3. RangsInv'
  <2>1. \A d \in Consommateurs : \A i \in DOMAIN lot'[d] :
           lot'[d][i].rang = lot'[d][i].offset + 1
    BY <1>2 DEF RangsInv, Suivi
  <2> QED BY <1>1, <2>1 DEF RangsInv, Suivi
<1>4. PrefixeInv'
  BY <1>1 DEF PrefixeInv, Suivi
<1>5. DepuisInv'
  <2> SUFFICES ASSUME NEW d \in Consommateurs, activite'[d] = "offset_lu"
               PROVE  depuis'[d] <= offsets'[K!Premiere(a_lire'[d])]
    BY DEF DepuisInv
  <2>1. d # c /\ activite[d] = "offset_lu"
    BY <1>2
  <2>2. depuis'[d] = depuis[d] /\ a_lire'[d] = a_lire[d]
    BY <1>0, <1>1, <2>1
  <2> QED BY <1>1, <2>1, <2>2 DEF DepuisInv, Suivi
<1>6. SuiteInv'
  <2> SUFFICES ASSUME NEW d \in Consommateurs, NEW i \in 1..Len(lot'[d]),
                      NEW r \in 1..lot'[d][i].rang - 1
               PROVE  r \in traites[lot'[d][i].partition] \/ Avant(d, i, r)'
    BY <1>1 DEF SuiteInv
  <2>1. lot'[d] = lot[d]
    BY <1>2
  <2> QED BY <2>1 DEF SuiteInv, Suivi, Avant
<1>7. FaitsInv'
  <2> SUFFICES ASSUME NEW d \in Consommateurs, NEW i \in 1..faits'[d]
               PROVE  lot'[d][i].rang \in traites[lot'[d][i].partition]
    BY <1>1 DEF FaitsInv
  <2>1. lot'[d] = lot[d] /\ faits'[d] = faits[d]
    BY <1>2
  <2> QED BY <2>1 DEF FaitsInv, Suivi
<1> QED BY <1>3, <1>4, <1>5, <1>6, <1>7 DEF Suivi

LEMMA SuiviStep == K!KafkaAssumption /\ SansRetention /\ Suivi /\ [K!Next]_K!varsKafka => Suivi'
<1> SUFFICES ASSUME K!KafkaAssumption, SansRetention, Suivi, [K!Next]_K!varsKafka PROVE Suivi'
  OBVIOUS
<1>0. InvKafka'
  BY InvStep DEF Suivi
<1>1. CASE UNCHANGED K!varsKafka
  <2>1. UNCHANGED <<journal, ecrits, offsets, activite, a_lire, depuis, lot, faits, traites>>
    BY <1>1 DEF K!varsKafka
  <2>2. RangsInv' /\ PrefixeInv'
    BY <2>1 DEF Suivi, RangsInv, PrefixeInv
  <2>3. DepuisInv' /\ FaitsInv'
    BY <2>1 DEF Suivi, DepuisInv, FaitsInv
  <2>4. SuiteInv'
    BY <2>1 DEF Suivi, SuiteInv, Avant
  <2> QED BY <1>0, <2>2, <2>3, <2>4 DEF Suivi
<1>2. ASSUME NEW p \in K!Partitions, K!Produire(p) \/ K!Purger(p) PROVE Suivi'
  <2>1. ~K!Purger(p)
    BY DEF K!Purger, SansRetention
  <2> QED BY <1>0, <1>2, <2>1, ProduireSuivi
<1>3. ASSUME NEW c \in Consommateurs,
             \/ K!Rejoindre(c) \/ K!Quitter(c) \/ K!Tomber(c) \/ K!Demander(c) \/ K!LireOffset(c)
             \/ K!LirePartition(c) \/ K!Traiter(c) \/ K!Commiter(c)
      PROVE  Suivi'
  BY <1>0, <1>3, GroupeSuivi, TomberSuivi, DemanderSuivi, LirePartitionSuivi, TraiterSuivi,
     CommiterSuivi
<1> QED BY <1>1, <1>2, <1>3 DEF K!Next

\* Without retention every message below the committed offset was processed, whatever
\* rebalances and crashes come between a poll, its processing and its commit.
THEOREM AuMoinsUneFoisCorrect ==
  ASSUME K!KafkaAssumption, SansRetention
  PROVE  K!Spec => []K!AuMoinsUneFois
<1>1. K!KafkaAssumption /\ SansRetention
  OBVIOUS
<1>2. K!Init => Suivi
  BY <1>1, InitialSuivi
<1>3. Suivi /\ [K!Next]_K!varsKafka => Suivi'
  BY <1>1, SuiviStep
<1>4. Suivi => K!AuMoinsUneFois
  <2> SUFFICES ASSUME Suivi, NEW p \in K!Partitions, NEW i \in 1..Len(journal[p]),
                      i <= offsets[p]
               PROVE  journal[p][i].rang \in traites[p]
    BY DEF K!AuMoinsUneFois
  <2>1. journal \in [K!Partitions -> Seq(Message)] /\ offsets \in [K!Partitions -> Nat]
    BY DEF Suivi, InvKafka, TypeInvKafka
  <2>2. i \in DOMAIN journal[p]
    BY <2>1, LenProperties
  <2>3. journal[p][i].rang = i
    BY <2>2 DEF Suivi, RangsInv
  <2>4. PICK n \in Nat : traites[p] = 1..n /\ offsets[p] <= n
    BY DEF PrefixeInv, Suivi
  <2>5. i \in 1..n
    BY <2>1, <2>4
  <2> QED BY <2>3, <2>4, <2>5
<1> QED BY <1>2, <1>3, <1>4, PTL DEF K!Spec

\* Without retention the messages of a partition are processed in their order, nothing
\* skipped: what was processed is a prefix.
\* The cardinality of the instance is that of the library.
LEMMA CardinaliteKafka == \A S : K!Cardinality(S) = Cardinality(S)
BY DEF K!Cardinality, Cardinality

THEOREM OrdreGarantiCorrect ==
  ASSUME K!KafkaAssumption, SansRetention
  PROVE  K!Spec => []K!OrdreGaranti
<1>1. K!KafkaAssumption /\ SansRetention
  OBVIOUS
<1>2. K!Init => Suivi
  BY <1>1, InitialSuivi
<1>3. Suivi /\ [K!Next]_K!varsKafka => Suivi'
  BY <1>1, SuiviStep
<1>4. Suivi => K!OrdreGaranti
  <2> SUFFICES ASSUME Suivi, NEW p \in K!Partitions
               PROVE  traites[p] = 1..Cardinality(traites[p])
    BY CardinaliteKafka DEF K!OrdreGaranti
  <2>1. PICK n \in Nat : traites[p] = 1..n
    BY DEF PrefixeInv, Suivi
  <2>2. Cardinality(1..n) = n
    BY FS_Interval
  <2> QED BY <2>1, <2>2
<1> QED BY <1>2, <1>3, <1>4, PTL DEF K!Spec

-----------------------------------------------------------------------------
\* Work stealing.

\* The types are inductive.
TypeInvVol == V!TypeOK

\* A task is at one place of one queue at most, and nowhere else if it is there.
FilesInv ==
    \A u, v \in Ouvriers : \A i \in DOMAIN queues[u] :
        /\ \A j \in DOMAIN queues[v] : queues[u][i] = queues[v][j] => u = v /\ i = j
        /\ queues[u][i] \notin tenu[v]
        /\ queues[u][i] \notin executees

\* In one hand, and not done.
MainsInv ==
    /\ \A u, v \in Ouvriers : tenu[u] \cap tenu[v] # {} => u = v
    /\ \A u \in Ouvriers : tenu[u] \cap executees = {}
    /\ \A u \in Ouvriers : position[u] # "execute" => tenu[u] = {}

\* A queue has been chosen for it: it is nowhere yet.
ChoixInv ==
    \A t \in Travaux : choisie[t] # {} =>
        /\ \A u \in Ouvriers : /\ \A i \in DOMAIN queues[u] : queues[u][i] # t
                               /\ t \notin tenu[u]
        /\ t \notin executees

\* The inductive invariant.
InvVol == TypeInvVol /\ FilesInv /\ MainsInv /\ ChoixInv

\* Every action keeps it: the choice of a queue, the submission to it, the taking of a
\* task by its worker or by a thief, the execution.
LEMMA ChoisirInv ==
    ASSUME InvVol, NEW t \in Travaux, V!Choisir(t)
    PROVE  InvVol'
<1> USE DEF InvVol, TypeInvVol, V!TypeOK
<1>1. UNCHANGED <<queues, position, a_voir, tenu, executees, ouvert>>
  BY DEF V!Choisir
<1>2. PICK w \in Ouvriers : choisie' = [choisie EXCEPT ![t] = {w}]
  BY DEF V!Choisir
<1>3. /\ \A u \in Ouvriers : /\ \A i \in DOMAIN queues[u] : queues[u][i] # t
                             /\ t \notin tenu[u]
      /\ t \notin executees
  <2>1. V!Lieux(t).files = {} /\ V!Lieux(t).mains = {} /\ t \notin executees
    BY DEF V!Choisir, V!Soumis
  <2>2. ASSUME NEW u \in Ouvriers, NEW i \in DOMAIN queues[u], queues[u][i] = t
        PROVE  FALSE
    <3>1. <<u, i>> \in {u} \X {j \in DOMAIN queues[u] : queues[u][j] = t}
      BY <2>2
    <3>2. <<u, i>> \in V!Lieux(t).files
      BY <3>1 DEF V!Lieux
    <3> QED
      BY <2>1, <3>2
  <2>3. ASSUME NEW u \in Ouvriers, t \in tenu[u]
        PROVE  FALSE
    <3>1. u \in V!Lieux(t).mains
      BY <2>3 DEF V!Lieux
    <3> QED
      BY <2>1, <3>1
  <2> QED
    BY <2>1, <2>2, <2>3
<1>4. TypeInvVol'
  BY <1>1, <1>2
<1>5. FilesInv' /\ MainsInv'
  BY <1>1 DEF FilesInv, MainsInv
<1>6. ChoixInv'
  BY <1>1, <1>2, <1>3 DEF ChoixInv
<1> QED
  BY <1>4, <1>5, <1>6

LEMMA DeposerInv ==
    ASSUME InvVol, NEW t \in Travaux, V!Deposer(t)
    PROVE  InvVol'
<1> USE DEF InvVol, TypeInvVol, V!TypeOK
<1>1. UNCHANGED <<position, a_voir, tenu, executees, ouvert>>
  BY DEF V!Deposer
<1>2. PICK w \in choisie[t] : queues' = [queues EXCEPT ![w] = Append(@, t)]
  BY DEF V!Deposer
<1>3. choisie' = [choisie EXCEPT ![t] = {}]
  BY DEF V!Deposer
<1>4. w \in Ouvriers
  BY <1>2
<1>5. /\ \A u \in Ouvriers : /\ \A i \in DOMAIN queues[u] : queues[u][i] # t
                             /\ t \notin tenu[u]
      /\ t \notin executees
  BY <1>2 DEF ChoixInv
<1>6. TypeInvVol'
  BY <1>1, <1>2, <1>3, <1>4
<1>7. \A u \in Ouvriers : \A i \in DOMAIN queues'[u] :
         \/ i \in DOMAIN queues[u] /\ queues'[u][i] = queues[u][i]
         \/ u = w /\ i = Len(queues[w]) + 1 /\ queues'[u][i] = t
  <2>1. \A u \in Ouvriers : queues[u] \in Seq(Travaux)
    OBVIOUS
  <2>2. \A u \in Ouvriers : queues'[u] = IF u = w THEN Append(queues[w], t) ELSE queues[u]
    BY <1>2, <1>4
  <2>3. \A i \in DOMAIN Append(queues[w], t) :
           \/ i \in DOMAIN queues[w] /\ Append(queues[w], t)[i] = queues[w][i]
           \/ i = Len(queues[w]) + 1 /\ Append(queues[w], t)[i] = t
    BY <1>4, <2>1
  <2> QED
    BY <2>2, <2>3
<1>8. FilesInv'
  <2> SUFFICES ASSUME NEW a \in Ouvriers, NEW b \in Ouvriers, NEW i \in DOMAIN queues'[a]
               PROVE  /\ \A j \in DOMAIN queues'[b] :
                            queues'[a][i] = queues'[b][j] => a = b /\ i = j
                      /\ queues'[a][i] \notin tenu[b]
                      /\ queues'[a][i] \notin executees
    BY <1>1 DEF FilesInv
  <2>1. \A u, x \in Ouvriers : \A y \in DOMAIN queues[u] :
           /\ \A z \in DOMAIN queues[x] : queues[u][y] = queues[x][z] => u = x /\ y = z
           /\ queues[u][y] \notin tenu[x]
           /\ queues[u][y] \notin executees
           /\ queues[u][y] # t
    BY <1>5 DEF FilesInv
  <2> HIDE DEF InvVol, TypeInvVol, V!TypeOK
  <2>2. CASE a = w /\ i = Len(queues[w]) + 1 /\ queues'[a][i] = t
    BY <1>5, <1>7, <2>1, <2>2
  <2>3. CASE i \in DOMAIN queues[a] /\ queues'[a][i] = queues[a][i]
    BY <1>5, <1>7, <2>1, <2>3
  <2> QED
    BY <1>7, <2>2, <2>3
<1>9. MainsInv'
  BY <1>1 DEF MainsInv
<1>10. ChoixInv'
  BY <1>1, <1>3, <1>7 DEF ChoixInv
<1> QED
  BY <1>6, <1>8, <1>9, <1>10

\* The queues but v are as they were, v has lost its place k, and the others of v have
\* moved by d.
Restent(v, k, d) ==
    \A u \in Ouvriers : \A i \in DOMAIN queues'[u] :
        IF u = v
        THEN i + d \in DOMAIN queues[u] /\ i + d # k /\ queues'[u][i] = queues[u][i + d]
        ELSE i \in DOMAIN queues[u] /\ queues'[u][i] = queues[u][i]

\* What is taken out of a queue and held: the other places keep their tasks.
LEMMA RetraitVol ==
    ASSUME InvVol, NEW w \in Ouvriers, NEW v \in Ouvriers, NEW k \in DOMAIN queues[v],
           NEW d \in {0, 1},
           TypeInvVol',
           tenu' = [tenu EXCEPT ![w] = {queues[v][k]}],
           position' = [position EXCEPT ![w] = "execute"],
           UNCHANGED <<choisie, executees>>,
           Restent(v, k, d),
           tenu[w] = {}
    PROVE  InvVol'
<1> DEFINE T == queues[v][k]
<1>0. /\ queues \in [Ouvriers -> Seq(Travaux)]
      /\ queues' \in [Ouvriers -> Seq(Travaux)]
      /\ tenu \in [Ouvriers -> SUBSET Travaux]
      /\ choisie \in [Travaux -> SUBSET Ouvriers]
      /\ position \in [Ouvriers -> {"boucle", "vole", "execute", "fini"}]
  BY DEF InvVol, TypeInvVol, V!TypeOK
<1>1. T \in Travaux
  BY <1>0
<1>2. \A u \in Ouvriers : tenu'[u] = IF u = w THEN {T} ELSE tenu[u]
  BY <1>0
<1>3. \A u \in Ouvriers : \A i \in DOMAIN queues'[u] : i \in Int
  BY <1>0
<1>4. \A u \in Ouvriers : \A i \in DOMAIN queues'[u] :
         \E j \in DOMAIN queues[u] : /\ queues'[u][i] = queues[u][j]
                                     /\ u = v => j = i + d /\ j # k
                                     /\ u # v => j = i
  BY DEF Restent
<1>5. \A u \in Ouvriers : \A i \in DOMAIN queues'[u] : queues'[u][i] # T
  <2> SUFFICES ASSUME NEW u \in Ouvriers, NEW i \in DOMAIN queues'[u], queues'[u][i] = T
               PROVE  FALSE
    OBVIOUS
  <2>1. PICK j \in DOMAIN queues[u] : /\ queues'[u][i] = queues[u][j]
                                      /\ u = v => j # k
    BY <1>4
  <2>2. queues[u][j] = queues[v][k]
    BY <2>1
  <2>3. u = v /\ j = k
    BY <2>2 DEF InvVol, FilesInv
  <2> QED
    BY <2>1, <2>3
<1>6. /\ \A u \in Ouvriers : T \notin tenu[u]
      /\ T \notin executees
      /\ choisie[T] = {}
  BY <1>1 DEF InvVol, FilesInv, ChoixInv
<1> HIDE DEF T
<1>7. FilesInv'
  <2> SUFFICES ASSUME NEW a \in Ouvriers, NEW b \in Ouvriers, NEW i \in DOMAIN queues'[a]
               PROVE  /\ \A j \in DOMAIN queues'[b] :
                            queues'[a][i] = queues'[b][j] => a = b /\ i = j
                      /\ queues'[a][i] \notin tenu'[b]
                      /\ queues'[a][i] \notin executees'
    BY DEF FilesInv
  <2>1. PICK x \in DOMAIN queues[a] : /\ queues'[a][i] = queues[a][x]
                                      /\ a = v => x = i + d
                                      /\ a # v => x = i
    BY <1>4
  <2>2. ASSUME NEW j \in DOMAIN queues'[b], queues'[a][i] = queues'[b][j]
        PROVE  a = b /\ i = j
    <3>1. PICK y \in DOMAIN queues[b] : /\ queues'[b][j] = queues[b][y]
                                        /\ b = v => y = j + d
                                        /\ b # v => y = j
      BY <1>4
    <3>2. queues[a][x] = queues[b][y]
      BY <2>1, <2>2, <3>1
    <3>3. a = b /\ x = y
      BY <3>2 DEF InvVol, FilesInv
    <3>4. i \in Int /\ j \in Int
      BY <1>3
    <3> QED
      BY <2>1, <3>1, <3>3, <3>4
  <2>3. queues'[a][i] \notin tenu'[b]
    BY <1>2, <1>5, <2>1 DEF InvVol, FilesInv
  <2>4. queues'[a][i] \notin executees'
    BY <2>1 DEF InvVol, FilesInv
  <2> QED
    BY <2>2, <2>3, <2>4
<1>8. MainsInv'
  <2>1. \A u \in Ouvriers : position'[u] # "execute" => u # w /\ position[u] # "execute"
    BY <1>0
  <2>2. \A u, x \in Ouvriers : tenu'[u] \cap tenu'[x] # {} => u = x
    BY <1>2, <1>6 DEF InvVol, MainsInv
  <2>3. \A u \in Ouvriers : tenu'[u] \cap executees' = {}
    BY <1>2, <1>6 DEF InvVol, MainsInv
  <2>4. \A u \in Ouvriers : position'[u] # "execute" => tenu'[u] = {}
    BY <1>2, <2>1 DEF InvVol, MainsInv
  <2> QED
    BY <2>2, <2>3, <2>4 DEF MainsInv
<1>9. ChoixInv'
  <2> SUFFICES ASSUME NEW t \in Travaux, choisie[t] # {}
               PROVE  /\ \A u \in Ouvriers : /\ \A i \in DOMAIN queues'[u] : queues'[u][i] # t
                                             /\ t \notin tenu'[u]
                      /\ t \notin executees
    BY DEF ChoixInv
  <2>1. t # T
    BY <1>6
  <2>2. /\ \A u \in Ouvriers : /\ \A i \in DOMAIN queues[u] : queues[u][i] # t
                               /\ t \notin tenu[u]
        /\ t \notin executees
    BY DEF InvVol, ChoixInv
  <2> QED
    BY <1>2, <1>4, <2>1, <2>2
<1> QED
  BY <1>7, <1>8, <1>9 DEF InvVol

LEMMA PrendreInvVol ==
    ASSUME InvVol, NEW w \in Ouvriers, V!Prendre(w)
    PROVE  InvVol'
<1>0. /\ queues \in [Ouvriers -> Seq(Travaux)]
      /\ tenu \in [Ouvriers -> SUBSET Travaux]
      /\ position \in [Ouvriers -> {"boucle", "vole", "execute", "fini"}]
      /\ a_voir \in [Ouvriers -> SUBSET Ouvriers]
  BY DEF InvVol, TypeInvVol, V!TypeOK
<1>1. position[w] = "boucle" /\ UNCHANGED <<choisie, executees, ouvert>>
  BY DEF V!Prendre
<1>2. tenu[w] = {}
  BY <1>1 DEF InvVol, MainsInv
<1>3. CASE /\ UNCHANGED <<queues, tenu>>
           /\ \E x \in {"fini", "vole"} : position' = [position EXCEPT ![w] = x]
           /\ a_voir' = a_voir \/ a_voir' = [a_voir EXCEPT ![w] = Ouvriers \ {w}]
  <2>1. PICK x \in {"fini", "vole"} : position' = [position EXCEPT ![w] = x]
    BY <1>3
  <2>2. TypeInvVol'
    <3>1. position' \in [Ouvriers -> {"boucle", "vole", "execute", "fini"}]
      BY <1>0, <2>1
    <3>2. a_voir' \in [Ouvriers -> SUBSET Ouvriers]
      BY <1>0, <1>3
    <3> QED
      BY <1>1, <1>3, <3>1, <3>2 DEF InvVol, TypeInvVol, V!TypeOK
  <2>3. MainsInv'
    BY <1>0, <1>1, <1>2, <1>3, <2>1 DEF InvVol, MainsInv
  <2>4. FilesInv' /\ ChoixInv'
    BY <1>1, <1>3 DEF InvVol, FilesInv, ChoixInv
  <2> QED
    BY <2>2, <2>3, <2>4 DEF InvVol
<1>4. CASE /\ queues[w] # <<>>
           /\ position' = [position EXCEPT ![w] = "execute"]
           /\ tenu' = [tenu EXCEPT ![w] = {Head(queues[w])}]
           /\ queues' = [queues EXCEPT ![w] = Tail(@)]
           /\ UNCHANGED a_voir
  <2>1. 1 \in DOMAIN queues[w] /\ Head(queues[w]) = queues[w][1]
    BY <1>0, <1>4
  <2>2. queues[w][1] \in Travaux
    BY <1>0, <2>1
  <2>3. Tail(queues[w]) \in Seq(Travaux)
    BY <1>0, <1>4
  <2>4. TypeInvVol'
    BY <1>0, <1>1, <1>4, <2>1, <2>2, <2>3 DEF InvVol, TypeInvVol, V!TypeOK
  <2>5. \A i \in DOMAIN Tail(queues[w]) :
           i + 1 \in DOMAIN queues[w] /\ i + 1 # 1 /\ Tail(queues[w])[i] = queues[w][i + 1]
    BY <1>0, <1>4
  <2>6. Restent(w, 1, 1)
    BY <1>0, <1>4, <2>5 DEF Restent
  <2>7. tenu' = [tenu EXCEPT ![w] = {queues[w][1]}]
    BY <1>4, <2>1
  <2> QED
    BY <1>1, <1>2, <1>4, <2>1, <2>4, <2>6, <2>7, RetraitVol, Zenon
<1> QED
  BY <1>3, <1>4 DEF V!Prendre

LEMMA VolerInv ==
    ASSUME InvVol, NEW w \in Ouvriers, V!Voler(w)
    PROVE  InvVol'
<1>0. /\ queues \in [Ouvriers -> Seq(Travaux)]
      /\ tenu \in [Ouvriers -> SUBSET Travaux]
      /\ position \in [Ouvriers -> {"boucle", "vole", "execute", "fini"}]
      /\ a_voir \in [Ouvriers -> SUBSET Ouvriers]
  BY DEF InvVol, TypeInvVol, V!TypeOK
<1>1. position[w] = "vole" /\ UNCHANGED <<choisie, executees, ouvert>>
  BY DEF V!Voler
<1>2. tenu[w] = {}
  BY <1>1 DEF InvVol, MainsInv
<1>3. CASE /\ UNCHANGED <<queues, tenu>>
           /\ position' = position \/ position' = [position EXCEPT ![w] = "boucle"]
           /\ a_voir' = a_voir \/ \E v \in a_voir[w] : a_voir' = [a_voir EXCEPT ![w] = @ \ {v}]
  <2>1. TypeInvVol'
    <3>1. position' \in [Ouvriers -> {"boucle", "vole", "execute", "fini"}]
      BY <1>0, <1>3
    <3>2. a_voir' \in [Ouvriers -> SUBSET Ouvriers]
      BY <1>0, <1>3
    <3> QED
      BY <1>1, <1>3, <3>1, <3>2 DEF InvVol, TypeInvVol, V!TypeOK
  <2>2. MainsInv'
    BY <1>0, <1>1, <1>2, <1>3 DEF InvVol, MainsInv
  <2>3. FilesInv' /\ ChoixInv'
    BY <1>1, <1>3 DEF InvVol, FilesInv, ChoixInv
  <2> QED
    BY <2>1, <2>2, <2>3 DEF InvVol
<1>4. ASSUME NEW v \in a_voir[w],
             Len(queues[v]) > 1,
             tenu' = [tenu EXCEPT ![w] = {queues[v][Len(queues[v])]}],
             queues' = [queues EXCEPT ![v] = V!Delester(@)],
             position' = [position EXCEPT ![w] = "execute"],
             a_voir' = [a_voir EXCEPT ![w] = {}]
      PROVE  InvVol'
  <2>1. v \in Ouvriers
    BY <1>0
  <2>2. Len(queues[v]) \in DOMAIN queues[v] /\ queues[v] \in Seq(Travaux)
    BY <1>0, <1>4, <2>1
  <2>3. queues[v][Len(queues[v])] \in Travaux
    BY <2>2
  <2>4. /\ V!Delester(queues[v]) \in Seq(Travaux)
        /\ \A i \in DOMAIN V!Delester(queues[v]) :
              /\ i + 0 \in DOMAIN queues[v]
              /\ i + 0 # Len(queues[v])
              /\ V!Delester(queues[v])[i] = queues[v][i + 0]
    BY <1>4, <2>2 DEF V!Delester
  <2>5. TypeInvVol'
    BY <1>0, <1>1, <1>4, <2>1, <2>3, <2>4 DEF InvVol, TypeInvVol, V!TypeOK
  <2>6. Restent(v, Len(queues[v]), 0)
    BY <1>0, <1>4, <2>1, <2>4 DEF Restent
  <2> QED
    BY <1>1, <1>2, <1>4, <2>1, <2>2, <2>5, <2>6, RetraitVol, Zenon
<1> QED
  BY <1>3, <1>4 DEF V!Voler

LEMMA ExecuterInv ==
    ASSUME InvVol, NEW w \in Ouvriers, V!Executer(w)
    PROVE  InvVol'
<1>0. /\ queues \in [Ouvriers -> Seq(Travaux)]
      /\ tenu \in [Ouvriers -> SUBSET Travaux]
      /\ position \in [Ouvriers -> {"boucle", "vole", "execute", "fini"}]
  BY DEF InvVol, TypeInvVol, V!TypeOK
<1>1. /\ executees' = executees \union tenu[w]
      /\ tenu' = [tenu EXCEPT ![w] = {}]
      /\ position' = [position EXCEPT ![w] = "boucle"]
      /\ UNCHANGED <<queues, choisie, a_voir, ouvert>>
  BY DEF V!Executer, V!Reprise
<1>2. TypeInvVol'
  BY <1>0, <1>1 DEF InvVol, TypeInvVol, V!TypeOK
<1>3. \A u \in Ouvriers : tenu'[u] = IF u = w THEN {} ELSE tenu[u]
  BY <1>0, <1>1
<1>4. FilesInv'
  BY <1>0, <1>1, <1>3 DEF InvVol, FilesInv
<1>5. MainsInv'
  BY <1>0, <1>1, <1>3 DEF InvVol, MainsInv
<1>6. ChoixInv'
  BY <1>0, <1>1, <1>3 DEF InvVol, ChoixInv
<1> QED
  BY <1>2, <1>4, <1>5, <1>6 DEF InvVol

\* The inductive invariant holds always.
THEOREM InvCorrectVol == V!Spec => []InvVol
<1>1. V!Init => InvVol
  BY DEF V!Init, InvVol, TypeInvVol, V!TypeOK, FilesInv, MainsInv, ChoixInv
<1>2. ASSUME InvVol, [V!Next]_V!varsVol
      PROVE  InvVol'
  <2>1. ASSUME NEW t \in Travaux, V!Choisir(t) \/ V!Deposer(t)
        PROVE  InvVol'
    BY <1>2, <2>1, ChoisirInv, DeposerInv
  <2>2. ASSUME NEW w \in Ouvriers, V!Travailler(w)
        PROVE  InvVol'
    BY <1>2, <2>2, PrendreInvVol, VolerInv, ExecuterInv DEF V!Travailler
  <2>3. CASE V!Arreter
    <3>1. /\ ouvert' \in BOOLEAN
          /\ UNCHANGED <<queues, choisie, position, a_voir, tenu, executees>>
      BY <2>3 DEF V!Arreter
    <3>2. TypeInvVol'
      BY <1>2, <3>1 DEF InvVol, TypeInvVol, V!TypeOK
    <3>3. FilesInv' /\ MainsInv' /\ ChoixInv'
      BY <1>2, <3>1 DEF InvVol, FilesInv, MainsInv, ChoixInv
    <3> QED
      BY <3>2, <3>3 DEF InvVol
  <2>4. CASE UNCHANGED V!varsVol
    BY <1>2, <2>4 DEF V!varsVol, InvVol, TypeInvVol, V!TypeOK, FilesInv, MainsInv, ChoixInv
  <2> QED
    BY <1>2, <2>1, <2>2, <2>3, <2>4 DEF V!Next
<1> QED
  BY <1>1, <1>2, PTL DEF V!Spec

\* A set no two members of which differ.
LEMMA AuPlusUnVol ==
    ASSUME NEW S, \A x, y \in S : x = y
    PROVE  S = {} \/ Cardinality(S) = 1
<1>1. ASSUME NEW x \in S
      PROVE  Cardinality(S) = 1
  <2>1. S = {x}
    BY <1>1
  <2>2. Cardinality({x}) = 1
    BY FS_Singleton, Zenon
  <2> QED
    BY <2>1, <2>2
<1> QED
  BY <1>1

\* A task is in one place at most: a queue, a hand or the executed ones.
\* The cardinality of the instance is that of the library.
LEMMA CardinaliteVol == \A S : V!Cardinality(S) = Cardinality(S)
BY DEF V!Cardinality, Cardinality

LEMMA InvDonneUneSeuleExecution == InvVol => V!UneSeuleExecution
<1> SUFFICES ASSUME InvVol, NEW t \in Travaux
             PROVE  Cardinality(V!Lieux(t).files) + Cardinality(V!Lieux(t).mains)
                       + (IF t \in executees THEN 1 ELSE 0) <= 1
  BY CardinaliteVol DEF V!UneSeuleExecution, InvVol, MainsInv
<1>1. \A p \in V!Lieux(t).files : \E u \in Ouvriers : \E i \in DOMAIN queues[u] :
         p = <<u, i>> /\ queues[u][i] = t
  BY DEF V!Lieux
<1>2. \A p, q \in V!Lieux(t).files : p = q
  <2> SUFFICES ASSUME NEW p \in V!Lieux(t).files, NEW q \in V!Lieux(t).files
               PROVE  p = q
    OBVIOUS
  <2>1. PICK u \in Ouvriers : \E i \in DOMAIN queues[u] : p = <<u, i>> /\ queues[u][i] = t
    BY <1>1
  <2>2. PICK i \in DOMAIN queues[u] : p = <<u, i>> /\ queues[u][i] = t
    BY <2>1
  <2>3. PICK v \in Ouvriers : \E j \in DOMAIN queues[v] : q = <<v, j>> /\ queues[v][j] = t
    BY <1>1
  <2>4. PICK j \in DOMAIN queues[v] : q = <<v, j>> /\ queues[v][j] = t
    BY <2>3
  <2> QED
    BY <2>2, <2>4 DEF InvVol, FilesInv
<1>3. \A u \in V!Lieux(t).mains : u \in Ouvriers /\ t \in tenu[u]
  BY DEF V!Lieux
<1>4. \A u, v \in V!Lieux(t).mains : u = v
  BY <1>3 DEF InvVol, MainsInv
<1>5. V!Lieux(t).files # {} => V!Lieux(t).mains = {} /\ t \notin executees
  BY <1>1, <1>3 DEF InvVol, FilesInv
<1>6. V!Lieux(t).mains # {} => t \notin executees
  BY <1>3 DEF InvVol, MainsInv
<1>7. V!Lieux(t).files = {} \/ Cardinality(V!Lieux(t).files) = 1
  BY <1>2, AuPlusUnVol
<1>8. V!Lieux(t).mains = {} \/ Cardinality(V!Lieux(t).mains) = 1
  BY <1>4, AuPlusUnVol
<1>9. Cardinality({}) = 0
  BY FS_EmptySet, Zenon
<1> QED
  BY <1>5, <1>6, <1>7, <1>8, <1>9

\* Queues, hands and places are typed.
THEOREM TypeCorrectVol == V!Spec => []V!TypeOK
<1>1. InvVol => V!TypeOK
  BY DEF InvVol, TypeInvVol
<1> QED
  BY <1>1, InvCorrectVol, PTL

\* No task is in two places or taken twice, although a worker and its thieves look at a
\* queue before they lock it: for every number of workers and tasks, stopped or not.
THEOREM UneSeuleExecutionVraie == V!Spec => []V!UneSeuleExecution
  BY InvCorrectVol, InvDonneUneSeuleExecution, PTL

-----------------------------------------------------------------------------
\* Lamport clocks.

\* The name of an event: its thread and how many that thread had before.
Noms == L!Fils \X Nat
Evenement == [nom : Noms, timestamp : Nat \ {0}, processus : L!Processus,
              avant : SUBSET Noms]

\* The types.
TypeInvLamport ==
    /\ programme \in Programmes
    /\ fait \in [L!Fils -> Nat]
    /\ \A th \in L!Fils : fait[th] <= Len(programme[th])
    /\ compteur \in [L!Processus -> Nat]
    /\ evenements \in [L!Processus -> Seq(Evenement)]
    /\ en_cours \in [L!Fils -> SUBSET Evenement]
    /\ \A th \in L!Fils : \A e, f \in en_cours[th] : e = f
    /\ connus \in [L!Processus -> SUBSET Noms]
    /\ \A m \in messages : m.timestamp \in Nat /\ m.avant \subseteq Noms

\* The names given so far.
Passe == {n \in Noms : n[2] < fait[n[1]]}

\* An event has a name of its own, and only knows of names that were given.
NomsInv ==
    /\ \A e \in L!Tous : e.nom \in Passe /\ e.avant \subseteq Passe
    /\ \A e, f \in L!Tous : e.nom = f.nom => e = f
    /\ \A p \in L!Processus : connus[p] \subseteq Passe
    /\ \A m \in messages : m.avant \subseteq Passe

\* The clock of a process is not behind its events, nor behind what it knows of; a
\* message carries a time that is not behind what it tells of.
HorlogeInv ==
    /\ \A e \in L!Tous : e.timestamp <= compteur[e.processus]
    /\ \A e \in L!Tous : \A p \in L!Processus : e.nom \in connus[p]
        => e.timestamp <= compteur[p]
    /\ \A e \in L!Tous : \A m \in messages : e.nom \in m.avant => e.timestamp <= m.timestamp

\* One thread at most works for the process p.
UnFil(p) == \A th, tg \in L!Fils : L!Utilise(th, p) /\ L!Utilise(tg, p) => th = tg

\* What is in a journal is of its process; what a thread has stamped is of a process it
\* uses, and after the journal of that process when no other thread uses it.
JournalInvLamport ==
    /\ \A p \in L!Processus : \A i \in DOMAIN evenements[p] : evenements[p][i].processus = p
    /\ \A th \in L!Fils : \A e \in en_cours[th] :
          /\ L!Utilise(th, e.processus)
          /\ UnFil(e.processus) => \A i \in DOMAIN evenements[e.processus] :
                                      evenements[e.processus][i].timestamp < e.timestamp

\* The inductive invariant: it contains the three properties.
InvLamport == /\ TypeInvLamport /\ NomsInv /\ HorlogeInv /\ JournalInvLamport
              /\ L!ConditionHorloge /\ L!OrdreTotal /\ L!JournalOrdonne

-----------------------------------------------------------------------------
\* Small facts about the events and the operations of a programme.
LEMMA MembreDeTous ==
    \A e : e \in L!Tous <=> \/ \E p \in L!Processus : \E i \in DOMAIN evenements[p] :
                                  e = evenements[p][i]
                            \/ \E th \in L!Fils : e \in en_cours[th]
BY DEF L!Tous, L!Journaux, L!ToSet

LEMMA TousTypes ==
    ASSUME TypeInvLamport
    PROVE  L!Tous \subseteq Evenement
BY MembreDeTous DEF TypeInvLamport

LEMMA LongueurProgramme ==
    ASSUME L!LamportAssumption, TypeInvLamport, NEW th \in L!Fils
    PROVE  Len(programme[th]) \in Nat
<1>1. programme[th] \in Seq(L!ToSet(programme[th]))
  BY DEF L!LamportAssumption, TypeInvLamport, L!Fils
<1>2. PICK S : S = L!ToSet(programme[th])
  OBVIOUS
<1>3. programme[th] \in Seq(S)
  BY <1>1, <1>2
<1> QED
  BY <1>3

LEMMA ProchaineType ==
    ASSUME L!LamportAssumption, TypeInvLamport, NEW th \in L!Fils, fait[th] < Len(programme[th])
    PROVE  /\ L!Prochaine(th).processus \in L!Processus
           /\ L!Utilise(th, L!Prochaine(th).processus)
<1>1. programme[th] \in Seq(L!ToSet(programme[th])) /\ fait[th] \in Nat
  BY DEF L!LamportAssumption, TypeInvLamport, L!Fils
<1> DEFINE S == L!ToSet(programme[th])
<1>2. fait[th] + 1 \in DOMAIN programme[th]
  <2> HIDE DEF S
  <2>1. programme[th] \in Seq(S)
    BY <1>1 DEF S
  <2> QED
    BY <1>1, <2>1
<1>3. L!Prochaine(th) \in L!ToSet(programme[th])
  BY <1>2 DEF L!Prochaine, L!ToSet
<1> QED
  BY <1>3 DEF L!Processus, L!Utilise

\* max of the two clocks, and one more.
LEMMA AvanceCorrecte ==
    ASSUME NEW p, compteur[p] \in Nat, NEW t \in Nat
    PROVE  /\ L!Avance(p, t) \in Nat
           /\ compteur[p] < L!Avance(p, t) /\ t < L!Avance(p, t)
<1> DEFINE S == {compteur[p], t}
<1>1. \E x \in S : \A y \in S : x >= y
  <2>1. CASE compteur[p] >= t
    BY <2>1
  <2>2. CASE t >= compteur[p]
    BY <2>2
  <2> QED
    BY <2>1, <2>2
<1>2. PICK m : m = L!Max(S)
  OBVIOUS
<1>3. m \in S /\ \A y \in S : m >= y
  BY <1>1, <1>2 DEF L!Max
<1>4. m \in Nat /\ compteur[p] <= m /\ t <= m
  BY <1>3
<1>5. L!Avance(p, t) = m + 1
  BY <1>2 DEF L!Avance
<1> QED
  BY <1>4, <1>5

-----------------------------------------------------------------------------
\* The event that Estampiller makes.
Nouveau(th, p, t, avant) ==
    [nom |-> <<th, fait[th]>>, timestamp |-> t, processus |-> p,
     avant |-> connus[p] \union avant]

\* What Estampiller changes.
Estampille(th, p, t, avant) ==
    /\ UNCHANGED <<programme, evenements>>
    /\ \A e : e \in L!Tous' <=> e \in L!Tous \/ e = Nouveau(th, p, t, avant)
    /\ \A q \in L!Processus : compteur'[q] = IF q = p THEN t ELSE compteur[q]
    /\ connus'[p] = connus[p] \union avant \union {<<th, fait[th]>>}
    /\ \A q \in L!Processus : q # p => connus'[q] = connus[q]
    /\ <<th, fait[th]>> \notin Passe
    /\ Passe' = Passe \union {<<th, fait[th]>>}

\* What a stamp does, apart from the rest of the operation that takes it.
LEMMA EstampillerEffet ==
    ASSUME InvLamport, NEW th \in L!Fils, NEW p \in L!Processus, NEW t \in Nat, NEW avant,
           en_cours[th] = {}, L!Estampiller(th, p, t, avant)
    PROVE  Estampille(th, p, t, avant)
<1> DEFINE n == <<th, fait[th]>>
           e0 == Nouveau(th, p, t, avant)
<1>0. /\ fait \in [L!Fils -> Nat] /\ compteur \in [L!Processus -> Nat]
      /\ en_cours \in [L!Fils -> SUBSET Evenement] /\ connus \in [L!Processus -> SUBSET Noms]
  BY DEF InvLamport, TypeInvLamport
<1>1. /\ UNCHANGED <<programme, evenements>>
      /\ compteur' = [compteur EXCEPT ![p] = t]
      /\ connus' = [connus EXCEPT ![p] = connus[p] \union avant \union {n}]
      /\ en_cours' = [en_cours EXCEPT ![th] = {e0}]
      /\ fait' = [fait EXCEPT ![th] = @ + 1]
  BY DEF L!Estampiller, Nouveau
<1>2. L!Fils' = L!Fils /\ L!Processus' = L!Processus
  BY <1>1 DEF L!Fils, L!Processus, L!ToSet
<1>3. \A tg \in L!Fils : en_cours'[tg] = IF tg = th THEN {e0} ELSE en_cours[tg]
  <2> HIDE DEF e0
  <2> QED
    BY <1>0, <1>1
<1>4. \A e : e \in L!Tous' <=> \/ \E q \in L!Processus : \E i \in DOMAIN evenements[q] :
                                     e = evenements[q][i]
                               \/ \E tg \in L!Fils : e \in en_cours'[tg]
  <2>1. \A e : e \in L!Tous' <=> \/ \E q \in L!Processus' : \E i \in DOMAIN evenements'[q] :
                                       e = evenements'[q][i]
                                 \/ \E tg \in L!Fils' : e \in en_cours'[tg]
    BY DEF L!Tous, L!Journaux, L!ToSet
  <2> QED
    BY <1>1, <1>2, <2>1
<1>5. \A e : e \in L!Tous' <=> e \in L!Tous \/ e = e0
  <2> HIDE DEF e0
  <2>1. \A e : (\E tg \in L!Fils : e \in en_cours'[tg])
                  <=> (\E tg \in L!Fils : e \in en_cours[tg]) \/ e = e0
    BY <1>3
  <2> QED
    BY <1>4, <2>1, MembreDeTous
<1>6. /\ \A q \in L!Processus : compteur'[q] = IF q = p THEN t ELSE compteur[q]
      /\ connus'[p] = connus[p] \union avant \union {n}
      /\ \A q \in L!Processus : q # p => connus'[q] = connus[q]
  <2> HIDE DEF n
  <2> QED
    BY <1>0, <1>1
<1>7. n \notin Passe
  BY <1>0 DEF Passe
<1>8. Passe' = Passe \union {n}
  <2>1. Noms' = Noms
    BY <1>2 DEF Noms
  <2>2. \A x \in Noms : x \in Passe' <=> x \in Passe \/ x = n
    <3> SUFFICES ASSUME NEW x \in Noms
                 PROVE  x \in Passe' <=> x \in Passe \/ x = n
      OBVIOUS
    <3>1. PICK tg \in L!Fils, i \in Nat : x = <<tg, i>>
      BY DEF Noms
    <3>2. x \in Passe' <=> i < fait'[tg]
      BY <2>1, <3>1 DEF Passe
    <3>3. x \in Passe <=> i < fait[tg]
      BY <3>1 DEF Passe
    <3>4. fait'[tg] = IF tg = th THEN fait[th] + 1 ELSE fait[tg]
      BY <1>0, <1>1
    <3>5. i < fait'[tg] <=> i < fait[tg] \/ (tg = th /\ i = fait[th])
      BY <1>0, <3>4
    <3> QED
      BY <3>1, <3>2, <3>3, <3>5
  <2>3. n \in Noms
    BY <1>0 DEF Noms
  <2>4. Passe' \subseteq Noms /\ Passe \subseteq Noms
    BY <2>1 DEF Passe
  <2> QED
    BY <2>2, <2>3, <2>4
<1> QED
  BY <1>1, <1>5, <1>6, <1>7, <1>8 DEF Estampille

\* What the messages say stays right while an event is stamped.
MessagesInv ==
    \A m \in messages :
        /\ m.timestamp \in Nat /\ m.avant \subseteq Passe
        /\ \A e \in L!Tous : e.nom \in m.avant => e.timestamp <= m.timestamp

LEMMA EstampillerInv ==
    ASSUME L!LamportAssumption, InvLamport, NEW th \in L!Fils, NEW p \in L!Processus,
           NEW t \in Nat, NEW avant,
           en_cours[th] = {}, fait[th] < Len(programme[th]), L!Utilise(th, p),
           compteur[p] < t, avant \subseteq Passe,
           \A e \in L!Tous : e.nom \in avant => e.timestamp < t,
           L!Estampiller(th, p, t, avant), MessagesInv'
    PROVE  InvLamport'
<1> DEFINE n == <<th, fait[th]>>
           e0 == Nouveau(th, p, t, avant)
<1>0. /\ fait \in [L!Fils -> Nat] /\ compteur \in [L!Processus -> Nat]
      /\ en_cours \in [L!Fils -> SUBSET Evenement] /\ connus \in [L!Processus -> SUBSET Noms]
      /\ Passe \subseteq Noms
  BY DEF InvLamport, TypeInvLamport, Passe
<1>1. /\ UNCHANGED <<programme, evenements>>
      /\ compteur' = [compteur EXCEPT ![p] = t]
      /\ connus' = [connus EXCEPT ![p] = connus[p] \union avant \union {n}]
      /\ en_cours' = [en_cours EXCEPT ![th] = {e0}]
      /\ fait' = [fait EXCEPT ![th] = @ + 1]
  BY DEF L!Estampiller, Nouveau
<1>2. L!Fils' = L!Fils /\ L!Processus' = L!Processus
  BY <1>1 DEF L!Fils, L!Processus, L!ToSet
<1>3. /\ \A e : e \in L!Tous' <=> e \in L!Tous \/ e = e0
      /\ \A q \in L!Processus : compteur'[q] = IF q = p THEN t ELSE compteur[q]
      /\ connus'[p] = connus[p] \union avant \union {n}
      /\ \A q \in L!Processus : q # p => connus'[q] = connus[q]
      /\ n \notin Passe
      /\ Passe' = Passe \union {n}
  <2>1. Estampille(th, p, t, avant)
    BY EstampillerEffet, Zenon
  <2> QED
    BY <2>1 DEF Estampille
<1>4. /\ e0.nom = n /\ e0.timestamp = t /\ e0.processus = p
      /\ e0.avant = connus[p] \union avant
      /\ e0 \in Evenement
  <2>1. n \in Noms /\ t \in Nat \ {0} /\ connus[p] \union avant \in SUBSET Noms
    BY <1>0 DEF Noms
  <2> QED
    BY <2>1 DEF Nouveau, Evenement
<1> HIDE DEF e0, n
<1>5. TypeInvLamport'
  <2>1. Noms' = Noms /\ Evenement' = Evenement
    BY <1>2 DEF Noms, Evenement
  <2>2. /\ fait' \in [L!Fils -> Nat]
        /\ \A tg \in L!Fils : fait'[tg] <= Len(programme[tg])
    <3>1. fait' \in [L!Fils -> Nat]
      BY <1>0, <1>1
    <3>2. \A tg \in L!Fils : fait'[tg] = IF tg = th THEN fait[th] + 1 ELSE fait[tg]
      BY <1>0, <1>1
    <3>3. Len(programme[th]) \in Nat
      BY LongueurProgramme DEF InvLamport
    <3>4. \A tg \in L!Fils : fait[tg] <= Len(programme[tg])
      BY DEF InvLamport, TypeInvLamport
    <3>5. fait[th] + 1 <= Len(programme[th])
      BY <1>0, <3>3
    <3> QED
      BY <3>1, <3>2, <3>4, <3>5
  <2>3. compteur' \in [L!Processus -> Nat] /\ en_cours' \in [L!Fils -> SUBSET Evenement]
    BY <1>0, <1>1, <1>4
  <2>4. \A tg \in L!Fils : \A e, f \in en_cours'[tg] : e = f
    BY <1>0, <1>1 DEF InvLamport, TypeInvLamport
  <2>5. n \in Noms
    BY <1>0 DEF Noms, n
  <2>6. connus' \in [L!Processus -> SUBSET Noms]
    BY <1>0, <1>1, <2>5
  <2>7. \A m \in messages' : m.timestamp \in Nat /\ m.avant \subseteq Noms
    BY <1>0, <1>3, <2>5 DEF MessagesInv
  <2> QED
    BY <1>1, <1>2, <2>1, <2>2, <2>3, <2>4, <2>6, <2>7 DEF InvLamport, TypeInvLamport
<1>6. L!Tous \subseteq Evenement
  BY TousTypes DEF InvLamport
<1>7. /\ \A e \in L!Tous : /\ e.nom \in Passe /\ e.avant \subseteq Passe
                           /\ e.nom # n /\ n \notin e.avant
                           /\ e.timestamp \in Nat /\ e.processus \in L!Processus
                           /\ e.timestamp <= compteur[e.processus]
      /\ \A q \in L!Processus : n \notin connus[q] /\ connus[q] \subseteq Passe
      /\ n \notin avant
  BY <1>3, <1>6 DEF InvLamport, NomsInv, HorlogeInv, Evenement
<1>8. NomsInv'
  <2>1. \A e \in L!Tous' : e.nom \in Passe' /\ e.avant \subseteq Passe'
    BY <1>3, <1>4, <1>7
  <2>2. \A e, f \in L!Tous' : e.nom = f.nom => e = f
    BY <1>3, <1>4, <1>7 DEF InvLamport, NomsInv
  <2>3. \A q \in L!Processus : connus'[q] \subseteq Passe'
    BY <1>3, <1>7
  <2>4. \A m \in messages' : m.avant \subseteq Passe'
    BY DEF MessagesInv
  <2> QED
    BY <1>2, <2>1, <2>2, <2>3, <2>4 DEF NomsInv
\* The events that the new one knows of are before it.
<1>9. \A e \in L!Tous : e.nom \in connus[p] \union avant => e.timestamp < t
  <2> SUFFICES ASSUME NEW e \in L!Tous, e.nom \in connus[p]
               PROVE  e.timestamp < t
    OBVIOUS
  <2>1. e.timestamp <= compteur[p]
    BY DEF InvLamport, HorlogeInv
  <2> QED
    BY <1>0, <1>7, <2>1
<1>10. HorlogeInv'
  <2>1. \A e \in L!Tous' : e.timestamp <= compteur'[e.processus]
    <3>1. e0.timestamp <= compteur'[e0.processus]
      BY <1>3, <1>4
    <3>2. ASSUME NEW e \in L!Tous
          PROVE  e.timestamp <= compteur'[e.processus]
      BY <1>0, <1>3, <1>7
    <3> QED
      BY <1>3, <3>1, <3>2
  <2>2. \A e \in L!Tous' : \A q \in L!Processus : e.nom \in connus'[q]
           => e.timestamp <= compteur'[q]
    <3>1. ASSUME NEW q \in L!Processus, e0.nom \in connus'[q]
          PROVE  e0.timestamp <= compteur'[q]
      BY <1>3, <1>4, <1>7, <3>1
    <3>2. ASSUME NEW e \in L!Tous, NEW q \in L!Processus, e.nom \in connus'[q]
          PROVE  e.timestamp <= compteur'[q]
      <4>1. CASE q = p
        BY <1>3, <1>7, <1>9, <3>2, <4>1
      <4>2. CASE q # p
        BY <1>3, <3>2, <4>2 DEF InvLamport, HorlogeInv
      <4> QED
        BY <4>1, <4>2
    <3> QED
      BY <1>3, <3>1, <3>2
  <2>3. \A e \in L!Tous' : \A m \in messages' : e.nom \in m.avant => e.timestamp <= m.timestamp
    BY DEF MessagesInv
  <2> QED
    BY <1>2, <2>1, <2>2, <2>3 DEF HorlogeInv
<1>11. \A q \in L!Processus : UnFil(q)' <=> UnFil(q)
  BY <1>1, <1>2 DEF UnFil, L!Utilise
<1>12. JournalInvLamport'
  <2>1. \A tg \in L!Fils : \A e \in en_cours'[tg] : (e = e0 /\ tg = th) \/ e \in en_cours[tg]
    BY <1>0, <1>1
  <2>2. \A tg \in L!Fils : \A q : L!Utilise(tg, q)' <=> L!Utilise(tg, q)
    BY <1>1 DEF L!Utilise
  <2>3. \A i \in DOMAIN evenements[p] : evenements[p][i].timestamp < t
    <3> SUFFICES ASSUME NEW i \in DOMAIN evenements[p]
                 PROVE  evenements[p][i].timestamp < t
      OBVIOUS
    <3>1. evenements[p][i] \in L!Tous /\ evenements[p][i].processus = p
      BY MembreDeTous DEF InvLamport, JournalInvLamport
    <3> QED
      BY <1>0, <1>7, <3>1
  <2>4. \A q \in L!Processus : \A i \in DOMAIN evenements'[q] : evenements'[q][i].processus = q
    BY <1>1 DEF InvLamport, JournalInvLamport
  <2>5. \A tg \in L!Fils : \A e \in en_cours'[tg] :
           /\ L!Utilise(tg, e.processus)
           /\ UnFil(e.processus) => \A i \in DOMAIN evenements[e.processus] :
                                       evenements[e.processus][i].timestamp < e.timestamp
    <3> SUFFICES ASSUME NEW tg \in L!Fils, NEW e \in en_cours'[tg]
                 PROVE  /\ L!Utilise(tg, e.processus)
                        /\ UnFil(e.processus) => \A i \in DOMAIN evenements[e.processus] :
                                       evenements[e.processus][i].timestamp < e.timestamp
      OBVIOUS
    <3>1. CASE e = e0 /\ tg = th
      BY <1>4, <2>3, <3>1
    <3>2. CASE e \in en_cours[tg]
      BY <3>2 DEF InvLamport, JournalInvLamport
    <3> QED
      BY <2>1, <3>1, <3>2
  <2>6. \A tg \in L!Fils : \A e \in en_cours'[tg] : e.processus \in L!Processus
    BY <1>5, <1>2 DEF TypeInvLamport, Evenement
  <2>7. \A tg \in L!Fils : \A e \in en_cours'[tg] :
           /\ L!Utilise(tg, e.processus)'
           /\ UnFil(e.processus)' => \A i \in DOMAIN evenements'[e.processus] :
                                       evenements'[e.processus][i].timestamp < e.timestamp
    BY <1>1, <1>11, <2>2, <2>5, <2>6
  <2> QED
    BY <1>2, <2>4, <2>7 DEF JournalInvLamport
<1>13. L!ConditionHorloge'
  <2> SUFFICES ASSUME NEW e \in L!Tous', NEW f \in L!Tous', e.nom \in f.avant
               PROVE  e.timestamp < f.timestamp
    BY DEF L!ConditionHorloge
  <2>1. CASE f = e0
    BY <1>3, <1>4, <1>7, <1>9, <2>1
  <2>2. CASE f # e0
    <3>1. f \in L!Tous /\ e \in L!Tous
      BY <1>3, <1>4, <1>7, <2>2
    <3> QED
      BY <3>1 DEF InvLamport, L!ConditionHorloge
  <2> QED
    BY <2>1, <2>2
<1>14. L!OrdreTotal'
  <2>1. \A e \in L!Tous : ~(e.timestamp = e0.timestamp /\ e.processus = e0.processus)
    BY <1>0, <1>4, <1>7
  <2> QED
    BY <1>3, <2>1 DEF InvLamport, L!OrdreTotal
<1>15. L!JournalOrdonne'
  <2>1. L!JournalOrdonne <=> \A q \in L!Processus : UnFil(q) =>
             \A i, j \in DOMAIN evenements[q] :
                i < j => evenements[q][i].timestamp < evenements[q][j].timestamp
    BY DEF L!JournalOrdonne, UnFil
  <2>2. L!JournalOrdonne' <=> \A q \in L!Processus' : UnFil(q)' =>
             \A i, j \in DOMAIN evenements'[q] :
                i < j => evenements'[q][i].timestamp < evenements'[q][j].timestamp
    BY DEF L!JournalOrdonne, UnFil
  <2> QED
    BY <1>1, <1>2, <1>11, <2>1, <2>2 DEF InvLamport
<1> QED
  BY <1>5, <1>8, <1>10, <1>12, <1>13, <1>14, <1>15 DEF InvLamport

-----------------------------------------------------------------------------
\* Messages that were there are still right when an event is stamped.
LEMMA MessagesGardes ==
    ASSUME InvLamport, NEW th \in L!Fils, NEW p \in L!Processus, NEW t \in Nat, NEW avant,
           en_cours[th] = {}, L!Estampiller(th, p, t, avant), NEW m \in messages
    PROVE  /\ m.timestamp \in Nat /\ m.avant \subseteq Passe'
           /\ \A e \in L!Tous' : e.nom \in m.avant => e.timestamp <= m.timestamp
<1>1. /\ \A e : e \in L!Tous' <=> e \in L!Tous \/ e = Nouveau(th, p, t, avant)
      /\ <<th, fait[th]>> \notin Passe
      /\ Passe' = Passe \union {<<th, fait[th]>>}
  <2>1. Estampille(th, p, t, avant)
    BY EstampillerEffet, Zenon
  <2> QED
    BY <2>1 DEF Estampille
<1>2. m.timestamp \in Nat /\ m.avant \subseteq Passe
  BY DEF InvLamport, TypeInvLamport, NomsInv
<1>3. \A e \in L!Tous : e.nom \in m.avant => e.timestamp <= m.timestamp
  BY DEF InvLamport, HorlogeInv
<1>4. Nouveau(th, p, t, avant).nom \notin m.avant
  BY <1>1, <1>2 DEF Nouveau
<1> QED
  BY <1>1, <1>2, <1>3, <1>4

LEMMA InterneInv ==
    ASSUME L!LamportAssumption, InvLamport, NEW th \in L!Fils, en_cours[th] = {},
           fait[th] < Len(programme[th]), L!EvenementInterne(th)
    PROVE  InvLamport'
<1>1. PICK p : p = L!Prochaine(th).processus
  OBVIOUS
<1>2. p \in L!Processus /\ L!Utilise(th, p)
  BY <1>1, ProchaineType DEF InvLamport
<1>3. compteur[p] \in Nat
  BY <1>2 DEF InvLamport, TypeInvLamport
<1>4. PICK t : t = compteur[p] + 1
  OBVIOUS
<1>5. t \in Nat /\ compteur[p] < t
  BY <1>3, <1>4
<1>6. L!Estampiller(th, p, t, {}) /\ UNCHANGED messages
  BY <1>1, <1>4 DEF L!EvenementInterne
<1>7. MessagesInv'
  BY <1>2, <1>5, <1>6, MessagesGardes DEF MessagesInv
<1> QED
  BY <1>2, <1>5, <1>6, <1>7, EstampillerInv

LEMMA PreparerInv ==
    ASSUME L!LamportAssumption, InvLamport, NEW th \in L!Fils, en_cours[th] = {},
           fait[th] < Len(programme[th]), L!PreparerMessage(th)
    PROVE  InvLamport'
<1>1. PICK o : o = L!Prochaine(th)
  OBVIOUS
<1>2. PICK p : p = o.processus
  OBVIOUS
<1>3. p \in L!Processus /\ L!Utilise(th, p)
  BY <1>1, <1>2, ProchaineType DEF InvLamport
<1>4. /\ compteur \in [L!Processus -> Nat] /\ compteur[p] \in Nat
      /\ connus \in [L!Processus -> SUBSET Noms]
  BY <1>3 DEF InvLamport, TypeInvLamport
<1>5. PICK t : t = compteur[p] + 1
  OBVIOUS
<1>6. t \in Nat /\ compteur[p] < t
  BY <1>4, <1>5
<1>7. PICK m : m = [nom |-> o.message, timestamp |-> compteur'[p], avant |-> connus'[p],
                    par |-> th]
  OBVIOUS
<1>8. L!Estampiller(th, p, t, {}) /\ messages' = messages \union {m}
  BY <1>1, <1>2, <1>5, <1>7 DEF L!PreparerMessage
<1>9. /\ \A e : e \in L!Tous' <=> e \in L!Tous \/ e = Nouveau(th, p, t, {})
      /\ \A q \in L!Processus : compteur'[q] = IF q = p THEN t ELSE compteur[q]
      /\ connus'[p] = connus[p] \union {} \union {<<th, fait[th]>>}
      /\ <<th, fait[th]>> \notin Passe
      /\ Passe' = Passe \union {<<th, fait[th]>>}
  <2>1. Estampille(th, p, t, {})
    BY <1>3, <1>6, <1>8, EstampillerEffet, Zenon
  <2> QED
    BY <2>1 DEF Estampille
<1>10. m.timestamp = t /\ m.avant = connus[p] \union {<<th, fait[th]>>}
  BY <1>3, <1>7, <1>9
<1>11. m.avant \subseteq Passe'
  BY <1>3, <1>9, <1>10 DEF InvLamport, NomsInv
<1>12. ASSUME NEW e \in L!Tous', e.nom \in m.avant
       PROVE  e.timestamp <= t
  <2>1. CASE e = Nouveau(th, p, t, {})
    BY <1>6, <2>1 DEF Nouveau
  <2>2. CASE e \in L!Tous
    <3>1. e.nom \in Passe /\ e.timestamp \in Nat
      BY <2>2, TousTypes DEF InvLamport, NomsInv, Evenement
    <3>2. e.nom \in connus[p]
      BY <1>9, <1>10, <1>12, <3>1
    <3>3. e.timestamp <= compteur[p]
      BY <1>3, <2>2, <3>2 DEF InvLamport, HorlogeInv
    <3> QED
      BY <1>4, <1>6, <3>1, <3>3
  <2> QED
    BY <1>9, <2>1, <2>2
<1>13. MessagesInv'
  <2> SUFFICES ASSUME NEW x \in messages'
               PROVE  /\ x.timestamp \in Nat /\ x.avant \subseteq Passe'
                      /\ \A e \in L!Tous' : e.nom \in x.avant => e.timestamp <= x.timestamp
    BY DEF MessagesInv
  <2>1. CASE x = m
    BY <1>6, <1>10, <1>11, <1>12, <2>1
  <2>2. CASE x \in messages
    BY <1>3, <1>6, <1>8, <2>2, MessagesGardes
  <2> QED
    BY <1>8, <2>1, <2>2
<1> QED
  BY <1>3, <1>6, <1>8, <1>13, EstampillerInv

LEMMA RecevoirInv ==
    ASSUME L!LamportAssumption, InvLamport, NEW th \in L!Fils, en_cours[th] = {},
           fait[th] < Len(programme[th]), L!RecevoirMessage(th)
    PROVE  InvLamport'
<1>1. PICK p : p = L!Prochaine(th).processus
  OBVIOUS
<1>2. p \in L!Processus /\ L!Utilise(th, p)
  BY <1>1, ProchaineType DEF InvLamport
<1>3. compteur[p] \in Nat
  BY <1>2 DEF InvLamport, TypeInvLamport
<1>4. PICK m \in messages : L!Estampiller(th, p, L!Avance(p, m.timestamp), m.avant)
  BY <1>1 DEF L!RecevoirMessage
<1>5. UNCHANGED messages
  BY DEF L!RecevoirMessage
<1>6. m.timestamp \in Nat /\ m.avant \subseteq Passe
  BY DEF InvLamport, TypeInvLamport, NomsInv
<1>7. PICK t : t = L!Avance(p, m.timestamp)
  OBVIOUS
<1>8. t \in Nat /\ compteur[p] < t /\ m.timestamp < t
  BY <1>3, <1>6, <1>7, AvanceCorrecte
<1>9. L!Estampiller(th, p, t, m.avant)
  BY <1>4, <1>7
<1>10. \A e \in L!Tous : e.nom \in m.avant => e.timestamp < t
  <2> SUFFICES ASSUME NEW e \in L!Tous, e.nom \in m.avant
               PROVE  e.timestamp < t
    OBVIOUS
  <2>1. e.timestamp \in Nat
    BY TousTypes DEF InvLamport, Evenement
  <2>2. e.timestamp <= m.timestamp
    BY DEF InvLamport, HorlogeInv
  <2> QED
    BY <1>6, <1>8, <2>1, <2>2
<1>11. MessagesInv'
  BY <1>2, <1>5, <1>8, <1>9, MessagesGardes DEF MessagesInv
<1> QED
  BY <1>2, <1>6, <1>8, <1>9, <1>10, <1>11, EstampillerInv

\* A thread that gives up uses a number that no event is named by.
LEMMA RenoncerInv ==
    ASSUME L!LamportAssumption, InvLamport, NEW th \in L!Fils,
           fait[th] < Len(programme[th]), L!Renoncer(th)
    PROVE  InvLamport'
<1>1. /\ fait' = [fait EXCEPT ![th] = @ + 1]
      /\ UNCHANGED <<programme, compteur, evenements, en_cours, messages, connus>>
  BY DEF L!Renoncer
<1>2. L!Fils' = L!Fils /\ L!Processus' = L!Processus
  BY <1>1 DEF L!Fils, L!Processus, L!ToSet
<1>3. Noms' = Noms /\ Evenement' = Evenement
  BY <1>2 DEF Noms, Evenement
<1>4. fait \in [L!Fils -> Nat]
  BY DEF InvLamport, TypeInvLamport
<1>5. \A tg \in L!Fils : fait'[tg] = IF tg = th THEN fait[th] + 1 ELSE fait[tg]
  BY <1>1, <1>4
<1>6. TypeInvLamport'
  <2>1. fait' \in [L!Fils -> Nat]
    BY <1>1, <1>4
  <2>2. Len(programme[th]) \in Nat
    BY LongueurProgramme DEF InvLamport
  <2>3. \A tg \in L!Fils : fait'[tg] <= Len(programme[tg])
    BY <1>4, <1>5, <2>2 DEF InvLamport, TypeInvLamport
  <2> QED
    BY <1>1, <1>2, <1>3, <2>1, <2>3 DEF InvLamport, TypeInvLamport
<1>7. Passe \subseteq Passe'
  <2> SUFFICES ASSUME NEW n \in Passe
               PROVE  n \in Passe'
    OBVIOUS
  <2>1. n \in Noms /\ n[2] < fait[n[1]] /\ n[1] \in L!Fils /\ n[2] \in Nat
    BY DEF Passe, Noms
  <2>2. n[2] < fait'[n[1]]
    BY <1>4, <1>5, <2>1
  <2> QED
    BY <1>3, <2>1, <2>2 DEF Passe
<1>8. L!Tous' = L!Tous
  BY <1>1, <1>2 DEF L!Tous, L!Journaux
<1>9. NomsInv'
  BY <1>1, <1>2, <1>7, <1>8 DEF InvLamport, NomsInv
<1>10. HorlogeInv'
  BY <1>1, <1>2, <1>8 DEF InvLamport, HorlogeInv
<1>11. JournalInvLamport'
  <2>1. \A tg, q : L!Utilise(tg, q)' <=> L!Utilise(tg, q)
    BY <1>1 DEF L!Utilise
  <2>2. \A q : UnFil(q)' <=> UnFil(q)
    BY <1>2, <2>1 DEF UnFil
  <2> QED
    BY <1>1, <1>2, <2>1, <2>2 DEF InvLamport, JournalInvLamport
<1>12. L!ConditionHorloge' /\ L!OrdreTotal' /\ L!JournalOrdonne'
  BY <1>1, <1>2, <1>8 DEF InvLamport, L!ConditionHorloge, L!OrdreTotal, L!JournalOrdonne,
     L!Utilise
<1> QED
  BY <1>6, <1>9, <1>10, <1>11, <1>12 DEF InvLamport

LEMMA EnregistrerInv ==
    ASSUME InvLamport, NEW th \in L!Fils, L!Enregistrer(th)
    PROVE  InvLamport'
<1>0. /\ evenements \in [L!Processus -> Seq(Evenement)]
      /\ en_cours \in [L!Fils -> SUBSET Evenement]
  BY DEF InvLamport, TypeInvLamport
<1>1. PICK e \in en_cours[th] : evenements' = [evenements EXCEPT ![e.processus] = Append(@, e)]
  BY DEF L!Enregistrer
<1>2. /\ en_cours' = [en_cours EXCEPT ![th] = {}]
      /\ UNCHANGED <<programme, fait, compteur, messages, connus>>
  BY DEF L!Enregistrer
<1>3. L!Fils' = L!Fils /\ L!Processus' = L!Processus
  BY <1>2 DEF L!Fils, L!Processus, L!ToSet
<1>4. Noms' = Noms /\ Evenement' = Evenement /\ Passe' = Passe
  BY <1>2, <1>3 DEF Noms, Evenement, Passe
<1>5. PICK p : p = e.processus
  OBVIOUS
<1>6. e \in Evenement /\ p \in L!Processus
  BY <1>0, <1>1, <1>5 DEF Evenement
<1>7. evenements' = [evenements EXCEPT ![p] = Append(@, e)]
  BY <1>1, <1>5
<1>8. \A tg \in L!Fils : en_cours'[tg] = IF tg = th THEN {} ELSE en_cours[tg]
  BY <1>0, <1>2
<1>9. /\ evenements' \in [L!Processus -> Seq(Evenement)]
      /\ \A q \in L!Processus : q # p => evenements'[q] = evenements[q]
      /\ evenements'[p] = Append(evenements[p], e)
  <2> HIDE DEF Evenement
  <2>1. evenements[p] \in Seq(Evenement)
    BY <1>0, <1>6
  <2>2. Append(evenements[p], e) \in Seq(Evenement)
    BY <1>6, <2>1
  <2> QED
    BY <1>0, <1>6, <1>7, <2>2
<1>10. /\ Len(evenements[p]) \in Nat
       /\ DOMAIN evenements'[p] = DOMAIN evenements[p] \union {Len(evenements[p]) + 1}
       /\ DOMAIN evenements[p] = 1..Len(evenements[p])
       /\ evenements'[p][Len(evenements[p]) + 1] = e
       /\ \A i \in DOMAIN evenements[p] : evenements'[p][i] = evenements[p][i]
  <2>1. evenements[p] \in Seq(Evenement)
    BY <1>0, <1>6
  <2> HIDE DEF Evenement
  <2> QED
    BY <1>6, <1>9, <2>1
<1>11. L!Tous' \subseteq L!Tous
  <2> SUFFICES ASSUME NEW f \in L!Tous'
               PROVE  f \in L!Tous
    OBVIOUS
  <2>1. \/ \E q \in L!Processus' : \E i \in DOMAIN evenements'[q] : f = evenements'[q][i]
        \/ \E tg \in L!Fils' : f \in en_cours'[tg]
    BY DEF L!Tous, L!Journaux, L!ToSet
  <2>2. ASSUME NEW q \in L!Processus, NEW i \in DOMAIN evenements'[q], f = evenements'[q][i]
        PROVE  f = e \/ \E j \in DOMAIN evenements[q] : f = evenements[q][j]
    <3>1. CASE q = p
      BY <1>10, <2>2, <3>1
    <3>2. CASE q # p
      BY <1>9, <2>2, <3>2
    <3> QED
      BY <3>1, <3>2
  <2>3. e \in L!Tous
    BY MembreDeTous, <1>1
  <2> QED
    BY <1>3, <1>8, <2>1, <2>2, <2>3, MembreDeTous
<1>12. TypeInvLamport'
  BY <1>0, <1>2, <1>3, <1>4, <1>8, <1>9 DEF InvLamport, TypeInvLamport
<1>13. NomsInv' /\ HorlogeInv' /\ L!ConditionHorloge' /\ L!OrdreTotal'
  BY <1>2, <1>3, <1>4, <1>11
     DEF InvLamport, NomsInv, HorlogeInv, L!ConditionHorloge, L!OrdreTotal
<1>14. \A q : UnFil(q)' <=> UnFil(q)
  BY <1>2, <1>3 DEF UnFil, L!Utilise
<1>15. L!Utilise(th, p)
  BY <1>1, <1>5 DEF InvLamport, JournalInvLamport
\* The other events of a process that one thread uses are in its journal.
<1>16. JournalInvLamport'
  <2>1. \A q \in L!Processus : \A i \in DOMAIN evenements'[q] : evenements'[q][i].processus = q
    <3>1. \A q \in L!Processus : \A i \in DOMAIN evenements[q] : evenements[q][i].processus = q
      BY DEF InvLamport, JournalInvLamport
    <3>2. ASSUME NEW i \in DOMAIN evenements'[p]
          PROVE  evenements'[p][i].processus = p
      BY <1>5, <1>6, <1>10, <3>1
    <3> QED
      BY <1>9, <3>1, <3>2
  <2>2. ASSUME NEW tg \in L!Fils, NEW f \in en_cours'[tg]
        PROVE  /\ L!Utilise(tg, f.processus)
               /\ UnFil(f.processus) => \A i \in DOMAIN evenements'[f.processus] :
                                           evenements'[f.processus][i].timestamp < f.timestamp
    <3>1. tg # th /\ f \in en_cours[tg] /\ f.processus \in L!Processus
      BY <1>0, <1>8, <2>2 DEF Evenement
    <3>2. L!Utilise(tg, f.processus)
      BY <3>1 DEF InvLamport, JournalInvLamport
    <3>3. UnFil(f.processus) => f.processus # p
      BY <1>15, <3>1, <3>2 DEF UnFil
    <3> QED
      BY <1>9, <3>1, <3>2, <3>3 DEF InvLamport, JournalInvLamport
  <2>3. \A tg, q : L!Utilise(tg, q)' <=> L!Utilise(tg, q)
    BY <1>2 DEF L!Utilise
  <2> QED
    BY <1>3, <1>14, <2>1, <2>2, <2>3 DEF JournalInvLamport
<1>17. L!JournalOrdonne'
  <2>1. L!JournalOrdonne <=> \A q \in L!Processus : UnFil(q) =>
             \A i, j \in DOMAIN evenements[q] :
                i < j => evenements[q][i].timestamp < evenements[q][j].timestamp
    BY DEF L!JournalOrdonne, UnFil
  <2>2. L!JournalOrdonne' <=> \A q \in L!Processus' : UnFil(q)' =>
             \A i, j \in DOMAIN evenements'[q] :
                i < j => evenements'[q][i].timestamp < evenements'[q][j].timestamp
    BY DEF L!JournalOrdonne, UnFil
  <2>3. ASSUME NEW q \in L!Processus, UnFil(q),
               NEW i \in DOMAIN evenements'[q], NEW j \in DOMAIN evenements'[q], i < j
        PROVE  evenements'[q][i].timestamp < evenements'[q][j].timestamp
    <3>1. CASE q # p
      BY <1>9, <2>1, <2>3, <3>1 DEF InvLamport
    <3>2. CASE q = p /\ j \in DOMAIN evenements[p]
      <4>1. i \in DOMAIN evenements[p]
        BY <1>10, <2>3, <3>2
      <4> QED
        BY <1>10, <2>1, <2>3, <3>2, <4>1 DEF InvLamport
    <3>3. CASE q = p /\ j = Len(evenements[p]) + 1
      <4>1. i \in DOMAIN evenements[p]
        BY <1>10, <2>3, <3>3
      <4>2. evenements[p][i].timestamp < e.timestamp
        BY <1>1, <1>5, <2>3, <3>3, <4>1 DEF InvLamport, JournalInvLamport
      <4> QED
        BY <1>10, <3>3, <4>1, <4>2
    <3> QED
      BY <1>10, <2>3, <3>1, <3>2, <3>3
  <2> QED
    BY <1>3, <1>14, <2>2, <2>3
<1> QED
  BY <1>12, <1>13, <1>16, <1>17 DEF InvLamport

\* The inductive invariant holds always, whatever the programmes of the threads.
THEOREM InvCorrectLamport == ASSUME L!LamportAssumption PROVE L!Spec => []InvLamport
<1>1. L!Init => InvLamport
  <2> SUFFICES ASSUME L!Init
               PROVE  InvLamport
    OBVIOUS
  <2>1. /\ programme \in Programmes
        /\ fait = [th \in L!Fils |-> 0]
        /\ compteur = [p \in L!Processus |-> 0]
        /\ evenements = [p \in L!Processus |-> <<>>]
        /\ en_cours = [th \in L!Fils |-> {}]
        /\ messages = {}
        /\ connus = [p \in L!Processus |-> {}]
    BY DEF L!Init
  <2>2. L!Tous = {}
    BY <2>1, MembreDeTous
  <2>3. TypeInvLamport
    <3>1. \A th \in L!Fils : 0 <= Len(programme[th])
      <4> SUFFICES ASSUME NEW th \in L!Fils
                   PROVE  Len(programme[th]) \in Nat
        OBVIOUS
      <4>1. programme[th] \in Seq(L!ToSet(programme[th]))
        BY <2>1 DEF L!LamportAssumption, L!Fils
      <4>2. PICK S : S = L!ToSet(programme[th])
        OBVIOUS
      <4>3. programme[th] \in Seq(S)
        BY <4>1, <4>2
      <4> QED
        BY <4>3
    <3>2. evenements \in [L!Processus -> Seq(Evenement)]
      BY <2>1
    <3> QED
      BY <2>1, <3>1, <3>2 DEF TypeInvLamport
  <2>4. NomsInv /\ HorlogeInv /\ L!ConditionHorloge /\ L!OrdreTotal
    BY <2>1, <2>2 DEF NomsInv, HorlogeInv, L!ConditionHorloge, L!OrdreTotal
  <2>5. \A p \in L!Processus : DOMAIN evenements[p] = {}
    BY <2>1
  <2>6. JournalInvLamport /\ L!JournalOrdonne
    BY <2>1, <2>5 DEF JournalInvLamport, L!JournalOrdonne
  <2> QED
    BY <2>3, <2>4, <2>6 DEF InvLamport
<1>2. ASSUME InvLamport, [L!Next]_L!varsLamport
      PROVE  InvLamport'
  <2>1. ASSUME NEW th \in L!Fils, L!Enregistrer(th)
        PROVE  InvLamport'
    BY <1>2, <2>1, EnregistrerInv
  <2>2. ASSUME NEW th \in L!Fils, en_cours[th] = {}, fait[th] < Len(programme[th]),
               \/ L!EvenementInterne(th) \/ L!PreparerMessage(th)
               \/ L!RecevoirMessage(th) \/ L!Renoncer(th)
        PROVE  InvLamport'
    BY <1>2, <2>2, InterneInv, PreparerInv, RecevoirInv, RenoncerInv
  <2>3. CASE UNCHANGED L!varsLamport
    <3>1. /\ programme' = programme /\ fait' = fait /\ compteur' = compteur
          /\ evenements' = evenements /\ en_cours' = en_cours /\ messages' = messages
          /\ connus' = connus
      BY <2>3 DEF L!varsLamport
    <3>2. L!Fils' = L!Fils /\ L!Processus' = L!Processus
      BY <3>1 DEF L!Fils, L!Processus, L!ToSet
    <3>3. Noms' = Noms /\ Evenement' = Evenement /\ Passe' = Passe
      BY <3>1, <3>2 DEF Noms, Evenement, Passe
    <3>4. L!Tous' = L!Tous
      BY <3>1, <3>2 DEF L!Tous, L!Journaux
    <3>5. TypeInvLamport' /\ NomsInv' /\ HorlogeInv'
      BY <1>2, <3>1, <3>2, <3>3, <3>4 DEF InvLamport, TypeInvLamport, NomsInv, HorlogeInv
    <3>6. JournalInvLamport' /\ L!ConditionHorloge' /\ L!OrdreTotal' /\ L!JournalOrdonne'
      BY <1>2, <3>1, <3>2, <3>4
         DEF InvLamport, JournalInvLamport, UnFil, L!Utilise, L!ConditionHorloge,
             L!OrdreTotal, L!JournalOrdonne
    <3> QED
      BY <3>5, <3>6 DEF InvLamport
  <2> QED
    BY <1>2, <2>1, <2>2, <2>3 DEF L!Next
<1> QED
  BY <1>1, <1>2, PTL DEF L!Spec

\* Clocks, journals and messages are typed.
THEOREM TypeCorrectLamport == ASSUME L!LamportAssumption PROVE L!Spec => []L!TypeOK
<1>1. InvLamport => L!TypeOK
  <2> SUFFICES ASSUME InvLamport
               PROVE  L!TypeOK
    OBVIOUS
  <2>1. \A e \in L!Tous : e.processus \in L!Processus /\ e.timestamp \in Nat \ {0}
    BY TousTypes DEF InvLamport, Evenement
  <2>2. \A th \in L!Fils : fait[th] \in 0..Len(programme[th])
    BY LongueurProgramme DEF InvLamport, TypeInvLamport
  <2> QED
    BY <2>1, <2>2 DEF InvLamport, TypeInvLamport, L!TypeOK
<1> QED
  BY <1>1, InvCorrectLamport, PTL

\* An event that happened before another has a smaller timestamp, across messages that
\* are late or never received, and threads that share a process.
THEOREM ConditionHorlogeVraie == ASSUME L!LamportAssumption PROVE L!Spec => []L!ConditionHorloge
<1>1. InvLamport => L!ConditionHorloge
  BY DEF InvLamport
<1> QED
  BY <1>1, InvCorrectLamport, PTL

\* Timestamps, with the names of the processes between equal ones, order all the events.
THEOREM OrdreTotalVrai == ASSUME L!LamportAssumption PROVE L!Spec => []L!OrdreTotal
<1>1. InvLamport => L!OrdreTotal
  BY DEF InvLamport
<1> QED
  BY <1>1, InvCorrectLamport, PTL

\* The journal of a process with one thread is in the order of its timestamps.
THEOREM JournalOrdonneVrai == ASSUME L!LamportAssumption PROVE L!Spec => []L!JournalOrdonne
<1>1. InvLamport => L!JournalOrdonne
  BY DEF InvLamport
<1> QED
  BY <1>1, InvCorrectLamport, PTL

-----------------------------------------------------------------------------
\* Sagas.

\* The steps that only the orchestrator's last may fail after cannot fail.
Reversible == "echec_notif" \notin PermisSaga

\* The types, with the compensations that are left as a sequence of commands.
TypeInvSaga ==
    /\ entrees_saga \in [Sa!Commandes -> Sagas \union {Personne}]
    /\ etat_saga \in [Sagas -> Sa!Finales \union {"absente", "EN_COURS", "EN_COMPENSATION"}]
    /\ etape \in [Sagas -> 0..5]
    /\ etapes_ok \in [Sagas -> Seq(Sa!Commandes)]
    /\ a_compenser \in [Sagas -> Seq(Sa!Commandes)]
    /\ derniere \in Sagas \union {Personne}

\* The first n steps, and the compensations of the first n.
Prefixe(s, q, n) == Len(q) = n /\ \A i \in 1..n : q[i] = Sa!Etapes(s)[i]
Compensations(s, q, n) == Len(q) = n /\ \A i \in 1..n : q[i] = Sa!Etapes(s)[n + 1 - i]

\* A saga has in the services steps that it has done and has not compensated.
EtapesDe(s) ==
    /\ etat_saga[s] = "absente" => etapes_ok[s] = <<>> /\ Sa!Faites(s) = {}
    /\ etat_saga[s] = "EN_COURS" =>
         /\ etape[s] \in 1..4
         /\ Prefixe(s, etapes_ok[s], etape[s] - 1)
         /\ Sa!Faites(s) \subseteq 1..(etape[s] - 1)
    /\ etat_saga[s] = "EN_COMPENSATION" =>
         \E n \in 0..2 : Compensations(s, a_compenser[s], n) /\ Sa!Faites(s) \subseteq 1..n
    /\ etat_saga[s] \in {"COMPENSEE", "ECHOUEE"} => Sa!Faites(s) = {}

\* Every saga is so.
EtapesInv == \A s \in Sagas : EtapesDe(s)

\* Alone, the saga launched last has there all that it has done and not compensated.
DerniereInv == "concurrence" \notin PermisSaga =>
    /\ \A s \in Sagas : s # derniere => etat_saga[s] \in Sa!Finales \union {"absente"}
    /\ derniere # Personne =>
         /\ etat_saga[derniere] = "EN_COURS"
             => 1..(etape[derniere] - 1) \subseteq Sa!Faites(derniere)
         /\ etat_saga[derniere] = "EN_COMPENSATION" =>
              1..Len(a_compenser[derniere]) \subseteq Sa!Faites(derniere)
         /\ etat_saga[derniere] = "SUCCES" => 1..3 \subseteq Sa!Faites(derniere)

\* The inductive invariant.
InvSaga == TypeInvSaga /\ EtapesInv /\ DerniereInv

-----------------------------------------------------------------------------
\* Four different commands, the first two of which have a compensation.
LEMMA EtapesCorrectes ==
    ASSUME NEW s
    PROVE  /\ \A i \in 1..4 : Sa!Etapes(s)[i] \in Sa!Commandes
           /\ \A i, j \in 1..4 : Sa!Etapes(s)[i] = Sa!Etapes(s)[j] => i = j
           /\ Sa!Etapes(s)[1] \in Sa!Compensables /\ Sa!Etapes(s)[2] \in Sa!Compensables
<1>1. CASE s \in Orchestrees
  <2>1. Sa!Etapes(s) = <<"RESERVER_STOCK", "DEBITER_PAIEMENT", "CREER_EXPEDITION",
                         "ENVOYER_CONFIRMATION">>
    BY <1>1 DEF Sa!Etapes
  <2> QED
    BY <2>1 DEF Sa!Commandes, Sa!Compensables
<1>2. CASE s \notin Orchestrees
  <2>1. Sa!Etapes(s) = <<"RESERVER_STOCK", "DEBITER_CARTE", "CREER_EXPEDITION",
                         "ENVOYER_EMAIL">>
    BY <1>2 DEF Sa!Etapes
  <2> QED
    BY <2>1 DEF Sa!Commandes, Sa!Compensables
<1> QED
  BY <1>1, <1>2

\* The compensations of two compensable steps at most are these steps in reverse.
LEMMA DeuxAuPlus ==
    ASSUME NEW q \in Seq(Sa!Commandes), Len(q) <= 2,
           \A i \in 1..Len(q) : q[i] \in Sa!Compensables
    PROVE  /\ Sa!OrdreCompensation(q) \in Seq(Sa!Commandes)
           /\ Len(Sa!OrdreCompensation(q)) = Len(q)
           /\ \A i \in 1..Len(q) : Sa!OrdreCompensation(q)[i] = q[Len(q) + 1 - i]
<1> DEFINE e(F, i) == IF i = 0 THEN <<>>
                      ELSE IF q[i] \in Sa!Compensables THEN <<q[i]>> \o F[i - 1] ELSE F[i - 1]
           n == Len(q)
           R(F) == F = [i \in 0..n |-> e(F, i)]
<1>0. n \in 0..2 /\ \A i \in 1..n : q[i] \in Sa!Commandes
  <2>1. Len(q) \in Nat /\ DOMAIN q = 1..Len(q)
    OBVIOUS
  <2> QED
    BY <2>1
<1> HIDE DEF n
<1>1. \E F : R(F)
  <2> DEFINE h1 == <<q[1]>> \o <<>>
             h2 == <<q[2]>> \o h1
             G == [i \in 0..n |-> IF i = 0 THEN <<>> ELSE IF i = 1 THEN h1 ELSE h2]
  <2>1. \A i \in 0..n : G[i] = e(G, i)
    <3> TAKE i \in 0..n
    <3>0. i \in 0..2 /\ (i # 0 => i - 1 \in 0..n /\ q[i] \in Sa!Compensables)
      BY <1>0 DEF n
    <3>1. CASE i = 0
      BY <3>1
    <3>2. CASE i = 1
      <4>1. G[0] = <<>> /\ G[1] = h1
        BY <3>0, <3>2
      <4>2. e(G, 1) = <<q[1]>> \o G[0]
        BY <3>0, <3>2
      <4> QED
        BY <3>2, <4>1, <4>2
    <3>3. CASE i = 2
      <4>1. G[1] = h1 /\ G[2] = h2
        BY <3>0, <3>3
      <4>2. e(G, 2) = <<q[2]>> \o G[1]
        BY <3>0, <3>3
      <4> QED
        BY <3>3, <4>1, <4>2
    <3> QED
      BY <3>0, <3>1, <3>2, <3>3
  <2>2. G = [i \in 0..n |-> G[i]]
    OBVIOUS
  <2>3. R(G)
    <3> HIDE DEF e, G
    <3> QED
      BY <2>1, <2>2
  <2> HIDE DEF R, G
  <2> QED
    BY <2>3
<1>2. PICK F : R(F) /\ Sa!OrdreCompensation(q) = F[n]
  <2>1. PICK F : F = CHOOSE G : R(G)
    OBVIOUS
  <2>2. R(F)
    <3> HIDE DEF R
    <3> QED
      BY <1>1, <2>1
  <2>3. Sa!OrdreCompensation(q) = F[n]
    BY <2>1 DEF Sa!OrdreCompensation, n
  <2> QED
    BY <2>2, <2>3
<1>3. \A i \in 0..n : F[i] = e(F, i)
  <2> HIDE DEF e
  <2> QED
    BY <1>2
<1>4. F[0] = <<>>
  <2>1. F[0] = e(F, 0)
    <3> HIDE DEF e
    <3> QED
      BY <1>0, <1>3
  <2> QED
    BY <2>1
<1>5. n >= 1 => F[1] = <<q[1]>>
  <2> SUFFICES ASSUME n >= 1
               PROVE  F[1] = <<q[1]>>
    OBVIOUS
  <2>1. 1 \in 0..n /\ q[1] \in Sa!Compensables
    BY <1>0 DEF n
  <2>2. F[1] = e(F, 1)
    <3> HIDE DEF e
    <3> QED
      BY <1>3, <2>1
  <2>3. F[1] = <<q[1]>> \o F[0]
    BY <2>1, <2>2
  <2> QED
    BY <1>4, <2>3
<1>6. n = 2 => F[2] \in Seq(Sa!Commandes) /\ Len(F[2]) = 2 /\ F[2][1] = q[2] /\ F[2][2] = q[1]
  <2> SUFFICES ASSUME n = 2
               PROVE  F[2] \in Seq(Sa!Commandes) /\ Len(F[2]) = 2 /\ F[2][1] = q[2]
                      /\ F[2][2] = q[1]
    OBVIOUS
  <2>1. 2 \in 0..n /\ q[2] \in Sa!Compensables
    BY <1>0 DEF n
  <2>2. F[2] = e(F, 2)
    <3> HIDE DEF e
    <3> QED
      BY <1>3, <2>1
  <2>3. F[2] = <<q[2]>> \o F[1]
    BY <2>1, <2>2
  <2>4. n >= 1
    OBVIOUS
  <2>5. q[1] \in Sa!Commandes /\ q[2] \in Sa!Commandes
    BY <1>0
  <2>6. PICK x, y : x = <<q[2]>> /\ y = <<q[1]>>
    OBVIOUS
  <2>7. /\ x \in Seq(Sa!Commandes) /\ Len(x) = 1 /\ x[1] = q[2]
        /\ y \in Seq(Sa!Commandes) /\ Len(y) = 1 /\ y[1] = q[1]
    BY <2>5, <2>6
  <2>8. F[2] = x \o y
    BY <1>5, <2>3, <2>4, <2>6
  <2>9. /\ x \o y \in Seq(Sa!Commandes) /\ Len(x \o y) = 2
        /\ (x \o y)[1] = q[2] /\ (x \o y)[2] = q[1]
    BY <2>7, ConcatProperties
  <2> QED
    BY <2>8, <2>9
<1>7. CASE n = 0
  BY <1>2, <1>4, <1>7 DEF n
<1>8. CASE n = 1
  <2>1. Sa!OrdreCompensation(q) = <<q[1]>> /\ q[1] \in Sa!Commandes
    BY <1>0, <1>2, <1>5, <1>8
  <2> QED
    BY <1>8, <2>1 DEF n
<1>9. CASE n = 2
  <2>1. PICK g : g = Sa!OrdreCompensation(q)
    OBVIOUS
  <2>2. g \in Seq(Sa!Commandes) /\ Len(g) = 2 /\ g[1] = q[2] /\ g[2] = q[1]
    BY <1>2, <1>6, <1>9, <2>1
  <2>3. \A i \in 1..2 : g[i] = q[3 - i]
    BY <2>2
  <2> QED
    BY <1>9, <2>1, <2>2, <2>3 DEF n
<1> QED
  BY <1>0, <1>7, <1>8, <1>9

-----------------------------------------------------------------------------
\* What a step does not change of the other sagas.
LEMMA FaitesAjout ==
    ASSUME TypeInvSaga, NEW s \in Sagas, NEW i \in 1..4,
           entrees_saga' = [entrees_saga EXCEPT ![Sa!Etapes(s)[i]] = s]
    PROVE  /\ Sa!Faites(s)' = Sa!Faites(s) \union {i}
           /\ \A r \in Sagas : r # s => Sa!Faites(r)' \subseteq Sa!Faites(r)
<1>1. /\ \A r : \A j \in 1..4 : Sa!Etapes(r)[j] \in Sa!Commandes
      /\ \A j, k \in 1..4 : Sa!Etapes(s)[j] = Sa!Etapes(s)[k] => j = k
  BY EtapesCorrectes
<1>2. \A k \in Sa!Commandes : entrees_saga'[k] = IF k = Sa!Etapes(s)[i] THEN s ELSE entrees_saga[k]
  BY <1>1 DEF TypeInvSaga
<1>3. \A r : Sa!Etapes(r)' = Sa!Etapes(r)
  BY DEF Sa!Etapes
<1>4. \A r : Sa!Faites(r)' = {j \in 1..4 : entrees_saga'[Sa!Etapes(r)[j]] = r}
  BY DEF Sa!Faites, Sa!Etapes
<1>5. \A r : Sa!Faites(r) = {j \in 1..4 : entrees_saga[Sa!Etapes(r)[j]] = r}
  BY DEF Sa!Faites
<1>6. Sa!Faites(s)' = Sa!Faites(s) \union {i}
  BY <1>1, <1>2, <1>4, <1>5
<1>7. \A r \in Sagas : r # s => Sa!Faites(r)' \subseteq Sa!Faites(r)
  BY <1>1, <1>2, <1>4, <1>5
<1> QED
  BY <1>6, <1>7

\* What a compensation takes from the services is the step it compensates.
LEMMA FaitesRetrait ==
    ASSUME Sa!SagaAssumption, TypeInvSaga, NEW s \in Sagas, NEW i \in 1..4,
           entrees_saga' = [entrees_saga EXCEPT ![Sa!Etapes(s)[i]] = Personne]
    PROVE  /\ Sa!Faites(s)' = Sa!Faites(s) \ {i}
           /\ \A r \in Sagas : Sa!Faites(r)' \subseteq Sa!Faites(r)
<1>1. /\ \A r : \A j \in 1..4 : Sa!Etapes(r)[j] \in Sa!Commandes
      /\ \A j, k \in 1..4 : Sa!Etapes(s)[j] = Sa!Etapes(s)[k] => j = k
  BY EtapesCorrectes
<1>2. \A k \in Sa!Commandes : entrees_saga'[k] = IF k = Sa!Etapes(s)[i] THEN Personne ELSE entrees_saga[k]
  BY <1>1 DEF TypeInvSaga
<1>3. \A r : Sa!Faites(r)' = {j \in 1..4 : entrees_saga'[Sa!Etapes(r)[j]] = r}
  BY DEF Sa!Faites, Sa!Etapes
<1>4. \A r : Sa!Faites(r) = {j \in 1..4 : entrees_saga[Sa!Etapes(r)[j]] = r}
  BY DEF Sa!Faites
<1>5. \A r \in Sagas : r # Personne
  BY DEF Sa!SagaAssumption
<1>6. Sa!Faites(s)' = Sa!Faites(s) \ {i}
  BY <1>1, <1>2, <1>3, <1>4, <1>5
<1>7. \A r \in Sagas : Sa!Faites(r)' \subseteq Sa!Faites(r)
  BY <1>1, <1>2, <1>3, <1>4, <1>5
<1> QED
  BY <1>6, <1>7

\* What is said of a saga stays so while others step: they only take entries from it.

\* A command of one saga leaves the others as they are.
LEMMA AutresSagas ==
    ASSUME EtapesInv, NEW r \in Sagas,
           etat_saga'[r] = etat_saga[r], etape'[r] = etape[r], etapes_ok'[r] = etapes_ok[r],
           a_compenser'[r] = a_compenser[r], Sa!Faites(r)' \subseteq Sa!Faites(r)
    PROVE  EtapesDe(r)'
<1>1. EtapesDe(r)
  BY DEF EtapesInv
<1> QED
  BY <1>1 DEF EtapesDe, Prefixe, Compensations, Sa!Etapes

\* The invariant gives the types that the model declares.
LEMMA TypesDeInvSaga ==
    ASSUME TypeInvSaga
    PROVE  /\ entrees_saga \in [Sa!Commandes -> Sagas \union {Personne}]
           /\ etat_saga \in [Sagas -> Sa!Finales \union {"absente", "EN_COURS",
               "EN_COMPENSATION"}]
           /\ etape \in [Sagas -> 0..5]
           /\ etapes_ok \in [Sagas -> Seq(Sa!Commandes)]
           /\ a_compenser \in [Sagas -> Seq(Sa!Commandes)]
BY DEF TypeInvSaga

\* Every step of a saga keeps the invariant: the launch, a step that succeeds, one that
\* fails, the failed notification, a compensation, the end of them.
LEMMA LancerInv ==
    ASSUME InvSaga, NEW s \in Sagas, Sa!Lancer(s)
    PROVE  InvSaga'
<1>0. /\ entrees_saga \in [Sa!Commandes -> Sagas \union {Personne}]
      /\ etat_saga \in [Sagas -> Sa!Finales \union {"absente", "EN_COURS", "EN_COMPENSATION"}]
      /\ etape \in [Sagas -> 0..5]
  BY DEF InvSaga, TypeInvSaga
<1>1. /\ etat_saga[s] = "absente"
      /\ etat_saga' = [etat_saga EXCEPT ![s] = "EN_COURS"]
      /\ etape' = [etape EXCEPT ![s] = 1]
      /\ derniere' = s
      /\ UNCHANGED <<entrees_saga, etapes_ok, a_compenser>>
  BY DEF Sa!Lancer
<1>2. TypeInvSaga'
  <2>1. etat_saga' \in [Sagas -> Sa!Finales \union {"absente", "EN_COURS", "EN_COMPENSATION"}]
    BY <1>0, <1>1
  <2>2. etape' \in [Sagas -> 0..5]
    BY <1>0, <1>1
  <2> QED
    BY <1>1, <2>1, <2>2 DEF InvSaga, TypeInvSaga
<1>3. \A r : Sa!Faites(r)' = Sa!Faites(r)
  BY <1>1 DEF Sa!Faites, Sa!Etapes
<1>4. etat_saga'[s] = "EN_COURS" /\ etape'[s] = 1
  BY <1>0, <1>1
<1>5. \A r \in Sagas : r # s => etat_saga'[r] = etat_saga[r] /\ etape'[r] = etape[r]
  BY <1>0, <1>1
<1>6. EtapesDe(s)'
  <2>1. etapes_ok[s] = <<>> /\ Sa!Faites(s) = {}
    BY <1>1 DEF InvSaga, EtapesInv, EtapesDe
  <2>2. Prefixe(s, etapes_ok[s], etape[s] - 1)'
    BY <1>1, <1>4, <2>1 DEF Prefixe
  <2> QED
    BY <1>3, <1>4, <2>1, <2>2 DEF EtapesDe
<1>7. EtapesInv'
  <2>1. \A r \in Sagas : r # s => EtapesDe(r)'
    BY <1>1, <1>3, <1>5, AutresSagas DEF InvSaga
  <2> QED
    BY <1>6, <2>1 DEF EtapesInv
<1>8. DerniereInv'
  <2> SUFFICES ASSUME "concurrence" \notin PermisSaga
               PROVE  DerniereInv'
    BY DEF DerniereInv
  <2>1. \A r \in Sagas : etat_saga[r] \in Sa!Finales \union {"absente"}
    BY DEF Sa!Lancer
  <2>2. \A r \in Sagas : r # derniere' => etat_saga'[r] \in Sa!Finales \union {"absente"}
    BY <1>1, <1>5, <2>1
  <2> QED
    BY <1>1, <1>4, <2>2 DEF DerniereInv
<1> QED
  BY <1>2, <1>7, <1>8 DEF InvSaga

LEMMA ReussirInv ==
    ASSUME Sa!SagaAssumption, InvSaga, NEW s \in Sagas, Sa!Reussir(s)
    PROVE  InvSaga'
<1>0. /\ entrees_saga \in [Sa!Commandes -> Sagas \union {Personne}]
      /\ etat_saga \in [Sagas -> Sa!Finales \union {"absente", "EN_COURS", "EN_COMPENSATION"}]
      /\ etape \in [Sagas -> 0..5]
      /\ etapes_ok \in [Sagas -> Seq(Sa!Commandes)]
  BY DEF InvSaga, TypeInvSaga
<1>1. PICK n \in 1..4 : n = etape[s]
  BY DEF Sa!Reussir, Sa!EnCours
<1>2. PICK k : k = Sa!Etapes(s)[n]
  OBVIOUS
<1>3. /\ etat_saga[s] = "EN_COURS"
      /\ entrees_saga' = [entrees_saga EXCEPT ![k] = s]
      /\ etapes_ok' = [etapes_ok EXCEPT ![s] = Append(@, k)]
      /\ etape' = [etape EXCEPT ![s] = @ + 1]
      /\ etat_saga' = [etat_saga EXCEPT ![s] = IF n = 4 THEN "SUCCES" ELSE @]
      /\ UNCHANGED <<a_compenser, derniere>>
  BY <1>1, <1>2 DEF Sa!Reussir, Sa!EnCours, Sa!Commande
<1>4. k \in Sa!Commandes
  BY <1>2, EtapesCorrectes
<1>5. /\ etape'[s] = n + 1
      /\ etapes_ok'[s] = Append(etapes_ok[s], k)
      /\ etat_saga'[s] = IF n = 4 THEN "SUCCES" ELSE "EN_COURS"
  BY <1>0, <1>1, <1>3
<1>6. \A r \in Sagas : r # s => /\ etat_saga'[r] = etat_saga[r] /\ etape'[r] = etape[r]
                                /\ etapes_ok'[r] = etapes_ok[r]
  BY <1>0, <1>3
<1>7. TypeInvSaga'
  <2>1. entrees_saga' \in [Sa!Commandes -> Sagas \union {Personne}]
    BY <1>0, <1>3
  <2>2. etat_saga' \in [Sagas -> Sa!Finales \union {"absente", "EN_COURS", "EN_COMPENSATION"}]
    BY <1>0, <1>3 DEF Sa!Finales
  <2>3. etape' \in [Sagas -> 0..5]
    <3>1. n + 1 \in 0..5
      OBVIOUS
    <3> QED
      BY <1>0, <1>1, <1>3, <3>1
  <2>4. etapes_ok' \in [Sagas -> Seq(Sa!Commandes)]
    <3>1. Append(etapes_ok[s], k) \in Seq(Sa!Commandes)
      BY <1>0, <1>4
    <3> QED
      BY <1>0, <1>3, <3>1
  <2> QED
    BY <1>3, <2>1, <2>2, <2>3, <2>4 DEF InvSaga, TypeInvSaga
<1>8. /\ Sa!Faites(s)' = Sa!Faites(s) \union {n}
      /\ \A r \in Sagas : r # s => Sa!Faites(r)' \subseteq Sa!Faites(r)
  BY <1>2, <1>3, FaitesAjout DEF InvSaga
<1>9. Prefixe(s, etapes_ok[s], n - 1) /\ Sa!Faites(s) \subseteq 1..(n - 1)
  BY <1>1, <1>3 DEF InvSaga, EtapesInv, EtapesDe
<1>10. EtapesDe(s)'
  <2>1. CASE n = 4
    BY <1>5, <2>1 DEF EtapesDe
  <2>2. CASE n # 4
    <3>1. n + 1 \in 1..4 /\ n + 1 - 1 = n
      BY <2>2
    <3>2. Prefixe(s, Append(etapes_ok[s], k), n)
      <4>1. etapes_ok[s] \in Seq(Sa!Commandes)
        BY <1>0
      <4>2. Len(Append(etapes_ok[s], k)) = n
        BY <1>9, <4>1 DEF Prefixe
      <4>3. ASSUME NEW i \in 1..n
            PROVE  Append(etapes_ok[s], k)[i] = Sa!Etapes(s)[i]
        <5>1. CASE i = n
          BY <1>2, <1>9, <4>1, <5>1 DEF Prefixe
        <5>2. CASE i # n
          <6>1. i \in 1..(n - 1) /\ i \in 1..Len(etapes_ok[s])
            BY <1>9, <5>2 DEF Prefixe
          <6>2. Append(etapes_ok[s], k)[i] = etapes_ok[s][i]
            BY <4>1, <6>1
          <6> QED
            BY <1>9, <6>1, <6>2 DEF Prefixe
        <5> QED
          BY <5>1, <5>2
      <4> QED
        BY <4>2, <4>3 DEF Prefixe
    <3>3. Sa!Faites(s)' \subseteq 1..n
      BY <1>8, <1>9
    <3>4. Prefixe(s, etapes_ok[s], etape[s] - 1)'
      BY <1>5, <3>1, <3>2 DEF Prefixe, Sa!Etapes
    <3> QED
      BY <1>5, <2>2, <3>1, <3>3, <3>4 DEF EtapesDe
  <2> QED
    BY <2>1, <2>2
<1>11. EtapesInv'
  <2>1. \A r \in Sagas : r # s => EtapesDe(r)'
    BY <1>3, <1>6, <1>8, AutresSagas DEF InvSaga
  <2> QED
    BY <1>10, <2>1 DEF EtapesInv
<1>12. DerniereInv'
  <2> SUFFICES ASSUME "concurrence" \notin PermisSaga
               PROVE  DerniereInv'
    BY DEF DerniereInv
  <2>1. derniere = s
    BY <1>3 DEF InvSaga, DerniereInv, Sa!Finales
  <2>2. s # Personne
    BY DEF Sa!SagaAssumption
  <2>3. 1..(n - 1) \subseteq Sa!Faites(s)
    BY <1>1, <1>3, <2>1, <2>2 DEF InvSaga, DerniereInv
  <2>4. \A r \in Sagas : r # s => etat_saga'[r] \in Sa!Finales \union {"absente"}
    BY <1>6, <2>1 DEF InvSaga, DerniereInv
  <2>5. 1..n \subseteq Sa!Faites(s)'
    BY <1>8, <2>3
  <2> QED
    BY <1>3, <1>5, <2>1, <2>4, <2>5 DEF DerniereInv
<1> QED
  BY <1>7, <1>11, <1>12 DEF InvSaga

LEMMA EchouerInv ==
    ASSUME Sa!SagaAssumption, Reversible, InvSaga, NEW s \in Sagas, Sa!Echouer(s)
    PROVE  InvSaga'
<1>0. /\ etat_saga \in [Sagas -> Sa!Finales \union {"absente", "EN_COURS", "EN_COMPENSATION"}]
      /\ etapes_ok \in [Sagas -> Seq(Sa!Commandes)]
      /\ a_compenser \in [Sagas -> Seq(Sa!Commandes)]
  BY DEF InvSaga, TypeInvSaga
<1>1. PICK n \in 1..3 : n = etape[s]
  BY DEF Sa!Echouer, Sa!EnCours, Reversible
<1>2. PICK q : q = etapes_ok[s]
  OBVIOUS
<1>3. PICK c : c = Sa!OrdreCompensation(q)
  OBVIOUS
<1>4. /\ etat_saga[s] = "EN_COURS"
      /\ etat_saga' = [etat_saga EXCEPT ![s] = IF n = 1 THEN "ECHOUEE" ELSE "EN_COMPENSATION"]
      /\ a_compenser' = [a_compenser EXCEPT ![s] = c]
      /\ UNCHANGED <<entrees_saga, etape, etapes_ok, derniere>>
  BY <1>1, <1>2, <1>3 DEF Sa!Echouer, Sa!EnCours
<1>5. /\ q \in Seq(Sa!Commandes) /\ Len(q) = n - 1
      /\ \A i \in 1..(n - 1) : q[i] = Sa!Etapes(s)[i]
      /\ Sa!Faites(s) \subseteq 1..(n - 1)
  BY <1>0, <1>1, <1>2, <1>4 DEF InvSaga, EtapesInv, EtapesDe, Prefixe
<1>6. /\ c \in Seq(Sa!Commandes) /\ Len(c) = n - 1
      /\ \A i \in 1..(n - 1) : c[i] = q[n - i]
  <2>1. \A i \in 1..(n - 1) : q[i] \in Sa!Compensables
    <3>1. \A i \in 1..(n - 1) : i = 1 \/ i = 2
      OBVIOUS
    <3> QED
      BY <1>5, <3>1, EtapesCorrectes
  <2>2. Len(q) <= 2 /\ \A i \in 1..Len(q) : q[i] \in Sa!Compensables
    BY <1>5, <2>1
  <2>3. q \in Seq(Sa!Commandes)
    BY <1>5
  <2>4. /\ Sa!OrdreCompensation(q) \in Seq(Sa!Commandes)
        /\ Len(Sa!OrdreCompensation(q)) = Len(q)
        /\ \A i \in 1..Len(q) : Sa!OrdreCompensation(q)[i] = q[Len(q) + 1 - i]
    BY <2>2, <2>3, DeuxAuPlus
  <2>5. /\ c \in Seq(Sa!Commandes) /\ Len(c) = Len(q)
        /\ \A i \in 1..Len(q) : c[i] = q[Len(q) + 1 - i]
    BY <1>3, <2>4
  <2>6. Len(q) = n - 1 /\ \A i \in 1..(n - 1) : n - 1 + 1 - i = n - i
    BY <1>5
  <2> QED
    BY <2>5, <2>6
<1>7. Compensations(s, c, n - 1)
  <2>1. ASSUME NEW i \in 1..(n - 1)
        PROVE  c[i] = Sa!Etapes(s)[n - 1 + 1 - i]
    <3>1. n - i \in 1..(n - 1) /\ n - 1 + 1 - i = n - i
      OBVIOUS
    <3> QED
      BY <1>5, <1>6, <3>1
  <2> QED
    BY <1>6, <2>1 DEF Compensations
<1>8. /\ etat_saga'[s] = IF n = 1 THEN "ECHOUEE" ELSE "EN_COMPENSATION"
      /\ a_compenser'[s] = c
      /\ \A r \in Sagas : r # s => /\ etat_saga'[r] = etat_saga[r]
                                    /\ a_compenser'[r] = a_compenser[r]
  BY <1>0, <1>4
<1>9. \A r : Sa!Faites(r)' = Sa!Faites(r)
  BY <1>4 DEF Sa!Faites, Sa!Etapes
<1>10. TypeInvSaga'
  <2>1. etat_saga' \in [Sagas -> Sa!Finales \union {"absente", "EN_COURS", "EN_COMPENSATION"}]
    BY <1>0, <1>4 DEF Sa!Finales
  <2>2. a_compenser' \in [Sagas -> Seq(Sa!Commandes)]
    BY <1>0, <1>4, <1>6
  <2> QED
    BY <1>4, <2>1, <2>2 DEF InvSaga, TypeInvSaga
<1>11. EtapesDe(s)'
  <2>1. CASE n = 1
    BY <1>5, <1>8, <1>9, <2>1 DEF EtapesDe
  <2>2. CASE n # 1
    <3>1. n - 1 \in 0..2
      OBVIOUS
    <3>2. /\ Compensations(s, a_compenser'[s], n - 1) /\ Sa!Faites(s)' \subseteq 1..(n - 1)
      BY <1>5, <1>7, <1>8, <1>9
    <3>3. \E m \in 0..2 : Compensations(s, a_compenser'[s], m) /\ Sa!Faites(s)' \subseteq 1..m
      BY <3>1, <3>2
    <3> QED
      BY <1>8, <2>2, <3>3 DEF EtapesDe, Compensations, Sa!Etapes
  <2> QED
    BY <2>1, <2>2
<1>12. EtapesInv'
  <2>1. \A r \in Sagas : r # s => EtapesDe(r)'
    BY <1>4, <1>8, <1>9, AutresSagas DEF InvSaga
  <2> QED
    BY <1>11, <2>1 DEF EtapesInv
<1>13. DerniereInv'
  <2> SUFFICES ASSUME "concurrence" \notin PermisSaga
               PROVE  DerniereInv'
    BY DEF DerniereInv
  <2>1. derniere = s
    BY <1>4 DEF InvSaga, DerniereInv, Sa!Finales
  <2>2. s # Personne
    BY DEF Sa!SagaAssumption
  <2>3. 1..(n - 1) \subseteq Sa!Faites(s)
    BY <1>1, <1>4, <2>1, <2>2 DEF InvSaga, DerniereInv
  <2>4. \A r \in Sagas : r # s => etat_saga'[r] \in Sa!Finales \union {"absente"}
    BY <1>8, <2>1 DEF InvSaga, DerniereInv
  <2> QED
    BY <1>4, <1>6, <1>8, <1>9, <2>1, <2>3, <2>4 DEF DerniereInv
<1> QED
  BY <1>10, <1>12, <1>13 DEF InvSaga

LEMMA IgnorerInv ==
    ASSUME Sa!SagaAssumption, InvSaga, NEW s \in Sagas, Sa!IgnorerEchecNotif(s)
    PROVE  InvSaga'
<1>0. /\ etat_saga \in [Sagas -> Sa!Finales \union {"absente", "EN_COURS", "EN_COMPENSATION"}]
      /\ etape \in [Sagas -> 0..5]
  BY DEF InvSaga, TypeInvSaga
<1>1. /\ etat_saga[s] = "EN_COURS" /\ etape[s] = 4
      /\ etat_saga' = [etat_saga EXCEPT ![s] = "SUCCES"]
      /\ etape' = [etape EXCEPT ![s] = 5]
      /\ UNCHANGED <<entrees_saga, etapes_ok, a_compenser, derniere>>
  BY DEF Sa!IgnorerEchecNotif, Sa!EnCours
<1>2. /\ etat_saga'[s] = "SUCCES"
      /\ \A r \in Sagas : r # s => etat_saga'[r] = etat_saga[r] /\ etape'[r] = etape[r]
  BY <1>0, <1>1
<1>3. \A r : Sa!Faites(r)' = Sa!Faites(r)
  BY <1>1 DEF Sa!Faites, Sa!Etapes
<1>4. TypeInvSaga'
  <2>1. etat_saga' \in [Sagas -> Sa!Finales \union {"absente", "EN_COURS", "EN_COMPENSATION"}]
    BY <1>0, <1>1 DEF Sa!Finales
  <2>2. etape' \in [Sagas -> 0..5]
    BY <1>0, <1>1
  <2> QED
    BY <1>1, <2>1, <2>2 DEF InvSaga, TypeInvSaga
<1>5. EtapesInv'
  <2>1. \A r \in Sagas : r # s => EtapesDe(r)'
    BY <1>1, <1>2, <1>3, AutresSagas DEF InvSaga
  <2>2. EtapesDe(s)'
    BY <1>2 DEF EtapesDe
  <2> QED
    BY <2>1, <2>2 DEF EtapesInv
<1>6. DerniereInv'
  <2> SUFFICES ASSUME "concurrence" \notin PermisSaga
               PROVE  DerniereInv'
    BY DEF DerniereInv
  <2>1. derniere = s
    BY <1>1 DEF InvSaga, DerniereInv, Sa!Finales
  <2>2. s # Personne
    BY DEF Sa!SagaAssumption
  <2>3. 1..3 \subseteq Sa!Faites(s)
    BY <1>1, <2>1, <2>2 DEF InvSaga, DerniereInv
  <2>4. \A r \in Sagas : r # s => etat_saga'[r] \in Sa!Finales \union {"absente"}
    BY <1>2, <2>1 DEF InvSaga, DerniereInv
  <2> QED
    BY <1>1, <1>2, <1>3, <2>1, <2>3, <2>4 DEF DerniereInv
<1> QED
  BY <1>4, <1>5, <1>6 DEF InvSaga

LEMMA CompenserInv ==
    ASSUME Sa!SagaAssumption, InvSaga, NEW s \in Sagas, Sa!Compenser(s)
    PROVE  InvSaga'
<1>0. /\ entrees_saga \in [Sa!Commandes -> Sagas \union {Personne}]
      /\ a_compenser \in [Sagas -> Seq(Sa!Commandes)]
  BY DEF InvSaga, TypeInvSaga
<1>1. PICK a : a = a_compenser[s]
  OBVIOUS
<1>2. /\ etat_saga[s] = "EN_COMPENSATION" /\ a # <<>>
      /\ entrees_saga' = [entrees_saga EXCEPT ![Head(a)] = Personne]
      /\ a_compenser' = [a_compenser EXCEPT ![s] = Tail(a)]
      /\ UNCHANGED <<etat_saga, etape, etapes_ok, derniere>>
  BY <1>1 DEF Sa!Compenser, Sa!Oter
<1>3. PICK n \in 0..2 : Compensations(s, a, n) /\ Sa!Faites(s) \subseteq 1..n
  BY <1>1, <1>2 DEF InvSaga, EtapesInv, EtapesDe
<1>4. a \in Seq(Sa!Commandes) /\ Len(a) = n /\ n \in 1..2
  BY <1>0, <1>1, <1>2, <1>3 DEF Compensations
<1>5. n \in 1..4 /\ Head(a) = Sa!Etapes(s)[n]
  BY <1>3, <1>4 DEF Compensations
<1>6. /\ Sa!Faites(s)' = Sa!Faites(s) \ {n}
      /\ \A r \in Sagas : Sa!Faites(r)' \subseteq Sa!Faites(r)
  BY <1>2, <1>5, FaitesRetrait DEF InvSaga
<1>7. /\ Tail(a) \in Seq(Sa!Commandes) /\ Len(Tail(a)) = n - 1
      /\ \A i \in 1..(n - 1) : Tail(a)[i] = a[i + 1]
  BY <1>4
<1>8. Compensations(s, Tail(a), n - 1)
  <2>1. ASSUME NEW i \in 1..(n - 1)
        PROVE  Tail(a)[i] = Sa!Etapes(s)[n - 1 + 1 - i]
    <3>1. i + 1 \in 1..n /\ n + 1 - (i + 1) = n - 1 + 1 - i
      OBVIOUS
    <3> QED
      BY <1>3, <1>7, <3>1 DEF Compensations
  <2> QED
    BY <1>7, <2>1 DEF Compensations
<1>9. /\ a_compenser'[s] = Tail(a)
      /\ \A r \in Sagas : r # s => a_compenser'[r] = a_compenser[r]
  BY <1>0, <1>2
<1>10. TypeInvSaga'
  <2>1. entrees_saga' \in [Sa!Commandes -> Sagas \union {Personne}]
    BY <1>0, <1>2
  <2>2. a_compenser' \in [Sagas -> Seq(Sa!Commandes)]
    BY <1>0, <1>2, <1>7
  <2> QED
    BY <1>2, <2>1, <2>2 DEF InvSaga, TypeInvSaga
<1>11. EtapesDe(s)'
  <2>1. n - 1 \in 0..2 /\ Sa!Faites(s)' \subseteq 1..(n - 1)
    BY <1>3, <1>4, <1>6
  <2>2. \E m \in 0..2 : Compensations(s, a_compenser'[s], m) /\ Sa!Faites(s)' \subseteq 1..m
    BY <1>8, <1>9, <2>1
  <2> QED
    BY <1>2, <2>2 DEF EtapesDe, Compensations, Sa!Etapes
<1>12. EtapesInv'
  <2>1. \A r \in Sagas : r # s => EtapesDe(r)'
    BY <1>2, <1>6, <1>9, AutresSagas DEF InvSaga
  <2> QED
    BY <1>11, <2>1 DEF EtapesInv
<1>13. DerniereInv'
  <2> SUFFICES ASSUME "concurrence" \notin PermisSaga
               PROVE  DerniereInv'
    BY DEF DerniereInv
  <2>1. derniere = s
    BY <1>2 DEF InvSaga, DerniereInv, Sa!Finales
  <2>2. s # Personne
    BY DEF Sa!SagaAssumption
  <2>3. 1..n \subseteq Sa!Faites(s)
    BY <1>1, <1>2, <1>4, <2>1, <2>2 DEF InvSaga, DerniereInv
  <2>4. 1..(n - 1) \subseteq Sa!Faites(s)'
    BY <1>6, <2>3
  <2>5. \A r \in Sagas : r # s => etat_saga[r] \in Sa!Finales \union {"absente"}
    BY <2>1 DEF InvSaga, DerniereInv
  <2> QED
    BY <1>2, <1>7, <1>9, <2>1, <2>4, <2>5 DEF DerniereInv
<1> QED
  BY <1>10, <1>12, <1>13 DEF InvSaga

LEMMA FinirInv ==
    ASSUME Sa!SagaAssumption, InvSaga, NEW s \in Sagas, Sa!FinirCompensation(s)
    PROVE  InvSaga'
<1>0. etat_saga \in [Sagas -> Sa!Finales \union {"absente", "EN_COURS", "EN_COMPENSATION"}]
  BY DEF InvSaga, TypeInvSaga
<1>1. /\ etat_saga[s] = "EN_COMPENSATION" /\ a_compenser[s] = <<>>
      /\ etat_saga' = [etat_saga EXCEPT ![s] = "COMPENSEE"]
      /\ UNCHANGED <<entrees_saga, etape, etapes_ok, a_compenser, derniere>>
  BY DEF Sa!FinirCompensation
<1>2. /\ etat_saga'[s] = "COMPENSEE"
      /\ \A r \in Sagas : r # s => etat_saga'[r] = etat_saga[r]
  BY <1>0, <1>1
<1>3. \A r : Sa!Faites(r)' = Sa!Faites(r)
  BY <1>1 DEF Sa!Faites, Sa!Etapes
<1>4. TypeInvSaga'
  <2>1. etat_saga' \in [Sagas -> Sa!Finales \union {"absente", "EN_COURS", "EN_COMPENSATION"}]
    BY <1>0, <1>1 DEF Sa!Finales
  <2> QED
    BY <1>1, <2>1 DEF InvSaga, TypeInvSaga
<1>5. Sa!Faites(s) = {}
  <2>1. PICK n \in 0..2 : Compensations(s, a_compenser[s], n) /\ Sa!Faites(s) \subseteq 1..n
    BY <1>1 DEF InvSaga, EtapesInv, EtapesDe
  <2>2. n = 0
    BY <1>1, <2>1 DEF Compensations
  <2> QED
    BY <2>1, <2>2
<1>6. EtapesInv'
  <2>1. \A r \in Sagas : r # s => EtapesDe(r)'
    BY <1>1, <1>2, <1>3, AutresSagas DEF InvSaga
  <2>2. EtapesDe(s)'
    BY <1>2, <1>3, <1>5 DEF EtapesDe
  <2> QED
    BY <2>1, <2>2 DEF EtapesInv
<1>7. DerniereInv'
  <2> SUFFICES ASSUME "concurrence" \notin PermisSaga
               PROVE  DerniereInv'
    BY DEF DerniereInv
  <2>1. derniere = s
    BY <1>1 DEF InvSaga, DerniereInv, Sa!Finales
  <2>2. \A r \in Sagas : r # s => etat_saga'[r] \in Sa!Finales \union {"absente"}
    BY <1>2, <2>1 DEF InvSaga, DerniereInv
  <2> QED
    BY <1>1, <1>2, <2>1, <2>2 DEF DerniereInv
<1> QED
  BY <1>4, <1>6, <1>7 DEF InvSaga

\* The inductive invariant holds always, when the last step does not fail.
THEOREM InvCorrectSaga == ASSUME Sa!SagaAssumption, Reversible PROVE Sa!Spec => []InvSaga
<1>1. Sa!Init => InvSaga
  <2> SUFFICES ASSUME Sa!Init
               PROVE  InvSaga
    OBVIOUS
  <2>1. TypeInvSaga
    BY DEF Sa!Init, TypeInvSaga
  <2>2. \A s \in Sagas : Sa!Faites(s) = {}
    BY EtapesCorrectes DEF Sa!Init, Sa!Faites, Sa!SagaAssumption
  <2>3. EtapesInv
    BY <2>2 DEF Sa!Init, EtapesInv, EtapesDe
  <2>4. DerniereInv
    BY DEF Sa!Init, DerniereInv
  <2> QED
    BY <2>1, <2>3, <2>4 DEF InvSaga
<1>2. ASSUME InvSaga, [Sa!Next]_Sa!vars
      PROVE  InvSaga'
  <2>1. ASSUME NEW s \in Sagas, Sa!Lancer(s) \/ Sa!Avancer(s)
        PROVE  InvSaga'
    BY <1>2, <2>1, LancerInv, ReussirInv, EchouerInv, IgnorerInv, CompenserInv, FinirInv
       DEF Sa!Avancer
  <2>2. CASE UNCHANGED Sa!vars
    <3>1. /\ entrees_saga' = entrees_saga /\ etat_saga' = etat_saga /\ etape' = etape
          /\ etapes_ok' = etapes_ok /\ a_compenser' = a_compenser /\ derniere' = derniere
      BY <2>2 DEF Sa!vars
    <3>2. \A r : Sa!Faites(r)' = Sa!Faites(r)
      BY <3>1 DEF Sa!Faites, Sa!Etapes
    <3>3. TypeInvSaga'
      BY <1>2, <3>1 DEF InvSaga, TypeInvSaga
    <3>4. EtapesInv'
      BY <1>2, <3>1, <3>2, AutresSagas DEF InvSaga, EtapesInv
    <3>5. DerniereInv'
      BY <1>2, <3>1, <3>2 DEF InvSaga, DerniereInv
    <3> QED
      BY <3>3, <3>4, <3>5 DEF InvSaga
  <2> QED
    BY <1>2, <2>1, <2>2 DEF Sa!Next
<1> QED
  BY <1>1, <1>2, PTL DEF Sa!Spec

\* A saga that was undone leaves nothing of its own in the services, although others
\* overlap it.
THEOREM SagaDefaiteVraie ==
    ASSUME Sa!SagaAssumption, Reversible
    PROVE  Sa!Spec => []Sa!SagaDefaite
<1>1. InvSaga => Sa!SagaDefaite
  BY DEF InvSaga, EtapesInv, EtapesDe, Sa!SagaDefaite
<1> QED
  BY <1>1, InvCorrectSaga, PTL

\* Of sagas that do not overlap the one launched last, once it has ended, is done or leaves
\* nothing.
THEOREM ToutOuRienVrai ==
    ASSUME Sa!SagaAssumption, Reversible, "concurrence" \notin PermisSaga
    PROVE  Sa!Spec => []Sa!ToutOuRien
<1>1. InvSaga => Sa!ToutOuRien
  <2> SUFFICES ASSUME InvSaga, derniere # Personne
               PROVE  /\ etat_saga[derniere] = "SUCCES" => 1..3 \subseteq Sa!Faites(derniere)
                      /\ etat_saga[derniere] \in {"COMPENSEE", "ECHOUEE"}
                            => Sa!Faites(derniere) = {}
    BY DEF Sa!ToutOuRien
  <2>1. derniere \in Sagas
    BY DEF InvSaga, TypeInvSaga
  <2> QED
    BY <2>1 DEF InvSaga, DerniereInv, EtapesInv, EtapesDe
<1> QED
  BY <1>1, InvCorrectSaga, PTL

\* Of sagas that do not overlap what is done is a prefix of the steps: they are undone in
\* the reverse of their order.
THEOREM EtapesEnPrefixeVrai ==
    ASSUME Sa!SagaAssumption, Reversible, "concurrence" \notin PermisSaga
    PROVE  Sa!Spec => []Sa!EtapesEnPrefixe
<1>1. InvSaga => Sa!EtapesEnPrefixe
  <2> SUFFICES ASSUME InvSaga, derniere # Personne, NEW i \in 2..3, i \in Sa!Faites(derniere)
               PROVE  i - 1 \in Sa!Faites(derniere)
    BY DEF Sa!EtapesEnPrefixe
  <2>1. derniere \in Sagas
    BY DEF InvSaga, TypeInvSaga
  <2>2. /\ EtapesDe(derniere)
        /\ etat_saga[derniere] \in Sa!Finales \union {"absente", "EN_COURS", "EN_COMPENSATION"}
    BY <2>1 DEF InvSaga, TypeInvSaga, EtapesInv
  <2>3. CASE etat_saga[derniere] = "EN_COURS"
    <3>1. /\ etape[derniere] \in 1..4
          /\ Sa!Faites(derniere) \subseteq 1..(etape[derniere] - 1)
          /\ 1..(etape[derniere] - 1) \subseteq Sa!Faites(derniere)
      BY <2>2, <2>3 DEF EtapesDe, InvSaga, DerniereInv
    <3>2. i - 1 \in 1..(etape[derniere] - 1)
      BY <3>1
    <3> QED
      BY <3>1, <3>2
  <2>4. CASE etat_saga[derniere] = "EN_COMPENSATION"
    <3>1. PICK n \in 0..2 : /\ Compensations(derniere, a_compenser[derniere], n)
                            /\ Sa!Faites(derniere) \subseteq 1..n
      BY <2>2, <2>4 DEF EtapesDe
    <3>2. 1..n \subseteq Sa!Faites(derniere)
      BY <2>4, <3>1 DEF InvSaga, DerniereInv, Compensations
    <3>3. i - 1 \in 1..n
      BY <3>1
    <3> QED
      BY <3>2, <3>3
  <2>5. CASE etat_saga[derniere] = "SUCCES"
    <3>1. 1..3 \subseteq Sa!Faites(derniere)
      BY <2>5 DEF InvSaga, DerniereInv
    <3> QED
      BY <3>1
  <2>6. CASE etat_saga[derniere] \in {"COMPENSEE", "ECHOUEE", "absente"}
    BY <2>2, <2>6 DEF EtapesDe
  <2> QED
    BY <2>2, <2>3, <2>4, <2>5, <2>6 DEF Sa!Finales
<1> QED
  BY <1>1, InvCorrectSaga, PTL

-----------------------------------------------------------------------------
\* The cache.
\* The cardinality of the instance is that of the library.
LEMMA CardinaliteCache == \A S : Ca!Cardinality(S) = Cardinality(S)
BY DEF Ca!Cardinality, Cardinality


\* Who recomputes is registered for its key, and nobody else is; who waits has
\* somebody to wait for.
MeneursInv ==
    /\ \A r \in Lecteurs : lecteur[r] \in {"miss", "attend", "reveille", "liberation"}
        => protege[r]
    /\ \A k \in Cles, r \in Lecteurs : meneurs[k] = r <=> r \in Ca!Recalculent(k)
    /\ \A r \in Lecteurs : lecteur[r] = "attend" => meneurs[voulue[r]] # Personne

\* When no key is written while it is read: nothing in the cache, or about to get there,
\* is older than the last invalidation.
FraicheurInv ==
    /\ \A k \in Cles : /\ invalide[k] <= source[k]
                       /\ cache[k] # Ca!Rien => cache[k] >= invalide[k]
    /\ \A r \in Lecteurs :
         /\ lecteur[r] \notin Ca!Libres => au_depart[r] <= invalide[voulue[r]]
         /\ lecteur[r] = "calcule" => lue[r] = source[voulue[r]]
         /\ lecteur[r] \in {"liberation", "rendu"} /\ lue[r] # Ca!Rien => lue[r] >= au_depart[r]
         /\ lecteur[r] \in {"miss", "calcul", "attend", "reveille"} => lue[r] = Ca!Rien

\* When nothing is written, expires or fails: what was computed is in the cache.
ResultatInv ==
    /\ ecriture = {}
    /\ \A r \in Lecteurs :
         /\ lecteur[r] \in {"calcule", "liberation", "rendu"} => lue[r] # Ca!Rien
         /\ lecteur[r] \in {"liberation", "reveille"} => cache[voulue[r]] # Ca!Rien

\* The cache, its readers and the registered recomputations are typed.
THEOREM TypeCorrectCache ==
  ASSUME Ca!CacheAssumption
  PROVE  Ca!Spec => []Ca!TypeOK
<1>1. Ca!Init => Ca!TypeOK
  <2>1. (CHOOSE k \in Cles : TRUE) \in Cles
    BY DEF Ca!CacheAssumption
  <2> QED
    BY <2>1 DEF Ca!Init, Ca!TypeOK, Ca!CacheAssumption, Ca!Rien
<1>2. ASSUME Ca!TypeOK, [Ca!Next]_Ca!varsCache
      PROVE  Ca!TypeOK'
  <2> USE <1>2 DEF Ca!TypeOK, Ca!appel
  <2>1. ASSUME NEW r \in Lecteurs, NEW k \in Cles, NEW anti \in BOOLEAN, Ca!Appeler(r, k, anti)
        PROVE  Ca!TypeOK'
    BY <2>1 DEF Ca!Appeler
  <2>2. ASSUME NEW r \in Lecteurs, Ca!Avancer(r)
        PROVE  Ca!TypeOK'
    <3>1. CASE Ca!Verrouiller(r)
      BY <3>1 DEF Ca!Verrouiller, Ca!Rendre, Ca!Aller
    <3>2. CASE Ca!Calculer(r)
      BY <3>2 DEF Ca!Calculer
    <3>3. CASE Ca!Ranger(r)
      BY <3>3 DEF Ca!Ranger, Ca!Garder, Ca!Aller
    <3>4. CASE Ca!Liberer(r)
      BY <3>4 DEF Ca!Liberer, Ca!Signaler
    <3>5. CASE Ca!Relire(r)
      BY <3>5 DEF Ca!Relire, Ca!Rendre
    <3> QED
      BY <2>2, <3>1, <3>2, <3>3, <3>4, <3>5 DEF Ca!Avancer
  <2>3. ASSUME NEW k \in Cles, Ca!Expirer(k) \/ Ca!Ecrire(k) \/ Ca!Invalider(k)
        PROVE  Ca!TypeOK'
    BY <2>3 DEF Ca!Expirer, Ca!Ecrire, Ca!Invalider, Ca!CacheAssumption
  <2>4. CASE UNCHANGED Ca!varsCache
    BY <2>4 DEF Ca!varsCache
  <2> QED
    BY <1>2, <2>1, <2>2, <2>3, <2>4 DEF Ca!Next
<1> QED
  BY <1>1, <1>2, PTL DEF Ca!Spec

\* Every step keeps it.
LEMMA MeneursInvPas ==
  ASSUME Ca!CacheAssumption, Ca!TypeOK, MeneursInv, [Ca!Next]_Ca!varsCache
  PROVE  MeneursInv'
<1> USE DEF Ca!TypeOK, MeneursInv, Ca!Recalculent, Ca!CacheAssumption, Ca!appel
<1>1. ASSUME NEW r \in Lecteurs, NEW k \in Cles, NEW anti \in BOOLEAN, Ca!Appeler(r, k, anti)
      PROVE  MeneursInv'
  BY <1>1 DEF Ca!Appeler, Ca!Libres
<1>2. ASSUME NEW r \in Lecteurs, Ca!Verrouiller(r)
      PROVE  MeneursInv'
  BY <1>2 DEF Ca!Verrouiller, Ca!Rendre, Ca!Aller, Ca!Occupe
<1>3. ASSUME NEW r \in Lecteurs, Ca!Calculer(r)
      PROVE  MeneursInv'
  BY <1>3 DEF Ca!Calculer
<1>4. ASSUME NEW r \in Lecteurs, Ca!Ranger(r)
      PROVE  MeneursInv'
  BY <1>4 DEF Ca!Ranger, Ca!Aller
<1>5. ASSUME NEW r \in Lecteurs, Ca!Liberer(r)
      PROVE  MeneursInv'
  BY <1>5 DEF Ca!Liberer, Ca!Signaler
<1>6. ASSUME NEW r \in Lecteurs, Ca!Relire(r)
      PROVE  MeneursInv'
  BY <1>6 DEF Ca!Relire, Ca!Rendre
<1>7. ASSUME NEW k \in Cles, Ca!Expirer(k) \/ Ca!Ecrire(k) \/ Ca!Invalider(k)
      PROVE  MeneursInv'
  BY <1>7 DEF Ca!Expirer, Ca!Ecrire, Ca!Invalider
<1>8. CASE UNCHANGED Ca!varsCache
  BY <1>8 DEF Ca!varsCache
<1> QED
  BY <1>1, <1>2, <1>3, <1>4, <1>5, <1>6, <1>7, <1>8 DEF Ca!Next, Ca!Avancer

\* A set with one possible member has one at most.
LEMMA AuPlusUnCache ==
  ASSUME NEW S, NEW x, S \subseteq {x}
  PROVE  Cardinality(S) <= 1
<1>1. S = {} \/ S = {x}
  OBVIOUS
<1>2. Cardinality({}) = 0
  BY FS_EmptySet, Zenon
<1>3. Cardinality({x}) = 1
  BY FS_Singleton, Zenon
<1> QED
  BY <1>1, <1>2, <1>3

\* One thread at most recomputes a key, and who waits has it to wait for, whatever
\* expires, is written or is invalidated meanwhile.
THEOREM UnSeulRecalculCorrect ==
  ASSUME Ca!CacheAssumption
  PROVE  Ca!Spec => []Ca!UnSeulRecalcul
<1>1. Ca!Init => MeneursInv
  BY DEF Ca!Init, MeneursInv, Ca!Recalculent, Ca!CacheAssumption
<1>2. ASSUME Ca!TypeOK, MeneursInv
      PROVE  Ca!UnSeulRecalcul
  <2> SUFFICES ASSUME NEW k \in Cles
               PROVE  /\ Cardinality(Ca!Recalculent(k)) <= 1
                      /\ (\E r \in Lecteurs : lecteur[r] = "attend" /\ voulue[r] = k)
                           => Ca!Recalculent(k) # {}
    BY CardinaliteCache DEF Ca!UnSeulRecalcul
  <2>1. Ca!Recalculent(k) \subseteq {meneurs[k]}
    BY <1>2 DEF MeneursInv, Ca!Recalculent
  <2>2. Cardinality(Ca!Recalculent(k)) <= 1
    BY <2>1, AuPlusUnCache
  <2>3. ASSUME NEW r \in Lecteurs, lecteur[r] = "attend", voulue[r] = k
        PROVE  Ca!Recalculent(k) # {}
    <3>1. meneurs[k] \in Lecteurs
      BY <1>2, <2>3 DEF MeneursInv, Ca!TypeOK
    <3> QED
      BY <1>2, <3>1 DEF MeneursInv
  <2> QED
    BY <2>2, <2>3
<1> QED
  BY <1>1, <1>2, MeneursInvPas, TypeCorrectCache, PTL DEF Ca!Spec

\* Every step keeps it.
LEMMA FraicheurInvPas ==
  ASSUME Ca!CacheAssumption, "course" \notin PermisCache, Ca!TypeOK, MeneursInv, FraicheurInv,
         [Ca!Next]_Ca!varsCache
  PROVE  FraicheurInv'
<1> USE DEF Ca!TypeOK, FraicheurInv, Ca!CacheAssumption, Ca!appel, Ca!Libres, Ca!Rien
<1>1. ASSUME NEW r \in Lecteurs, NEW k \in Cles, NEW anti \in BOOLEAN, Ca!Appeler(r, k, anti)
      PROVE  FraicheurInv'
  BY <1>1 DEF Ca!Appeler
<1>2. ASSUME NEW r \in Lecteurs, Ca!Verrouiller(r)
      PROVE  FraicheurInv'
  BY <1>2 DEF Ca!Verrouiller, Ca!Rendre, Ca!Aller
<1>3. ASSUME NEW r \in Lecteurs, Ca!Calculer(r)
      PROVE  FraicheurInv'
  BY <1>3 DEF Ca!Calculer
<1>4. ASSUME NEW r \in Lecteurs, Ca!Ranger(r)
      PROVE  FraicheurInv'
  BY <1>4 DEF Ca!Ranger, Ca!Aller, Ca!Garder
<1>5. ASSUME NEW r \in Lecteurs, Ca!Liberer(r)
      PROVE  FraicheurInv'
  BY <1>5 DEF Ca!Liberer, Ca!Signaler
<1>6. ASSUME NEW r \in Lecteurs, Ca!Relire(r)
      PROVE  FraicheurInv'
  BY <1>6 DEF Ca!Relire, Ca!Rendre
<1>7. ASSUME NEW k \in Cles, Ca!Expirer(k)
      PROVE  FraicheurInv'
  BY <1>7 DEF Ca!Expirer
<1>8. ASSUME NEW k \in Cles, Ca!Ecrire(k)
      PROVE  FraicheurInv'
  BY <1>8 DEF Ca!Ecrire, Ca!SansLecture
<1>9. ASSUME NEW k \in Cles, Ca!Invalider(k)
      PROVE  FraicheurInv'
  BY <1>9 DEF Ca!Invalider
<1>10. CASE UNCHANGED Ca!varsCache
  BY <1>10 DEF Ca!varsCache
<1> QED
  BY <1>1, <1>2, <1>3, <1>4, <1>5, <1>6, <1>7, <1>8, <1>9, <1>10 DEF Ca!Next, Ca!Avancer

\* When no key is written while it is read, a read returns nothing older than what was
\* invalidated before it began.
THEOREM LectureFraicheCorrecte ==
  ASSUME Ca!CacheAssumption, "course" \notin PermisCache
  PROVE  Ca!Spec => []Ca!LectureFraiche
<1>1. Ca!Init => MeneursInv /\ FraicheurInv
  BY DEF Ca!Init, MeneursInv, FraicheurInv, Ca!Recalculent, Ca!CacheAssumption, Ca!Rien,
         Ca!Libres
<1>2. FraicheurInv => Ca!LectureFraiche
  BY DEF FraicheurInv, Ca!LectureFraiche
<1> QED
  BY <1>1, <1>2, MeneursInvPas, FraicheurInvPas, TypeCorrectCache, PTL DEF Ca!Spec

\* Every step keeps it.
LEMMA ResultatInvPas ==
  ASSUME Ca!CacheAssumption, PermisCache = {}, MaxVersion = 0, Ca!TypeOK, MeneursInv,
         ResultatInv,
         [Ca!Next]_Ca!varsCache
  PROVE  ResultatInv'
<1> USE DEF Ca!TypeOK, ResultatInv, Ca!CacheAssumption, Ca!appel, Ca!Libres, Ca!Rien
<1>1. ASSUME NEW r \in Lecteurs, NEW k \in Cles, NEW anti \in BOOLEAN, Ca!Appeler(r, k, anti)
      PROVE  ResultatInv'
  BY <1>1 DEF Ca!Appeler
<1>2. ASSUME NEW r \in Lecteurs, Ca!Verrouiller(r)
      PROVE  ResultatInv'
  BY <1>2 DEF Ca!Verrouiller, Ca!Rendre, Ca!Aller
<1>3. ASSUME NEW r \in Lecteurs, Ca!Calculer(r)
      PROVE  ResultatInv'
  BY <1>3 DEF Ca!Calculer
<1>4. ASSUME NEW r \in Lecteurs, Ca!Ranger(r)
      PROVE  ResultatInv'
  BY <1>4 DEF Ca!Ranger, Ca!Aller, Ca!Garder
<1>5. ASSUME NEW r \in Lecteurs, Ca!Liberer(r)
      PROVE  ResultatInv'
  BY <1>5 DEF Ca!Liberer, Ca!Signaler
<1>6. ASSUME NEW r \in Lecteurs, Ca!Relire(r)
      PROVE  ResultatInv'
  BY <1>6 DEF Ca!Relire, Ca!Rendre
<1>7. ASSUME NEW k \in Cles, Ca!Expirer(k)
      PROVE  ResultatInv'
  BY <1>7 DEF Ca!Expirer, Ca!SansLecture
<1>8. ASSUME NEW k \in Cles, Ca!Ecrire(k) \/ Ca!Invalider(k)
      PROVE  ResultatInv'
  BY <1>8 DEF Ca!Ecrire, Ca!Invalider
<1>9. CASE UNCHANGED Ca!varsCache
  BY <1>9 DEF Ca!varsCache
<1> QED
  BY <1>1, <1>2, <1>3, <1>4, <1>5, <1>6, <1>7, <1>8, <1>9 DEF Ca!Next, Ca!Avancer

\* When nothing is written, expires or fails, the threads that waited for a recomputation
\* get its result.
THEOREM ResultatPourTousCorrect ==
  ASSUME Ca!CacheAssumption, PermisCache = {}, MaxVersion = 0
  PROVE  Ca!Spec => []Ca!ResultatPourTous
<1>1. Ca!Init => MeneursInv /\ ResultatInv
  BY DEF Ca!Init, MeneursInv, ResultatInv, Ca!Recalculent, Ca!CacheAssumption
<1>2. ResultatInv => Ca!ResultatPourTous
  BY DEF ResultatInv, Ca!ResultatPourTous
<1> QED
  BY <1>1, <1>2, MeneursInvPas, ResultatInvPas, TypeCorrectCache, PTL DEF Ca!Spec

-----------------------------------------------------------------------------
\* The bounded queue.
\* The finite sets of the instance, and their cardinality, are those of the library.
LEMMA CardinaliteFile == \A S : Fi!Cardinality(S) = Cardinality(S)
BY DEF Fi!Cardinality, Cardinality

LEMMA FiniFile == \A S : Fi!IsFiniteSet(S) <=> IsFiniteSet(S)
BY DEF Fi!IsFiniteSet, IsFiniteSet


\* The states of a task that was submitted, of one that was taken, of one that was lost.
Soumises == {"bloquee", "eveillee", "en file", "refusee", "ejectee", "prise", "traitee"}
Prises == {"prise", "traitee"}
Perdues == {"refusee", "ejectee"}

\* The types, but for the bound of the counters.
TypesFile ==
    /\ strategie \in Strategies
    /\ file \in Seq(Taches) /\ Len(file) <= capacite
    /\ tache \in [Taches -> Soumises \union {"absente"}]
    /\ echeance \subseteq Taches
    /\ ouvrier \in [Ouvriers -> {"repos", "attend", "eveille", "traite"}]
    /\ en_main \in [Ouvriers -> SUBSET Taches]
    /\ actif \in [Ouvriers -> BOOLEAN]
    /\ comptes \in [entrees : Nat, traitees : Nat, perdues : Nat]

\* No task is twice in the queue, those that are there say so; what a worker has in its
\* hand was taken.
PlacesInv ==
    /\ \A i, j \in DOMAIN file : file[i] = file[j] => i = j
    /\ \A t \in Taches : tache[t] = "en file" <=> \E i \in DOMAIN file : file[i] = t
    /\ \A w \in Ouvriers : \A t \in en_main[w] : tache[t] \in Prises

\* The counters are the numbers of tasks they count.
ComptesInv ==
    /\ comptes.entrees = Fi!Occurrences(Soumises)
    /\ comptes.traitees = Fi!Occurrences(Prises)
    /\ comptes.perdues = Fi!Occurrences(Perdues)

\* The inductive invariant.
InvFile == TypesFile /\ PlacesInv /\ ComptesInv

\* What is left of a queue without one of its elements.
LEMMA RetraitFile ==
  ASSUME NEW S, NEW q \in Seq(S), NEW i \in DOMAIN q
  PROVE  /\ Fi!RemoveAt(q, i) \in Seq(S)
         /\ Len(Fi!RemoveAt(q, i)) = Len(q) - 1
         /\ \A j \in 1..Len(q) - 1 : Fi!RemoveAt(q, i)[j] = IF j < i THEN q[j] ELSE q[j + 1]
<1> DEFINE a == SubSeq(q, 1, i - 1)
           b == SubSeq(q, i + 1, Len(q))
<1>1. i \in 1..Len(q) /\ Len(q) \in Nat
  OBVIOUS
<1>2. /\ a \in Seq(S) /\ Len(a) = i - 1
      /\ \A j \in 1..i - 1 : a[j] = q[j]
  BY <1>1
<1>3. /\ b \in Seq(S) /\ Len(b) = Len(q) - i
      /\ \A j \in 1..Len(q) - i : b[j] = q[i + j]
  BY <1>1
<1>4. Fi!RemoveAt(q, i) = a \o b
  BY DEF Fi!RemoveAt
<1> HIDE DEF a, b
<1>5. /\ a \o b \in Seq(S)
      /\ Len(a \o b) = Len(q) - 1
  BY <1>1, <1>2, <1>3
<1>6. \A j \in 1..Len(q) - 1 : (a \o b)[j] = IF j < i THEN q[j] ELSE q[j + 1]
  <2> SUFFICES ASSUME NEW j \in 1..Len(q) - 1
               PROVE  (a \o b)[j] = IF j < i THEN q[j] ELSE q[j + 1]
    OBVIOUS
  <2>1. (a \o b)[j] = IF j <= Len(a) THEN a[j] ELSE b[j - Len(a)]
    BY <1>1, <1>2, <1>3, ConcatProperties
  <2>2. CASE j < i
    BY <1>1, <1>2, <2>1, <2>2
  <2>3. CASE ~(j < i)
    <3>1. j - Len(a) \in 1..Len(q) - i /\ i + (j - Len(a)) = j + 1 /\ ~(j <= Len(a))
      BY <1>1, <1>2, <2>3
    <3> QED
      BY <1>3, <2>1, <2>3, <3>1
  <2> QED
    BY <2>2, <2>3
<1> QED
  BY <1>4, <1>5, <1>6

\* Of a queue without repetitions: it has none, and everything but that element.
LEMMA RetraitPlaces ==
  ASSUME NEW S, NEW q \in Seq(S), NEW i \in DOMAIN q,
         \A k, l \in DOMAIN q : q[k] = q[l] => k = l
  PROVE  LET r == Fi!RemoveAt(q, i) IN
         /\ \A k, l \in DOMAIN r : r[k] = r[l] => k = l
         /\ \A x : (\E k \in DOMAIN r : r[k] = x) <=> (x # q[i] /\ \E k \in DOMAIN q : q[k] = x)
<1> DEFINE r == Fi!RemoveAt(q, i)
<1>1. /\ i \in 1..Len(q) /\ Len(q) \in Nat /\ DOMAIN q = 1..Len(q)
      /\ r \in Seq(S) /\ Len(r) = Len(q) - 1 /\ DOMAIN r = 1..Len(q) - 1
      /\ \A j \in 1..Len(q) - 1 : r[j] = IF j < i THEN q[j] ELSE q[j + 1]
  <2>1. i \in 1..Len(q) /\ Len(q) \in Nat /\ DOMAIN q = 1..Len(q)
    OBVIOUS
  <2>2. /\ r \in Seq(S) /\ Len(r) = Len(q) - 1
        /\ \A j \in 1..Len(q) - 1 : r[j] = IF j < i THEN q[j] ELSE q[j + 1]
    BY RetraitFile
  <2> HIDE DEF r
  <2>3. DOMAIN r = 1..Len(q) - 1
    BY <2>2
  <2> QED
    BY <2>1, <2>2, <2>3
<1> HIDE DEF r
<1>2. ASSUME NEW k \in DOMAIN r, NEW l \in DOMAIN r, r[k] = r[l]
      PROVE  k = l
  <2>1. k \in 1..Len(q) - 1 /\ l \in 1..Len(q) - 1
    BY <1>1
  <2> DEFINE kk == IF k < i THEN k ELSE k + 1
             ll == IF l < i THEN l ELSE l + 1
  <2>2. kk \in DOMAIN q /\ ll \in DOMAIN q /\ q[kk] = r[k] /\ q[ll] = r[l]
    BY <1>1, <2>1
  <2>3. kk = ll
    BY <1>2, <2>2
  <2> QED
    BY <1>1, <2>1, <2>3
<1>3. ASSUME NEW k \in DOMAIN r
      PROVE  r[k] # q[i] /\ \E l \in DOMAIN q : q[l] = r[k]
  <2>1. CASE k < i
    BY <1>1, <2>1
  <2>2. CASE ~(k < i)
    BY <1>1, <2>2
  <2> QED
    BY <2>1, <2>2
<1>4. ASSUME NEW k \in DOMAIN q, q[k] # q[i]
      PROVE  \E l \in DOMAIN r : r[l] = q[k]
  <2>1. CASE k < i
    <3>1. k \in DOMAIN r /\ r[k] = q[k]
      BY <1>1, <2>1
    <3> QED
      BY <3>1
  <2>2. CASE ~(k < i)
    <3>1. k - 1 \in 1..Len(q) - 1 /\ ~(k - 1 < i) /\ (k - 1) + 1 = k
      BY <1>1, <1>4, <2>2
    <3>2. k - 1 \in DOMAIN r /\ r[k - 1] = q[k]
      BY <1>1, <3>1
    <3> QED
      BY <3>2
  <2> QED
    BY <2>1, <2>2
<1>5. \A x : (\E k \in DOMAIN r : r[k] = x) <=> (x # q[i] /\ \E k \in DOMAIN q : q[k] = x)
  BY <1>3, <1>4
<1> QED
  BY <1>2, <1>5 DEF r

-----------------------------------------------------------------------------
\* How the number of tasks in some states changes.
LEMMA MemesComptes ==
  ASSUME NEW E, NEW f, NEW g, \A x \in Taches : f[x] \in E <=> g[x] \in E
  PROVE  Cardinality({x \in Taches : g[x] \in E}) = Cardinality({x \in Taches : f[x] \in E})
<1>1. {x \in Taches : g[x] \in E} = {x \in Taches : f[x] \in E}
  OBVIOUS
<1> QED
  BY <1>1, Zenon

\* One more task is in some states when one enters them.
LEMMA UnDePlus ==
  ASSUME Fi!FileAssumption, NEW E, NEW f, NEW g, NEW t \in Taches, f[t] \notin E, g[t] \in E,
         \A x \in Taches \ {t} : f[x] \in E <=> g[x] \in E
  PROVE  Cardinality({x \in Taches : g[x] \in E}) = Cardinality({x \in Taches : f[x] \in E}) + 1
<1> DEFINE F == {x \in Taches : f[x] \in E}
<1>1. {x \in Taches : g[x] \in E} = F \union {t} /\ t \notin F
  OBVIOUS
<1>2. IsFiniteSet(F)
  <2>1. F \subseteq Taches
    OBVIOUS
  <2> HIDE DEF F
  <2> QED
    BY <2>1, FS_Subset, FiniFile DEF Fi!FileAssumption
<1> HIDE DEF F
<1>3. Cardinality(F \union {t}) = Cardinality(F) + 1
  BY <1>1, <1>2, FS_AddElement
<1> QED
  BY <1>1, <1>3 DEF F

\* The number of tasks in some states is a number.
LEMMA NombreDe ==
  ASSUME Fi!FileAssumption, NEW E
  PROVE  /\ Fi!Occurrences(E) \in Nat
         /\ Fi!Occurrences(E) <= Cardinality(Taches)
         /\ Cardinality(Taches) \in Nat
<1> DEFINE F == {x \in Taches : tache[x] \in E}
<1>1. F \subseteq Taches /\ IsFiniteSet(Taches)
  BY FiniFile DEF Fi!FileAssumption
<1> HIDE DEF F
<1>2. /\ IsFiniteSet(F)
      /\ Cardinality(F) <= Cardinality(Taches)
  BY <1>1, FS_Subset
<1>3. Cardinality(F) \in Nat /\ Cardinality(Taches) \in Nat
  BY <1>1, <1>2, FS_CardinalityType
<1> QED
  BY <1>2, <1>3, CardinaliteFile DEF Fi!Occurrences, F

\* Numbers of tasks in states that exclude each other add up.
LEMMA Somme ==
  ASSUME Fi!FileAssumption, NEW D, NEW E, D \cap E = {}
  PROVE  Fi!Occurrences(D \union E) = Fi!Occurrences(D) + Fi!Occurrences(E)
<1> DEFINE F == {x \in Taches : tache[x] \in D}
           G == {x \in Taches : tache[x] \in E}
<1>1. /\ {x \in Taches : tache[x] \in D \union E} = F \union G
      /\ F \cap G = {}
      /\ F \subseteq Taches /\ G \subseteq Taches
  OBVIOUS
<1> HIDE DEF F, G
<1>2. IsFiniteSet(F) /\ IsFiniteSet(G)
  BY <1>1, FS_Subset, FiniFile DEF Fi!FileAssumption
<1>3. Cardinality(F \union G) = Cardinality(F) + Cardinality(G)
  <2>1. Cardinality(F \cap G) = 0
    BY <1>1, FS_EmptySet, Zenon
  <2>2. Cardinality(F \union G) = Cardinality(F) + Cardinality(G) - Cardinality(F \cap G)
    BY <1>2, FS_Union
  <2>3. Cardinality(F) \in Nat /\ Cardinality(G) \in Nat
    BY <1>2, FS_CardinalityType
  <2> QED
    BY <2>1, <2>2, <2>3
<1> QED
  BY <1>1, <1>3, CardinaliteFile DEF Fi!Occurrences, F, G

\* The queue is as long as there are tasks in it.
LEMMA LongueurDeLaFile ==
  ASSUME Fi!FileAssumption, InvFile
  PROVE  Len(file) = Fi!Occurrences({"en file"})
<1> DEFINE F == {x \in Taches : tache[x] \in {"en file"}}
<1>1. /\ file \in Seq(Taches) /\ DOMAIN file = 1..Len(file) /\ Len(file) \in Nat
      /\ file \in [1..Len(file) -> Taches]
  BY DEF InvFile, TypesFile
<1>2. file \in [1..Len(file) -> F]
  BY <1>1 DEF InvFile, PlacesInv
<1>3. \A i, j \in 1..Len(file) : file[i] = file[j] => i = j
  BY <1>1 DEF InvFile, PlacesInv
<1>4. \A x \in F : \E i \in 1..Len(file) : file[i] = x
  BY <1>1 DEF InvFile, PlacesInv
<1> HIDE DEF F
<1>5. file \in Bijection(1..Len(file), F)
  BY <1>2, <1>3, <1>4 DEF Bijection, Injection, Surjection, IsInjective
<1>6. ExistsBijection(1..Len(file), F)
  BY <1>5 DEF ExistsBijection
<1>7. IsFiniteSet(1..Len(file)) /\ Cardinality(1..Len(file)) = Len(file)
  BY <1>1, FS_Interval
<1>8. Cardinality(F) = Cardinality(1..Len(file))
  BY <1>6, <1>7, FS_Bijection
<1> QED
  BY <1>7, <1>8, CardinaliteFile DEF F, Fi!Occurrences

-----------------------------------------------------------------------------
\* What entering does to the tasks.
LEMMA EntrerTaches ==
  ASSUME TypesFile, NEW t \in Taches, NEW reste, Fi!Entrer(t, reste)
  PROVE  /\ tache' \in [Taches -> Soumises \union {"absente"}]
         /\ ouvrier' \in [Ouvriers -> {"repos", "attend", "eveille", "traite"}]
         /\ tache'[t] = "en file"
         /\ \A x \in Taches \ {t} :
              IF x \in Fi!ToSet(file) \ Fi!ToSet(reste) THEN tache'[x] = "ejectee"
              ELSE \/ tache'[x] = tache[x]
                   \/ tache[x] = "bloquee" /\ tache'[x] = "eveillee"
  BY DEF Fi!Entrer, TypesFile, Fi!Reveillees, Fi!OuvriersReveilles, Soumises

\* A task enters; one leaves the queue for it, or none.
LEMMA EntrerInv ==
  ASSUME Fi!FileAssumption, InvFile, NEW t \in Taches, NEW reste, NEW lachees, Fi!Entrer(t,
         reste),
         NEW n \in Nat, NEW perdue \in Nat,
         \/ tache[t] = "absente" /\ n = 1
         \/ tache[t] = "eveillee" /\ n = 0,
         Fi!Perte(n, perdue),
         \/ perdue = 0 /\ lachees = {} /\ reste = file /\ ~Fi!Pleine
         \/ perdue = 1 /\ \E i \in DOMAIN file : lachees = {file[i]}
             /\ reste = Fi!RemoveAt(file, i),
         UNCHANGED <<strategie, echeance, en_main, actif>>
  PROVE  InvFile'
<1>0. /\ file \in Seq(Taches) /\ Len(file) <= capacite /\ Len(file) \in Nat
      /\ capacite \in Nat
      /\ tache \in [Taches -> Soumises \union {"absente"}]
      /\ comptes \in [entrees : Nat, traitees : Nat, perdues : Nat]
      /\ \A k, l \in DOMAIN file : file[k] = file[l] => k = l
      /\ \A x \in Taches : tache[x] = "en file" <=> \E i \in DOMAIN file : file[i] = x
  <2>1. capacite \in Nat
    BY DEF Fi!FileAssumption
  <2>2. TypesFile /\ PlacesInv
    BY DEF InvFile
  <2>3. file \in Seq(Taches) /\ Len(file) <= capacite /\ Len(file) \in Nat
    BY <2>2 DEF TypesFile
  <2> QED
    BY <2>1, <2>2, <2>3 DEF TypesFile, PlacesInv
<1>00. /\ file \in Seq(Taches) /\ Len(file) \in Nat /\ DOMAIN file = 1..Len(file)
       /\ Len(file) <= capacite /\ capacite \in Nat
       /\ \A i \in DOMAIN file : file[i] \in Taches
  <2>1. /\ file \in Seq(Taches) /\ Len(file) <= capacite /\ capacite \in Nat
    BY <1>0
  <2> QED
    BY <2>1
<1>000. comptes \in [entrees : Nat, traitees : Nat, perdues : Nat]
  BY <1>0
<1>1. /\ reste \in Seq(Taches) /\ Len(reste) + 1 <= capacite
      /\ \A k, l \in DOMAIN reste : reste[k] = reste[l] => k = l
      /\ \A x : (\E k \in DOMAIN reste : reste[k] = x)
                <=> (x \notin lachees /\ \E k \in DOMAIN file : file[k] = x)
  <2>1. CASE lachees = {} /\ reste = file /\ ~Fi!Pleine
    <3>1. reste \in Seq(Taches) /\ Len(reste) + 1 <= capacite
      BY <1>00, <2>1 DEF Fi!Pleine
    <3> QED
      BY <1>0, <2>1, <3>1
  <2>2. ASSUME NEW i \in DOMAIN file, lachees = {file[i]}, reste = Fi!RemoveAt(file, i)
        PROVE  <1>1!:
    <3>1. /\ Fi!RemoveAt(file, i) \in Seq(Taches)
          /\ Len(Fi!RemoveAt(file, i)) = Len(file) - 1
      BY <1>00, RetraitFile
    <3>2. /\ \A k, l \in DOMAIN Fi!RemoveAt(file, i) :
               Fi!RemoveAt(file, i)[k] = Fi!RemoveAt(file, i)[l] => k = l
          /\ \A x : (\E k \in DOMAIN Fi!RemoveAt(file, i) : Fi!RemoveAt(file, i)[k] = x)
                    <=> (x # file[i] /\ \E k \in DOMAIN file : file[k] = x)
      BY <1>0, RetraitPlaces
    <3>3. Len(Fi!RemoveAt(file, i)) + 1 <= capacite
      BY <1>00, <3>1
    <3> QED
      BY <2>2, <3>1, <3>2, <3>3
  <2> QED
    BY <2>1, <2>2
<1>2. /\ lachees \subseteq Taches
      /\ \A x \in lachees : tache[x] = "en file"
      /\ Fi!ToSet(file) \ Fi!ToSet(reste) = lachees
  <2>1. \A x \in lachees : \E i \in DOMAIN file : file[i] = x
    OBVIOUS
  <2>2. lachees \subseteq Taches
    <3>1. \A i \in DOMAIN file : file[i] \in Taches
      BY <1>00
    <3> QED
      BY <2>1, <3>1
  <2>3. \A x : x \in Fi!ToSet(file) \ Fi!ToSet(reste)
               <=> (\E k \in DOMAIN file : file[k] = x)
                   /\ ~(\E k \in DOMAIN reste : reste[k] = x)
    BY DEF Fi!ToSet
  <2>4. \A x : x \in Fi!ToSet(file) \ Fi!ToSet(reste) <=> x \in lachees
    BY <1>1, <2>1, <2>3
  <2> QED
    BY <1>0, <2>1, <2>2, <2>4
<1>3. /\ tache' \in [Taches -> Soumises \union {"absente"}]
      /\ ouvrier' \in [Ouvriers -> {"repos", "attend", "eveille", "traite"}]
      /\ tache'[t] = "en file"
      /\ \A x \in Taches \ {t} :
           IF x \in lachees THEN tache'[x] = "ejectee"
           ELSE \/ tache'[x] = tache[x]
                \/ tache[x] = "bloquee" /\ tache'[x] = "eveillee"
  BY <1>2, EntrerTaches DEF InvFile
<1>4. file' = Append(reste, t)
  BY DEF Fi!Entrer
<1>5. TypesFile'
  <2>1. file' \in Seq(Taches) /\ Len(file') <= capacite
    BY <1>1, <1>4
  <2>2. comptes' \in [entrees : Nat, traitees : Nat, perdues : Nat]
    <3>1. comptes' = [comptes EXCEPT !.entrees = @ + n, !.perdues = @ + perdue]
      BY DEF Fi!Perte
    <3>2. comptes.entrees + n \in Nat /\ comptes.perdues + perdue \in Nat
      BY <1>000
    <3> QED
      BY <1>000, <3>1, <3>2
  <2> QED
    BY <1>3, <2>1, <2>2 DEF InvFile, TypesFile
<1>6. PlacesInv'
  <2>1. /\ DOMAIN file' = 1..Len(reste) + 1 /\ DOMAIN reste = 1..Len(reste)
            /\ Len(reste) \in Nat
        /\ \A k \in DOMAIN reste : k \in DOMAIN file' /\ file'[k] = reste[k]
        /\ Len(reste) + 1 \in DOMAIN file' /\ file'[Len(reste) + 1] = t
        /\ \A k \in DOMAIN file' : k \in DOMAIN reste \/ k = Len(reste) + 1
    BY <1>1, <1>4
  <2>2. \A k \in DOMAIN reste : reste[k] # t
    BY <1>0, <1>1
  <2>3. \A k, l \in DOMAIN file' : file'[k] = file'[l] => k = l
    BY <1>1, <2>1, <2>2
  <2>4. \A x : (\E k \in DOMAIN file' : file'[k] = x) <=> x = t \/ \E k \in DOMAIN reste : reste[k] = x
    BY <2>1
  <2>5. ASSUME NEW x \in Taches
        PROVE  tache'[x] = "en file" <=> \E k \in DOMAIN file' : file'[k] = x
    <3>1. CASE x = t
      BY <1>3, <2>4, <3>1
    <3>2. CASE x # t /\ x \in lachees
      BY <1>1, <1>3, <2>4, <3>2
    <3>3. CASE x # t /\ x \notin lachees
      <4>1. tache'[x] = "en file" <=> tache[x] = "en file"
        BY <1>3, <3>3
      <4> QED
        BY <1>0, <1>1, <2>4, <3>3, <4>1
    <3> QED
      BY <3>1, <3>2, <3>3
  <2>6. ASSUME NEW w \in Ouvriers, NEW x \in en_main'[w]
        PROVE  tache'[x] \in Prises
    BY <1>2, <1>3, <2>6 DEF InvFile, PlacesInv, TypesFile, Prises
  <2> QED
    BY <2>3, <2>5, <2>6 DEF PlacesInv
<1>7. ComptesInv'
  <2> DEFINE N(f, E) == Cardinality({x \in Taches : f[x] \in E})
  <2>1. N(tache', Soumises) = N(tache, Soumises) + n
    <3>1. \A x \in Taches \ {t} : tache[x] \in Soumises <=> tache'[x] \in Soumises
      BY <1>2, <1>3 DEF Soumises
    <3>2. CASE tache[t] = "absente" /\ n = 1
      <4>1. tache[t] \notin Soumises /\ tache'[t] \in Soumises
        BY <1>3, <3>2 DEF Soumises
      <4>2. N(tache', Soumises) = N(tache, Soumises) + 1
        BY <3>1, <4>1, UnDePlus
      <4> QED
        BY <3>2, <4>2
    <3>3. CASE tache[t] = "eveillee" /\ n = 0
      <4>1. \A x \in Taches : tache[x] \in Soumises <=> tache'[x] \in Soumises
        BY <1>3, <3>1, <3>3 DEF Soumises
      <4>2. N(tache', Soumises) = N(tache, Soumises)
        BY <4>1, MemesComptes
      <4>3. N(tache, Soumises) \in Nat
        BY NombreDe, CardinaliteFile DEF Fi!Occurrences
      <4> QED
        BY <3>3, <4>2, <4>3
    <3> QED
      BY <3>2, <3>3
  <2>2. N(tache', Prises) = N(tache, Prises)
    <3>1. \A x \in Taches : tache[x] \in Prises <=> tache'[x] \in Prises
      BY <1>2, <1>3 DEF Prises
    <3> QED
      BY <3>1, MemesComptes
  <2>3. N(tache', Perdues) = N(tache, Perdues) + perdue
    <3>1. CASE lachees = {} /\ perdue = 0
      <4>1. \A x \in Taches : tache[x] \in Perdues <=> tache'[x] \in Perdues
        BY <1>3, <3>1 DEF Perdues
      <4>2. N(tache', Perdues) = N(tache, Perdues)
        BY <4>1, MemesComptes
      <4>3. N(tache, Perdues) \in Nat
        BY NombreDe, CardinaliteFile DEF Fi!Occurrences
      <4> QED
        BY <3>1, <4>2, <4>3
    <3>2. ASSUME NEW x, lachees = {x}, perdue = 1
          PROVE  <2>3!:
      <4>1. /\ x \in Taches /\ tache[x] \notin Perdues /\ tache'[x] \in Perdues
            /\ \A y \in Taches \ {x} : tache[y] \in Perdues <=> tache'[y] \in Perdues
        BY <1>2, <1>3, <3>2 DEF Perdues
      <4>2. ASSUME NEW y \in Taches, tache[y] \notin Perdues, tache'[y] \in Perdues,
                   \A z \in Taches \ {y} : tache[z] \in Perdues <=> tache'[z] \in Perdues
            PROVE  N(tache', Perdues) = N(tache, Perdues) + 1
        BY <4>2, UnDePlus
      <4>3. N(tache', Perdues) = N(tache, Perdues) + 1
        <5> HIDE DEF N
        <5> QED
          BY <4>1, <4>2
      <4> QED
        BY <3>2, <4>3
    <3> QED
      BY <3>1, <3>2
  <2>4. /\ comptes'.entrees = comptes.entrees + n
        /\ comptes'.traitees = comptes.traitees
        /\ comptes'.perdues = comptes.perdues + perdue
    BY <1>0 DEF Fi!Perte
  <2> QED
    BY <2>1, <2>2, <2>3, <2>4, CardinaliteFile DEF InvFile, ComptesInv, Fi!Occurrences
<1> QED
  BY <1>5, <1>6, <1>7 DEF InvFile

\* The task changes its state, the queue remains.
Rester(t, etat) == tache' = [tache EXCEPT ![t] = etat] /\ UNCHANGED <<file, ouvrier>>

\* The task does not enter: it is refused, or its producer waits.
LEMMA ResterInv ==
  ASSUME Fi!FileAssumption, InvFile, NEW t \in Taches,
         NEW etat, NEW n \in Nat, NEW perdue \in Nat,
         \/ etat = "refusee" /\ perdue = 1
         \/ etat = "bloquee" /\ perdue = 0,
         \/ tache[t] = "absente" /\ n = 1
         \/ tache[t] = "eveillee" /\ n = 0,
         Rester(t, etat), Fi!Perte(n, perdue),
         UNCHANGED <<strategie, echeance, en_main, actif>>
  PROVE  InvFile'
<1>00. TypesFile
  BY DEF InvFile
<1>0. /\ tache \in [Taches -> Soumises \union {"absente"}]
      /\ comptes \in [entrees : Nat, traitees : Nat, perdues : Nat]
      /\ etat \in Soumises /\ perdue \in Nat /\ n \in Nat
  <2>1. etat \in Soumises /\ perdue \in Nat /\ n \in Nat
    BY DEF Soumises
  <2> QED
    BY <1>00, <2>1 DEF TypesFile
<1>01. /\ UNCHANGED <<file, ouvrier>>
       /\ tache' \in [Taches -> Soumises \union {"absente"}]
       /\ tache'[t] = etat
       /\ \A x \in Taches \ {t} : tache'[x] = tache[x]
  BY <1>0 DEF Rester
<1>1. TypesFile'
  <2>1. comptes' = [comptes EXCEPT !.entrees = @ + n, !.perdues = @ + perdue]
    BY DEF Fi!Perte
  <2>2. comptes.entrees + n \in Nat /\ comptes.perdues + perdue \in Nat
    BY <1>0
  <2>3. comptes' \in [entrees : Nat, traitees : Nat, perdues : Nat]
    BY <1>0, <2>1, <2>2
  <2> QED
    BY <1>00, <1>01, <2>3 DEF TypesFile
<1>2. PlacesInv'
  <2>1. /\ \A x \in Taches : tache'[x] = "en file" <=> tache[x] = "en file"
        /\ \A x \in Taches : tache[x] \in Prises => tache'[x] \in Prises
    BY <1>0, <1>01 DEF Prises
  <2>2. PlacesInv /\ UNCHANGED <<file, en_main>>
    BY <1>01 DEF InvFile
  <2>3. \A w \in Ouvriers : en_main[w] \subseteq Taches
    BY <1>00 DEF TypesFile
  <2> QED
    BY <2>1, <2>2, <2>3 DEF PlacesInv
<1>3. ComptesInv'
  <2> DEFINE N(f, E) == Cardinality({x \in Taches : f[x] \in E})
  <2>0. N(tache, Soumises) \in Nat /\ N(tache, Perdues) \in Nat
    BY NombreDe, CardinaliteFile DEF Fi!Occurrences
  <2>1. N(tache', Soumises) = N(tache, Soumises) + n
    <3>1. CASE tache[t] = "absente" /\ n = 1
      <4>1. /\ tache[t] \notin Soumises /\ tache'[t] \in Soumises
            /\ \A x \in Taches \ {t} : tache[x] \in Soumises <=> tache'[x] \in Soumises
        BY <1>0, <1>01, <3>1 DEF Soumises
      <4>2. N(tache', Soumises) = N(tache, Soumises) + 1
        BY <4>1, UnDePlus
      <4> QED
        BY <3>1, <4>2
    <3>2. CASE tache[t] = "eveillee" /\ n = 0
      <4>1. \A x \in Taches : tache[x] \in Soumises <=> tache'[x] \in Soumises
        BY <1>0, <1>01, <3>2 DEF Soumises
      <4>2. N(tache', Soumises) = N(tache, Soumises)
        BY <4>1, MemesComptes
      <4> QED
        BY <2>0, <3>2, <4>2
    <3> QED
      BY <3>1, <3>2
  <2>2. N(tache', Prises) = N(tache, Prises)
    <3>1. \A x \in Taches : tache[x] \in Prises <=> tache'[x] \in Prises
      BY <1>0, <1>01 DEF Prises
    <3> QED
      BY <3>1, MemesComptes
  <2>3. N(tache', Perdues) = N(tache, Perdues) + perdue
    <3>1. CASE etat = "refusee" /\ perdue = 1
      <4>1. /\ tache[t] \notin Perdues /\ tache'[t] \in Perdues
            /\ \A x \in Taches \ {t} : tache[x] \in Perdues <=> tache'[x] \in Perdues
        BY <1>0, <1>01, <3>1 DEF Perdues
      <4>2. N(tache', Perdues) = N(tache, Perdues) + 1
        BY <4>1, UnDePlus
      <4> QED
        BY <3>1, <4>2
    <3>2. CASE etat = "bloquee" /\ perdue = 0
      <4>1. \A x \in Taches : tache[x] \in Perdues <=> tache'[x] \in Perdues
        BY <1>0, <1>01, <3>2 DEF Perdues
      <4>2. N(tache', Perdues) = N(tache, Perdues)
        BY <4>1, MemesComptes
      <4> QED
        BY <2>0, <3>2, <4>2
    <3> QED
      BY <3>1, <3>2
  <2>4. /\ comptes'.entrees = comptes.entrees + n
        /\ comptes'.traitees = comptes.traitees
        /\ comptes'.perdues = comptes.perdues + perdue
    BY <1>0 DEF Fi!Perte
  <2> QED
    BY <2>1, <2>2, <2>3, <2>4, CardinaliteFile DEF InvFile, ComptesInv, Fi!Occurrences
<1> QED
  BY <1>1, <1>2, <1>3 DEF InvFile

\* Every strategy does one of the two.
LEMMA SoumettreInv ==
  ASSUME Fi!FileAssumption, InvFile, NEW t \in Taches, Fi!Enqueue(t) \/ Fi!Reprendre(t)
  PROVE  InvFile'
<1>1. UNCHANGED <<strategie, echeance, en_main, actif>>
  BY DEF Fi!Enqueue, Fi!Reprendre
<1> DEFINE Compte(n) == \/ tache[t] = "absente" /\ n = 1
                        \/ tache[t] = "eveillee" /\ n = 0
<1>2. ASSUME NEW n \in Nat, Compte(n), Fi!Refuser(t), Fi!Perte(n, 1)
      PROVE  InvFile'
  <2>1. Rester(t, "refusee")
    BY <1>2 DEF Fi!Refuser, Rester
  <2> QED
    BY <1>1, <1>2, <2>1, ResterInv
<1>3. ASSUME NEW n \in Nat, Compte(n), ~Fi!Pleine, Fi!Entrer(t, file), Fi!Perte(n, 0)
      PROVE  InvFile'
  BY <1>1, <1>3, EntrerInv
<1>4. ASSUME NEW n \in Nat, Compte(n), NEW i \in DOMAIN file,
             Fi!Entrer(t, Fi!RemoveAt(file, i)), Fi!Perte(n, 1)
      PROVE  InvFile'
  <2>1. /\ {file[i]} # {}
        /\ \E j \in DOMAIN file : {file[i]} = {file[j]} /\ Fi!RemoveAt(file,
            i) = Fi!RemoveAt(file, j)
    OBVIOUS
  <2> QED
    BY <1>1, <1>4, <2>1, EntrerInv
<1>5. ASSUME NEW n \in Nat, Compte(n), Fi!Bloquer(t, n)
      PROVE  InvFile'
  <2>1. CASE tache' = [tache EXCEPT ![t] = "bloquee"] /\ Fi!Perte(n, 0) /\ UNCHANGED <<file,
           ouvrier>>
    <3>1. Rester(t, "bloquee")
      BY <2>1 DEF Rester
    <3> QED
      BY <1>1, <1>5, <2>1, <3>1, ResterInv
  <2> QED
    BY <1>2, <1>3, <1>5, <2>1 DEF Fi!Bloquer
<1>6. CASE Fi!Reprendre(t)
  BY <1>5, <1>6 DEF Fi!Reprendre
<1>7. CASE Fi!Enqueue(t)
  <2>1. Compte(1)
    BY <1>7 DEF Fi!Enqueue
  <2>2. CASE Fi!Bloquer(t, 1)
    BY <1>5, <2>1, <2>2
  <2>3. CASE Fi!RejeterNouvelle(t)
    BY <1>2, <1>3, <2>1, <2>3 DEF Fi!RejeterNouvelle
  <2>4. CASE Fi!RejeterAncienne(t)
    <3>1. Fi!Pleine => 1 \in DOMAIN file
      BY DEF Fi!Pleine, InvFile, TypesFile, Fi!FileAssumption
    <3> QED
      BY <1>3, <1>4, <2>1, <2>4, <3>1 DEF Fi!RejeterAncienne
  <2>5. CASE Fi!Prioriser(t)
    BY <1>2, <1>3, <1>4, <2>1, <2>5 DEF Fi!Prioriser, Fi!Pires
  <2> QED
    BY <1>7, <2>2, <2>3, <2>4, <2>5 DEF Fi!Enqueue
<1> QED
  BY <1>6, <1>7

\* The other steps move tasks between states that count the same.
LEMMA AutrePas ==
  ASSUME Fi!FileAssumption, InvFile, TypesFile', UNCHANGED <<file, comptes>>,
         \A x \in Taches : /\ tache'[x] = "en file" <=> tache[x] = "en file"
                           /\ tache'[x] \in Soumises <=> tache[x] \in Soumises
                           /\ tache'[x] \in Prises <=> tache[x] \in Prises
                           /\ tache'[x] \in Perdues <=> tache[x] \in Perdues,
         \A w \in Ouvriers : en_main'[w] \subseteq en_main[w]
  PROVE  InvFile'
<1>1. PlacesInv'
  BY DEF InvFile, TypesFile, PlacesInv
<1>2. ComptesInv'
  <2>1. /\ Cardinality({x \in Taches : tache'[x] \in Soumises}) = Fi!Occurrences(Soumises)
        /\ Cardinality({x \in Taches : tache'[x] \in Prises}) = Fi!Occurrences(Prises)
        /\ Cardinality({x \in Taches : tache'[x] \in Perdues}) = Fi!Occurrences(Perdues)
    BY MemesComptes, CardinaliteFile DEF Fi!Occurrences
  <2> QED
    BY <2>1, CardinaliteFile DEF InvFile, ComptesInv, Fi!Occurrences
<1> QED
  BY <1>1, <1>2 DEF InvFile

\* A worker takes a task.
LEMMA PrendreInvFile ==
  ASSUME Fi!FileAssumption, InvFile, NEW w \in Ouvriers, Fi!Dequeue(w)
  PROVE  InvFile'
<1>1. CASE file = <<>>
  <2>1. /\ UNCHANGED <<file, tache, en_main, comptes>>
        /\ TypesFile'
    BY <1>1 DEF Fi!Dequeue, InvFile, TypesFile
  <2> QED
    BY <2>1, AutrePas
<1>2. CASE file # <<>>
  <2>0. /\ file \in Seq(Taches) /\ Len(file) <= capacite /\ Len(file) \in Nat
        /\ DOMAIN file = 1..Len(file) /\ capacite \in Nat
    <3>1. file \in Seq(Taches) /\ Len(file) <= capacite /\ capacite \in Nat
      BY DEF InvFile, TypesFile, Fi!FileAssumption
    <3> QED
      BY <3>1
  <2>1. PICK i \in Fi!Prochaines :
          /\ file' = Fi!RemoveAt(file, i)
          /\ en_main' = [en_main EXCEPT ![w] = {file[i]}]
          /\ tache' = Fi!Reveillees([tache EXCEPT ![file[i]] = "prise"])
          /\ ouvrier' = Fi!OuvriersReveilles([ouvrier EXCEPT ![w] = "traite"])
          /\ comptes' = [comptes EXCEPT !.traitees = @ + 1]
    BY <1>2 DEF Fi!Dequeue
  <2>2. UNCHANGED <<strategie, echeance, actif>>
    BY DEF Fi!Dequeue
  <2>3. i \in DOMAIN file
    BY <1>2, <2>0, <2>1 DEF Fi!Prochaines
  <2>4. /\ file[i] \in Taches
        /\ tache[file[i]] = "en file"
    <3>1. file[i] \in Taches
      BY <2>0, <2>3
    <3> QED
      BY <2>3, <3>1 DEF InvFile, PlacesInv
  <2>5. /\ tache' \in [Taches -> Soumises \union {"absente"}]
        /\ tache'[file[i]] = "prise"
        /\ \A x \in Taches \ {file[i]} : \/ tache'[x] = tache[x]
                                         \/ tache[x] = "bloquee" /\ tache'[x] = "eveillee"
    BY <2>1, <2>4 DEF InvFile, TypesFile, Fi!Reveillees, Soumises
  <2>6. /\ file' \in Seq(Taches) /\ Len(file') = Len(file) - 1
        /\ \A k, l \in DOMAIN file' : file'[k] = file'[l] => k = l
        /\ \A x : (\E k \in DOMAIN file' : file'[k] = x)
                  <=> (x # file[i] /\ \E k \in DOMAIN file : file[k] = x)
    <3>1. /\ Fi!RemoveAt(file, i) \in Seq(Taches)
          /\ Len(Fi!RemoveAt(file, i)) = Len(file) - 1
      BY <2>0, <2>3, RetraitFile
    <3>2. \A k, l \in DOMAIN file : file[k] = file[l] => k = l
      BY DEF InvFile, PlacesInv
    <3>3. /\ \A k, l \in DOMAIN Fi!RemoveAt(file, i) :
               Fi!RemoveAt(file, i)[k] = Fi!RemoveAt(file, i)[l] => k = l
          /\ \A x : (\E k \in DOMAIN Fi!RemoveAt(file, i) : Fi!RemoveAt(file, i)[k] = x)
                    <=> (x # file[i] /\ \E k \in DOMAIN file : file[k] = x)
      BY <2>0, <2>3, <3>2, RetraitPlaces
    <3> QED
      BY <2>1, <3>1, <3>3
  <2>7. TypesFile'
    <3>1. Len(file') <= capacite
      BY <2>0, <2>6
    <3>2. comptes' \in [entrees : Nat, traitees : Nat, perdues : Nat]
      BY <2>1 DEF InvFile, TypesFile
    <3>3. /\ ouvrier' \in [Ouvriers -> {"repos", "attend", "eveille", "traite"}]
          /\ en_main' \in [Ouvriers -> SUBSET Taches]
      BY <2>1, <2>4 DEF InvFile, TypesFile, Fi!OuvriersReveilles
    <3> QED
      BY <2>2, <2>5, <2>6, <3>1, <3>2, <3>3 DEF InvFile, TypesFile
  <2>8. PlacesInv'
    <3>1. ASSUME NEW x \in Taches
          PROVE  tache'[x] = "en file" <=> \E k \in DOMAIN file' : file'[k] = x
      <4>1. tache[x] = "en file" <=> \E k \in DOMAIN file : file[k] = x
        BY DEF InvFile, PlacesInv
      <4>2. CASE x = file[i]
        BY <2>5, <2>6, <4>2
      <4>3. CASE x # file[i]
        BY <2>5, <2>6, <4>1, <4>3
      <4> QED
        BY <4>2, <4>3
    <3>2. ASSUME NEW v \in Ouvriers, NEW x \in en_main'[v]
          PROVE  tache'[x] \in Prises
      <4>1. x \in Taches /\ (x = file[i] \/ x \in en_main[v])
        BY <2>1, <2>4, <3>2 DEF InvFile, TypesFile
      <4>2. x \in en_main[v] => tache[x] \in Prises
        BY DEF InvFile, PlacesInv
      <4> QED
        BY <2>5, <4>1, <4>2 DEF Prises
    <3> QED
      BY <2>6, <3>1, <3>2 DEF PlacesInv
  <2>9. ComptesInv'
    <3> DEFINE N(f, E) == Cardinality({x \in Taches : f[x] \in E})
    <3>1. N(tache', Soumises) = N(tache, Soumises)
      <4>1. \A x \in Taches : tache[x] \in Soumises <=> tache'[x] \in Soumises
        BY <2>4, <2>5 DEF Soumises
      <4> QED
        BY <4>1, MemesComptes
    <3>2. N(tache', Perdues) = N(tache, Perdues)
      <4>1. \A x \in Taches : tache[x] \in Perdues <=> tache'[x] \in Perdues
        BY <2>4, <2>5 DEF Perdues
      <4> QED
        BY <4>1, MemesComptes
    <3>3. N(tache', Prises) = N(tache, Prises) + 1
      <4>1. /\ tache[file[i]] \notin Prises /\ tache'[file[i]] \in Prises
            /\ \A x \in Taches \ {file[i]} : tache[x] \in Prises <=> tache'[x] \in Prises
        BY <2>4, <2>5 DEF Prises
      <4> QED
        BY <2>4, <4>1, UnDePlus
    <3>4. /\ comptes'.entrees = comptes.entrees
          /\ comptes'.traitees = comptes.traitees + 1
          /\ comptes'.perdues = comptes.perdues
      BY <2>1 DEF InvFile, TypesFile
    <3> QED
      BY <3>1, <3>2, <3>3, <3>4, CardinaliteFile DEF InvFile, ComptesInv, Fi!Occurrences
  <2> QED
    BY <2>7, <2>8, <2>9 DEF InvFile
<1> QED
  BY <1>1, <1>2

\* Every step keeps the invariant.
LEMMA InvFilePas ==
  ASSUME Fi!FileAssumption, InvFile, [Fi!Next]_Fi!varsFile
  PROVE  InvFile'
<1>1. ASSUME NEW t \in Taches, Fi!Expirer(t)
      PROVE  InvFile'
  <2>1. /\ tache' = [tache EXCEPT ![t] = "eveillee"] /\ tache[t] \in {"bloquee", "eveillee"}
        /\ UNCHANGED <<file, comptes, en_main, ouvrier, actif, strategie>>
        /\ echeance' = echeance \union {t}
    BY <1>1 DEF Fi!Expirer
  <2>2. TypesFile'
    BY <2>1 DEF InvFile, TypesFile, Soumises
  <2>3. \A x \in Taches : /\ tache'[x] = "en file" <=> tache[x] = "en file"
                          /\ tache'[x] \in Soumises <=> tache[x] \in Soumises
                          /\ tache'[x] \in Prises <=> tache[x] \in Prises
                          /\ tache'[x] \in Perdues <=> tache[x] \in Perdues
    BY <2>1 DEF InvFile, TypesFile, Soumises, Prises, Perdues
  <2> QED
    BY <2>1, <2>2, <2>3, AutrePas
<1>2. ASSUME NEW w \in Ouvriers, Fi!Traiter(w)
      PROVE  InvFile'
  <2>1. /\ tache' = [t \in Taches |-> IF t \in en_main[w] THEN "traitee" ELSE tache[t]]
        /\ en_main' = [en_main EXCEPT ![w] = {}]
        /\ ouvrier' = [ouvrier EXCEPT ![w] = "repos"]
        /\ UNCHANGED <<strategie, file, echeance, actif, comptes>>
    BY <1>2 DEF Fi!Traiter
  <2>2. TypesFile'
    BY <2>1 DEF InvFile, TypesFile, Soumises
  <2>3. \A x \in Taches : /\ tache'[x] = "en file" <=> tache[x] = "en file"
                          /\ tache'[x] \in Soumises <=> tache[x] \in Soumises
                          /\ tache'[x] \in Prises <=> tache[x] \in Prises
                          /\ tache'[x] \in Perdues <=> tache[x] \in Perdues
    <3>1. \A x \in en_main[w] : tache[x] \in Prises
      BY DEF InvFile, PlacesInv
    <3> QED
      BY <2>1, <3>1 DEF Soumises, Prises, Perdues
  <2>4. \A v \in Ouvriers : en_main'[v] \subseteq en_main[v]
    BY <2>1 DEF InvFile, TypesFile
  <2> QED
    BY <2>1, <2>2, <2>3, <2>4, AutrePas
<1>3. CASE \/ \E w \in Ouvriers : Fi!Renoncer(w) \/ Fi!Arreter(w)
           \/ UNCHANGED Fi!varsFile
  <2>1. /\ UNCHANGED <<file, comptes, en_main, tache>>
        /\ TypesFile'
    BY <1>3 DEF Fi!Renoncer, Fi!Arreter, Fi!varsFile, InvFile, TypesFile
  <2> QED
    BY <2>1, AutrePas
<1> QED
  BY <1>1, <1>2, <1>3, SoumettreInv, PrendreInvFile DEF Fi!Next

\* It holds at first.
LEMMA InvFileInit ==
  ASSUME Fi!FileAssumption, Fi!Init
  PROVE  InvFile
<1>1. TypesFile /\ PlacesInv
  <2>1. <<>> \in Seq(Taches) /\ Len(<<>>) <= capacite /\ DOMAIN <<>> = {}
    BY DEF Fi!FileAssumption
  <2> QED
    BY <2>1 DEF Fi!Init, TypesFile, PlacesInv, Soumises
<1>2. ComptesInv
  <2>1. /\ {x \in Taches : tache[x] \in Soumises} = {}
        /\ {x \in Taches : tache[x] \in Prises} = {}
        /\ {x \in Taches : tache[x] \in Perdues} = {}
    BY DEF Fi!Init, Soumises, Prises, Perdues
  <2>2. Cardinality({}) = 0
    BY FS_EmptySet, Zenon
  <2> QED
    BY <2>1, <2>2, CardinaliteFile DEF Fi!Init, ComptesInv, Fi!Occurrences
<1> QED
  BY <1>1, <1>2 DEF InvFile

\* It gives the types and the property.
LEMMA InvDonneConservation ==
  ASSUME Fi!FileAssumption, InvFile
  PROVE  Fi!TypeOK /\ Fi!Conservation
<1>0. /\ TypesFile /\ PlacesInv
      /\ comptes.entrees = Fi!Occurrences(Soumises)
      /\ comptes.traitees = Fi!Occurrences(Prises)
      /\ comptes.perdues = Fi!Occurrences(Perdues)
      /\ comptes \in [entrees : Nat, traitees : Nat, perdues : Nat]
  BY DEF InvFile, ComptesInv, TypesFile
<1>1. Fi!TypeOK
  <2>1. DOMAIN comptes = {"entrees", "traitees", "perdues"}
    BY <1>0
  <2>2. \A c \in DOMAIN comptes : comptes[c] \in 0..Cardinality(Taches)
    <3>1. \A E : Fi!Occurrences(E) \in 0..Cardinality(Taches)
      BY NombreDe
    <3> QED
      BY <1>0, <2>1, <3>1
  <2> QED
    BY <1>0, <2>2, CardinaliteFile DEF Fi!TypeOK, TypesFile, Soumises
<1>2. comptes.entrees = comptes.traitees + comptes.perdues + Len(file)
                        + Fi!Occurrences({"bloquee", "eveillee"})
  <2> DEFINE D == {"bloquee", "eveillee"}
             E == D \union {"en file"}
             F == E \union Perdues
  <2>1. Fi!Occurrences(E) = Fi!Occurrences(D) + Fi!Occurrences({"en file"})
    <3>1. D \cap {"en file"} = {}
      OBVIOUS
    <3> QED
      BY <3>1, Somme
  <2>2. Fi!Occurrences(F) = Fi!Occurrences(E) + Fi!Occurrences(Perdues)
    <3>1. E \cap Perdues = {}
      BY DEF Perdues
    <3> HIDE DEF E
    <3> QED
      BY <3>1, Somme
  <2>3. Fi!Occurrences(F \union Prises) = Fi!Occurrences(F) + Fi!Occurrences(Prises)
    <3>1. F \cap Prises = {}
      BY DEF Perdues, Prises
    <3> HIDE DEF F
    <3> QED
      BY <3>1, Somme
  <2>4. F \union Prises = Soumises
    BY DEF Soumises, Prises, Perdues
  <2>5. Len(file) = Fi!Occurrences({"en file"})
    BY LongueurDeLaFile
  <2>6. /\ Fi!Occurrences(D) \in Nat /\ Fi!Occurrences({"en file"}) \in Nat
        /\ Fi!Occurrences(Perdues) \in Nat /\ Fi!Occurrences(Prises) \in Nat
    BY NombreDe
  <2> HIDE DEF D, E, F
  <2>7. comptes.entrees = Fi!Occurrences(D) + Len(file) + comptes.perdues + comptes.traitees
    BY <1>0, <2>1, <2>2, <2>3, <2>4, <2>5, <2>6
  <2>8. comptes.entrees = comptes.traitees + comptes.perdues + Len(file) + Fi!Occurrences(D)
    <3>1. comptes.traitees \in Nat /\ comptes.perdues \in Nat /\ Len(file) \in Nat
      BY <1>0, <2>5, <2>6
    <3>2. Fi!Occurrences(D) \in Nat
      BY <2>6
    <3> QED
      BY <2>7, <3>1, <3>2
  <2> QED
    BY <2>8 DEF D
<1> QED
  BY <1>0, <1>1, <1>2 DEF Fi!Conservation, Perdues, PlacesInv

\* Every submitted task is counted once: lost, taken, in the queue or waiting to enter,
\* in every strategy, with deadlines and workers that stop.
THEOREM ConservationCorrecte ==
  ASSUME Fi!FileAssumption
  PROVE  Fi!Spec => [](Fi!TypeOK /\ Fi!Conservation)
<1>1. Fi!Init => InvFile
  BY InvFileInit
<1>2. InvFile /\ [Fi!Next]_Fi!varsFile => InvFile'
  BY InvFilePas
<1>3. InvFile => Fi!TypeOK /\ Fi!Conservation
  BY InvDonneConservation
<1> QED
  BY <1>1, <1>2, <1>3, PTL DEF Fi!Spec

\* No producer sleeps while there is room, no worker while there is a task: no step leaves
\* somebody asleep who should have been notified.
THEOREM NulNeDortEnVainCorrect ==
  ASSUME Fi!FileAssumption
  PROVE  Fi!Spec => []Fi!NulNeDortEnVain
<1>1. Fi!Init => InvFile /\ Fi!NulNeDortEnVain
  BY InvFileInit DEF Fi!Init, Fi!NulNeDortEnVain
<1>2. ASSUME InvFile, Fi!NulNeDortEnVain, [Fi!Next]_Fi!varsFile
      PROVE  Fi!NulNeDortEnVain'
  <2> USE <1>2
  <2>0. /\ tache \in [Taches -> Soumises \union {"absente"}]
        /\ ouvrier \in [Ouvriers -> {"repos", "attend", "eveille", "traite"}]
    BY DEF InvFile, TypesFile
  \* Whoever changes the queue wakes everybody.
  <2>1. ASSUME \A t \in Taches : tache'[t] # "bloquee",
               \A w \in Ouvriers : ouvrier'[w] # "attend"
        PROVE  Fi!NulNeDortEnVain'
    BY <2>1 DEF Fi!NulNeDortEnVain
  \* Or the queue stays, and nobody begins to wait.
  <2>2. ASSUME UNCHANGED file,
               \A t \in Taches : tache'[t] = "bloquee" => tache[t] = "bloquee" \/ Fi!Pleine,
               \A w \in Ouvriers : ouvrier'[w] = "attend"
                   => ouvrier[w] = "attend" \/ file = <<>>
        PROVE  Fi!NulNeDortEnVain'
    BY <2>2 DEF Fi!NulNeDortEnVain, Fi!Pleine
  <2>3. ASSUME NEW t \in Taches, NEW reste, Fi!Entrer(t, reste)
        PROVE  Fi!NulNeDortEnVain'
    <3>1. \A x \in Taches : tache'[x] # "bloquee"
      BY <2>3 DEF Fi!Entrer, Fi!Reveillees
    <3>2. \A w \in Ouvriers : ouvrier'[w] # "attend"
      BY <2>3 DEF Fi!Entrer, Fi!OuvriersReveilles
    <3> QED
      BY <2>1, <3>1, <3>2
  <2>4. ASSUME NEW t \in Taches, Fi!Refuser(t)
        PROVE  Fi!NulNeDortEnVain'
    BY <2>0, <2>2, <2>4 DEF Fi!Refuser
  <2>5. ASSUME NEW t \in Taches, NEW n, Fi!Bloquer(t, n)
        PROVE  Fi!NulNeDortEnVain'
    <3>1. CASE Fi!Pleine /\ tache' = [tache EXCEPT ![t] = "bloquee"] /\ UNCHANGED <<file,
             ouvrier>>
      BY <2>0, <2>2, <3>1
    <3> QED
      BY <2>3, <2>4, <2>5, <3>1 DEF Fi!Bloquer
  <2>6. ASSUME NEW t \in Taches, Fi!Enqueue(t) \/ Fi!Reprendre(t)
        PROVE  Fi!NulNeDortEnVain'
    <3>1. CASE Fi!RejeterNouvelle(t)
      BY <2>3, <2>4, <3>1 DEF Fi!RejeterNouvelle
    <3>2. CASE Fi!RejeterAncienne(t)
      BY <2>3, <3>2 DEF Fi!RejeterAncienne
    <3>3. CASE Fi!Prioriser(t)
      BY <2>3, <2>4, <3>3 DEF Fi!Prioriser
    <3> QED
      BY <2>5, <2>6, <3>1, <3>2, <3>3 DEF Fi!Enqueue, Fi!Reprendre
  <2>7. ASSUME NEW w \in Ouvriers, Fi!Dequeue(w)
        PROVE  Fi!NulNeDortEnVain'
    <3>1. CASE file = <<>>
      BY <2>0, <2>2, <2>7, <3>1 DEF Fi!Dequeue
    <3>2. CASE file # <<>>
      <4>1. \A x \in Taches : tache'[x] # "bloquee"
        BY <2>7, <3>2 DEF Fi!Dequeue, Fi!Reveillees
      <4>2. \A v \in Ouvriers : ouvrier'[v] # "attend"
        <5>1. \E f : ouvrier' = Fi!OuvriersReveilles(f)
          BY <2>7, <3>2 DEF Fi!Dequeue
        <5> QED
          BY <5>1 DEF Fi!OuvriersReveilles
      <4> QED
        BY <2>1, <4>1, <4>2
    <3> QED
      BY <3>1, <3>2
  <2>8. ASSUME NEW t \in Taches, Fi!Expirer(t)
        PROVE  Fi!NulNeDortEnVain'
    BY <2>0, <2>2, <2>8 DEF Fi!Expirer
  <2>9. ASSUME NEW w \in Ouvriers, Fi!Renoncer(w) \/ Fi!Traiter(w) \/ Fi!Arreter(w)
        PROVE  Fi!NulNeDortEnVain'
    BY <2>0, <2>2, <2>9 DEF Fi!Renoncer, Fi!Traiter, Fi!Arreter
  <2>10. CASE UNCHANGED Fi!varsFile
    BY <2>2, <2>10 DEF Fi!varsFile
  <2> QED
    BY <2>6, <2>7, <2>8, <2>9, <2>10 DEF Fi!Next
<1>3. InvFile /\ [Fi!Next]_Fi!varsFile => InvFile'
  BY InvFilePas
<1> QED
  BY <1>1, <1>2, <1>3, PTL DEF Fi!Spec

\* What a step may give up.
Sacrifice == \A t \in Taches : tache'[t] \in {"refusee", "ejectee"} /\ tache'[t] # tache[t] =>
        CASE strategie = "block"       -> t \in echeance /\ tache'[t] = "refusee"
          [] strategie = "drop_newest" -> tache'[t] = "refusee"
          [] strategie = "drop_oldest" -> tache'[t] = "ejectee" /\ t = Head(file)
          [] strategie = "priority"    ->
               \A i \in DOMAIN file' : Priorite[file'[i]] <= Priorite[t]

\* Who is given up when a task enters: the one it takes the place of.
LEMMA EjecteeSeule ==
  ASSUME InvFile, NEW t \in Taches, NEW i \in DOMAIN file, Fi!Entrer(t, Fi!RemoveAt(file, i)),
         NEW x \in Taches, tache'[x] \in {"refusee", "ejectee"}, tache'[x] # tache[x]
  PROVE  /\ tache'[x] = "ejectee"
         /\ x = file[i]
         /\ \A j \in DOMAIN file' : file'[j] = t \/ \E k \in DOMAIN file : file'[j] = file[k]
<1>1. /\ file \in Seq(Taches)
      /\ \A k, l \in DOMAIN file : file[k] = file[l] => k = l
      /\ TypesFile
  BY DEF InvFile, TypesFile, PlacesInv
<1>2. /\ Fi!RemoveAt(file, i) \in Seq(Taches)
      /\ \A y : (\E k \in DOMAIN Fi!RemoveAt(file, i) : Fi!RemoveAt(file, i)[k] = y)
                <=> (y # file[i] /\ \E k \in DOMAIN file : file[k] = y)
  BY <1>1, RetraitFile, RetraitPlaces
<1>3. \A y : y \in Fi!ToSet(file) \ Fi!ToSet(Fi!RemoveAt(file, i)) => y = file[i]
  BY <1>2 DEF Fi!ToSet
<1>4. tache'[x] = "ejectee" /\ x \in Fi!ToSet(file) \ Fi!ToSet(Fi!RemoveAt(file, i))
  BY <1>1, EntrerTaches
<1>5. \A j \in DOMAIN file' : file'[j] = t \/ \E k \in DOMAIN file : file'[j] = file[k]
  <2>1. file' = Append(Fi!RemoveAt(file, i), t)
    BY DEF Fi!Entrer
  <2>2. \A j \in DOMAIN file' : file'[j] = t \/ \E k \in DOMAIN Fi!RemoveAt(file, i) :
                                                    file'[j] = Fi!RemoveAt(file, i)[k]
    BY <1>2, <2>1
  <2> QED
    BY <1>2, <2>2
<1> QED
  BY <1>3, <1>4, <1>5

\* Every step gives up what its strategy says.
LEMMA SacrificePas ==
  ASSUME Fi!FileAssumption, InvFile, [Fi!Next]_Fi!varsFile
  PROVE  Sacrifice
<1> SUFFICES ASSUME NEW x \in Taches, tache'[x] \in {"refusee", "ejectee"},
                    tache'[x] # tache[x]
             PROVE  CASE strategie = "block"       -> x \in echeance /\ tache'[x] = "refusee"
                      [] strategie = "drop_newest" -> tache'[x] = "refusee"
                      [] strategie = "drop_oldest" -> tache'[x] = "ejectee" /\ x = Head(file)
                      [] strategie = "priority"    ->
                           \A i \in DOMAIN file' : Priorite[file'[i]] <= Priorite[x]
  BY DEF Sacrifice
<1>0. TypesFile /\ file \in Seq(Taches) /\ tache \in [Taches -> Soumises \union {"absente"}]
  BY DEF InvFile, TypesFile
<1>1. ASSUME NEW t \in Taches, Fi!Entrer(t, file)
      PROVE  FALSE
  BY <1>0, <1>1, EntrerTaches
<1>2. ASSUME NEW t \in Taches, Fi!Refuser(t)
      PROVE  x = t /\ tache'[x] = "refusee" /\ file' = file
  BY <1>0, <1>2 DEF Fi!Refuser
<1>3. ASSUME NEW t \in Taches, NEW n, Fi!Bloquer(t, n)
      PROVE  strategie = "block" /\ x \in echeance /\ tache'[x] = "refusee"
  <2>1. CASE tache' = [tache EXCEPT ![t] = "bloquee"]
    BY <1>0, <2>1
  <2> QED
    BY <1>1, <1>2, <1>3, <2>1 DEF Fi!Bloquer
<1>4. ASSUME NEW t \in Taches, Fi!RejeterNouvelle(t)
      PROVE  strategie = "drop_newest" /\ tache'[x] = "refusee"
  BY <1>1, <1>2, <1>4 DEF Fi!RejeterNouvelle
<1>5. ASSUME NEW t \in Taches, Fi!RejeterAncienne(t)
      PROVE  strategie = "drop_oldest" /\ tache'[x] = "ejectee" /\ x = Head(file)
  <2>1. Fi!Pleine /\ Fi!Entrer(t, Fi!RemoveAt(file, 1)) /\ strategie = "drop_oldest"
    BY <1>1, <1>5 DEF Fi!RejeterAncienne
  <2>2. 1 \in DOMAIN file /\ Head(file) = file[1]
    BY <1>0, <2>1 DEF Fi!Pleine, Fi!FileAssumption
  <2> QED
    BY <2>1, <2>2, EjecteeSeule
<1>6. ASSUME NEW t \in Taches, Fi!Prioriser(t)
      PROVE  strategie = "priority" /\ \A i \in DOMAIN file' : Priorite[file'[i]] <= Priorite[x]
  <2>0. \A y \in Taches : Priorite[y] \in Nat
    BY DEF Fi!FileAssumption
  <2>1. strategie = "priority"
    BY <1>6 DEF Fi!Prioriser
  <2>2. PICK i \in Fi!Pires :
           \/ /\ Priorite[t] < Priorite[file[i]]
              /\ Fi!Entrer(t, Fi!RemoveAt(file, i))
           \/ ~(Priorite[t] < Priorite[file[i]]) /\ Fi!Refuser(t)
    BY <1>1, <1>6 DEF Fi!Prioriser
  <2>3. i \in DOMAIN file /\ \A j \in DOMAIN file : Priorite[file[i]] >= Priorite[file[j]]
    BY <2>2 DEF Fi!Pires
  <2>4. \A j \in DOMAIN file : file[j] \in Taches
    BY <1>0
  <2>5. CASE Priorite[t] < Priorite[file[i]] /\ Fi!Entrer(t, Fi!RemoveAt(file, i))
    <3>1. /\ x = file[i]
          /\ \A j \in DOMAIN file' : file'[j] = t \/ \E k \in DOMAIN file : file'[j] = file[k]
      BY <2>3, <2>5, EjecteeSeule
    <3> QED
      BY <2>0, <2>1, <2>3, <2>4, <2>5, <3>1
  <2>6. CASE ~(Priorite[t] < Priorite[file[i]]) /\ Fi!Refuser(t)
    <3>1. x = t /\ file' = file
      BY <1>2, <2>6
    <3> QED
      BY <2>0, <2>1, <2>3, <2>4, <2>6, <3>1
  <2> QED
    BY <2>2, <2>5, <2>6
<1>7. CASE \E t \in Taches : Fi!Enqueue(t) \/ Fi!Reprendre(t)
  BY <1>3, <1>4, <1>5, <1>6, <1>7 DEF Fi!Enqueue, Fi!Reprendre
<1>8. CASE \/ \E t \in Taches : Fi!Expirer(t)
           \/ \E w \in Ouvriers : Fi!Renoncer(w) \/ Fi!Traiter(w) \/ Fi!Arreter(w)
           \/ UNCHANGED Fi!varsFile
  BY <1>0, <1>8 DEF Fi!Expirer, Fi!Renoncer, Fi!Traiter, Fi!Arreter, Fi!varsFile
<1>9. ASSUME NEW w \in Ouvriers, Fi!Dequeue(w)
      PROVE  FALSE
  <2>1. CASE file = <<>>
    BY <1>9, <2>1 DEF Fi!Dequeue
  <2>2. CASE file # <<>>
    <3>1. \E y : tache' = Fi!Reveillees([tache EXCEPT ![y] = "prise"])
      BY <1>9, <2>2 DEF Fi!Dequeue
    <3> QED
      BY <1>0, <3>1 DEF Fi!Reveillees
  <2> QED
    BY <2>1, <2>2
<1> QED
  BY <1>7, <1>8, <1>9 DEF Fi!Next

\* BLOCK gives up what is past its deadline, DROP_NEWEST the new task, DROP_OLDEST the
\* oldest, PRIORITY none that is better than one it keeps.
THEOREM SacrificeConformeCorrect ==
  ASSUME Fi!FileAssumption
  PROVE  Fi!Spec => Fi!SacrificeConforme
<1>1. Fi!Init => InvFile
  BY InvFileInit
<1>2. InvFile /\ [Fi!Next]_Fi!varsFile => InvFile'
  BY InvFilePas
<1>3. InvFile /\ [Fi!Next]_Fi!varsFile => [Sacrifice]_Fi!varsFile
  BY SacrificePas
<1>4. Fi!Spec => [][Sacrifice]_Fi!varsFile
  BY <1>1, <1>2, <1>3, PTL DEF Fi!Spec
<1> QED
  BY <1>4 DEF Fi!SacrificeConforme, Sacrifice
=============================================================================
