----------------------------- MODULE Idempotence ----------------------------
(***************************************************************************)
(* The store of idempotency keys of jour5-idempotence/idempotence.py and   *)
(* the decorator around a handler: StoreIdempotence, idempotent().         *)
(*                                                                         *)
(* A request is a thread that calls the decorated function once.  Entries  *)
(* and events are objects that outlive their place in the store, so both   *)
(* are named by the request that created them.  The wait of 30 s and the   *)
(* TTL are steps, allowed by Permis when the handler may outlast them:     *)
(*   "delai"           a wait times out before the handler is done         *)
(*   "ttl_en_cours"    an entry expires before its handler is done, or     *)
(*                     before those that wait for it have read it          *)
(* An entry that is complete and awaited by nobody expires in every case.  *)
(***************************************************************************)
EXTENDS Integers, FiniteSets

CONSTANTS Requetes, Cles, Payloads,
          Personne,     \* no entry, no event
          Permis

VARIABLES
    store,      \* _store: key -> the request that made the entry
    verrous,    \* _verrous: key -> the request that made the event
    signales,   \* the events that are set
    vieilles,   \* the entries older than the TTL
    statut,     \* EntreeIdempotence.statut
    resultat,   \* .resultat or .erreur: the execution it comes from
    pc,
    cle,        \* the arguments of the call
    payload,
    objet,      \* wrapper: the entry, or the event, the request holds
    issue,      \* how the handler ended: "ok", "metier" or "reseau"
    reponse,    \* the execution whose result the caller got
    expirations \* history: the expired entries of each key

arguments == <<cle, payload>>
entrees   == <<statut, resultat>>
vars == <<store, verrous, signales, vieilles, entrees, pc, arguments, objet,
          issue, reponse, expirations>>

-----------------------------------------------------------------------------
Init ==
    /\ store = [k \in Cles |-> Personne]
    /\ verrous = [k \in Cles |-> Personne]
    /\ signales = {}
    /\ vieilles = {}
    /\ statut = [r \in Requetes |-> "EN_COURS"]
    /\ resultat = [r \in Requetes |-> Personne]
    /\ pc = [r \in Requetes |-> "appel"]
    /\ cle \in [Requetes -> Cles]
    /\ payload \in [Requetes -> Payloads]
    /\ objet = [r \in Requetes |-> Personne]
    /\ issue = [r \in Requetes |-> "aucune"]
    /\ reponse = [r \in Requetes |-> Personne]
    /\ expirations = [k \in Cles |-> 0]

\* _nettoyer_expires: the expired keys leave both dictionaries.
Expirees == {k \in Cles : store[k] \in vieilles}
Nettoye(f) == [k \in Cles |-> IF k \in Expirees THEN Personne ELSE f[k]]

Compter ==
    expirations' = [k \in Cles |-> IF k \in Expirees THEN expirations[k] + 1
                                   ELSE expirations[k]]

Aller(r, etape) == pc' = [pc EXCEPT ![r] = etape]

\* Mutant: an error is not remembered.
Nouvelle_Erreur(r) ==
    LET e == Nettoye(store)[cle[r]]
    IN  e = Personne \/ (e \in Requetes /\ statut[e] = "ERREUR")

\* cle not in self._store, after the cleaning.
Nouvelle(r) == Nettoye(store)[cle[r]] = Personne

\* obtenir_ou_reserver, the key is new.
Reserver(r) ==
    /\ pc[r] = "appel"
    /\ Nouvelle(r)
    /\ Compter
    /\ store' = [Nettoye(store) EXCEPT ![cle[r]] = r]
    /\ verrous' = [Nettoye(verrous) EXCEPT ![cle[r]] = r]
    /\ Aller(r, "execute")
    /\ UNCHANGED <<signales, vieilles, entrees, arguments, objet, issue, reponse>>

\* The entry was made for the same payload.
MemePayload(r, e) == payload[r] = payload[e]

\* Mutant: a request in progress is replayed as if it were complete.
EnCours_Jamais(e) == FALSE

EnCours(e) == statut[e] = "EN_COURS"

\* obtenir_ou_reserver, the key is there: 422, replay, or wait for the event.
\* Without an event it would return None, which the wrapper cannot unpack; an
\* entry in progress always has one.
Retrouver(r) ==
    /\ pc[r] = "appel"
    /\ ~Nouvelle(r)
    /\ Compter
    /\ store' = Nettoye(store)
    /\ verrous' = Nettoye(verrous)
    /\ LET e == store[cle[r]]
           v == verrous[cle[r]]
       IN  IF ~MemePayload(r, e)
           THEN Aller(r, "conflit") /\ UNCHANGED objet
           ELSE IF ~EnCours(e)
           THEN Aller(r, "rejeu") /\ objet' = [objet EXCEPT ![r] = e]
           ELSE /\ Aller(r, IF v = Personne THEN "rompu" ELSE "attente")
                /\ objet' = [objet EXCEPT ![r] = v]
    /\ UNCHANGED <<signales, vieilles, entrees, arguments, issue, reponse>>

\* The event is set, or the 30 s are over.
Reveiller(r) ==
    /\ pc[r] = "attente"
    /\ objet[r] \in signales \/ "delai" \in Permis
    /\ LET e == store[cle[r]]
       IN  IF e # Personne /\ ~EnCours(e)
           THEN Aller(r, "rejeu") /\ objet' = [objet EXCEPT ![r] = e]
           ELSE Aller(r, "execute") /\ objet' = [objet EXCEPT ![r] = Personne]
    /\ UNCHANGED <<store, verrous, signales, vieilles, entrees, arguments, issue,
                   reponse, expirations>>

\* The wrapper answers from the entry, by then without the lock.
Rejouer(r) ==
    /\ pc[r] = "rejeu"
    /\ reponse' = [reponse EXCEPT ![r] = resultat[objet[r]]]
    /\ Aller(r, IF statut[objet[r]] = "ERREUR" THEN "erreur" ELSE "fini")
    /\ UNCHANGED <<store, verrous, signales, vieilles, entrees, arguments, objet,
                   issue, expirations>>

\* The decorated function returns or raises.
Executer(r) ==
    /\ pc[r] = "execute"
    /\ \E i \in {"ok", "metier", "reseau"} : issue' = [issue EXCEPT ![r] = i]
    /\ Aller(r, "marque")
    /\ UNCHANGED <<store, verrous, signales, vieilles, entrees, arguments, objet,
                   reponse, expirations>>

\* Mutant: the event is removed and not set.
Reveil_Oublie(k) == signales

\* The event of the key, set.
Reveil(k) == IF verrous[k] = Personne THEN signales
             ELSE signales \union {verrous[k]}

\* marquer_complete, marquer_erreur: whatever entry and event the key has now.
Marquer(r) ==
    /\ pc[r] = "marque"
    /\ LET e == store[cle[r]]
       IN  IF e = Personne THEN UNCHANGED entrees
           ELSE /\ statut' = [statut EXCEPT ![e] = IF issue[r] = "ok" THEN "COMPLETE"
                                                   ELSE "ERREUR"]
                /\ resultat' = [resultat EXCEPT ![e] = r]
    /\ signales' = Reveil(cle[r])
    /\ verrous' = [verrous EXCEPT ![cle[r]] = Personne]
    /\ reponse' = [reponse EXCEPT ![r] = r]
    /\ Aller(r, IF issue[r] = "ok" THEN "fini" ELSE "erreur")
    /\ UNCHANGED <<store, vieilles, arguments, objet, issue, expirations>>

\* age() > ttl.
Vieillir(k) ==
    /\ store[k] \in Requetes \ vieilles
    /\ \/ "ttl_en_cours" \in Permis
       \/ /\ ~EnCours(store[k])
          /\ \A r \in Requetes : cle[r] = k => pc[r] # "attente"
    /\ vieilles' = vieilles \union {store[k]}
    /\ UNCHANGED <<store, verrous, signales, entrees, pc, arguments, objet, issue,
                   reponse, expirations>>

Terminees == {"conflit", "fini", "erreur", "rompu"}

Fin == (\A r \in Requetes : pc[r] \in Terminees) /\ UNCHANGED vars

Etape(r) == \/ Reserver(r) \/ Retrouver(r) \/ Reveiller(r) \/ Rejouer(r)
            \/ Executer(r) \/ Marquer(r)

Next == \/ \E r \in Requetes : Etape(r)
        \/ \E k \in Cles : Vieillir(k)
        \/ Fin

Spec == Init /\ [][Next]_vars

\* Every thread goes on, and the handler returns.
FairSpec == Spec /\ \A r \in Requetes : WF_vars(Etape(r))

-----------------------------------------------------------------------------
\* Type correctness.
TypeOK ==
    /\ store \in [Cles -> Requetes \union {Personne}]
    /\ verrous \in [Cles -> Requetes \union {Personne}]
    /\ signales \subseteq Requetes
    /\ vieilles \subseteq Requetes
    /\ statut \in [Requetes -> {"EN_COURS", "COMPLETE", "ERREUR"}]
    /\ resultat \in [Requetes -> Requetes \union {Personne}]
    /\ pc \in [Requetes -> {"appel", "attente", "rejeu", "execute", "marque"} \union Terminees]
    /\ objet \in [Requetes -> Requetes \union {Personne}]
    /\ issue \in [Requetes -> {"aucune", "ok", "metier", "reseau"}]
    /\ reponse \in [Requetes -> Requetes \union {Personne}]
    /\ expirations \in [Cles -> Nat]

\* The request has called the handler.
Execution(r) == pc[r] = "execute" \/ issue[r] # "aucune"

\* "0 doublon malgre rejeu": the handler runs once for a key, and once more for
\* every entry of that key that has expired.
SansDoublon ==
    \A k \in Cles :
        Cardinality({r \in Requetes : cle[r] = k /\ Execution(r)}) <= expirations[k] + 1

\* "cle + payload# -> ERREUR 422 (conflit)": the answer a caller gets, replayed
\* or not, comes from an execution for its key and its payload that has ended.
ReponseFidele ==
    \A r \in Requetes : pc[r] \in {"fini", "erreur"} =>
        /\ reponse[r] # Personne
        /\ issue[reponse[r]] # "aucune"
        /\ cle[reponse[r]] = cle[r] /\ payload[reponse[r]] = payload[r]

\* "Erreur reseau (ConnectionError, Timeout) -> NE PAS memoriser": nobody gets
\* another request's network error.
ErreurReseauNonMemorisee ==
    \A r \in Requetes :
        pc[r] = "erreur" /\ reponse[r] # r => issue[reponse[r]] # "reseau"

\* "la 2eme attend le resultat de la 1ere": no request waits for ever, although
\* the wait's timeout never comes to its help.
ChacunRepond == \A r \in Requetes : <>(pc[r] \in Terminees)
=============================================================================
