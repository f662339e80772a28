------------------------------- MODULE Cache -------------------------------
(***************************************************************************)
(* CacheAside and AntiStampede over CacheDistribue (jour27-cache/cache.py) *)
(* with the source of the values and a writer that updates the source,     *)
(* then invalidates the key.                                               *)
(*                                                                         *)
(* Values are the versions of their key.  Every operation of the cache is  *)
(* under its shard's lock and is an action; between the miss, the call of  *)
(* the source and the set anything may happen.  An entry that has expired  *)
(* is read as none, and is none here.                                      *)
(*                                                                         *)
(* Permis: "course", a key is written while reads are under way;           *)
(* "expiration", a TTL ends while reads are under way; "delai", the wait   *)
(* of 5 s ends before the event; "panne", the source raises.               *)
(***************************************************************************)
EXTENDS Integers, FiniteSets

CONSTANTS Cles, Lecteurs,
          Personne,
          Permis,
          MaxVersion   \* bound: writes of a key

Rien == -1             \* None

\* What the constants are.
CacheAssumption ==
    /\ Cles # {} /\ Personne \notin Lecteurs
    /\ Permis \subseteq {"course", "expiration", "delai", "panne"}
    /\ MaxVersion \in Nat

VARIABLES
    source,      \* the version the source holds
    cache,       \* CacheDistribue: the version cached, or Rien
    invalide,    \* history: the last version whose writer has invalidated
    ecriture,    \* the keys written and not yet invalidated
    meneurs,     \* AntiStampede._locks: key -> the thread that recomputes
    lecteur,     \* where each call of get is
    protege,     \* whether it is AntiStampede's
    voulue,      \* its key
    lue,         \* what it read from the source, then what it returned
    au_depart    \* history: invalide when it began

varsCache == <<source, cache, invalide, ecriture, meneurs, lecteur, protege, voulue,
               lue, au_depart>>
appel == <<protege, voulue, au_depart>>

Init ==
    /\ source = [k \in Cles |-> 0]
    /\ cache = [k \in Cles |-> Rien]
    /\ invalide = [k \in Cles |-> 0]
    /\ ecriture = {}
    /\ meneurs = [k \in Cles |-> Personne]
    /\ lecteur = [r \in Lecteurs |-> "repos"]
    /\ protege = [r \in Lecteurs |-> FALSE]
    /\ voulue = [r \in Lecteurs |-> CHOOSE k \in Cles : TRUE]
    /\ lue = [r \in Lecteurs |-> Rien]
    /\ au_depart = [r \in Lecteurs |-> 0]

Libres == {"repos", "rendu"}
SansLecture(k) == \A r \in Lecteurs : lecteur[r] \in Libres \/ voulue[r] # k

-----------------------------------------------------------------------------
Rendre(r, v) == lecteur' = [lecteur EXCEPT ![r] = "rendu"] /\ lue' = [lue EXCEPT ![r] = v]
Aller(r, ou) == lecteur' = [lecteur EXCEPT ![r] = ou] /\ UNCHANGED lue

\* get, of either kind: the first look in the cache.
Appeler(r, k, anti) ==
    /\ lecteur[r] \in Libres
    /\ protege' = [protege EXCEPT ![r] = anti]
    /\ voulue' = [voulue EXCEPT ![r] = k]
    /\ au_depart' = [au_depart EXCEPT ![r] = invalide[k]]
    /\ lue' = [lue EXCEPT ![r] = cache[k]]
    /\ lecteur' = [lecteur EXCEPT ![r] =
         IF cache[k] # Rien THEN "rendu" ELSE IF anti THEN "miss" ELSE "calcul"]
    /\ UNCHANGED <<source, cache, invalide, ecriture, meneurs>>

\* Mutant: whoever misses recomputes.
Occupe_Jamais(k) == FALSE

\* cle in self._locks
Occupe(k) == meneurs[k] # Personne

\* AntiStampede: the double check, then wait or recompute.
Verrouiller(r) ==
    LET k == voulue[r] IN
    /\ lecteur[r] = "miss"
    /\ \/ cache[k] # Rien /\ Rendre(r, cache[k]) /\ UNCHANGED meneurs
       \/ cache[k] = Rien /\ Occupe(k) /\ Aller(r, "attend") /\ UNCHANGED meneurs
       \/ /\ cache[k] = Rien /\ ~Occupe(k)
          /\ Aller(r, "calcul")
          /\ meneurs' = [meneurs EXCEPT ![k] = r]
    /\ UNCHANGED <<source, cache, invalide, ecriture, appel>>

\* The source answers, or raises.
Calculer(r) ==
    /\ lecteur[r] = "calcul"
    /\ \/ /\ lecteur' = [lecteur EXCEPT ![r] = "calcule"]
          /\ lue' = [lue EXCEPT ![r] = source[voulue[r]]]
       \/ /\ "panne" \in Permis
          /\ lecteur' = [lecteur EXCEPT ![r] = IF protege[r] THEN "liberation" ELSE "rendu"]
          /\ UNCHANGED lue
    /\ UNCHANGED <<source, cache, invalide, ecriture, meneurs, appel>>

Garder(k, v) == cache' = [cache EXCEPT ![k] = v]

\* cache.set
Ranger(r) ==
    /\ lecteur[r] = "calcule"
    /\ Garder(voulue[r], lue[r])
    /\ Aller(r, IF protege[r] THEN "liberation" ELSE "rendu")
    /\ UNCHANGED <<source, invalide, ecriture, meneurs, appel>>

\* ev.set(): who waits for the recomputation of k.
Signaler(k) == {q \in Lecteurs : lecteur[q] = "attend" /\ voulue[q] = k}

\* The finally of AntiStampede.get.
Liberer(r) ==
    LET k == voulue[r] IN
    /\ lecteur[r] = "liberation"
    /\ meneurs' = [meneurs EXCEPT ![k] = Personne]
    /\ lecteur' = [q \in Lecteurs |-> IF q = r THEN "rendu"
                                      ELSE IF q \in Signaler(k) THEN "reveille"
                                      ELSE lecteur[q]]
    /\ UNCHANGED <<source, cache, invalide, ecriture, appel, lue>>

\* The waiter takes what the cache has.
Relire(r) ==
    /\ lecteur[r] = "reveille" \/ ("delai" \in Permis /\ lecteur[r] = "attend")
    /\ Rendre(r, cache[voulue[r]])
    /\ UNCHANGED <<source, cache, invalide, ecriture, meneurs, appel>>

-----------------------------------------------------------------------------
\* ttl_s passes.
Expirer(k) ==
    /\ cache[k] # Rien
    /\ "expiration" \in Permis \/ SansLecture(k)
    /\ cache' = [cache EXCEPT ![k] = Rien]
    /\ UNCHANGED <<source, invalide, ecriture, meneurs, lecteur, appel, lue>>

\* The writer: base.write(), then invalidate().
Ecrire(k) ==
    /\ source[k] < MaxVersion
    /\ k \notin ecriture
    /\ "course" \in Permis \/ SansLecture(k)
    /\ source' = [source EXCEPT ![k] = @ + 1]
    /\ ecriture' = ecriture \union {k}
    /\ UNCHANGED <<cache, invalide, meneurs, lecteur, appel, lue>>

Invalider(k) ==
    /\ k \in ecriture
    /\ ecriture' = ecriture \ {k}
    /\ cache' = [cache EXCEPT ![k] = Rien]
    /\ invalide' = [invalide EXCEPT ![k] = source[k]]
    /\ UNCHANGED <<source, meneurs, lecteur, appel, lue>>

Avancer(r) == Verrouiller(r) \/ Calculer(r) \/ Ranger(r) \/ Liberer(r) \/ Relire(r)

Next ==
    \/ \E r \in Lecteurs :
         \/ \E k \in Cles, anti \in BOOLEAN : Appeler(r, k, anti)
         \/ Avancer(r)
    \/ \E k \in Cles : Expirer(k) \/ Ecrire(k) \/ Invalider(k)

Spec == Init /\ [][Next]_varsCache

-----------------------------------------------------------------------------
\* Type correctness.
TypeOK ==
    /\ source \in [Cles -> 0..MaxVersion] /\ invalide \in [Cles -> 0..MaxVersion]
    /\ cache \in [Cles -> {Rien} \union 0..MaxVersion]
    /\ ecriture \subseteq Cles
    /\ meneurs \in [Cles -> Lecteurs \union {Personne}]
    /\ lecteur \in [Lecteurs -> {"repos", "miss", "calcul", "calcule", "liberation",
                                 "attend", "reveille", "rendu"}]
    /\ protege \in [Lecteurs -> BOOLEAN] /\ voulue \in [Lecteurs -> Cles]
    /\ lue \in [Lecteurs -> {Rien} \union 0..MaxVersion]
    /\ au_depart \in [Lecteurs -> 0..MaxVersion]

Recalculent(k) == {r \in Lecteurs : protege[r] /\ voulue[r] = k
                                    /\ lecteur[r] \in {"calcul", "calcule", "liberation"}}

\* "Un seul thread recalcule, les autres attendent le resultat": one AntiStampede
\* call at a time is at the source for a key, whatever expires, is invalidated
\* or fails meanwhile, and waiters have somebody to wait for.
UnSeulRecalcul == \A k \in Cles :
    /\ Cardinality(Recalculent(k)) <= 1
    /\ (\E r \in Lecteurs : lecteur[r] = "attend" /\ voulue[r] = k) => Recalculent(k) # {}

\* "Regle d'or : 1) ecrire base 2) invalider cache": a read that begins after
\* an invalidation does not return what was there before the write.
LectureFraiche == \A r \in Lecteurs :
    lecteur[r] = "rendu" /\ lue[r] # Rien => lue[r] >= au_depart[r]

\* While no entry goes, whoever waits for the result gets it.
ResultatPourTous == \A r \in Lecteurs : lecteur[r] = "rendu" => lue[r] # Rien

\* However reads and writes overlap, in the end the cache has nothing old: the
\* TTL takes away what a late set has left.
FinitFrais == <>[](\A k \in Cles : cache[k] \in {Rien, source[k]})

\* Every call of get returns.
LecteurRepond == \A r \in Lecteurs : lecteur[r] = "miss" ~> lecteur[r] = "rendu"
=============================================================================
