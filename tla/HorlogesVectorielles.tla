------------------------ MODULE HorlogesVectorielles ------------------------
(***************************************************************************)
(* Versions of one key under vector clocks (jour14-vector-clocks): every   *)
(* node accepts writes, keeps concurrent versions beside each other        *)
(* (siblings) and replicates every write in a thread of its own; a client  *)
(* reads, and writes with the clock of what it read, where it wants, among *)
(* writers that have read nothing.  A version is its rank in versions.     *)
(***************************************************************************)
EXTENDS Integers, Sequences, FiniteSets

CONSTANTS Noeuds,        \* naturals, in the order of _pairs
          MaxVersions,   \* bound: writes
          Permis

\* What the constants are.
HorlogesAssumption ==
    /\ Noeuds \subseteq Nat /\ IsFiniteSet(Noeuds)
    /\ MaxVersions \in Nat
    /\ Permis \subseteq {"desordre"}  \* a version may come before one it knows of

VARIABLES
    versions,   \* EntreeVC: its clock; history: its causal past
    vc_noeud,   \* NoeudVC._vc
    freres,     \* NoeudVC._store: the siblings
    en_vol,     \* the replicas each version has still to be sent to
    lus,        \* the versions the client read last
    recus,      \* history: the versions a node has written or received
    connus      \* history: those that it has met, even in a clock only

varsHorloges == <<versions, vc_noeud, freres, en_vol, lus, recus, connus>>

Ids == DOMAIN versions

TypeOK ==
    /\ versions \in Seq([vc : [Noeuds -> Nat], passe : SUBSET (1..MaxVersions)])
    /\ Len(versions) <= MaxVersions
    /\ vc_noeud \in [Noeuds -> [Noeuds -> Nat]]
    /\ {freres, recus, connus} \subseteq [Noeuds -> SUBSET Ids]
    /\ lus \subseteq Ids
    /\ en_vol \in [Ids -> SUBSET Noeuds]

Init ==
    /\ versions = <<>>
    /\ vc_noeud = [n \in Noeuds |-> [m \in Noeuds |-> 0]]
    /\ freres = [n \in Noeuds |-> {}]
    /\ en_vol = <<>>
    /\ lus = {}
    /\ recus = freres
    /\ connus = freres

-----------------------------------------------------------------------------
Incrementer(vc, n) == [vc EXCEPT ![n] = @ + 1]

Merger(a, b) == [n \in Noeuds |-> IF a[n] < b[n] THEN b[n] ELSE a[n]]

\* Mutant: one greater component is enough.
Precede_Mollement(a, b) == \E n \in Noeuds : a[n] < b[n]

\* relation_avec: PRECEDE; SUIT is its converse, CONCURRENT neither nor equal.
Precede(a, b) == (\A n \in Noeuds : a[n] <= b[n]) /\ (\E n \in Noeuds : a[n] < b[n])

Concurrentes(a, b) == a # b /\ ~Precede(a, b) /\ ~Precede(b, a)

vc(i) == versions[i].vc

\* The fusion of the clocks of some versions (resoudre_conflit).
Fusion(S) == [n \in Noeuds |->
    IF S = {} THEN 0
    ELSE CHOOSE k \in {vc(i)[n] : i \in S} : \A i \in S : vc(i)[n] <= k]

Passe(S) == S \union UNION {versions[i].passe : i \in S}

-----------------------------------------------------------------------------
Lire(n) ==
    /\ lus' = freres[n]
    /\ UNCHANGED <<versions, vc_noeud, freres, en_vol, recus, connus>>

\* ecrire, blindly or with the clock of what was read.
Ecrire(n, contexte) ==
    LET locale == Incrementer(vc_noeud[n], n)
        nouvelle == IF contexte = {} THEN locale
                    ELSE Incrementer(Merger(locale, Fusion(contexte)), n)
        id == Len(versions) + 1
        passe == connus[n] \union Passe(contexte)
    IN
    /\ Len(versions) < MaxVersions
    /\ "desordre" \in Permis \/ contexte \subseteq recus[n]
    /\ versions' = Append(versions, [vc |-> nouvelle, passe |-> passe])
    /\ vc_noeud' = [vc_noeud EXCEPT ![n] = nouvelle]
    /\ freres' = [freres EXCEPT ![n] =
         {e \in @ : ~Precede(nouvelle, vc(e)) /\ ~Precede(vc(e), nouvelle)} \union {id}]
    /\ en_vol' = Append(en_vol, Noeuds \ {n})
    /\ recus' = [recus EXCEPT ![n] = @ \union {id}]
    /\ connus' = [connus EXCEPT ![n] = passe \union {id}]
    /\ UNCHANGED lus

\* Whether a sibling lets the version in: it is older, or in conflict.
Garder(d, locale) == Precede(vc(locale), vc(d)) \/ Concurrentes(vc(d), vc(locale))

Survivantes(d, n) == {e \in freres[n] : ~Precede(vc(e), vc(d))}

\* recevoir_replication; the thread of _repliquer goes from one replica to the next.  It
\* asks for the _actif of each, which nothing in the code sets to False.
Recevoir(d, n) ==
    /\ n \in en_vol[d]
    /\ \A m \in en_vol[d] : n <= m
    /\ "desordre" \in Permis \/ versions[d].passe \subseteq recus[n]
    /\ en_vol' = [en_vol EXCEPT ![d] = @ \ {n}]
    /\ vc_noeud' = [vc_noeud EXCEPT ![n] = Merger(@, vc(d))]
    /\ freres' = [freres EXCEPT ![n] =
         IF @ = {} THEN {d}
         ELSE Survivantes(d, n)
              \union {x \in {d} : \E e \in freres[n] : Garder(x, e)}]
    /\ recus' = [recus EXCEPT ![n] = @ \union {d}]
    /\ connus' = [connus EXCEPT ![n] = @ \union Passe({d})]
    /\ UNCHANGED <<versions, lus>>

Next ==
    \/ \E n \in Noeuds : Lire(n) \/ Ecrire(n, {}) \/ Ecrire(n, lus)
    \/ \E n \in Noeuds, d \in Ids : Recevoir(d, n)

Spec == Init /\ [][Next]_varsHorloges

-----------------------------------------------------------------------------
\* "on sait ici avec CERTITUDE si deux ecritures sont concurrentes ou si l'une a
\* cause l'autre": a clock is below another exactly when the second's author
\* knew of the first.
CausaliteFidele == \A i, j \in Ids : Precede(vc(i), vc(j)) <=> i \in versions[j].passe

Maximales(S) == {i \in S : \A j \in S : ~Precede(vc(i), vc(j))}

\* No node loses a version that nothing it knows has replaced, in whatever order
\* the versions came.
RienDePerdu == \A n \in Noeuds : Maximales(recus[n]) \subseteq freres[n]

\* "Si distante.vc < locale.vc -> ignorer (ancienne version)": the siblings are
\* exactly the versions that nothing received has replaced, when versions arrive
\* after those they know of.
FreresMaximaux == \A n \in Noeuds : freres[n] = Maximales(recus[n])
=============================================================================
