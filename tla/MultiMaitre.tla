----------------------------- MODULE MultiMaitre -----------------------------
(***************************************************************************)
(* Replication of one key between masters (jour13-multi-master).  Every    *)
(* write is accepted where it is made and replicated by a thread of its    *)
(* own; whoever receives it settles the conflict with what it holds.  A    *)
(* value is the set of the writes it is made of: one, unless values are    *)
(* merged.                                                                 *)
(***************************************************************************)
EXTENDS Integers, Sequences, FiniteSets

CONSTANTS Noeuds,        \* naturals, in the order of _pairs
          Strategies,    \* those the cluster may be made with
          MaxEcritures,  \* bound: writes
          Permis

\* What the constants are.
MaitresAssumption ==
    /\ Noeuds \subseteq Nat /\ IsFiniteSet(Noeuds)
    /\ Strategies \subseteq {"LWW", "FWW", "MERGE", "CUSTOM"}
    /\ MaxEcritures \in Nat
    \* A master that writes again, or over what others wrote; clocks that drift.
    /\ Permis \subseteq {"plusieurs", "derive"}

ParFusion == -1   \* noeud_src of what a strategy has made
ParRegle == -2

VARIABLES
    strategie_conflit,
    ecrits_maitres,   \* the entries written, in the order of real time
    entree,           \* _store: none or one entry
    vers              \* the masters that each write has still to be sent to

varsMaitres == <<strategie_conflit, ecrits_maitres, entree, vers>>

Rangs == DOMAIN ecrits_maitres
Entrees == [valeur : (SUBSET (1..MaxEcritures)) \ {{}}, ts : 1..MaxEcritures,
            noeud_src : Noeuds \union {ParFusion, ParRegle}, version : Nat]

TypeOK ==
    /\ strategie_conflit \in {"LWW", "FWW", "MERGE", "CUSTOM"}
    /\ ecrits_maitres \in Seq(Entrees) /\ Len(ecrits_maitres) <= MaxEcritures
    /\ \A n \in Noeuds : entree[n] \subseteq Entrees /\ Cardinality(entree[n]) <= 1
    /\ vers \in [Rangs -> SUBSET Noeuds]

Init ==
    /\ strategie_conflit \in Strategies
    /\ ecrits_maitres = <<>>
    /\ entree = [n \in Noeuds |-> {}]
    /\ vers = <<>>

-----------------------------------------------------------------------------
PlusGrande(S) == CHOOSE v \in S : \A u \in S : u <= v

Version(n) == PlusGrande({0} \union {e.version : e \in entree[n]}) + 1

\* When the strategies are made for it: clocks that agree, one write of a master,
\* and the first one of the key unless the last one is to win.
Conforme(n, ts) ==
    /\ "derive" \notin Permis => ts = Len(ecrits_maitres) + 1
    /\ "plusieurs" \notin Permis =>
         /\ \A i \in Rangs : ecrits_maitres[i].noeud_src # n
         /\ strategie_conflit # "LWW" => entree[n] = {}

\* ecrire; a merged value is written as an addition to what the master holds.
Ecrire(n, ts) ==
    LET id == Len(ecrits_maitres) + 1
        e == [valeur |-> {id} \union (IF strategie_conflit = "MERGE"
                                      THEN UNION {l.valeur : l \in entree[n]} ELSE {}),
              ts |-> ts, noeud_src |-> n, version |-> Version(n)]
    IN
    /\ id <= MaxEcritures
    /\ Conforme(n, ts)
    /\ ecrits_maitres' = Append(ecrits_maitres, e)
    /\ entree' = [entree EXCEPT ![n] = {e}]
    /\ vers' = Append(vers, Noeuds \ {n})
    /\ UNCHANGED strategie_conflit

\* Mutant: what comes last wins.
Lww_Arrivee(locale, distante) == distante

Lww(locale, distante) == IF distante.ts > locale.ts THEN distante ELSE locale

Fww(locale, distante) == IF locale.ts <= distante.ts THEN locale ELSE distante

Composee(locale, distante, valeur, source) ==
    [valeur |-> valeur,
     ts |-> PlusGrande({locale.ts, distante.ts}),
     noeud_src |-> source,
     version |-> PlusGrande({locale.version, distante.version}) + 1]

Fusion(locale, distante) ==
    Composee(locale, distante, locale.valeur \union distante.valeur, ParFusion)

\* fn_custom: a rule that does not depend on where it is applied.
Custom(locale, distante) ==
    Composee(locale, distante,
             {PlusGrande(locale.valeur \union distante.valeur)}, ParRegle)

ResoudreConflit(locale, distante) ==
    CASE strategie_conflit = "LWW" -> Lww(locale, distante)
      [] strategie_conflit = "FWW" -> Fww(locale, distante)
      [] strategie_conflit = "MERGE" -> Fusion(locale, distante)
      [] strategie_conflit = "CUSTOM" -> Custom(locale, distante)

\* Two writes of one master are no conflict.
MemeSource(locale, distante) ==
    IF distante.version > locale.version THEN distante ELSE locale

Retenue(locale, distante) ==
    IF locale.valeur = distante.valeur THEN locale
    ELSE IF locale.noeud_src = distante.noeud_src THEN MemeSource(locale, distante)
    ELSE ResoudreConflit(locale, distante)

\* recevoir_replication; the thread goes from one master to the next, and asks for the
\* _actif of each, which nothing in the code sets to False.
Recevoir(i, n) ==
    LET distante == ecrits_maitres[i] IN
    /\ n \in vers[i]
    /\ \A m \in vers[i] : n <= m
    /\ vers' = [vers EXCEPT ![i] = @ \ {n}]
    /\ entree' = [entree EXCEPT ![n] =
         IF @ = {} THEN {distante} ELSE {Retenue(locale, distante) : locale \in @}]
    /\ UNCHANGED <<strategie_conflit, ecrits_maitres>>

Next ==
    \/ \E n \in Noeuds, ts \in 1..MaxEcritures : Ecrire(n, ts)
    \/ \E i \in Rangs, n \in Noeuds : Recevoir(i, n)

Spec == Init /\ [][Next]_varsMaitres

-----------------------------------------------------------------------------
Calme == \A i \in Rangs : vers[i] = {}
Valeurs == {{e.valeur : e \in entree[n]} : n \in Noeuds}

\* "Convergence eventuelle": when every write has arrived everywhere the masters
\* hold one value, whatever the order in which each of them got the writes.
Convergence == Calme => Cardinality(Valeurs) = 1

\* Merge: "Aucune donnee perdue", whoever wrote, however often.
AucunePerte == strategie_conflit = "MERGE" /\ Calme /\ ecrits_maitres # <<>>
               => Valeurs = {{Rangs}}
=============================================================================
