----------------------------- MODULE Heartbeat ------------------------------
(***************************************************************************)
(* Failure detection by heartbeats (jour4-heartbeat): the sending loop of  *)
(* every node, and the monitor's loop that suspects and buries, both under *)
(* the monitor's lock except for the reading of the clock.                 *)
(*                                                                         *)
(* The unit of time is intervalle_check, the period of the monitor's loop. *)
(* Left out: sequence numbers and the counts made of them, which nothing   *)
(* reads, and what a heartbeat carries of its node.                        *)
(***************************************************************************)
EXTENDS Integers, Sequences, FiniteSets, SequencesExt, FiniteSetsExt

CONSTANTS Surveilles,    \* the nodes
          Reguliers,     \* the delays between two heartbeats of a healthy node
          Conservateur,  \* the timeout of a node with little history, 3.0 s
          Memoire,       \* maxlen of historique_delais
          MaxSilence,    \* longer silences are not told apart
          Pannes         \* what is done to the nodes, in order

\* What the constants are.
HeartbeatAssumption ==
    /\ Reguliers \subseteq Nat \ {0} /\ Reguliers # {}
    /\ Conservateur \in Nat /\ Memoire \in Nat /\ Memoire >= 3
    /\ \A s \in Pannes : \A i \in DOMAIN s :
         s[i].sur \subseteq Surveilles /\ s[i].delais \subseteq Nat

VARIABLES
    vie,         \* EtatNoeud of each node, for the monitor
    historique,  \* historique_delais
    silence,     \* since dernier_heartbeat
    phase,       \* of the monitor's loop: it waits, has read the clock, has passed
    releve,      \* silences at the time it read before it took the lock
    sommeil,     \* what the sending loop of the node has still to sleep
    delais,      \* intervalle +- gigue of the node
    en_panne,
    programme    \* what is still to be done to the nodes

varsHeartbeat == <<vie, historique, silence, phase, releve, sommeil, delais, en_panne,
                  programme>>

Inc(x) == IF x < MaxSilence THEN x + 1 ELSE x

TypeOK ==
    /\ vie \in [Surveilles -> {"ALIVE", "SUSPECT", "DEAD"}]
    /\ \A n \in Surveilles : /\ historique[n] \in Seq(0..MaxSilence)
                             /\ Len(historique[n]) <= Memoire
    /\ silence \in [Surveilles -> 0..MaxSilence]
    /\ sommeil \in [Surveilles -> Nat]
    /\ phase \in {"attend", "lue", "passee"}
    /\ releve \in [Surveilles -> 0..MaxSilence]
    /\ en_panne \in [Surveilles -> BOOLEAN]

\* The first heartbeats have just come.
Init ==
    /\ vie = [n \in Surveilles |-> "ALIVE"]
    /\ historique = [n \in Surveilles |-> <<>>]
    /\ silence = [n \in Surveilles |-> 0]
    /\ phase = "attend"
    /\ releve = [n \in Surveilles |-> 0]
    /\ sommeil \in [Surveilles -> Reguliers]
    /\ delais = [n \in Surveilles |-> Reguliers]
    /\ en_panne = [n \in Surveilles |-> FALSE]
    /\ programme \in Pannes

-----------------------------------------------------------------------------
\* A silence beyond k times timeout_adaptatif, that is three times the mean of the
\* delays and their spread; sums are compared, nothing is rounded.
Depasse(n, duree, k) == LET h == historique[n] IN
    IF Len(h) < 3 THEN duree > k * Conservateur
    ELSE duree * Len(h) >
           3 * k * (FoldSeq(+, 0, h) + (Max(ToSet(h)) - Min(ToSet(h))) * Len(h))

\* recevoir_heartbeat: a resurrection keeps the silence of the failure as a delay.
Recevoir(n) ==
    /\ historique' = [historique EXCEPT ![n] =
           LET h == Append(@, silence[n]) IN
           IF Len(h) > Memoire THEN Tail(h) ELSE h]
    /\ silence' = [silence EXCEPT ![n] = 0]
    /\ releve' = [releve EXCEPT ![n] = 0]
    /\ vie' = [vie EXCEPT ![n] = "ALIVE"]

\* A turn of _boucle_envoi.
Reveil(n) ==
    /\ sommeil[n] = 0
    /\ \E d \in delais[n] : sommeil' = [sommeil EXCEPT ![n] = d]
    /\ IF en_panne[n] THEN UNCHANGED <<historique, silence, releve, vie>>
                      ELSE Recevoir(n)
    /\ UNCHANGED <<phase, delais, en_panne, programme>>

\* _boucle_detection reads the clock, then takes the lock.
LireHorloge ==
    /\ phase = "attend"
    /\ phase' = "lue"
    /\ releve' = silence
    /\ UNCHANGED <<vie, historique, silence, sommeil, delais, en_panne, programme>>

Detecter ==
    /\ phase = "lue"
    /\ vie' = [n \in Surveilles |->
         CASE vie[n] = "ALIVE" /\ Depasse(n, releve[n], 1) -> "SUSPECT"
           [] vie[n] = "SUSPECT" /\ Depasse(n, releve[n], 2) -> "DEAD"
           [] OTHER -> vie[n]]
    /\ phase' = "passee"
    /\ releve' = [n \in Surveilles |-> 0]
    /\ UNCHANGED <<historique, silence, sommeil, delais, en_panne, programme>>

-----------------------------------------------------------------------------
\* tomber_en_panne, redemarrer, a slower node; what the simulation waits for and finds.
Subir(o) ==
    /\ programme # <<>> /\ o = Head(programme)
    /\ \/ /\ o.op \in {"tomber", "redemarrer"}
          /\ en_panne' = [n \in Surveilles |->
                 IF n \in o.sur THEN o.op = "tomber" ELSE en_panne[n]]
          /\ UNCHANGED delais
       \/ /\ o.op = "ralentir"
          /\ delais' = [n \in Surveilles |-> IF n \in o.sur THEN o.delais ELSE delais[n]]
          /\ UNCHANGED en_panne
       \/ /\ o.op \in {"DEAD", "ALIVE"} /\ \A n \in o.sur : vie[n] = o.op   \* attendre_etat
          /\ UNCHANGED <<delais, en_panne>>
       \/ /\ o.op = "constater" /\ phase = "passee" /\ \A n \in Surveilles : sommeil[n] > 0
          /\ UNCHANGED <<delais, en_panne>>
    /\ programme' = Tail(programme)
    /\ UNCHANGED <<vie, historique, silence, phase, releve, sommeil>>

\* A unit passes: the monitor has made its pass, no loop oversleeps.
Tick ==
    /\ phase = "passee"
    /\ \A n \in Surveilles : sommeil[n] > 0
    /\ phase' = "attend"
    /\ silence' = [n \in Surveilles |-> Inc(silence[n])]
    /\ sommeil' = [n \in Surveilles |-> sommeil[n] - 1]
    /\ IF programme = <<>> THEN UNCHANGED programme
       ELSE \/ Head(programme).op = "attendre" /\ programme' = Tail(programme)
            \/ Head(programme).op \in {"DEAD", "ALIVE"} /\ UNCHANGED programme
    /\ UNCHANGED <<vie, historique, releve, delais, en_panne>>

Next ==
    \/ \E n \in Surveilles : Reveil(n)
    \/ LireHorloge \/ Detecter \/ Tick
    \/ Subir(IF programme = <<>> THEN <<>> ELSE Head(programme))

Spec == Init /\ [][Next]_varsHeartbeat

-----------------------------------------------------------------------------
\* The scenarios of simulation.py; some units to calibrate, 5 s to detect.
Op(op, n) == <<[op |-> op, sur |-> {n}, delais |-> {}]>>
Attendre(u) == [i \in 1..u |-> [op |-> "attendre", sur |-> {}, delais |-> {}]]
Constater(morts) == <<[op |-> "constater", sur |-> morts, delais |-> {}]>>
Ralentir(n, d) == <<[op |-> "ralentir", sur |-> {n}, delais |-> d]>>

ClusterSain == Attendre(13) \o Constater({})
PanneFranche(n) == Attendre(8) \o Op("tomber", n) \o Op("DEAD", n)
PanneLente(n) == Ralentir(n, {2}) \o Attendre(10) \o Ralentir(n, 3..4)
                   \o Attendre(3) \o Ralentir(n, 4..6)
                   \o Attendre(3) \o Ralentir(n, 6..10)
                   \o Attendre(3) \o Ralentir(n, 9..15)
                   \o Attendre(3) \o Constater({}) \o Op("tomber", n)
                   \o Attendre(27) \o Constater({n})
Resurrection(n) == Attendre(7) \o Op("tomber", n) \o Op("DEAD", n)
                     \o Attendre(3) \o Op("redemarrer", n) \o Op("ALIVE", n)
                     \o Attendre(3) \o Constater({})
Cascade(n, m) == Attendre(8) \o Op("tomber", n) \o Attendre(4) \o Op("tomber", m)
                   \o Attendre(33) \o Constater({n, m})

-----------------------------------------------------------------------------
\* A node that has always sent in time is never suspected.
FauxPositif == \A n \in Surveilles :
    ToSet(historique[n]) \subseteq Reguliers /\ silence[n] <= Max(Reguliers)
        => vie[n] = "ALIVE"

\* A silence is noticed within the time a regular history allows, however the delays
\* that make the history fell.
Borne == Max({Conservateur, 3 * (2 * Max(Reguliers) - Min(Reguliers))})
DetectionBornee == \A n \in Surveilles :
    ToSet(historique[n]) \subseteq Reguliers /\ phase = "passee" =>
        /\ silence[n] > Borne => vie[n] # "ALIVE"
        /\ silence[n] > 2 * Borne => vie[n] = "DEAD"

\* The nodes the simulation expects dead are, and no other is.
Bilan == [][programme # <<>> /\ programme' # programme /\ Head(programme).op = "constater"
             => {n \in DOMAIN vie : vie[n] # "ALIVE"} = Head(programme).sur]_varsHeartbeat
=============================================================================
