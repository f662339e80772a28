------------------------------- MODULE Flink -------------------------------
(***************************************************************************)
(* The window operators of jour23-flink/flink.py over one stream of        *)
(* events: OperateurTumbling with its watermark, OperateurSession and      *)
(* OperateurSliding.                                                       *)
(*                                                                         *)
(* Every operator takes each event under its lock; the three are fed the   *)
(* same events here.  An event is its key and its time; operators look at  *)
(* nothing else of it.  Desordre bounds how far back an event may come.    *)
(***************************************************************************)
EXTENDS Integers, Sequences, FiniteSets

CONSTANTS Cles,
          taille, pas, gap, max_retard,
          Desordre,       \* an event is at most so much older than the newest
          MaxTemps,       \* bound on event times
          MaxEvenements   \* bound on the stream

\* What the constants are.
FlinkAssumption ==
    /\ {taille, pas, gap} \subseteq Nat \ {0}
    /\ {max_retard, Desordre, MaxTemps, MaxEvenements} \subseteq Nat

VARIABLES
    flot,        \* the events so far; also OperateurSliding._tous_events
    max_event_t, \* GestionnaireWatermark._max_event_t
    fenetres,    \* OperateurTumbling._fenetres: the open ones, with their count
    emises,      \* OperateurTumbling._resultats
    sessions,    \* OperateurSession._sessions, at most one to a key
    fermees      \* OperateurSession._fermees

varsFlink == <<flot, max_event_t, fenetres, emises, sessions, fermees>>

Evenements == [cle : Cles, t : 0..MaxTemps]

Init ==
    /\ flot = <<>>
    /\ max_event_t = 0
    /\ fenetres = {}
    /\ emises = <<>>
    /\ sessions = {}
    /\ fermees = {}

-----------------------------------------------------------------------------
\* _cle_fenetre
CleFenetre(e) == [cle |-> e.cle, debut |-> (e.t \div taille) * taille]

Ouverte(k) == {f \in fenetres : f.cle = k.cle /\ f.debut = k.debut}

\* The event joins its window, which is made when there is none.
Ranger(e) ==
    LET k == CleFenetre(e)
        n == IF Ouverte(k) = {} THEN 0 ELSE (CHOOSE f \in Ouverte(k) : TRUE).nb
    IN  (fenetres \ Ouverte(k)) \union {[cle |-> k.cle, debut |-> k.debut, nb |-> n + 1]}

\* GestionnaireWatermark: 0 as long as no event is later than 0.
Watermark(max) == IF max = 0 THEN 0 ELSE max - max_retard

\* fin <= watermark + max_retard_s
Prete(f, max) == f.debut + taille <= Watermark(max) + max_retard

Plus(a, b) == IF a > b THEN a ELSE b

\* Windows are emitted in some order.
Emettre(pretes) ==
    \E ordre \in [1..Cardinality(pretes) -> pretes] :
        /\ \A f \in pretes : \E i \in DOMAIN ordre : ordre[i] = f
        /\ emises' = emises \o ordre

\* OperateurTumbling.traiter: the windows that are ready leave.
Fenetrer(e) ==
    LET max    == Plus(max_event_t, e.t)
        pretes == {f \in Ranger(e) : Prete(f, max)}
    IN  /\ max_event_t' = max
        /\ fenetres' = Ranger(e) \ pretes
        /\ Emettre(pretes)

DansLeGap(s, t) == t <= s.fin

\* OperateurSession.traiter: etendre, or _fermer and _ouvrir.
Suivre(e) ==
    LET nouvelle == [cle |-> e.cle, debut |-> e.t, fin |-> e.t + gap, nb |-> 1]
        courante == {s \in sessions : s.cle = e.cle}
    IN  \/ /\ courante = {}
           /\ sessions' = sessions \union {nouvelle}
           /\ UNCHANGED fermees
        \/ \E s \in courante :
             IF DansLeGap(s, e.t)
               THEN /\ sessions' = (sessions \ {s}) \union
                                     {[s EXCEPT !.fin = e.t + gap, !.nb = @ + 1]}
                    /\ UNCHANGED fermees
               ELSE /\ sessions' = (sessions \ {s}) \union {nouvelle}
                    /\ fermees' = fermees \union {s}

Traiter(e) ==
    /\ Len(flot) < MaxEvenements
    /\ e.t + Desordre >= max_event_t
    /\ flot' = Append(flot, e)
    /\ Fenetrer(e)
    /\ Suivre(e)

\* vider of both operators, when the stream is over: every window that is left is
\* emitted, every session closed.
Vider ==
    /\ Len(flot) = MaxEvenements
    /\ Emettre(fenetres) /\ fenetres' = {}
    /\ fermees' = fermees \union sessions /\ sessions' = {}
    /\ UNCHANGED <<flot, max_event_t>>

Next == Vider \/ \E e \in Evenements : Traiter(e)

Spec == Init /\ [][Next]_varsFlink

DansFenetre(t, debut) == debut <= t /\ t < debut + taille

\* OperateurSliding.calculer(0, fin): the windows that hold event i of the flow.
Glissantes(fin, i) ==
    {debut \in {n * pas : n \in 0..fin} :
        debut + taille <= fin + pas /\ DansFenetre(flot[i].t, debut)}

-----------------------------------------------------------------------------
\* Type correctness.
TypeOK ==
    /\ \A i \in DOMAIN flot : flot[i] \in Evenements
    /\ max_event_t \in 0..MaxTemps
    /\ \A f \in fenetres : f.nb \in 1..MaxEvenements /\ f.debut % taille = 0
    /\ \A s, r \in sessions : s.cle = r.cle => s = r

NbEvenements(k) == Cardinality({i \in DOMAIN flot :
    flot[i].cle = k.cle /\ flot[i].t \in k.debut..k.debut + taille - 1})

\* "Chaque evenement appartient exactement a 1 fenetre": a window is emitted
\* once, with all the events of its interval that ever come.
FenetreUnique ==
    /\ \A i, j \in DOMAIN emises :
          emises[i].cle = emises[j].cle /\ emises[i].debut = emises[j].debut => i = j
    /\ \A i \in DOMAIN emises : emises[i].nb = NbEvenements(emises[i])
    /\ \A f \in fenetres : f.nb = NbEvenements(f)

\* "Fenetre qui se ferme apres N secondes d'inactivite": in a stream in order,
\* a session that is closed is followed by more than the gap without events of
\* its key, none of its own events is, and no event is lost.
SessionsSeparees ==
    /\ \A s \in fermees \union sessions : s.debut + gap <= s.fin
    /\ \A s \in fermees : \A i \in DOMAIN flot : flot[i].cle = s.cle =>
          flot[i].t <= s.fin - gap \/ flot[i].t > s.fin
    /\ \A s \in fermees \union sessions : s.nb = Cardinality({i \in DOMAIN flot :
          flot[i].cle = s.cle /\ flot[i].t \in s.debut..s.fin - gap})

\* "Un evenement appartient a ceil(taille/pas) fenetres", away from the ends,
\* when the step divides the size.
AppartenanceGlissante == taille % pas = 0 =>
    \A i \in DOMAIN flot : flot[i].t >= taille - pas =>
        Cardinality(Glissantes(MaxTemps + taille, i)) = taille \div pas
=============================================================================
