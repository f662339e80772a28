-------------------------------- MODULE Traces --------------------------------
(***************************************************************************)
(* Distributed tracing (jour18-distributed-tracing): services open spans   *)
(* under the span that called them, close them and send them to the        *)
(* collector, which rebuilds the traces.  The calls of a service run in    *)
(* threads of their own when they are parallel; spans arrive in any order. *)
(*                                                                         *)
(* A span is told by a name of its programme (its span_id); the clock is   *)
(* in milliseconds and goes on when every thread sleeps or waits.          *)
(***************************************************************************)
EXTENDS Integers, Sequences, FiniteSets, SequencesExt, FiniteSetsExt, Functions, TLC

CONSTANT Programmes   \* each a sequence of threads: the first starts, the others are started

TracesAssumption == \A p \in Programmes : Len(p) > 0

VARIABLES
    horloge,     \* time.time()
    spans,       \* the spans that were opened
    recus,       \* _spans of the collector: of each trace, in the order of arrival
    compteurs,   \* its stats
    conserves,   \* the spans that sampling sent on
    processus    \* each thread: what it does, whether it was started, when it wakes up

varsTraces == <<horloge, spans, recus, compteurs, conserves, processus>>

Lues == UNION {ToSet(recus[t]) : t \in DOMAIN recus}

TypeOK ==
    /\ horloge \in Nat
    /\ \A s \in DOMAIN spans :
         /\ spans[s].statut \in {"ok", "error"} /\ spans[s].debut \in 0..horloge
         /\ spans[s].fin \in -1..horloge
    /\ \A t \in DOMAIN recus : \A s \in ToSet(recus[t]) : s \in DOMAIN spans
    /\ conserves \subseteq Lues
    /\ \A i \in DOMAIN processus : processus[i].etat \in {"dormant", "actif", "envoi"}

Init ==
    /\ horloge = 0
    /\ spans = <<>> /\ recus = <<>> /\ conserves = {}
    /\ compteurs = [spans_recus |-> 0, traces |-> 0, erreurs |-> 0]
    /\ \E p \in Programmes : processus = [i \in DOMAIN p |->
           [suite |-> p[i], etat |-> IF i = 1 THEN "actif" ELSE "dormant", reveil |-> 0]]

-----------------------------------------------------------------------------
Op(i) == Head(processus[i].suite)
Libre(i) == processus[i].etat = "actif" /\ processus[i].suite # <<>>
            /\ processus[i].reveil <= horloge
Avancer(i) == [processus EXCEPT ![i].suite = Tail(@), ![i].etat = "actif"]

\* Tracer.demarrer_span: in the trace of the context that came, under its span.
Ouvrir(i) ==
    /\ Libre(i) /\ Op(i).op = "ouvrir"
    /\ spans' = (Op(i).span :> [trace |-> Op(i).trace, parent |-> Op(i).parent,
                     service |-> Op(i).service, debut |-> horloge, fin |-> -1,
                     statut |-> "ok", appele |-> Op(i).appele]) @@ spans
    /\ processus' = Avancer(i)
    /\ UNCHANGED <<horloge, recus, compteurs, conserves>>

\* Tracer.terminer_span: the span is closed, ...
Fermer(i) ==
    /\ Libre(i) /\ Op(i).op = "fermer"
    /\ \E statut \in Op(i).statuts :
         spans' = [spans EXCEPT ![Op(i).span].fin = horloge, ![Op(i).span].statut = statut]
    /\ processus' = [processus EXCEPT ![i].etat = "envoi"]
    /\ UNCHANGED <<horloge, recus, compteurs, conserves>>

\* ... then Collecteur.recevoir, under the lock.
Recevoir(i) ==
    /\ processus[i].etat = "envoi"
    /\ LET s == Op(i).span
           t == spans[s].trace
           nouvelle == t \notin DOMAIN recus
       IN /\ recus' = IF nouvelle THEN (t :> <<s>>) @@ recus ELSE [recus EXCEPT ![t] = Append(@, s)]
          /\ compteurs' = [spans_recus |-> compteurs.spans_recus + 1,
                 traces |-> compteurs.traces + IF nouvelle THEN 1 ELSE 0,
                 erreurs |-> compteurs.erreurs + IF spans[s].statut = "error" THEN 1 ELSE 0]
    /\ processus' = Avancer(i)
    /\ UNCHANGED <<horloge, spans, conserves>>

\* Threads are started and waited for; a thread sleeps.
Lancer(i) ==
    /\ Libre(i) /\ Op(i).op = "lancer"
    /\ processus' = [j \in DOMAIN processus |->
         IF j \in Op(i).fils THEN [processus[j] EXCEPT !.etat = "actif", !.reveil = horloge]
         ELSE Avancer(i)[j]]
    /\ UNCHANGED <<horloge, spans, recus, compteurs, conserves>>

Joindre(i) ==
    /\ Libre(i) /\ Op(i).op = "joindre"
    /\ \A j \in Op(i).fils : processus[j].suite = <<>>
    /\ processus' = Avancer(i)
    /\ UNCHANGED <<horloge, spans, recus, compteurs, conserves>>

Dormir(i) ==
    /\ Libre(i) /\ Op(i).op = "dormir"
    /\ processus' = [Avancer(i) EXCEPT ![i].reveil = horloge + Op(i).ms]
    /\ UNCHANGED <<horloge, spans, recus, compteurs, conserves>>

\* The rule of scenario_sampling: errors and slow spans always, the others by chance.
Duree(s) == (IF spans[s].fin = -1 THEN horloge ELSE spans[s].fin) - spans[s].debut

Echantillonner(i) ==
    /\ Libre(i) /\ Op(i).op = "echantillonner"
    /\ \E hasard \in BOOLEAN :
         LET s == Op(i).span IN
         conserves' = IF spans[s].statut = "error" \/ Duree(s) > 100 \/ hasard
                      THEN conserves \union {s} ELSE conserves
    /\ processus' = Avancer(i)
    /\ UNCHANGED <<horloge, spans, recus, compteurs>>

Analyser(i) ==
    /\ Libre(i) /\ Op(i).op = "analyser"
    /\ processus' = Avancer(i)
    /\ UNCHANGED <<horloge, spans, recus, compteurs, conserves>>

EnAttente(i) ==
    \/ processus[i].etat = "dormant" \/ processus[i].suite = <<>>
    \/ processus[i].etat = "actif" /\ processus[i].reveil > horloge
    \/ /\ Libre(i) /\ Op(i).op = "joindre"
       /\ \E j \in Op(i).fils : processus[j].suite # <<>>

Reveils == {processus[i].reveil : i \in {i \in DOMAIN processus :
               processus[i].suite # <<>> /\ processus[i].reveil > horloge}}

Ecouler ==
    /\ \A i \in DOMAIN processus : EnAttente(i)
    /\ Reveils # {}
    /\ horloge' = Min(Reveils)
    /\ UNCHANGED <<spans, recus, compteurs, conserves, processus>>

Next == \/ \E i \in DOMAIN processus :
             \/ Ouvrir(i) \/ Fermer(i) \/ Recevoir(i) \/ Lancer(i) \/ Joindre(i)
             \/ Dormir(i) \/ Echantillonner(i) \/ Analyser(i)
        \/ Ecouler

Spec == Init /\ [][Next]_varsTraces

-----------------------------------------------------------------------------
\* afficher_trace: the roots are the spans whose parent is not in the trace, then level
\* after level those under them.
Racines(t) == {s \in ToSet(recus[t]) : spans[s].parent \notin ToSet(recus[t])}

Affiches(t) ==
    LET niveau[n \in 0..Len(recus[t])] ==
            IF n = 0 THEN Racines(t)
            ELSE {s \in ToSet(recus[t]) : spans[s].parent \in niveau[n - 1]}
    IN UNION {niveau[n] : n \in DOMAIN niveau}

\* analyser_trace
DuService(t, svc) == {s \in ToSet(recus[t]) : spans[s].service = svc}
Services(t) == {spans[s].service : s \in ToSet(recus[t])}
DureeDuService(t, svc) == MapThenSumSet(Duree, DuService(t, svc))
DureeTotale(t) == Max({spans[s].fin : s \in ToSet(recus[t])})
                  - Min({spans[s].debut : s \in ToSet(recus[t])})
Goulots(t) == {svc \in Services(t) : \A x \in Services(t) :
                   DureeDuService(t, x) <= DureeDuService(t, svc)}
Erreurs(t) == {spans[s].service : s \in {s \in ToSet(recus[t]) : spans[s].statut = "error"}}

-----------------------------------------------------------------------------
\* The operations of a programme.
Debut(span, trace, parent) == [op |-> "ouvrir", span |-> span, trace |-> trace,
                               parent |-> parent, service |-> span, appele |-> TRUE]
Fin(span) == [op |-> "fermer", span |-> span, statuts |-> {"ok"}]
Echec(span) == [Fin(span) EXCEPT !.statuts = {"error"}]
Sommeil(ms) == [op |-> "dormir", ms |-> ms]
Feuille(span, trace, parent, ms) == <<Debut(span, trace, parent), Sommeil(ms), Fin(span)>>
Analyse(trace, duree, nb, goulots, erreurs) == [op |-> "analyser", trace |-> trace,
    duree |-> duree, nb |-> nb, goulots |-> goulots, erreurs |-> erreurs]

\* MicroService.traiter: its own time, its parallel calls in the threads fils, then the
\* others one after the other; it may fail in the end.
Traiter(span, trace, parent, ms, fils, sequentiels) ==
    <<Debut(span, trace, parent), Sommeil(ms)>>
    \o (IF fils = {} THEN <<>> ELSE <<[op |-> "lancer", fils |-> fils],
                                     [op |-> "joindre", fils |-> fils]>>)
    \o FlattenSeq(sequentiels)
    \o <<[Fin(span) EXCEPT !.statuts = {"ok", "error"}]>>

\* A checkout through five services, one in the other; the gateway is the slowest, for its
\* time holds that of all.
ScenarioTraceSimple == <<
    <<Debut("gateway", 1, "ctx"), Sommeil(20), Debut("cart", 1, "gateway"), Sommeil(60)>>
    \o Feuille("inventory", 1, "cart", 120)
    \o <<Fin("cart"), Debut("payment", 1, "gateway"), Sommeil(350)>>
    \o Feuille("notif", 1, "payment", 80)
    \o <<Fin("payment"), Fin("gateway"), Analyse(1, 630, 5, {"gateway"}, {})>>>>

\* Stock then fraud, 520 ms; both at once, 400 ms.
ScenarioParallele == <<
    <<Debut("order", 1, "ctx")>> \o Feuille("stock", 1, "order", 120)
    \o Feuille("fraud", 1, "order", 400) \o <<Fin("order"), Analyse(1, 520, 3, {"order"}, {}),
      Debut("order2", 2, "ctx"), [op |-> "lancer", fils |-> {2, 3}],
      [op |-> "joindre", fils |-> {2, 3}], Fin("order2"),
      Analyse(2, 400, 3, {"order2", "fraud2"}, {})>>,
    Feuille("stock2", 2, "order2", 120), Feuille("fraud2", 2, "order2", 400)>>

\* Each service is called once the one before has answered, until one fails.
Apres(span, trace, parent, ms) ==
    [k \in 1..3 |-> IF k = 1 THEN [Debut(span, trace, parent) EXCEPT !.appele = FALSE]
                    ELSE Feuille(span, trace, parent, ms)[k]]
Renomme(ops, svc) == [k \in DOMAIN ops |->
    IF ops[k].op = "ouvrir" THEN [ops[k] EXCEPT !.service = svc] ELSE ops[k]]

ScenarioErreur == <<
    Apres("gateway", 1, "ctx", 15) \o Apres("cart", 1, "gateway", 40)
    \o <<[Debut("inventory", 1, "cart") EXCEPT !.appele = FALSE], Sommeil(27),
         Echec("inventory"), Analyse(1, 82, 3, {"cart"}, {"inventory"})>>
    \o Renomme(Apres("gateway2", 2, "ctx", 15), "gateway")
    \o Renomme(Apres("cart2", 2, "gateway2", 40), "cart")
    \o Renomme(Apres("inventory2", 2, "cart2", 90), "inventory")
    \o <<[Debut("payment2", 2, "inventory2") EXCEPT !.appele = FALSE], Sommeil(60),
         Echec("payment2"), Analyse(2, 205, 4, {"inventory"}, {"payment2"})>>>>

\* Of the requests of scenario_latence, one whose times are the usual ones.
ScenarioLatence == <<
    Apres("gateway", 1, "ctx", 15) \o Apres("cart", 1, "gateway", 45)
    \o Apres("inventory", 1, "cart", 110) \o Apres("payment", 1, "inventory", 380)
    \o Apres("notif", 1, "payment", 70) \o <<Analyse(1, 620, 5, {"payment"}, {})>>>>

\* A quick request, one of 50 ms, one of 500 ms and one that fails.
ScenarioSampling ==
    LET Requete(nom, t, ms, fin, garde) ==
            <<Debut(nom, t, "ctx"), Sommeil(ms), fin,
              [op |-> "echantillonner", span |-> nom, garde |-> garde]>>
    IN <<Requete("r1", 1, 5, Fin("r1"), BOOLEAN) \o Requete("r2", 2, 50, Fin("r2"), BOOLEAN)
         \o Requete("r3", 3, 500, Fin("r3"), {TRUE}) \o Requete("r4", 4, 5, Echec("r4"), {TRUE})>>

-----------------------------------------------------------------------------
\* The time of a service holds that of the calls it waits for: whatever runs in parallel,
\* when its span is closed those under it have been closed and received.
SpansEmboites == \A s \in DOMAIN spans :
    LET p == spans[s].parent IN
    p \in DOMAIN spans /\ spans[s].appele =>
      /\ spans[p].trace = spans[s].trace /\ spans[p].debut <= spans[s].debut
      /\ spans[p].fin # -1 =>
           s \in Lues /\ spans[s].fin # -1 /\ spans[s].fin <= spans[p].fin

\* Whatever has arrived, the cascade of a trace shows all of it, and the collector has
\* counted what it holds.
CascadeComplete ==
    /\ \A t \in DOMAIN recus : Affiches(t) = ToSet(recus[t])
    /\ compteurs = [spans_recus |-> Cardinality(Lues), traces |-> Cardinality(DOMAIN recus),
                    erreurs |-> Cardinality({s \in Lues : spans[s].statut = "error"})]

\* What the scenarios show of a trace: its time, its spans, the slowest service, the error;
\* sampling keeps every error and every slow request.
BilanTraces == [][\A i \in DOMAIN processus : processus'[i].suite # processus[i].suite =>
    CASE Op(i).op = "analyser" ->
           LET a == Op(i) IN
           /\ DureeTotale(a.trace) = a.duree /\ Len(recus[a.trace]) = a.nb
           /\ Goulots(a.trace) = a.goulots /\ Erreurs(a.trace) = a.erreurs
      [] Op(i).op = "echantillonner" -> (Op(i).span \in conserves') \in Op(i).garde
      [] OTHER -> TRUE]_varsTraces
=============================================================================
