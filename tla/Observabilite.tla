---------------------------- MODULE Observabilite ----------------------------
(***************************************************************************)
(* Observability (jour29-observabilite): a service under observation keeps *)
(* counters, a gauge, a histogram, structured logs and spans, each behind  *)
(* a lock of its own, and a request updates them one after the other       *)
(* (ServiceSimule.traiter of simulation.py).  Requests run in threads;     *)
(* others evaluate the rules of alert and search logs and traces.          *)
(*                                                                         *)
(* The span_id that continuer_trace hashes from trace, parent and          *)
(* operation is those three.                                               *)
(***************************************************************************)
EXTENDS Integers, Sequences, FiniteSets, SequencesExt, FiniteSetsExt, TLC

CONSTANTS Observes,   \* the names of the services
          Programmes  \* each a sequence of threads, each what it does

ObservabiliteAssumption == \A p \in Programmes : Len(p) > 0

VARIABLES
    millis,     \* the clock
    total,      \* <nom>_requests_total
    echecs,     \* <nom>_errors_total
    actives,    \* <nom>_active_requests
    latences,   \* <nom>_latency_ms: its series with the label service
    journal,    \* _logs of BackendLog
    empans,     \* _spans of BackendTrace
    alertes,    \* _historique of GestionnaireAlertes
    agents      \* each thread: its requests, where it is in the one under way

varsObservabilite == <<millis, total, echecs, actives, latences, journal, empans, alertes, agents>>

Etapes == {"pret", "total", "active", "entree", "travail", "echec", "erreur", "clore",
           "inactive", "latence", "sortie", "secours", "taux"}

TypeOK ==
    /\ millis \in Nat
    /\ \A s \in Observes : total[s] \in Nat /\ echecs[s] \in Nat /\ actives[s] \in Nat
    /\ \A k \in DOMAIN empans : /\ empans[k].service \in Observes
                                /\ empans[k].debut \in 0..millis /\ empans[k].fin \in -1..millis
    /\ \A k \in DOMAIN journal : journal[k].niveau \in {"INFO", "ERROR"}
    /\ \A i \in DOMAIN agents : agents[i].etape \in Etapes

Init ==
    /\ millis = 0
    /\ total = [s \in Observes |-> 0]
    /\ echecs = [s \in Observes |-> 0]
    /\ actives = [s \in Observes |-> 0]
    /\ latences = [s \in Observes |-> <<>>]
    /\ journal = <<>> /\ empans = <<>> /\ alertes = <<>>
    /\ \E p \in Programmes : agents = [i \in DOMAIN p |->
           [suite |-> p[i], rang |-> 1, etape |-> "pret", reveil |-> 0, faits |-> <<>>,
            rate |-> FALSE, lu |-> 0]]

-----------------------------------------------------------------------------
Op(i) == Head(agents[i].suite)
Au(i, etape) == agents[i].suite # <<>> /\ agents[i].etape = etape
Appel(i) == Op(i).appels[agents[i].rang]
Service(i) == Appel(i).service
Empan(i) == Last(agents[i].faits)

Vers(i, etape) == agents' = [agents EXCEPT ![i].etape = etape]
Recommencer(a) == [a EXCEPT !.suite = Tail(@), !.rang = 1, !.etape = "pret", !.faits = <<>>,
                            !.rate = FALSE]
Finir(i) == agents' = [agents EXCEPT ![i] = Recommencer(@)]

\* demarrer_trace, or continuer_trace under the span of an earlier call of the request.
Trace(i) == IF agents[i].rang = 1 THEN 1 + Cardinality({empans[k].trace : k \in DOMAIN empans})
            ELSE empans[agents[i].faits[1]].trace
Parent(i) == IF agents[i].rang = 1 THEN <<>> ELSE empans[agents[i].faits[Appel(i).sous]].id

Ouvrir(i) ==
    /\ Au(i, "pret") /\ Op(i).op = "requete"
    /\ empans' = Append(empans,
         [trace |-> Trace(i), parent |-> Parent(i), service |-> Service(i),
          id |-> <<Trace(i), Parent(i), Appel(i).operation>>, debut |-> millis, fin |-> -1,
          erreur |-> FALSE])
    /\ agents' = [agents EXCEPT ![i].etape = "total", ![i].faits = Append(@, Len(empans) + 1)]
    /\ UNCHANGED <<millis, total, echecs, actives, latences, journal, alertes>>

CompterRequete(i) ==
    /\ Au(i, "total")
    /\ total' = [total EXCEPT ![Service(i)] = @ + 1]
    /\ Vers(i, "active")
    /\ UNCHANGED <<millis, echecs, actives, latences, journal, empans, alertes>>

Activer(i) ==
    /\ Au(i, "active")
    /\ actives' = [actives EXCEPT ![Service(i)] = @ + 1]
    /\ Vers(i, "entree")
    /\ UNCHANGED <<millis, total, echecs, latences, journal, empans, alertes>>

Ecrire(i, niveau, message, trace) ==
    journal' = Append(journal, [niveau |-> niveau, message |-> message, service |-> Service(i),
                                trace |-> trace])

\* The log of entry; then the service works for a time.
JournaliserEntree(i) ==
    /\ Au(i, "entree")
    /\ Ecrire(i, "INFO", "recue", empans[Empan(i)].trace)
    /\ agents' = [agents EXCEPT ![i].etape = "travail", ![i].reveil = millis + Appel(i).ms]
    /\ UNCHANGED <<millis, total, echecs, actives, latences, empans, alertes>>

Travailler(i) ==
    /\ Au(i, "travail") /\ agents[i].reveil <= millis
    /\ \E rate \in Appel(i).rates : agents' = [agents EXCEPT ![i].rate = rate,
                                          ![i].etape = IF rate THEN "echec" ELSE "clore"]
    /\ UNCHANGED <<millis, total, echecs, actives, latences, journal, empans, alertes>>

\* A failure is counted and logged before its span is closed.
CompterEchec(i) ==
    /\ Au(i, "echec")
    /\ echecs' = [echecs EXCEPT ![Service(i)] = @ + 1]
    /\ Vers(i, "erreur")
    /\ UNCHANGED <<millis, total, actives, latences, journal, empans, alertes>>

JournaliserErreur(i) ==
    /\ Au(i, "erreur")
    /\ Ecrire(i, "ERROR", "echouee", empans[Empan(i)].trace)
    /\ Vers(i, "clore")
    /\ UNCHANGED <<millis, total, echecs, actives, latences, empans, alertes>>

Clore(i) ==
    /\ Au(i, "clore")
    /\ empans' = [empans EXCEPT ![Empan(i)].fin = millis, ![Empan(i)].erreur = agents[i].rate]
    /\ Vers(i, "inactive")
    /\ UNCHANGED <<millis, total, echecs, actives, latences, journal, alertes>>

\* Mutant: the gauge goes down after a call that succeeded only, not in a finally.
Desactiver_SansFinally(i) ==
    /\ Au(i, "inactive")
    /\ actives' = [actives EXCEPT ![Service(i)] = @ - IF agents[i].rate THEN 0 ELSE 1]
    /\ IF ~agents[i].rate THEN Vers(i, "latence")
       ELSE IF Op(i).secours THEN Vers(i, "secours") ELSE Finir(i)
    /\ UNCHANGED <<millis, total, echecs, latences, journal, empans, alertes>>

\* The exception of a failed call ends the request: what catches it may log it too.
Desactiver(i) ==
    /\ Au(i, "inactive")
    /\ actives' = [actives EXCEPT ![Service(i)] = @ - 1]
    /\ IF ~agents[i].rate THEN Vers(i, "latence")
       ELSE IF Op(i).secours THEN Vers(i, "secours") ELSE Finir(i)
    /\ UNCHANGED <<millis, total, echecs, latences, journal, empans, alertes>>

Secourir(i) ==
    /\ Au(i, "secours")
    /\ Ecrire(i, "ERROR", "pool", 0)
    /\ Finir(i)
    /\ UNCHANGED <<millis, total, echecs, actives, latences, empans, alertes>>

\* Only a call that succeeded is observed and logged as treated.
ObserverLatence(i) ==
    /\ Au(i, "latence")
    /\ latences' = [latences EXCEPT ![Service(i)] = Append(@, Appel(i).ms)]
    /\ Vers(i, "sortie")
    /\ UNCHANGED <<millis, total, echecs, actives, journal, empans, alertes>>

JournaliserSortie(i) ==
    /\ Au(i, "sortie")
    /\ Ecrire(i, "INFO", "traitee", empans[Empan(i)].trace)
    /\ IF agents[i].rang < Len(Op(i).appels)
         THEN agents' = [agents EXCEPT ![i].etape = "pret", ![i].rang = @ + 1]
         ELSE Finir(i)
    /\ UNCHANGED <<millis, total, echecs, actives, latences, empans, alertes>>

-----------------------------------------------------------------------------
\* Histogramme.quantile(0.99) of a series.
P99(serie) == IF serie = <<>> THEN 0
              ELSE SortSeq(serie, <)[Min({(99 * Len(serie)) \div 100 + 1, Len(serie)})]

\* The series the rule on latency asks for: the one without labels.  What is observed goes
\* to the one of the service, and so the rule never fires.
SansEtiquette(s) == <<>>

\* evaluer_tout, with the two rules of scenario_metriques: the quantile, then the rate of errors, which reads the errors first and the
\* requests afterwards.
EvaluerLatence(i) ==
    /\ Au(i, "pret") /\ Op(i).op = "evaluer"
    /\ alertes' = IF P99(SansEtiquette(Op(i).service)) > 100
                  THEN Append(alertes, [nom |-> "latence", service |-> Op(i).service])
                  ELSE alertes
    /\ agents' = [agents EXCEPT ![i].etape = "taux", ![i].lu = echecs[Op(i).service]]
    /\ UNCHANGED <<millis, total, echecs, actives, latences, journal, empans>>

EvaluerTaux(i) ==
    /\ Au(i, "taux")
    /\ alertes' = IF 100 * agents[i].lu > 3 * Max({total[Op(i).service], 1})
                  THEN Append(alertes, [nom |-> "taux", service |-> Op(i).service])
                  ELSE alertes
    /\ Finir(i)
    /\ UNCHANGED <<millis, total, echecs, actives, latences, journal, empans>>

Chercher(i) ==
    /\ Au(i, "pret") /\ Op(i).op \in {"logs", "traces", "slo"}
    /\ Finir(i)
    /\ UNCHANGED <<millis, total, echecs, actives, latences, journal, empans, alertes>>

Ecouler ==
    /\ \E i \in DOMAIN agents : Au(i, "travail")
    /\ \A i \in DOMAIN agents :
         agents[i].suite # <<>> => Au(i, "travail") /\ agents[i].reveil > millis
    /\ millis' = Min({agents[i].reveil : i \in {i \in DOMAIN agents : Au(i, "travail")}})
    /\ UNCHANGED <<total, echecs, actives, latences, journal, empans, alertes, agents>>

Next == \/ \E i \in DOMAIN agents :
             \/ Ouvrir(i) \/ CompterRequete(i) \/ Activer(i) \/ JournaliserEntree(i)
             \/ Travailler(i) \/ CompterEchec(i) \/ JournaliserErreur(i) \/ Clore(i)
             \/ Desactiver(i) \/ Secourir(i) \/ ObserverLatence(i) \/ JournaliserSortie(i)
             \/ EvaluerLatence(i) \/ EvaluerTaux(i) \/ Chercher(i)
        \/ Ecouler

Spec == Init /\ [][Next]_varsObservabilite

-----------------------------------------------------------------------------
\* Trace.duree_totale_ms is the time of the root span; chemin walks down from it.
LesTraces == {empans[k].trace : k \in DOMAIN empans}
De(t) == {k \in DOMAIN empans : empans[k].trace = t}
Racine(t) == CHOOSE k \in De(t) : empans[k].parent = <<>>
Duree(k) == (IF empans[k].fin = -1 THEN millis ELSE empans[k].fin) - empans[k].debut
DureeTotale(t) == Duree(Racine(t))

RECURSIVE Parcourir(_, _)
Parcourir(t, id) ==
    LET enfants == SelectSeq([k \in DOMAIN empans |-> k],
                       LAMBDA k : empans[k].trace = t /\ empans[k].parent = id)
    IN FlattenSeq([n \in DOMAIN enfants |->
           <<empans[enfants[n]].service>> \o Parcourir(t, empans[enfants[n]].id)])
Chemin(t) == <<empans[Racine(t)].service>> \o Parcourir(t, empans[Racine(t)].id)

\* BackendTrace.chercher and BackendLog.chercher, by what the scenarios look for.
TracesLentes(seuil) == {t \in LesTraces : DureeTotale(t) >= seuil}
TracesEnErreur == {t \in LesTraces : \E k \in De(t) : empans[k].erreur}
LogsErreur == {k \in DOMAIN journal : journal[k].niveau = "ERROR"}
LogsDe(message) == {k \in DOMAIN journal : journal[k].message = message}

\* scenario_slo: what an hour of a thousand requests loses of its errors in thousandths, the
\* noise of the draw included; how fast that burns the budget of 99.9 %.
Erreurs(dix_milliemes, bruit) == Max({0, dix_milliemes + bruit}) \div 10
BurnRate(erreurs, requetes) == (1000 * erreurs) \div requetes
BudgetTotal == 720

-----------------------------------------------------------------------------
\* The scenarios of simulation.py.
AppelDe(service, operation, ms, rates) ==
    [service |-> service, operation |-> operation, ms |-> ms, rates |-> rates, sous |-> 1]
Requete(appels) == [op |-> "requete", appels |-> appels, secours |-> FALSE]
Simple(service, operation, ms, rate) == Requete(<<AppelDe(service, operation, ms, {rate})>>)

\* One of the requests to payments fails and its rate of errors alone is an alert; a search
\* for "timeout" in the messages finds nothing, for it is a field.
ScenarioMetriquesEtLogs == <<
    <<Simple("payments", "checkout", 45, FALSE), Simple("payments", "checkout", 45, TRUE),
      Simple("catalog", "search", 12, FALSE), Simple("catalog", "search", 12, TRUE),
      [op |-> "evaluer", service |-> "payments"],
      [op |-> "logs", erreurs |-> 2, payments |-> 4, timeout |-> 0, alertes |-> <<"taux">>]>>>>

\* Four services in a chain; the way through them.
ScenarioTraces == <<
    <<Requete(<<AppelDe("cart", "GET", 15, {FALSE}), AppelDe("inventory", "CHECK", 20, {FALSE}),
                [AppelDe("payments", "POST", 60, {FALSE}) EXCEPT !.sous = 2],
                [AppelDe("notifier", "SEND", 10, {FALSE}) EXCEPT !.sous = 3]>>),
      [op |-> "traces", chemin |-> <<"cart", "inventory", "payments", "notifier">>,
       enErreur |-> {}]>>>>

\* The database fails in the second of two requests; what catches it logs the pool.
ScenarioCorrelation ==
    LET Checkout(rates) == [Requete(<<AppelDe("gateway", "POST", 10, {FALSE}),
                                      AppelDe("database", "SELECT", 800, rates)>>)
                              EXCEPT !.secours = TRUE]
    IN <<<<Checkout({FALSE}), Checkout({TRUE}),
           [op |-> "logs", erreurs |-> 2, payments |-> 0, timeout |-> 0, alertes |-> <<>>],
           [op |-> "traces", chemin |-> <<"gateway", "database">>, enErreur |-> {2}]>>>>

\* Thirty days of a thousand requests an hour, 0.05 % of errors, 2.5 % for fifty hours, then
\* 0.08 %, with a noise of the draws: the incident burns more than 14 times the budget.
ScenarioSLO == <<<<[op |-> "slo", nominal |-> 5, incident |-> 250, apres |-> 8]>>>>

-----------------------------------------------------------------------------
Niveau(s, niveau, messages) == Cardinality({k \in DOMAIN journal : journal[k].service = s
                                 /\ journal[k].niveau = niveau /\ journal[k].message \in messages})
SpansDe(s, erreur) == Cardinality({k \in DOMAIN empans : empans[k].service = s
                                     /\ empans[k].fin # -1 /\ empans[k].erreur = erreur})

\* The three pillars agree whatever the order of the threads: no error of a span without its
\* log and no log without its count, no latency without a span that ended well; the gauge is
\* the number of requests being treated; at rest, the numbers are equal.
PiliersConcordants == \A s \in Observes :
    /\ SpansDe(s, TRUE) <= Niveau(s, "ERROR", {"echouee"})
    /\ Niveau(s, "ERROR", {"echouee"}) <= echecs[s] /\ echecs[s] <= total[s]
    /\ Len(latences[s]) <= SpansDe(s, FALSE)
    /\ actives[s] = Cardinality({i \in DOMAIN agents :
            agents[i].etape \in {"entree", "travail", "echec", "erreur", "clore", "inactive"}
            /\ Service(i) = s})
    /\ (\A i \in DOMAIN agents : agents[i].etape = "pret") =>
         /\ SpansDe(s, TRUE) = echecs[s] /\ SpansDe(s, FALSE) = Len(latences[s])
         /\ total[s] = echecs[s] + Len(latences[s])
         /\ Niveau(s, "INFO", {"traitee"}) = Len(latences[s])

\* From a log to its trace: an error that names a trace is that of a service in it.
LogsRelies == \A k \in DOMAIN journal : journal[k].trace # 0 =>
    \E e \in De(journal[k].trace) : /\ empans[e].service = journal[k].service
                                    /\ journal[k].message = "echouee" =>
                                         empans[e].fin = -1 \/ empans[e].erreur

\* An alert on the rate of errors is one of that moment, whatever was counted in between.
AlerteJustifiee == [][Len(alertes') > Len(alertes) /\ Last(alertes').nom = "taux" =>
    LET s == Last(alertes').service IN 100 * echecs[s] > 3 * total[s]]_varsObservabilite

\* What the scenarios show.
BilanObservabilite == [][\A i \in DOMAIN agents : agents'[i].suite # agents[i].suite =>
    CASE Op(i).op = "logs" ->
           /\ Cardinality(LogsErreur) = Op(i).erreurs
           /\ Cardinality({k \in DOMAIN journal : journal[k].service = "payments"})
                = Op(i).payments
           /\ Cardinality(LogsDe("timeout")) = Op(i).timeout
           /\ [k \in DOMAIN alertes |-> alertes[k].nom] = Op(i).alertes
      [] Op(i).op = "traces" ->
           /\ \A t \in LesTraces : Chemin(t) = Op(i).chemin
           /\ TracesEnErreur = Op(i).enErreur
      [] Op(i).op = "slo" -> \A bruit \in -80..80 :
           /\ BurnRate(50 * Erreurs(Op(i).incident, bruit), 50 * 1000) > 14
           /\ BurnRate(30 * Erreurs(Op(i).apres, 0), 30 * 1000) < 6
           /\ 600 * Erreurs(Op(i).nominal, bruit) + 50 * Erreurs(Op(i).incident, bruit)
                + 70 * Erreurs(Op(i).apres, bruit) > BudgetTotal
      [] OTHER -> TRUE]_varsObservabilite

\* A search for the traces of more than half a second finds those that hold such a span.
LentesTrouvees == \A k \in DOMAIN empans :
    empans[k].fin # -1 /\ Duree(k) >= 500 => empans[k].trace \in TracesLentes(500)
=============================================================================
