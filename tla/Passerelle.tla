----------------------------- MODULE Passerelle -----------------------------
(***************************************************************************)
(* API gateway (jour26-gateway): the token, the rate limit, the policies   *)
(* of OPA in their order and the route decide what a request is answered;  *)
(* policies are inserted while requests are being evaluated.               *)
(*                                                                         *)
(* A path is what its routes and policies look at; a bucket holds          *)
(* sixtieths of tokens, for that is what a second brings back.             *)
(*                                                                         *)
(* _stats[x] += 1 has no lock and is a step: CPython 3.10 to 3.12, which   *)
(* the project is run with (.github/workflows/ci.yml:15), change threads   *)
(* at calls and loops only, and there is neither in it.                    *)
(***************************************************************************)
EXTENDS Integers, Sequences, FiniteSets, SequencesExt, FiniteSetsExt

CONSTANTS Sujets, Segments,  \* the subjects, and what their buckets are told apart by
          Programmes         \* requetes_par_minute, and what each client does

PasserelleAssumption == \A p \in Programmes : p.rpm \in Nat \ {0}

VARIABLES
    rpm,         \* requetes_par_minute
    politiques,  \* _politiques: their names, in order
    instants,    \* the clock, in seconds
    seaux,       \* _seaux: tokens, in sixtieths, and the time of their last change
    accordes,    \* of each key, the times of the requests the limiter let through
    comptes,     \* _stats of the gateway
    decisions,   \* _decisions of OPA
    appels       \* each client: where its request is and what it has still to do

varsPasserelle == <<rpm, politiques, instants, seaux, accordes, comptes, decisions, appels>>

CreerPolitiques == <<"health-public", "admin-full-access", "payments-read", "payments-write",
                     "analytics-read", "ip-allowlist", "rate-limit-guard">>
ClesSeau == Sujets \X Segments
Issues == {"ok", "auth_echec", "rate_limited", "opa_refuse", "not_found"}

TypeOK ==
    /\ instants \in Nat
    /\ \A c \in ClesSeau : seaux[c].jetons \in 0..(60 * rpm) /\ seaux[c].dernier \in 0..instants
    /\ comptes \in [Issues \union {"total"} -> Nat]
    /\ \A i \in DOMAIN appels :
         /\ appels[i].etape \in {"pret", "debit", "opa", "route"}
         /\ appels[i].rang \in 1..(Len(politiques) + 1)

Init ==
    /\ \E p \in Programmes :
         /\ rpm = p.rpm
         /\ appels = [i \in DOMAIN p.clients |->
                [suite |-> p.clients[i], etape |-> "pret", rang |-> 1, bloques |-> {},
                 reponse |-> [statut |-> 0, par |-> ""]]]
    /\ politiques = CreerPolitiques
    /\ instants = 0
    /\ seaux = [c \in ClesSeau |-> [jetons |-> 60 * rpm, dernier |-> 0]]
    /\ accordes = [c \in ClesSeau |-> <<>>]
    /\ comptes = [x \in Issues \union {"total"} |-> 0]
    /\ decisions = <<>>

-----------------------------------------------------------------------------
\* creer_politiques_acme: what each policy says of a request, "" when it is not concerned.
Si(condition, avis) == IF condition THEN avis ELSE ""
Avis(condition) == IF condition THEN "ALLOW" ELSE "DENY"

Politique(nom, r) ==
    CASE nom = "health-public" -> Si(r.fin = "health" /\ r.methode = "GET", "ALLOW")
      [] nom = "admin-full-access" ->
           Si("admin" \in r.roles, Avis(r.methode = "DELETE" => "mfa" \in r.contexte))
      [] nom = "payments-read" ->
           Si(r.chemin = "payments" /\ r.methode = "GET",
              Avis("payments:read" \in r.scope \/ "read:payments" \in r.roles))
      [] nom = "payments-write" ->
           Si(r.chemin = "payments" /\ r.methode \in {"POST", "PUT", "PATCH"},
              Avis("payments:write" \in r.scope))
      [] nom = "analytics-read" ->
           Si(r.chemin = "analytics" /\ r.methode = "GET",
              Avis("analytics:read" \in r.scope \/ "analyst" \in r.roles))
      [] nom = "ip-allowlist" -> Si(r.chemin = "internal", Avis(r.ip = "interne"))
      [] nom = "rate-limit-guard" -> Si("rate_limited" \in r.contexte, "DENY")
      [] nom = "blocage-urgence" -> Si(r.sujet = "reports-service", "DENY")

\* Routeur.resoudre: the routes that creer_gateway adds.
Routes == {[chemin |-> c, methodes |-> {"GET", "POST", "PUT", "DELETE"}] :
              c \in {"payments", "analytics", "fraud", "internal"}}
          \union {[chemin |-> "health", methodes |-> {"GET"}]}
Resoudre(r) == \E x \in Routes : x.chemin = r.chemin /\ r.methode \in x.methodes

-----------------------------------------------------------------------------
Op(i) == Head(appels[i].suite)
Au(i, etape) == appels[i].etape = etape /\ appels[i].suite # <<>>
Suivre(i, a) == appels' = [appels EXCEPT ![i] = a]

Finir(i, statut, par) ==
    Suivre(i, [appels[i] EXCEPT !.etape = "pret", !.suite = Tail(@), !.rang = 1,
                                !.reponse = [statut |-> statut, par |-> par]])

Repondre(i, statut, par, issue) ==
    /\ Finir(i, statut, par)
    /\ comptes' = [comptes EXCEPT ![issue] = @ + 1]

\* traiter, 1: the token.
Valider(i) ==
    /\ Au(i, "pret") /\ Op(i).op = "traiter"
    /\ IF Op(i).jeton /\ instants < Op(i).exp
         THEN /\ Suivre(i, [appels[i] EXCEPT !.etape = "debit", !.bloques = ToSet(politiques)])
              /\ comptes' = [comptes EXCEPT !["total"] = @ + 1]
         ELSE /\ Finir(i, 401, "")
              /\ comptes' = [comptes EXCEPT !["total"] = @ + 1, !["auth_echec"] = @ + 1]
    /\ UNCHANGED <<rpm, politiques, instants, seaux, accordes, decisions>>

\* 2: RateLimiter.autoriser, of the subject and the second part of the path.
Recharge(s) == Min({60 * rpm, s.jetons + (instants - s.dernier) * rpm})

Limiter(i) ==
    /\ Au(i, "debit")
    /\ LET c == <<Op(i).sujet, Op(i).prefixe>>
           jetons == Recharge(seaux[c])
       IN IF jetons >= 60
            THEN /\ seaux' = [seaux EXCEPT ![c] = [jetons |-> jetons - 60, dernier |-> instants]]
                 /\ accordes' = [accordes EXCEPT ![c] = Append(@, instants)]
                 /\ Suivre(i, [appels[i] EXCEPT !.etape = "opa"])
                 /\ UNCHANGED comptes
            ELSE /\ seaux' = [seaux EXCEPT ![c] = [jetons |-> jetons, dernier |-> instants]]
                 /\ Repondre(i, 429, "", "rate_limited")
                 /\ UNCHANGED accordes
    /\ UNCHANGED <<rpm, politiques, instants, decisions>>

\* 3: evaluer asks the policies one after the other; the first that is concerned decides.
Decider(i, avis, par) ==
    IF Op(i).op = "evaluer" THEN Finir(i, IF avis = "ALLOW" THEN 200 ELSE 403, par) /\ UNCHANGED comptes
    ELSE IF avis = "DENY" THEN Repondre(i, 403, par, "opa_refuse")
    ELSE Suivre(i, [appels[i] EXCEPT !.etape = "route"]) /\ UNCHANGED comptes

Consigner(i, avis, par) ==
    decisions' = Append(decisions, [sujet |-> Op(i).sujet, decision |-> avis, politique |-> par])

EvaluerPolitique(i) ==
    /\ Au(i, "opa") /\ appels[i].rang <= Len(politiques)
    /\ LET nom == politiques[appels[i].rang]
           avis == Politique(nom, Op(i))
       IN IF avis = ""
            THEN /\ Suivre(i, [appels[i] EXCEPT !.rang = @ + 1])
                 /\ UNCHANGED <<comptes, decisions>>
            ELSE Consigner(i, avis, nom) /\ Decider(i, avis, nom)
    /\ UNCHANGED <<rpm, politiques, instants, seaux, accordes>>

DefaultDeny(i) ==
    /\ Au(i, "opa") /\ appels[i].rang > Len(politiques)
    /\ Decider(i, "DENY", "default-deny")
    /\ UNCHANGED <<rpm, politiques, instants, seaux, accordes, decisions>>

\* A scenario may ask OPA without the gateway.
Evaluer(i) ==
    /\ Au(i, "pret") /\ Op(i).op = "evaluer"
    /\ Suivre(i, [appels[i] EXCEPT !.etape = "opa", !.bloques = ToSet(politiques)])
    /\ UNCHANGED <<rpm, politiques, instants, seaux, accordes, comptes, decisions>>

\* 4 and 5: the route, and the answer of the service.
Router(i) ==
    /\ Au(i, "route")
    /\ IF Resoudre(Op(i)) THEN Repondre(i, 200, Op(i).chemin, "ok")
       ELSE Repondre(i, 404, "", "not_found")
    /\ UNCHANGED <<rpm, politiques, instants, seaux, accordes, decisions>>

\* scenario_policy_as_code puts a policy before the others; an evaluation under way sees
\* again the one it has seen.
Inserer(nom) == politiques' = <<nom>> \o politiques

Gerer(i) ==
    /\ Au(i, "pret") /\ Op(i).op \in {"inserer", "attendre", "anomalies"}
    /\ CASE Op(i).op = "inserer" -> Inserer(Op(i).nom) /\ UNCHANGED instants
         [] Op(i).op = "attendre" -> instants' = instants + Op(i).duree /\ UNCHANGED politiques
         [] OTHER -> UNCHANGED <<instants, politiques>>
    /\ Finir(i, 0, "")
    /\ UNCHANGED <<rpm, seaux, accordes, comptes, decisions>>

Avancer(i) == \/ Valider(i) \/ Limiter(i) \/ Evaluer(i) \/ EvaluerPolitique(i)
              \/ DefaultDeny(i) \/ Router(i) \/ Gerer(i)

Next == \E i \in DOMAIN appels : Avancer(i)

Spec == Init /\ [][Next]_varsPasserelle

-----------------------------------------------------------------------------
\* The scenarios of simulation.py: a request, with the answer it must get.
Demande(op, sujet, roles, scope, methode, chemin, attendu) ==
    [op |-> op, sujet |-> sujet, roles |-> roles, scope |-> scope, methode |-> methode,
     chemin |-> chemin, fin |-> chemin, ip |-> "externe", contexte |-> {}, jeton |-> TRUE,
     exp |-> 3600, prefixe |-> IF chemin = "health" THEN "root" ELSE "v1", attendu |-> attendu]
Traiter(sujet, roles, scope, methode, chemin, attendu) ==
    Demande("traiter", sujet, roles, scope, methode, chemin, attendu)
Question(sujet, roles, scope, methode, chemin, attendu) ==
    Demande("evaluer", sujet, roles, scope, methode, chemin, attendu)
Mfa(d) == [d EXCEPT !.contexte = {"mfa"}]
Interne(d) == [d EXCEPT !.ip = "interne"]
UnClient(debit, ops) == [rpm |-> debit, clients |-> <<ops>>]

ScenarioPipeline ==
    LET lectures == {"payments:read", "payments:write"}
        Supprimer(attendu) == Traiter("admin", {"admin"}, {"*:*"}, "DELETE", "payments", attendu)
    IN UnClient(60, <<
        Traiter("alice", {"analyst"}, {"analytics:read"}, "GET", "analytics", 200),
        Traiter("bob", {"user"}, lectures, "GET", "payments", 200),
        Traiter("bob", {"user"}, lectures, "POST", "payments", 200),
        Traiter("alice", {"analyst"}, {"analytics:read"}, "GET", "payments", 403),
        Supprimer(403), Mfa(Supprimer(200)),
        [Traiter("expired", {"user"}, {"payments:read"}, "GET", "payments", 401) EXCEPT !.exp = 0],
        Traiter("alice", {"analyst"}, {"analytics:read"}, "GET", "health", 200)>>)

ScenarioPolitiques == UnClient(60, <<
    Interne(Question("alice", {"analyst"}, {"analytics:read"}, "GET", "analytics", 200)),
    Question("bob", {"user"}, {"analytics:read"}, "GET", "analytics", 200),
    Question("charlie", {"user"}, {"payments:write"}, "POST", "payments", 200),
    Question("dave", {"user"}, {}, "GET", "payments", 403),
    Mfa(Interne(Question("eve", {"admin"}, {}, "DELETE", "payments", 200))),
    Interne(Question("frank", {"admin"}, {}, "DELETE", "payments", 403)),
    Question("hacker", {"user"}, {"payments:read"}, "GET", "internal", 403),
    Interne(Question("svc", {"service"}, {"payments:read"}, "GET", "internal", 200))>>)

\* Ten of fifteen requests; six seconds later one more.
ScenarioRateLimiting == UnClient(10,
    [i \in 1..15 |-> Traiter("client-test", {"user"}, {"payments:read"}, "GET", "payments",
                             IF i <= 10 THEN 200 ELSE 429)]
    \o <<[op |-> "attendre", duree |-> 6],
         Traiter("client-test", {"user"}, {"payments:read"}, "GET", "payments", 200),
         Traiter("client-test", {"user"}, {"payments:read"}, "GET", "payments", 429)>>)

Urgence == [op |-> "inserer", nom |-> "blocage-urgence"]

ScenarioPolicyAsCode ==
    LET Tester(attendu) == <<
            Interne(Question("reports-service", {"service"}, {"analytics:read"}, "GET",
                             "analytics", attendu)),
            Interne(Question("analytics-service", {"service", "analyst"}, {"analytics:read"},
                             "GET", "analytics", 200))>>
    IN UnClient(60, Tester(200) \o <<Urgence>> \o Tester(403))

\* Of all the subjects one is refused more than once.
ScenarioAudit ==
    LET Chacun(methode, attendu) == [i \in 1..5 |-> Interne(
            Traiter(<<"user_0", "user_1", "user_2", "user_3", "user_4">>[i], {"user"},
                    {"payments:read"}, methode, "payments", attendu))]
        Refus(chemin) == [i \in 1..3 |-> Interne(Traiter("hacker", {"user"}, {}, "GET", chemin, 403))]
    IN UnClient(1000, Chacun("GET", 200) \o Chacun("POST", 403)
            \o <<Interne(Traiter("alice", {"analyst"}, {"analytics:read"}, "GET", "analytics", 200))>>
            \o Refus("payments") \o Refus("analytics")
            \o <<[op |-> "anomalies", sujets |-> {"hacker"}]>>)

-----------------------------------------------------------------------------
\* However they are spread, no key gets more requests through in a time than a full bucket
\* and what that time brings back.
SeauBorne == \A c \in ClesSeau : \A j, k \in DOMAIN accordes[c] :
    j <= k => 60 * (k - j + 1) <= 60 * rpm + rpm * (accordes[c][k] - accordes[c][j])

\* Every request that is no longer under way is counted once, under one issue.
ComptesJustes ==
    comptes["total"] = Cardinality({i \in DOMAIN appels :
                            appels[i].etape # "pret" /\ Op(i).op = "traiter"})
                       + MapThenSumSet(LAMBDA x : comptes[x], Issues)

\* audit_log(20), and the subjects it shows refused more than once.
Recents == SubSeq(decisions, Max({1, Len(decisions) - 19}), Len(decisions))
Anomalies == {s \in Sujets : Cardinality({k \in DOMAIN Recents :
                  Recents[k].sujet = s /\ Recents[k].decision = "DENY"}) > 1}

\* The access the policies are meant to give: the emergency first, then who may do what.
Droit(r, noms) ==
    IF "blocage-urgence" \in noms /\ r.sujet = "reports-service" THEN FALSE
    ELSE \/ r.fin = "health" /\ r.methode = "GET"
         \/ "admin" \in r.roles /\ (r.methode = "DELETE" => "mfa" \in r.contexte)
         \/ /\ "admin" \notin r.roles
            /\ \/ r.chemin = "payments" /\ r.methode = "GET"
                    /\ ("payments:read" \in r.scope \/ "read:payments" \in r.roles)
               \/ r.chemin = "payments" /\ r.methode \in {"POST", "PUT", "PATCH"}
                    /\ "payments:write" \in r.scope
               \/ r.chemin = "analytics" /\ r.methode = "GET"
                    /\ ("analytics:read" \in r.scope \/ "analyst" \in r.roles)
               \/ r.chemin = "internal" /\ r.ip = "interne"

\* A request gets through with the right to it, under the policies there were when it came,
\* or those of the time of its answer: a block holds for all the requests that come after it.
AccesFidele == [][\A i \in DOMAIN appels :
    appels'[i].suite # appels[i].suite /\ Op(i).op \in {"traiter", "evaluer"} =>
      LET s == appels'[i].reponse.statut IN
      /\ s \in {200, 404} => Droit(Op(i), appels[i].bloques)
      /\ s = 403 => ~Droit(Op(i), ToSet(politiques))]_varsPasserelle

\* What the scenarios say of the answers.
BilanPasserelle == [][\A i \in DOMAIN appels :
    appels'[i].suite # appels[i].suite =>
      /\ Op(i).op \in {"traiter", "evaluer"} /\ Op(i).attendu # 0
           => appels'[i].reponse.statut = Op(i).attendu
      /\ Op(i).op = "anomalies" => Anomalies = Op(i).sujets]_varsPasserelle

\* Every decision of OPA is in its log.
JournalComplet == [][\A i \in DOMAIN appels :
    appels[i].etape = "opa" /\ appels'[i].etape # "opa"
      => Len(decisions') = Len(decisions) + 1]_varsPasserelle
=============================================================================
