------------------------------ MODULE ZeroTrust ------------------------------
(***************************************************************************)
(* Zero trust (jour24-zerotrust): a call is mutual TLS, then the policies  *)
(* in their order.  The certificate of the server is verified first, then  *)
(* that of the client; certificates expire, are revoked and are replaced   *)
(* while calls are under way.                                              *)
(*                                                                         *)
(* A certificate is told by its service, the authority that signed it, its *)
(* times and its print (the HMAC of service and time, a number here); the  *)
(* flag revoque is left out, for verifier looks at _revokes before it.     *)
(* The count of a verdict has no lock and is a step, as in Passerelle.     *)
(***************************************************************************)
EXTENDS Integers, Sequences, FiniteSets, SequencesExt

CONSTANTS Services,    \* the services of a programme are among them
          Programmes   \* each a sequence of clients, each what it does

ZeroTrustAssumption == \A p \in Programmes : Len(p) > 0

VARIABLES
    heure,      \* the clock, in minutes
    emis,       \* _emis: the last certificate the authority made for a service
    revokes,    \* _revokes
    porte,      \* the certificate each service presents (_cert of its agent)
    signatures, \* the number of certificates made, _stats["emis"] among them
    audit,      \* _log of the policy engine
    verdicts,   \* its _stats
    acces       \* each client: where its call is and what it has still to do

varsZeroTrust == <<heure, emis, revokes, porte, signatures, audit, verdicts, acces>>

Autorites == {"acme-ca", "hacker-ca"}
Aucun == [sujet |-> "", emetteur |-> "", depuis |-> 0, expire |-> 0, empreinte |-> 0]

TypeOK ==
    /\ heure \in Nat /\ signatures \in Nat
    /\ \A s \in Services : emis[s] # Aucun => emis[s].emetteur = "acme-ca" /\ emis[s].sujet = s
    /\ revokes \subseteq {s \in Services : emis[s] # Aucun}
    /\ \A s \in Services : porte[s] # Aucun =>
         porte[s].emetteur \in Autorites /\ porte[s].empreinte \in 1..signatures
    /\ verdicts \in [{"autorise", "refuse"} -> Nat]
    /\ \A i \in DOMAIN acces :
         acces[i].etape \in {"pret", "client", "politique", "rotation"}

Init ==
    /\ heure = 0
    /\ emis = [s \in Services |-> Aucun]
    /\ revokes = {}
    /\ porte = [s \in Services |-> Aucun]
    /\ signatures = 0
    /\ audit = <<>>
    /\ verdicts = [v \in {"autorise", "refuse"} |-> 0]
    /\ \E p \in Programmes : acces = [i \in DOMAIN p |->
           [suite |-> p[i], etape |-> "pret", presentes |-> <<Aucun, Aucun>>,
            bannis |-> {}, debut |-> 0, reponse |-> ""]]

-----------------------------------------------------------------------------
\* AutoriteCertification.emettre
Certificat(s, autorite, duree) ==
    [sujet |-> s, emetteur |-> autorite, depuis |-> heure, expire |-> heure + duree,
     empreinte |-> signatures + 1]

EstValide(c) == c.depuis <= heure /\ heure <= c.expire

\* AutoriteCertification.verifier: the first reason there is to refuse a certificate.
Verifier(c) ==
    CASE c.emetteur # "acme-ca" -> "emetteur"
      [] c.emetteur = "acme-ca" /\ emis[c.sujet] = Aucun -> "inconnu"
      [] c.emetteur = "acme-ca" /\ c.sujet \in revokes -> "revoque"
      [] c.emetteur = "acme-ca" /\ c.sujet \notin revokes /\ ~EstValide(c) -> "expire"
      [] OTHER -> IF emis[c.sujet].empreinte = c.empreinte THEN "OK" ELSE "empreinte"

\* The policies of creer_infrastructure: what each says of a request, "" if not concerned.
Si(condition, avis) == IF condition THEN avis ELSE ""
Avis(condition) == IF condition THEN "autorise" ELSE "refuse"
Politiques == <<"data-users-acl", "kafka-payments-acl", "admin-destructive", "health-check">>

Politique(nom, r) ==
    CASE nom = "data-users-acl" ->
           Si(r.ressource = "users" /\ r.action = "GET",
              Avis(r.sujet \in {"analytics", "billing", "recommendations"}))
      [] nom = "kafka-payments-acl" ->
           Si(r.ressource = "kafka" /\ r.action \in {"PRODUCE", "CONSUME"},
              Avis(r.sujet \in IF r.action = "PRODUCE" THEN {"payments"}
                                                       ELSE {"fraud", "analytics"}))
      [] nom = "admin-destructive" ->
           Si(r.action \in {"DELETE", "TRUNCATE", "DROP"}, Avis(r.sujet = "admin" /\ r.mfa))
      [] nom = "health-check" -> Si(r.ressource = "health" /\ r.action = "GET", "autorise")

-----------------------------------------------------------------------------
Op(i) == Head(acces[i].suite)
Au(i, etape) == acces[i].suite # <<>> /\ acces[i].etape = etape
Finir(i, reponse) ==
    acces' = [acces EXCEPT ![i].etape = "pret", ![i].suite = Tail(@), ![i].reponse = reponse]

\* emettre, for whoever asks the authority; an attacker has an authority of its own.
Emettre(s, autorite, duree) ==
    LET c == Certificat(s, autorite, duree) IN
    /\ signatures' = signatures + 1
    /\ emis' = IF autorite = "acme-ca" THEN [emis EXCEPT ![s] = c] ELSE emis

Obtenir(i) ==
    /\ Au(i, "pret") /\ Op(i).op = "emettre"
    /\ Emettre(Op(i).service, Op(i).autorite, Op(i).duree)
    /\ porte' = [porte EXCEPT ![Op(i).service] =
                   Certificat(Op(i).service, Op(i).autorite, Op(i).duree)]
    /\ Finir(i, "")
    /\ UNCHANGED <<heure, revokes, audit, verdicts>>

Revoquer(i) ==
    /\ Au(i, "pret") /\ Op(i).op = "revoquer"
    /\ revokes' = revokes \union {s \in {Op(i).service} : emis[s] # Aucun}
    /\ Finir(i, "")
    /\ UNCHANGED <<heure, emis, porte, signatures, audit, verdicts>>

\* renouveler_cert: the authority makes the certificate, then the agent takes it.
Renouveler(i) ==
    /\ Au(i, "pret") /\ Op(i).op = "renouveler"
    /\ Emettre(Op(i).service, "acme-ca", Op(i).duree)
    /\ acces' = [acces EXCEPT ![i].etape = "rotation", ![i].presentes =
                   <<Certificat(Op(i).service, "acme-ca", Op(i).duree), Aucun>>]
    /\ UNCHANGED <<heure, revokes, porte, audit, verdicts>>

Installer(i) ==
    /\ Au(i, "rotation")
    /\ porte' = [porte EXCEPT ![Op(i).service] = acces[i].presentes[1]]
    /\ Finir(i, "")
    /\ UNCHANGED <<heure, emis, revokes, signatures, audit, verdicts>>

\* HandshakeMTLS.connecter: the certificate of the server, then that of the client; without
\* the policies when a scenario asks for the handshake alone.
VerifierServeur(i) ==
    /\ Au(i, "pret") /\ Op(i).op \in {"appeler", "connecter"}
    /\ LET avis == Verifier(porte[Op(i).serveur])
           debut == [acces[i] EXCEPT !.bannis = revokes, !.debut = heure,
                       !.presentes = <<porte[Op(i).serveur], porte[Op(i).sujet]>>]
       IN acces' = [acces EXCEPT ![i] =
            IF avis = "OK" THEN [debut EXCEPT !.etape = "client"]
            ELSE [debut EXCEPT !.suite = Tail(@), !.reponse = avis]]
    /\ UNCHANGED <<heure, emis, revokes, porte, signatures, audit, verdicts>>

VerifierClient(i) ==
    /\ Au(i, "client")
    /\ LET avis == Verifier(acces[i].presentes[2]) IN
       IF avis = "OK" /\ Op(i).op = "appeler"
         THEN acces' = [acces EXCEPT ![i].etape = "politique"]
         ELSE Finir(i, avis)
    /\ UNCHANGED <<heure, emis, revokes, porte, signatures, audit, verdicts>>

\* MoteurPolitique.evaluer: the first policy that is concerned decides; the default is to
\* refuse, and that is counted but not logged.
Evaluer(i) ==
    /\ Au(i, "politique")
    /\ LET concernees == SelectSeq(Politiques, LAMBDA nom : Politique(nom, Op(i)) # "")
           avis == IF concernees = <<>> THEN "refuse" ELSE Politique(concernees[1], Op(i))
       IN /\ verdicts' = [verdicts EXCEPT ![avis] = @ + 1]
          /\ audit' = IF concernees = <<>> THEN audit ELSE
                        Append(audit, [sujet |-> Op(i).sujet, decision |-> avis])
          /\ Finir(i, avis)
    /\ UNCHANGED <<heure, emis, revokes, porte, signatures>>

Attendre(i) ==
    /\ Au(i, "pret") /\ Op(i).op \in {"attendre", "bilan"}
    /\ heure' = IF Op(i).op = "attendre" THEN heure + Op(i).duree ELSE heure
    /\ Finir(i, "")
    /\ UNCHANGED <<emis, revokes, porte, signatures, audit, verdicts>>

Next == \E i \in DOMAIN acces :
    \/ Obtenir(i) \/ Revoquer(i) \/ Renouveler(i) \/ Installer(i) \/ VerifierServeur(i)
    \/ VerifierClient(i) \/ Evaluer(i) \/ Attendre(i)

Spec == Init /\ [][Next]_varsZeroTrust

-----------------------------------------------------------------------------
\* The scenarios of simulation.py, each call with the answer it shows.
Emission(s) == [op |-> "emettre", service |-> s, autorite |-> "acme-ca", duree |-> 60]
Appel(sujet, serveur, action, ressource, attendu) ==
    [op |-> "appeler", sujet |-> sujet, serveur |-> serveur, action |-> action,
     ressource |-> ressource, mfa |-> FALSE, attendu |-> attendu]
Connexion(sujet, serveur, attendu) ==
    [op |-> "connecter", sujet |-> sujet, serveur |-> serveur, attendu |-> attendu]
Mfa(a) == [a EXCEPT !.mfa = TRUE]
Rotation(s) == [op |-> "renouveler", service |-> s, duree |-> 60]
Agents(noms) == [k \in DOMAIN noms |-> Emission(noms[k])]

\* Two pairs of services of good faith, then a revoked certificate, one that has expired and
\* one of another authority.
ScenarioMtls == <<
    Agents(<<"payments", "analytics", "fraud", "compromised">>)
    \o <<[op |-> "revoquer", service |-> "compromised"],
         [Emission("old") EXCEPT !.duree = -1],
         [Emission("fake") EXCEPT !.autorite = "hacker-ca"],
         Connexion("payments", "analytics", "OK"), Connexion("analytics", "fraud", "OK"),
         Connexion("compromised", "payments", "revoque"),
         Connexion("old", "analytics", "expire"),
         Connexion("fake", "analytics", "emetteur")>>>>

ScenarioPolitiques == <<
    Agents(<<"payments", "analytics", "fraud", "billing", "recommendations", "rogue", "admin">>)
    \o <<Appel("analytics", "payments", "GET", "users", "autorise"),
         Appel("rogue", "payments", "GET", "users", "refuse"),
         Appel("payments", "fraud", "PRODUCE", "kafka", "autorise"),
         Appel("rogue", "fraud", "PRODUCE", "kafka", "refuse"),
         Appel("fraud", "analytics", "CONSUME", "kafka", "autorise"),
         Mfa(Appel("admin", "payments", "DELETE", "users", "autorise")),
         Appel("admin", "payments", "DELETE", "users", "refuse"),
         Appel("payments", "analytics", "GET", "health", "autorise")>>>>

\* One certificate, a rotation that shows both, and ten more.
ScenarioRotation == <<Agents(<<"payments">>) \o [k \in 1..11 |-> Rotation("payments")]>>

ScenarioLateral == <<
    Agents(<<"recommendations", "payments", "admin", "analytics">>)
    \o <<Appel("recommendations", "payments", "GET", "autre", "refuse"),
         Appel("recommendations", "payments", "PRODUCE", "kafka", "refuse"),
         Appel("recommendations", "admin", "DELETE", "users", "refuse"),
         Appel("recommendations", "analytics", "GET", "users", "autorise"),
         Appel("recommendations", "analytics", "GET", "health", "autorise")>>>>

ScenarioAudit == <<
    Agents(<<"payments", "analytics", "fraud", "rogue", "admin">>)
    \o <<Appel("analytics", "payments", "GET", "users", "autorise"),
         Appel("payments", "fraud", "PRODUCE", "kafka", "autorise"),
         Appel("fraud", "analytics", "CONSUME", "kafka", "autorise"),
         Appel("rogue", "payments", "GET", "users", "refuse"),
         Appel("rogue", "payments", "PRODUCE", "kafka", "refuse"),
         Mfa(Appel("admin", "payments", "DELETE", "users", "autorise")),
         Appel("analytics", "fraud", "GET", "health", "autorise"),
         Appel("rogue", "analytics", "DELETE", "users", "refuse"),
         [op |-> "bilan", autorise |-> 5, refuse |-> 3, suspects |-> {"rogue"}]>>>>

-----------------------------------------------------------------------------
\* Who may do what, as the policies are described.
Droits ==
    ({"analytics", "billing", "recommendations"} \X {"GET"} \X {"users"})
    \union {<<"payments", "PRODUCE", "kafka">>}
    \union ({"fraud", "analytics"} \X {"CONSUME"} \X {"kafka"})
    \union (Services \X {"GET"} \X {"health"})
Autorise(r) == \/ <<r.sujet, r.action, r.ressource>> \in Droits
               \/ r.sujet = "admin" /\ r.mfa /\ r.action \in {"DELETE", "TRUNCATE", "DROP"}

Fini(i) == acces'[i].suite # acces[i].suite /\ Op(i).op \in {"appeler", "connecter"}

\* A call is let through only for two services the authority knows, neither of which was
\* revoked when it began or had expired by then, to do what the first has the right to do.
AccesDeDroit == [][\A i \in DOMAIN acces :
    Fini(i) /\ acces'[i].reponse = "autorise" =>
      /\ Autorise(Op(i))
      /\ \A k \in 1..2 : LET c == acces[i].presentes[k] IN
           /\ c.emetteur = "acme-ca" /\ c.depuis <= heure /\ acces[i].debut <= c.expire
           /\ c.sujet \notin acces[i].bannis
      /\ acces[i].presentes[2].sujet = Op(i).sujet]_varsZeroTrust

\* A certificate of this authority, in its time and not revoked, is accepted: the old one
\* and the new one of a rotation coexist.
RotationSansCoupure == [][\A i \in DOMAIN acces :
    Fini(i) /\ acces'[i].reponse = "empreinte" =>
      \E k \in 1..2 : LET c == acces'[i].presentes[k] IN
        ~EstValide(c) \/ c.sujet \in revokes]_varsZeroTrust

\* The answers and the audits of the scenarios.
BilanZeroTrust == [][\A i \in DOMAIN acces : acces'[i].suite # acces[i].suite =>
    CASE Op(i).op \in {"appeler", "connecter"} -> Op(i).attendu \in {"", acces'[i].reponse}
      [] Op(i).op = "bilan" ->
           /\ verdicts = [autorise |-> Op(i).autorise, refuse |-> Op(i).refuse]
           /\ {audit[k].sujet : k \in {k \in DOMAIN audit : audit[k].decision = "refuse"}}
                = Op(i).suspects
      [] OTHER -> TRUE]_varsZeroTrust
=============================================================================
