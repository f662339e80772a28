-------------------------------- MODULE Saga --------------------------------
(***************************************************************************)
(* Sagas of jour20-saga/saga.py over shared services: the choreography     *)
(* (one thread per event and handler) and the orchestrator (one loop).     *)
(*                                                                         *)
(* A saga has at most one thread at work: a handler publishes its event    *)
(* last and the event starts the next one.  What sagas share is the state  *)
(* of the services, so a call to a service, under its lock, is one action  *)
(* together with the handler's note and event.                             *)
(*                                                                         *)
(* Permis: "concurrence", sagas overlap and follow each other on the same  *)
(* services; "echec_notif", the orchestrator's last step may fail.         *)
(***************************************************************************)
EXTENDS Integers, Sequences

CONSTANTS Sagas,
          Orchestrees,  \* the sagas that a SagaOrchestrator runs
          Personne,     \* no entry in a service
          Permis

\* What the constants are.
SagaAssumption == Personne \notin Sagas /\ Permis \subseteq {"concurrence", "echec_notif"}

VARIABLES
    entrees,        \* ServiceSimule._etat: command -> the saga it is for
    etat_saga,      \* _sagas[commande_id]["etat"], or what executer returned
    etape,          \* the step whose event, or turn in the loop, has come
    etapes_ok,      \* the steps that succeeded
    a_compenser,    \* the compensations still to run, in their order
    derniere        \* history: the saga launched last

vars == <<entrees, etat_saga, etape, etapes_ok, a_compenser, derniere>>

\* The commands of the steps: the handlers', and the list given to the
\* orchestrator.
Etapes(s) ==
    IF s \in Orchestrees
    THEN <<"RESERVER_STOCK", "DEBITER_PAIEMENT", "CREER_EXPEDITION", "ENVOYER_CONFIRMATION">>
    ELSE <<"RESERVER_STOCK", "DEBITER_CARTE", "CREER_EXPEDITION", "ENVOYER_EMAIL">>

Commandes == {"RESERVER_STOCK", "DEBITER_PAIEMENT", "DEBITER_CARTE",
              "CREER_EXPEDITION", "ENVOYER_CONFIRMATION", "ENVOYER_EMAIL"}

\* Mutant: the payment of the orchestrator is not compensated.
Compensables_SansPaiement == {"RESERVER_STOCK", "DEBITER_CARTE"}

\* EtapeSaga.compensation is not None; shipments and mails have none.
Compensables == {"RESERVER_STOCK", "DEBITER_PAIEMENT", "DEBITER_CARTE"}

Finales == {"SUCCES", "COMPENSEE", "ECHOUEE"}

-----------------------------------------------------------------------------
Init ==
    /\ entrees = [k \in Commandes |-> Personne]
    /\ etat_saga = [s \in Sagas |-> "absente"]
    /\ etape = [s \in Sagas |-> 0]
    /\ etapes_ok = [s \in Sagas |-> <<>>]
    /\ a_compenser = [s \in Sagas |-> <<>>]
    /\ derniere = Personne

\* lancer, and the beginning of SagaOrchestrator.executer.
Lancer(s) ==
    /\ etat_saga[s] = "absente"
    /\ "concurrence" \in Permis
       \/ \A r \in Sagas : etat_saga[r] \in Finales \union {"absente"}
    /\ etat_saga' = [etat_saga EXCEPT ![s] = "EN_COURS"]
    /\ etape' = [etape EXCEPT ![s] = 1]
    /\ derniere' = s
    /\ UNCHANGED <<entrees, etapes_ok, a_compenser>>

Commande(s) == Etapes(s)[etape[s]]
EnCours(s) == etat_saga[s] = "EN_COURS" /\ etape[s] \in 1..4

\* The step succeeds: ServiceSimule.executer, then the next event, or the end.
Reussir(s) ==
    /\ EnCours(s)
    /\ entrees' = [entrees EXCEPT ![Commande(s)] = s]
    /\ etapes_ok' = [etapes_ok EXCEPT ![s] = Append(@, Commande(s))]
    /\ etape' = [etape EXCEPT ![s] = @ + 1]
    /\ etat_saga' = [etat_saga EXCEPT ![s] = IF etape[s] = 4 THEN "SUCCES" ELSE @]
    /\ UNCHANGED <<a_compenser, derniere>>

\* reversed(etapes_ok) without the steps that have no compensation, and the calls in
\* _on_expedition_echec.
OrdreCompensation(q) ==
    LET f[i \in 0..Len(q)] ==
            IF i = 0 THEN <<>>
            ELSE IF q[i] \in Compensables THEN <<q[i]>> \o f[i - 1] ELSE f[i - 1]
    IN  f[Len(q)]

\* The step fails: what succeeded and has a compensation is to be undone.  A
\* first step that fails ends the saga.
Echouer(s) ==
    /\ EnCours(s)
    /\ etape[s] = 4 => s \in Orchestrees /\ "echec_notif" \in Permis
    /\ etat_saga' = [etat_saga EXCEPT ![s] = IF etape[s] = 1 THEN "ECHOUEE"
                                             ELSE "EN_COMPENSATION"]
    /\ a_compenser' = [a_compenser EXCEPT ![s] = OrdreCompensation(etapes_ok[s])]
    /\ UNCHANGED <<entrees, etape, etapes_ok, derniere>>

\* _on_expedition_ok: the result of the mail is not looked at.
IgnorerEchecNotif(s) ==
    /\ EnCours(s) /\ etape[s] = 4 /\ s \notin Orchestrees
    /\ etat_saga' = [etat_saga EXCEPT ![s] = "SUCCES"]
    /\ etape' = [etape EXCEPT ![s] = 5]
    /\ UNCHANGED <<entrees, etapes_ok, a_compenser, derniere>>

\* self._etat.pop(commande, None).
Oter(k) == [entrees EXCEPT ![k] = Personne]

\* ServiceSimule.compenser, whoever the entry belongs to.
Compenser(s) ==
    /\ etat_saga[s] = "EN_COMPENSATION"
    /\ a_compenser[s] # <<>>
    /\ entrees' = Oter(Head(a_compenser[s]))
    /\ a_compenser' = [a_compenser EXCEPT ![s] = Tail(@)]
    /\ UNCHANGED <<etat_saga, etape, etapes_ok, derniere>>

\* Mutant: only the orchestrator ends a saga that was undone.
FinirCompensation_SansChoregraphie(s) ==
    /\ s \in Orchestrees
    /\ etat_saga[s] = "EN_COMPENSATION"
    /\ a_compenser[s] = <<>>
    /\ etat_saga' = [etat_saga EXCEPT ![s] = "COMPENSEE"]
    /\ UNCHANGED <<entrees, etape, etapes_ok, a_compenser, derniere>>

\* _finir(COMPENSEE), and executer returns False.
FinirCompensation(s) ==
    /\ etat_saga[s] = "EN_COMPENSATION"
    /\ a_compenser[s] = <<>>
    /\ etat_saga' = [etat_saga EXCEPT ![s] = "COMPENSEE"]
    /\ UNCHANGED <<entrees, etape, etapes_ok, a_compenser, derniere>>

Avancer(s) == Reussir(s) \/ Echouer(s) \/ IgnorerEchecNotif(s)
              \/ Compenser(s) \/ FinirCompensation(s)

Next == \E s \in Sagas : Lancer(s) \/ Avancer(s)

Spec == Init /\ [][Next]_vars

\* Threads go on and services answer.
FairSpec == Spec /\ \A s \in Sagas : WF_vars(Avancer(s))

-----------------------------------------------------------------------------
\* Type correctness.
TypeOK ==
    /\ entrees \in [Commandes -> Sagas \union {Personne}]
    /\ etat_saga \in [Sagas -> Finales \union {"absente", "EN_COURS", "EN_COMPENSATION"}]
    /\ etape \in [Sagas -> 0..5]
    /\ etapes_ok \in [Sagas -> Seq(Commandes)]
    /\ a_compenser \in [Sagas -> Seq(Commandes)]
    /\ derniere \in Sagas \union {Personne}

\* What a saga has in the services, as steps of its own.
Faites(s) == {i \in 1..4 : entrees[Etapes(s)[i]] = s}

\* "En cas d'echec -> compensations": the saga launched last, once it has
\* ended, has its first three steps in the services, or nothing.
ToutOuRien == derniere # Personne =>
    /\ etat_saga[derniere] = "SUCCES" => 1..3 \subseteq Faites(derniere)
    /\ etat_saga[derniere] \in {"COMPENSEE", "ECHOUEE"} => Faites(derniere) = {}

\* "On ne peut pas liberer le stock avant d'avoir annule le paiement": what the
\* last saga has in the services is at any moment a prefix of its steps.
EtapesEnPrefixe == derniere # Personne =>
    \A i \in 2..3 : i \in Faites(derniere) => i - 1 \in Faites(derniere)

\* A saga that was undone leaves nothing of its own in the services, however
\* many others run and are undone on them.
SagaDefaite == \A s \in Sagas :
    etat_saga[s] \in {"COMPENSEE", "ECHOUEE"} => Faites(s) = {}

\* Every saga comes to an end, all of it done or undone.
SagaTerminee == \A s \in Sagas :
    etat_saga[s] = "EN_COURS" ~> etat_saga[s] \in Finales
=============================================================================
