----------------------------- MODULE Evenements -----------------------------
(***************************************************************************)
(* Event sourcing, jour19-event-sourcing/event_sourcing.py: EventStore,    *)
(* the aggregate Compte and ProjectionSoldes, for one account.             *)
(*                                                                         *)
(* A command checks the aggregate's state, appends under the store's lock, *)
(* then applies the event to the aggregate and may save a snapshot; every  *)
(* subscriber is called in a thread of its own.  Permis:                   *)
(*   "partage"        threads share one Compte object                      *)
(*   "desordre"       the thread of the opening event is overtaken         *)
(*   "reconstruction" the projection is rebuilt while events arrive        *)
(***************************************************************************)
EXTENDS Integers, Sequences, SequencesExt

CONSTANTS Fils,             \* the threads
          Montants, Soldes, \* amounts, opening balances
          SEUIL_SNAPSHOT,
          Permis,
          MaxEvenements     \* bound: commands stop there

\* What the constants are.
EvenementsAssumption ==
    /\ Montants \subseteq Nat \ {0} /\ Soldes \subseteq Nat
    /\ SEUIL_SNAPSHOT \in Nat \ {0}
    /\ MaxEvenements \in Nat

VARIABLES
    stream,     \* EventStore._streams of the account
    snapshot,   \* EventStore._snapshots of the account, <<>> if none
    objets,     \* Compte: solde, suspendu, version
    phase, commande,
    notifs,     \* the versions whose subscriber has not run yet
    projection, \* ProjectionSoldes._soldes of the account
    types,      \* reconstruire_depuis: the event types still to read
    a_rejouer   \* and the events read and not yet applied

fils    == <<phase, commande>>
lecture == <<notifs, projection, types, a_rejouer>>
vars == <<stream, snapshot, objets, fils, lecture>>

\* The Compte object of a thread.
Objet(f) == IF "partage" \in Permis THEN CHOOSE g \in Fils : TRUE ELSE f

\* Compte.__init__.
Vide == [solde |-> 0, suspendu |-> FALSE, version |-> 0]

\* Compte._apply, the account's data.
Applique(e, c) ==
    [c EXCEPT !.solde = CASE e.type = "CompteOuvert"  -> e.montant
                          [] e.type = "CompteDebite"  -> @ - e.montant
                          [] e.type = "CompteCredite" -> @ + e.montant
                          [] OTHER -> @,
              !.suspendu = CASE e.type = "CompteSuspendu" -> TRUE
                             [] e.type = "CompteReactive" -> FALSE
                             [] OTHER -> @]

\* Compte._apply, and the version.
Avance(c, e) == [Applique(e, c) EXCEPT !.version = @ + 1]

\* Replay of the events of s from the account c.
Rejeu(s, c) == FoldLeft(Avance, c, s)

-----------------------------------------------------------------------------
Init ==
    /\ stream = <<>>
    /\ snapshot = <<>>
    /\ objets = [f \in Fils |-> Vide]
    /\ phase = [f \in Fils |-> "repos"]
    /\ commande = [f \in Fils |-> <<>>]
    /\ notifs = {}
    /\ projection = 0
    /\ types = <<>>
    /\ a_rejouer = <<>>

Aller(f, etape) == phase' = [phase EXCEPT ![f] = etape]

Evt(t, m) == [type |-> t, montant |-> m]

\* The events the business methods accept to record for an account in state c.
Autorises(c) ==
    (IF stream = <<>> THEN {Evt("CompteOuvert", m) : m \in Soldes} ELSE {})
    \union (IF c.suspendu THEN {Evt("CompteReactive", 0)}
            ELSE {Evt("CompteSuspendu", 0)}
                 \union {Evt("CompteCredite", m) : m \in Montants}
                 \union {Evt("CompteDebite", m) : m \in {n \in Montants : c.solde >= n}})

\* ouvrir, debiter, crediter, suspendre, reactiver: the checks.
Commander(f) ==
    /\ phase[f] = "repos"
    /\ Len(stream) < MaxEvenements
    /\ \E e \in Autorises(objets[Objet(f)]) : commande' = [commande EXCEPT ![f] = e]
    /\ Aller(f, "append")
    /\ UNCHANGED <<stream, snapshot, objets, lecture>>

\* Mutant: an append at or after the expected version.
VersionAttendue_Depassee(f) == Len(stream) >= objets[Objet(f)].version

VersionAttendue(f) == Len(stream) = objets[Objet(f)].version

\* The event types the projection subscribed to.
Suivis == {"CompteOuvert", "CompteDebite", "CompteCredite"}

\* appendre; a conflict is an exception, and the command is over.
Appendre(f) ==
    /\ phase[f] = "append"
    /\ (types = <<>> /\ a_rejouer = <<>>) \/ "reconstruction" \in Permis
    /\ IF VersionAttendue(f)
       THEN /\ stream' = Append(stream, commande[f])
            /\ notifs' = IF commande[f].type \in Suivis
                         THEN notifs \union {Len(stream)} ELSE notifs
            /\ Aller(f, "etat")
       ELSE Aller(f, "repos") /\ UNCHANGED <<stream, notifs>>
    /\ UNCHANGED <<snapshot, objets, commande, projection, types, a_rejouer>>

\* _apply on the aggregate, the data first and the version after.
AppliquerEtat(f) ==
    /\ phase[f] = "etat"
    /\ objets' = [objets EXCEPT ![Objet(f)] = Applique(commande[f], @)]
    /\ Aller(f, "version")
    /\ UNCHANGED <<stream, snapshot, commande, lecture>>

AppliquerVersion(f) ==
    /\ phase[f] = "version"
    /\ objets' = [objets EXCEPT ![Objet(f)].version = @ + 1]
    /\ Aller(f, IF objets'[Objet(f)].version % SEUIL_SNAPSHOT = 0 THEN "snapshot"
                ELSE "repos")
    /\ UNCHANGED <<stream, snapshot, commande, lecture>>

Image(c) == <<c>>

\* _snapshot_si_necessaire.
Sauver(f) ==
    /\ phase[f] = "snapshot"
    /\ snapshot' = Image(objets[Objet(f)])
    /\ Aller(f, "repos")
    /\ UNCHANGED <<stream, objets, commande, lecture>>

\* Compte.__init__, _recharger: the snapshot, then the events after it.
ChargerSnapshot(f) ==
    /\ phase[f] = "repos" /\ "partage" \notin Permis
    /\ objets[f].version # Len(stream)
    /\ objets' = [objets EXCEPT ![f] = IF snapshot = <<>> THEN Vide ELSE snapshot[1]]
    /\ Aller(f, "relire")
    /\ UNCHANGED <<stream, snapshot, commande, lecture>>

LireStream(f) ==
    /\ phase[f] = "relire"
    /\ objets' = [objets EXCEPT ![f] =
                    Rejeu(SubSeq(stream, objets[f].version + 1, Len(stream)), @)]
    /\ Aller(f, "repos")
    /\ UNCHANGED <<stream, snapshot, commande, lecture>>

-----------------------------------------------------------------------------
\* _on_ouvert, _on_debite, _on_credite.
Projete(e, s) == Applique(e, [Vide EXCEPT !.solde = s]).solde

\* The threads of the subscribers run in any order; see "desordre".
Suivant(v) == 0 \in notifs => v = 0 \/ "desordre" \in Permis

Notifier(v) ==
    /\ v \in notifs /\ Suivant(v)
    /\ projection' = Projete(stream[v + 1], projection)
    /\ notifs' = notifs \ {v}
    /\ UNCHANGED <<stream, snapshot, objets, fils, types, a_rejouer>>

EnReconstruction == types # <<>> \/ a_rejouer # <<>>

\* reconstruire_depuis: clear, then one type of events after the other.
Reconstruire ==
    /\ ~EnReconstruction
    /\ stream # <<>>
    /\ notifs = {} \/ "reconstruction" \in Permis
    /\ projection' = 0
    /\ types' = <<"CompteOuvert", "CompteDebite", "CompteCredite">>
    /\ UNCHANGED <<stream, snapshot, objets, fils, notifs, a_rejouer>>

LireType ==
    /\ types # <<>> /\ a_rejouer = <<>>
    /\ a_rejouer' = SelectSeq(stream, LAMBDA e : e.type = Head(types))
    /\ types' = Tail(types)
    /\ UNCHANGED <<stream, snapshot, objets, fils, notifs, projection>>

RejouerUn ==
    /\ a_rejouer # <<>>
    /\ projection' = Projete(Head(a_rejouer), projection)
    /\ a_rejouer' = Tail(a_rejouer)
    /\ UNCHANGED <<stream, snapshot, objets, fils, notifs, types>>

Next ==
    \/ \E f \in Fils : \/ Commander(f) \/ Appendre(f) \/ AppliquerEtat(f)
                       \/ AppliquerVersion(f) \/ Sauver(f)
                       \/ ChargerSnapshot(f) \/ LireStream(f)
    \/ \E v \in 0..MaxEvenements : Notifier(v)
    \/ Reconstruire \/ LireType \/ RejouerUn

Spec == Init /\ [][Next]_vars

-----------------------------------------------------------------------------
\* Type correctness.
EvenementT == [type : {"CompteOuvert", "CompteDebite", "CompteCredite",
                       "CompteSuspendu", "CompteReactive"}, montant : Nat]
CompteT == [solde : Int, suspendu : BOOLEAN, version : Nat]

TypeOK ==
    /\ stream \in Seq(EvenementT)
    /\ snapshot = <<>> \/ snapshot \in {<<c>> : c \in {Head(snapshot)} \intersect CompteT}
    /\ objets \in [Fils -> CompteT]
    /\ phase \in [Fils -> {"repos", "append", "etat", "version", "snapshot", "relire"}]
    /\ \A f \in Fils : commande[f] = <<>> \/ commande[f] \in EvenementT
    /\ notifs \subseteq 0..(Len(stream) - 1)
    /\ projection \in Int
    /\ types \in Seq(Suivis)
    /\ a_rejouer \in Seq(EvenementT)

\* The account as the events say it.
EtatActuel == Rejeu(stream, Vide)

\* "Empeche les Lost Update sans verrou distribue": the stream is a history of
\* an account whose commands are atomic, whatever the aggregates checked.
Abstrait == INSTANCE CompteBancaire
                WITH neuf <- (stream = <<>>), solde <- EtatActuel.solde,
                     suspendu <- EtatActuel.suspendu
ImplementeCompte == Abstrait!Spec

\* "Etat reconstruit uniquement depuis les evenements": an aggregate between
\* two commands, and a snapshot, are the replay of a prefix of the stream.
EtatRejoue ==
    LET Fidele(c) == c.version <= Len(stream)
                     /\ c = Rejeu(SubSeq(stream, 1, c.version), Vide)
    IN  /\ \A f \in Fils : phase[f] \in {"repos", "append", "snapshot", "relire"} => Fidele(objets[f])
        /\ snapshot # <<>> => Fidele(snapshot[1])

\* "Vue denormalisee reconstruite depuis les evenements": once every subscriber
\* has run and no rebuild is under way, the projection is the balance.
ProjectionExacte ==
    notifs = {} /\ ~EnReconstruction => projection = EtatActuel.solde

\* "snapshots[aggregate_id] = snapshot_le_plus_recent": no snapshot replaces a
\* newer one.
SnapshotRecent ==
    [][snapshot # <<>> => snapshot'[1].version >= snapshot[1].version]_vars
=============================================================================
