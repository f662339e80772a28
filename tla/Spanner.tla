------------------------------ MODULE Spanner -------------------------------
(***************************************************************************)
(* Spanner (jour30-spanner): transactions that take their timestamp from   *)
(* TrueTime, have it accepted by the Paxos group of each shard, wait until *)
(* it is certainly past and put their versions in the store, key by key.   *)
(*                                                                         *)
(* Each thread asks a clock that is off by at most epsilon.  Time goes on  *)
(* when every thread waits, and a bounded number of times when one could   *)
(* work.                                                                   *)
(***************************************************************************)
EXTENDS Integers, Sequences, FiniteSets, SequencesExt, FiniteSetsExt

CONSTANTS Cles,
          ShardDe,     \* _shard_pour: of each key, hashlib.md5
          Programmes,  \* epsilon_ms, and the threads of each phase
          Lenteurs     \* ticks that pass while a thread could work

Repliques == 5              \* nb_repliques
Quorum == Repliques \div 2 + 1

SpannerAssumption ==
    /\ Lenteurs \in Nat
    /\ \A p \in Programmes : /\ p.epsilon \in Nat \ {0}
                             /\ \A d \in ToSet(p.derives) : -p.epsilon <= d /\ d <= p.epsilon

VARIABLES
    epsilon, derives,  \* of the clocks: their uncertainty, how far each thread's is off
    heure,             \* the true time
    lenteurs,
    phases,            \* the threads that are still to come
    fils,              \* each thread: where it is and what it has still to do
    txs,               \* the transactions, in the order of their tx_id
    donnees,           \* _donnees: the versions of each key, sorted
    journaux,          \* _log of each GroupePaxos: the tx_id
    vivantes           \* _repliques_ok of each GroupePaxos

varsSpanner == <<epsilon, derives, heure, lenteurs, phases, fils, txs, donnees, journaux,
                 vivantes>>

Shards == {ShardDe[c] : c \in Cles}
Etapes == {"pret", "debut", "source", "dest", "commit", "paxos", "application", "lecture",
           "sommeil"}

TypeOK ==
    /\ heure \in Nat /\ lenteurs \in 0..Lenteurs
    /\ \A i \in DOMAIN fils : fils[i].etape \in Etapes /\ fils[i].tx \in 0..Len(txs)
    /\ \A t \in DOMAIN txs : txs[t].etat \in {"ACTIVE", "COMMITTEE", "ANNULEE"}
    /\ \A c \in Cles : \A i \in DOMAIN donnees[c] : donnees[c][i].tx \in DOMAIN txs
    /\ journaux \in [Shards -> Seq(DOMAIN txs)]
    /\ vivantes \in [Shards -> 0..Repliques]

Lancer(phase) ==
    [i \in DOMAIN phase |-> [suite |-> phase[i], etape |-> "pret", tx |-> 0,
                             reste |-> {}, lus |-> <<>>, jusqua |-> 0]]

Init ==
    /\ \E p \in Programmes : /\ epsilon = p.epsilon /\ derives = p.derives
                             /\ fils = Lancer(Head(p.phases)) /\ phases = Tail(p.phases)
    /\ heure = 0 /\ lenteurs = 0
    /\ txs = <<>>
    /\ donnees = [c \in Cles |-> <<>>]
    /\ journaux = [s \in Shards |-> <<>>]
    /\ vivantes = [s \in Shards |-> Repliques]

-----------------------------------------------------------------------------
\* TrueTime: maintenant for the thread i, and the order of two intervals.
Maintenant(i) == LET t == heure + derives[i] IN
    [earliest |-> t - epsilon, latest |-> t + epsilon]

Milieu(i) == heure + derives[i]

CertainementApres(a, b) == a.earliest > b.latest
Chevauche(a, b) == ~CertainementApres(a, b) /\ ~CertainementApres(b, a)

ApresTemps(i, t) == Maintenant(i).earliest > t   \* TrueTime.apres

\* StockageMVCC: the versions are sorted by timestamp, the first written first.
Inserer(versions, v) ==
    LET avant == SelectSeq(versions, LAMBDA w : w.ts <= v.ts)
    IN avant \o <<v>> \o SubSeq(versions, Len(avant) + 1, Len(versions))

Aucune == 0   \* None

Lire(versions, t) ==
    LET visibles == SelectSeq(versions, LAMBDA w : w.ts <= t)
    IN IF visibles = <<>> THEN Aucune ELSE Last(visibles).valeur

LireCourant(c) == IF donnees[c] = <<>> THEN Aucune ELSE Last(donnees[c]).valeur

Disponible(s) == vivantes[s] >= Quorum

-----------------------------------------------------------------------------
Horloges == <<epsilon, derives, heure, lenteurs, phases>>
Bases == <<donnees, journaux, vivantes>>

Op(i) == Head(fils[i].suite)
Peut(i, etape, ops) == /\ fils[i].etape = etape /\ fils[i].suite # <<>>
                       /\ Op(i).op \in ops
Suivre(i, f) == fils' = [fils EXCEPT ![i] = f]
Finir(i) == Suivre(i, [fils[i] EXCEPT !.etape = "pret", !.suite = Tail(@)])

Transactions == {"tx", "virement", "lectures"}

\* commencer_transaction: the clock is read, then the tx_id is taken.
DaterLecture(i) ==
    /\ Peut(i, "pret", Transactions)
    /\ Suivre(i, [fils[i] EXCEPT !.etape = "debut", !.jusqua = Milieu(i)])
    /\ UNCHANGED <<Horloges, txs, Bases>>

\* The transaction, and the writes it keeps for itself.
Commencer(i) ==
    /\ Peut(i, "debut", Transactions)
    /\ txs' = Append(txs, [lecture |-> fils[i].jusqua, ts |-> 0, etat |-> "ACTIVE",
                           ecritures |-> IF Op(i).op = "virement" THEN <<>>
                                         ELSE Op(i).ecritures,
                           avant |-> {t \in DOMAIN txs : txs[t].etat = "COMMITTEE"}])
    /\ Suivre(i, [fils[i] EXCEPT !.tx = Len(txs'), !.lus = <<>>,
                    !.etape = CASE Op(i).op = "tx" -> "commit"
                                [] Op(i).op = "virement" -> "source"
                                [] OTHER -> "lecture"])
    /\ UNCHANGED <<Horloges, Bases>>

\* SpannerDB.lire: what the transaction writes itself, or what there was at
\* timestamp_lecture.
LireDans(t, c) ==
    LET siennes == SelectSeq(txs[t].ecritures, LAMBDA e : e.cle = c)
    IN IF siennes # <<>> THEN Last(siennes).valeur ELSE Lire(donnees[c], txs[t].lecture)

LireTx(i) ==
    /\ Peut(i, "lecture", {"lectures"})
    /\ LET lu == Append(fils[i].lus,
                        LireDans(fils[i].tx, Op(i).cles[Len(fils[i].lus) + 1]))
       IN Suivre(i, CASE Len(lu) < Len(Op(i).cles) -> [fils[i] EXCEPT !.lus = lu]
                      [] Op(i).ecritures # <<>> -> [fils[i] EXCEPT !.lus = lu, !.etape = "commit"]
                      [] OTHER -> [fils[i] EXCEPT !.lus = lu, !.etape = "pret", !.suite = Tail(@)])
    /\ UNCHANGED <<Horloges, txs, Bases>>

\* virement, in scenario_synthese: both balances are read as they are now.
LireSource(i) ==
    /\ Peut(i, "source", {"virement"})
    /\ LET solde == LireCourant(Op(i).source) IN
       IF solde = Aucune \/ solde < Op(i).montant THEN Finir(i)
       ELSE Suivre(i, [fils[i] EXCEPT !.etape = "dest", !.lus = <<solde>>])
    /\ UNCHANGED <<Horloges, txs, Bases>>

LireDest(i) ==
    /\ Peut(i, "dest", {"virement"})
    /\ txs' = [txs EXCEPT ![fils[i].tx].ecritures =
           <<[cle |-> Op(i).source, valeur |-> fils[i].lus[1] - Op(i).montant],
             [cle |-> Op(i).dest, valeur |-> LireCourant(Op(i).dest) + Op(i).montant]>>]
    /\ Suivre(i, [fils[i] EXCEPT !.etape = "commit"])
    /\ UNCHANGED <<Horloges, Bases>>

\* committer, 1: the timestamp.
Cibles(t) == {ShardDe[e.cle] : e \in ToSet(txs[t].ecritures)}

Dater(i) ==
    /\ Peut(i, "commit", Transactions)
    /\ txs' = [txs EXCEPT ![fils[i].tx].ts = Maintenant(i).latest]
    /\ Suivre(i, [fils[i] EXCEPT !.etape = "paxos", !.reste = Cibles(fils[i].tx)])
    /\ UNCHANGED <<Horloges, Bases>>

\* 2: the groups, in no particular order; those that come before one that has lost
\* its quorum keep the entry.
Proposer(i) ==
    /\ Peut(i, "paxos", Transactions)
    /\ \E s \in fils[i].reste :
         IF Disponible(s)
           THEN /\ journaux' = [journaux EXCEPT ![s] = Append(@, fils[i].tx)]
                /\ Suivre(i, [fils[i] EXCEPT !.reste = @ \ {s}])
                /\ UNCHANGED txs
           ELSE /\ txs' = [txs EXCEPT ![fils[i].tx].etat = "ANNULEE"]
                /\ Finir(i) /\ UNCHANGED journaux
    /\ UNCHANGED <<Horloges, donnees, vivantes>>

\* 3: commit wait.
Attendre(i) ==
    /\ Peut(i, "paxos", Transactions) /\ fils[i].reste = {}
    /\ ApresTemps(i, txs[fils[i].tx].ts)
    /\ Suivre(i, [fils[i] EXCEPT !.etape = "application", !.lus = txs[fils[i].tx].ecritures])
    /\ UNCHANGED <<Horloges, txs, Bases>>

\* 4: one write after the other.
Appliquer(i) ==
    /\ Peut(i, "application", Transactions)
    /\ LET t == fils[i].tx IN
       IF fils[i].lus = <<>>
         THEN txs' = [txs EXCEPT ![t].etat = "COMMITTEE"] /\ Finir(i) /\ UNCHANGED donnees
         ELSE LET e == Head(fils[i].lus) IN
              /\ donnees' = [donnees EXCEPT ![e.cle] =
                     Inserer(@, [ts |-> txs[t].ts, valeur |-> e.valeur, tx |-> t])]
              /\ Suivre(i, [fils[i] EXCEPT !.lus = Tail(@)]) /\ UNCHANGED txs
    /\ UNCHANGED <<Horloges, journaux, vivantes>>

\* What the scenarios do besides: replicas that fail and come back, snapshots and
\* current reads with the values they must give, pairs of intervals, sleeps.
Replique(i) ==
    /\ Peut(i, "pret", {"tuer", "ressusciter"})
    /\ LET s == Op(i).shard IN
       vivantes' = [vivantes EXCEPT ![s] =
           IF Op(i).op = "tuer" THEN Max({0, @ - 1}) ELSE Min({Repliques, @ + 1})]
    /\ Finir(i)
    /\ UNCHANGED <<Horloges, txs, donnees, journaux>>

Lecture(i) ==
    /\ Peut(i, "pret", {"snapshot", "courant", "disponibles"})
    /\ Finir(i)
    /\ UNCHANGED <<Horloges, txs, Bases>>

\* Asleep, with what the clock said when it began.
Dormir(i) ==
    /\ Peut(i, "pret", {"dormir"})
    /\ Suivre(i, [fils[i] EXCEPT !.etape = "sommeil", !.jusqua = heure + Op(i).duree,
                                 !.lus = <<Maintenant(i)>>])
    /\ UNCHANGED <<Horloges, txs, Bases>>

Reveiller(i) ==
    /\ Peut(i, "sommeil", {"dormir"}) /\ heure >= fils[i].jusqua
    /\ Finir(i)
    /\ UNCHANGED <<Horloges, txs, Bases>>

PhaseSuivante ==
    /\ \A i \in DOMAIN fils : fils[i].suite = <<>>
    /\ phases # <<>>
    /\ fils' = Lancer(Head(phases)) /\ phases' = Tail(phases)
    /\ UNCHANGED <<epsilon, derives, heure, lenteurs, txs, Bases>>

\* A thread waits; the others may all be waiting as well.
EnAttente(i) ==
    \/ fils[i].etape = "paxos" /\ fils[i].reste = {} /\ ~ApresTemps(i, txs[fils[i].tx].ts)
    \/ fils[i].etape = "sommeil" /\ heure < fils[i].jusqua

Tick ==
    /\ \E i \in DOMAIN fils : fils[i].suite # <<>>
    /\ IF \A i \in DOMAIN fils : fils[i].suite # <<>> => EnAttente(i)
         THEN UNCHANGED lenteurs
         ELSE lenteurs < Lenteurs /\ lenteurs' = lenteurs + 1
    /\ heure' = heure + 1
    /\ UNCHANGED <<epsilon, derives, phases, fils, txs, Bases>>

Avancer(i) ==
    \/ DaterLecture(i) \/ Commencer(i) \/ LireTx(i) \/ LireSource(i) \/ LireDest(i)
    \/ Dater(i) \/ Proposer(i) \/ Attendre(i) \/ Appliquer(i)
    \/ Replique(i) \/ Lecture(i) \/ Dormir(i) \/ Reveiller(i)

Next == (\E i \in DOMAIN fils : Avancer(i)) \/ PhaseSuivante \/ Tick

Spec == Init /\ [][Next]_varsSpanner

-----------------------------------------------------------------------------
\* The scenarios of simulation.py, amounts in hundreds.
Ecrire(c, v) == [cle |-> c, valeur |-> v]
Lectures(cles, ecritures) == [op |-> "lectures", cles |-> cles, ecritures |-> ecritures]
Tx(ecritures) == [op |-> "tx", ecritures |-> ecritures, finit |-> {"COMMITTEE"}]
Snapshot(t, c, v) == [op |-> "snapshot", tx |-> t, cle |-> c, valeur |-> v]
Courant(c, v) == [op |-> "courant", cle |-> c, valeur |-> v]
Disponibles(n) == [op |-> "disponibles", nombre |-> n]
Dort(d, certain) == [op |-> "dormir", duree |-> d, certain |-> certain]
Tue(s) == [op |-> "tuer", shard |-> s]
Ressuscite(s) == [op |-> "ressusciter", shard |-> s]
Virement(s, d, m) == [op |-> "virement", source |-> s, dest |-> d, montant |-> m]
UnFil(ops) == [epsilon |-> 4, derives |-> <<0>>, phases |-> <<<<ops>>>>]

\* Twenty milliseconds make two instants certain, three do not.
ScenarioTruetime == UnFil(<<Dort(20, TRUE), Dort(3, FALSE), Tx(<<>>)>>)

ScenarioMvccSnapshot == UnFil(
    LET Version(m) == Tx(<<Ecrire("alice", m), Ecrire("bob", 500 - m)>>)
        montants == <<100, 85, 92, 78, 95>>
    IN FlattenSeq([i \in 1..5 |-> <<Version(montants[i]), Dort(15, TRUE)>>])
       \o FlattenSeq([i \in 1..5 |-> <<Snapshot(i, "alice", montants[i]),
                                       Snapshot(i, "bob", 500 - montants[i])>>])
       \o <<Courant("alice", 95), Courant("bob", 405), Tx(<<Ecrire("alice", 9999)>>),
            Snapshot(3, "alice", 92), Snapshot(1, "alice", 100)>>)

\* The keys that are said to be on the shard that has lost its quorum are not.
ScenarioPaxos == UnFil(
    [i \in 1..10 |-> Tx(<<Ecrire("user:" \o ToString(i - 1), 9 + i)>>)]
    \o <<Disponibles(3), Tx(<<Ecrire("user:99", 5)>>), Tue(0), Tue(1), Tue(2),
         Disponibles(3), Tx(<<Ecrire("user:100", 7)>>), Tue(0), Tue(0), Disponibles(2),
         Tx(<<Ecrire("solde:alice", 25), Ecrire("user:101", 1)>>),
         Ressuscite(0), Ressuscite(1), Ressuscite(2), Ressuscite(0), Ressuscite(0),
         Disponibles(3), Tx(<<Ecrire("solde:alice", 25)>>)>>)

\* After the first transfer and before the second, only the first is seen.
ScenarioExternalConsistency == UnFil(
    <<Tx(<<Ecrire("alice", 900), Ecrire("bob", 1100)>>), Dort(2, FALSE),
      Tx(<<Ecrire("bob", 950), Ecrire("carol", 150)>>),
      Courant("alice", 900), Courant("bob", 950), Courant("carol", 150),
      Snapshot(1, "alice", 900), Snapshot(1, "bob", 1100), Snapshot(1, "carol", Aucune)>>)

\* The first n of the four transfers at the same time.
ScenarioSynthese(n) == [epsilon |-> 4, derives |-> <<0, 0, 0, 0>>, phases |->
    <<<<<<Tx(<<Ecrire("alice", 100)>>), Tx(<<Ecrire("bob", 50)>>),
          Tx(<<Ecrire("carol", 30)>>), Tx(<<Ecrire("dave", 80)>>)>>>>,
      SubSeq(<<<<Virement("alice", "bob", 5)>>, <<Virement("bob", "carol", 2)>>,
               <<Virement("dave", "alice", 3)>>, <<Virement("carol", "dave", 1)>>>>, 1, n)>>]

-----------------------------------------------------------------------------
\* External consistency: a transaction that begins after another is committed has a
\* greater timestamp, whatever clocks gave them.
CoherenceExterne == \A t \in DOMAIN txs :
    txs[t].ts > 0 => \A u \in txs[t].avant : txs[u].ts < txs[t].ts

\* The versions are those of transactions a quorum has accepted; the current value
\* is the one of the latest, and a transaction that is cancelled leaves none.
HistoriqueFidele ==
    /\ \A c \in Cles : \A i \in DOMAIN donnees[c] :
         LET t == donnees[c][i].tx IN
         /\ t \in ToSet(journaux[ShardDe[c]]) /\ txs[t].etat # "ANNULEE"
         /\ \A j \in DOMAIN donnees[c] : i < j => donnees[c][i].ts <= donnees[c][j].ts
    /\ \A t \in DOMAIN txs : txs[t].etat = "COMMITTEE" =>
         \A e \in ToSet(txs[t].ecritures) :
             Lire(donnees[e.cle], txs[t].ts) # Aucune
             /\ \E i \in DOMAIN donnees[e.cle] : donnees[e.cle][i].tx = t

\* A transaction puts nothing behind the timestamp of one that was committed before it
\* began: what a reader has seen at that time stays.
PasseFige == [][\A c \in Cles, t \in DOMAIN txs :
    /\ txs[t].etat = "COMMITTEE"
    /\ \A u \in DOMAIN txs : txs[u].etat = "ACTIVE" => t \in txs[u].avant
    => Lire(donnees'[c], txs[t].ts) = Lire(donnees[c], txs[t].ts)]_varsSpanner

\* What the scenarios say of an operation that ends.
Dit(i, o) ==
    CASE o.op = "tx" -> txs'[fils[i].tx].etat \in o.finit
      [] o.op = "snapshot" -> Lire(donnees[o.cle], txs[o.tx].ts) = o.valeur
      [] o.op = "courant" -> LireCourant(o.cle) = o.valeur
      [] o.op = "disponibles" -> Cardinality({s \in Shards : Disponible(s)}) = o.nombre
      [] o.op = "dormir" -> LET fin == Maintenant(i) IN
             IF o.certain THEN CertainementApres(fin, fils[i].lus[1])
                          ELSE Chevauche(fin, fils[i].lus[1])
      [] OTHER -> TRUE

Bilan == [][\A i \in DOMAIN fils :
    fils[i].suite # <<>> /\ fils'[i].suite = Tail(fils[i].suite) => Dit(i, Op(i))]_varsSpanner

\* Snapshot isolation: a transaction that reads gets what the store had at its timestamp
\* for good, all of a commit or nothing.
LecturesCoherentes == \A i \in DOMAIN fils :
    fils[i].etape = "lecture" => \A k \in DOMAIN fils[i].lus :
        fils[i].lus[k] = LireDans(fils[i].tx, Op(i).cles[k])
=============================================================================
