# TLA+ models of "30 jours de systèmes distribués"

The repository holds some forty independent Python modules, each of which
implements one mechanism of distributed systems (`jour7-raft/raft.py`,
`jour24-wal/wal.py`, ...) with threads, locks and simulated networks, and beside
each a `simulation.py` that demonstrates it and a README that says what it
promises. This directory models them one by one in TLA+, checks the models with
TLC and proves theorems about nineteen of them with TLAPS.

The reference is the code. Where the code and what the documentation says of it
disagree, a run that TLC is expected to find violated shows it (section 6), or
section 6 says which constant to change to see it.

1. [The system](#1-the-system)
2. [How the code becomes TLA+](#2-how-the-code-becomes-tla)
3. [The modules](#3-the-modules)
4. [The runs](#4-the-runs)
5. [Proofs](#5-proofs)
6. [Where code and documentation disagree](#6-where-code-and-documentation-disagree)
7. [Plan and what is not modelled](#7-plan-and-what-is-not-modelled)
8. [Running it](#8-running-it)

## 1. The system

No module imports another one: the parts interact inside a module, through
direct calls between objects, threads and callbacks. The inventory follows. "M"
marks what is modelled, "-" what is not.

### Agreement and coordination

| part | state | operations | what is hard | correct when |
|---|---|---|---|---|
| M `jour7-raft` | per node: role, term, vote, log, commit index, next/match index, election timer | timer, vote call and answer, AppendEntries call and answer, submit, stop, restart | every call and every answer is a thread of its own; a timer's thread may be waiting for the lock when it is cancelled | one leader per term, equal logs up to a common entry, committed entries stay, some leader in the end |
| M `jour6-bully` | per node: state, leader, last heartbeat, the two wait flags | ELECTION, OK, COORDINATOR, heartbeat, stop, return | an OK or COORDINATOR that comes before or after its wait, a node that comes back while its old loop runs | one leader among the living, the greatest, in the end |
| M `jour15-redlock` | keys of the instances, the client's grants and time, the fencing counter and the last token accepted | SET NX PX on every instance in parallel, quorum, release, fenced write, pause and restart of an instance | threads that outlive the join, expiry between two steps | at most one valid holder; the holder's write is accepted; nothing stays locked |
| M `jour5-idempotence` | entries: state, result, payload digest, expiry, event | check or reserve, complete, fail, wait, expire | a wait or an expiry that ends before the handler | a key's handler runs once, every answer is of this key and payload, everyone is answered |
| M `jour4-heartbeat` | per node: last heartbeat, expected sequence, intervals, state | heartbeat, check, suspicion, death, return | time read before the lock, sequence reset | silent nodes are suspected, live ones are not for ever |
| M `jour3-lamport` | clock, journal | local event, send, receive | clock and journal are two locks | happens-before implies smaller time |
| M `jour10-gossip` | per node: entries with version and source, members, own counters | local write, round (push and pull), merge | versions come from a per-node counter | all nodes hold the last write |
| M `jour17-service-discovery` | instances and their health, checks, watchers, client cache | register, deregister, check, TTL pass, resolve, notify | a check's result after a new registration; notifications in threads | a dead instance is dropped, a live one resolved |

### Replicated data

| part | state | operations | what is hard | correct when |
|---|---|---|---|---|
| M `jour8-cap` | store, versions, partitions | read and write under CP and AP, reconcile | quorum counted before the write; two locks taken in two orders | CP: a read returns the last write; AP: nodes agree after a partition |
| M `jour9-quorum` | timestamped values per replica | parallel write and read, quorum event, read repair | threads that go on after the answer | R+W>N reads the last write |
| M `jour13-multi-master` | versioned entries, replication threads | write, replicate, conflict strategies | delivery in another order per master | masters converge |
| M `jour14-vector-clocks` | siblings with vector clocks | write, replicate, resolve | comparison with several siblings at once | concurrent writes are kept, superseded ones are not |
| M `jour11-consistent-hashing`, `jour12-sharding` | ring positions; directory of keys and the shards | add and remove nodes; read, write, migrate | a node added twice; a shard looked up and then used | every key is found where it was put |
| M `jour30-spanner` | shards with replica logs, versions, TrueTime | read-write transaction over shards, commit wait, snapshot read | several shards change one after the other | snapshots show all of a transaction or none of it |
| M `jour21-hdfs` | namespace, block map, blocks of the DataNodes | write, read, heartbeat, failure, re-replication | a DataNode that comes back | every file stays readable after a failure |

### Storage engines

| part | state | operations | what is hard | correct when |
|---|---|---|---|---|
| M `jour24-wal` | log file, checkpoint file, memory, open transactions | begin, write, commit, abort, checkpoint, crash, recovery | a crash inside any file write | after a crash: what was committed, and nothing else |
| M `jour25-lsm` | MemTable, SSTables by level in memory and in files | put, delete, get, flush, compaction, restart | sequences that restart, a crash between two removals | the engine is a key-value store |
| M `jour26-mvcc` | versions with xmin and xmax, transactions and snapshots | begin, read, write, delete, commit, abort, vacuum | commit applies versions one at a time, under another lock | a transaction sees the state at its begin |
| - `jour27-index`, `query-planner` | B-tree, hash and BRIN indexes; statistics | insert, search; plan | nothing concurrent | an index answers what a scan answers |
| M `jour27-cache` | shards of entries, in-flight reads | get, set, delete, read through, invalidate | a value read before an invalidation and stored after it | the cache does not hold what the source no longer has |

### Services, messaging and resilience

| part | state | operations | what is hard | correct when |
|---|---|---|---|---|
| M `jour19-event-sourcing` | streams, snapshots, subscribers, projections, aggregates | command, append, notify, project, rebuild, load | one thread per subscriber and event; an aggregate behind the stream | streams are histories of an account, projections its balances |
| M `jour20-saga` | per service: an entry per command; saga and its steps | choreography over events, orchestrator, compensation | steps of one saga or two in any order, one that fails | all steps are done or all of them are undone |
| M `jour21-circuit-breaker` | state, window, counters of probes, time of opening | call, success, failure, timeout, manual reset | calls that end in another state than the one they began in | closed after enough probes, and closed again after recovery |
| M `jour23-backpressure` | bounded priority queue, workers, stealing pool | enqueue under four strategies, dequeue, steal, stop | one condition for producers and consumers, deadlines | no task is lost, bounds hold, nobody waits for ever |
| M `jour22-kafka` | partition logs, groups, assignments, offsets | produce, poll, commit, join, leave, purge | offsets index a list that retention shortens | committed offsets lose no message |
| M `jour22-rate-limiting` | counters, log, bucket | admit | boundaries of windows | never more than the limit |
| M `jour23-flink` | windows, watermark | event, watermark, emission | late events | every window is emitted once and whole |
| M `jour16-load-balancing` | backends, counters | route, proxy, health | counters shared by requests | requests go to healthy backends |
| M `jour26-gateway` | token buckets, policies in their order, statistics, decisions | authenticate, limit, evaluate, route; insert a policy | a policy inserted under an evaluation; counters shared by requests | a route is reached only with a token, within the rate and by a policy that allows it |
| M `jour24-zerotrust` | certificates issued, carried and revoked; the log of decisions | issue, revoke, rotate, call (mTLS, then policies) | a certificate that is revoked or replaced between the two verifications of a call | nobody is served under another's identity or without a policy |
| M `jour25-spiffe` | entries, SVIDs, caches of agents, bundles of other domains | attest, fetch, renew, verify, federate | an SVID that is cached, in use and expiring at once | SVIDs in use are valid and of their holder |
| M `jour18-distributed-tracing` | spans, traces of the collector | open, call, close, send, sample, rebuild | spans of parallel calls, out of order | children lie within their parents, traces are whole |
| M `jour29-observabilite` | counters, gauge, histogram, logs, spans, alerts | handle a request, evaluate the rules, search | each signal has its lock, an alert reads two of them | the three signals agree |
| - `jour1-grpc`, `jour2-serialisation`, `jour28-chaos` | stock, encodings, set of faults | see `PROJECT.json` | little or no shared protocol state | |

`PROJECT.json` lists all of them under "components", and under "hazards" what in
each is hard to reach with a test, at its line.

## 2. How the code becomes TLA+

**Steps.** A critical section (`with self._lock:`) is one action; what a thread
keeps in local variables between two of them is state of its own. Where the code
reads something before the lock and uses it under it, these are two actions.
Code that runs without a lock is split where another thread could see or cause
a difference. A call to a handler through the simulated network is a message
and its answer another, because each runs in a thread of its own: a thread that is about
to send is a message on its way. `x += 1` on a counter without a lock is one step: the
interpreters of `.github/workflows/ci.yml:15` (CPython 3.10 to 3.12) change threads only at
calls and loops, and there is neither in it.

**Names** are those of the code (`voted_for`, `a_reparer`, `DeclencherElection` for
`_declencher_election`), in French where it is in French. The "map" of
`PROJECT.json` gives the lines that every definition stands for.

**Data.** Commands, keys, values, payloads, transaction ids and threads are model
values or members of small sets. Times are a counter, timestamps are its values;
where only order matters a clock is an order of actions. Wording, statistics and
latencies are left out.

**Usage and faults.** Several mechanisms keep their promises only when they are
used in a certain way (transactions on disjoint keys, an object per thread) or when
some fault does not happen. The constant `Permis` of a module is the set of the
usages and faults an instance allows, each with a comment at its declaration. What
the passing runs leave out is listed in section 6 with what happens when it is
let in: a condition is never assumed silently.

**Bounds** are constants with names that begin with `Max` (or are commented as
bounds) and appear in guards only.

**One run for a family.** The mechanisms are independent, so a run takes a family
of them. Its MC module declares the variables of all, instantiates every component
with the bounds of a *scenario* (`Q == INSTANCE QuorumWR WITH W <- 2, ...`), and
its initial states choose a scenario; a step is a step of that scenario's component
and leaves the rest alone. The states of the run are the sum, not the product, of
the components' states, and a property of the run is the conjunction of the
properties its comment lists. A component with several scenarios has several
instances over the same variables. An MC module *extends* the component that section 5
proves most about (`MCRaft` Raft, `MCStockage` WAL, `MCReplication` QuorumWR,
`MCMecanismes` Idempotence): the run then checks the very definitions that the theorems
state; `Redlock` is run as it is, for the same reason.

**Scripts.** Where a mechanism has a simulation that is played here, a scenario is
data: a sequence of operations (`[op |-> "arreter", noeuds |-> {3}]`), one per call
of `simulation.py`, and for concurrent programmes a sequence per thread. An action
takes the next operation of a script; what the simulation prints of its result is
checked by the module's `Bilan...` (or `Constat`) when the script comes to it.

**Mutants.** Every property of a passing run has a mutant in the model, an operator
named after the definition it changes (`LogAJour_Toujours`), which stands for a
plausible bug; with it TLC finds the property violated.

## 3. The modules

### Raft (`Raft`, `MCRaft`, `RaftProofs`)

`DeclencherElection`, `LancerVote`, `RecevoirRequestVote`, the processing of its
answer, `AppendEntries` calls, their handling and their answers, `submit`,
`arreter` and `ressusciter` are actions; `_appliquer_log` is part of the actions that
call it. `msgs` only grows, so a call that is never handled is a lost one and an
`AppendEntries` may be handled again: the loop sends the same call over and over.
The election timer has its three stages: armed (`minuterie`), expired with
its thread waiting for the lock (`tirs`), and elected but not yet past reading the
log (`scrutins`), because a `cancel()` reaches the first stage only.
`arreter`/`ressusciter` keep term, vote and log, as the object does. `Vue` (the VIEW of
the run) leaves out what no guard reads any more.
What a thread of `_repliquer_vers` or `_demander_vote` has in its local variables is in the
answer to its call: `nb` is the number of entries sent, `pour` the term the call was made
in. The code never compares `pour` with anything when an `AppendEntries` succeeds;
`SpecATemps` is the specification in which no such answer outlives its leadership, and
section 6 says what happens otherwise (`SpecReponses` of `MCRaft` leads TLC there).

### Storage (`Magasin`, `WAL`, `LSM`, `MVCC`, `Evenements`, `CompteBancaire`, `StockageProofs`; run by `MCStockage`)

`Magasin` is the promise of both engines: a store whose transactions become durable in
one step, at their commit, and whose crash forgets the open ones; with no transactions
(`Tx = {}`) it is a key-value store.
`WAL` has the log file as a sequence of entries (the last of which may be torn),
the checkpoint file, the memory and the open transactions; a crash may come between
any two entries of an operation and inside the write of an entry or of a
checkpoint. Recovery is a function of the two files (checkpoint, scan for commits,
redo), as in `_recovery`.

`LSM` has the MemTable with its sequence
counter, the files by level, and flush and compaction as the steps in which the
files change: written, inputs removed one at a time, list replaced. A crash may cut each of
them, and the flush or compaction that `ecrire` itself calls when its entry fills the MemTable
(`AVider`). `get` is a definition over the state, which the refinement mapping reads.

`MVCC` names transactions by their xids. A commit is the code's sequence of steps:
conflict check, versions applied under another lock, marked as committed; reads of
READ COMMITTED transactions and the vacuum scan the versions while others change
them. Ghost variables record the state at a begin and what was committed during a read.

`CompteBancaire` is an account whose commands check and change it in one step;
`Evenements` implements it with a stream, a `Compte` object per thread, snapshots, the
subscribers' threads and the projection.

### Coordination (`Redlock`, `RedlockProofs`; run by itself and by `MCReplication`)

A client's attempt is one SET per instance, each in its own thread: `_actif` is
tested in one step (`AdmettreSet`) and the key set in another (`SetNX`), and
threads that outlive `join(timeout)` go on. Releases go the same way. The validity
time is counted from the start; `Derive` is the drift allowance; `Passer` lets
time pass, keys expire individually. The fencing token is drawn after the quorum was judged.

### Services (`Idempotence`, `CircuitBreaker`, `Saga`, `MecanismesProofs`; `MCMecanismes`)

`Idempotence` has `obtenir_ou_reserver`, its wait, the handler, `marquer_complete`,
`marquer_erreur` and the cleaning of expired entries.
In `CircuitBreaker` a call is admitted in one
critical section, runs outside the lock and records its result in another, under
the state it began in; a read of the state (`LireEtat`) may open the circuit halfway too. The module ends with the proof that it closes only when it
should. `Saga` has the choreography and the orchestrator, their
commands to the services and the compensations, any step of which may fail.

### Streams, queues, caches (`Kafka`, `FileBornee`, `VolDeTravail`, `Cache`, `Limiteur`, `Flink`, `MecanismesProofs`; `MCMecanismes`)

`Kafka`: partitions, a group whose members join, leave and crash, the loop of
`consommer` read by read, commits of offsets, retention. `FileBornee`: the bounded
priority queue under its four strategies, with one condition for producers and
consumers, deadlines and `stop`. `VolDeTravail`: a worker looks at its own queue,
then at the others one lock at a time. `Cache`: cache-aside and stampede protection
with writers that invalidate. `Limiteur`: the four admission algorithms over ticks.
`Flink`: tumbling, sliding and session windows with a watermark, and `vider` at the end of
the stream.

### Replicated data (`QuorumWR`, `HorlogesVectorielles`, `HorlogesProofs`, `Gossip`, `MultiMaitre`, `Anneau`, `Sharding`, `ReplicationProofs`; `MCReplication`)

`QuorumWR`: every read and write has a thread per replica, waits for its quorum or
its timeout and leaves the others running; a thread reads its replica in one step
and adds its answer in another; read repair walks a list that may still
grow. `HorlogesVectorielles`: siblings, contexts, replication in any order; a
version carries the set of versions it knows of as ghost state, so that the order of
the clocks can be compared with causality. `Gossip`: rounds with random neighbours,
push and pull, versions and sources, stops, losses and partitions; the neighbour merges under
its lock and takes it again to copy its answer, so its own writes come in between. `MultiMaitre`: asynchronous
replication among masters with the four conflict strategies. `Anneau`: the sorted
list of positions with virtual nodes. `Sharding`: the directory and the ranges, a
read or write that looks its shard up in one step and uses it in another, and the
migration of a key.

### Mechanisms and their simulations (`MCMecanismes`)

Thirteen mechanisms, each with the scenarios of its `simulation.py` and with concurrent
programmes the simulation has not. They share nothing; the initial state chooses one.

| module | state and steps | scenarios beside the simulation's |
|---|---|---|
| `Bully` | messages in threads; an election waits for an OK (`attentes`), an OK starts a wait for a COORDINATOR (`minuteurs`), an event that is set leaves its thread to run (`reveils`), and one that is replaced leaves its thread behind (`orphelines`); a stop ends nobody's wait; of the timers of a node as many are told apart as `MaxMinuteurs` | - |
| `Heartbeat` | the monitor reads the clock before it takes the lock (`releve`); a history of delays gives the adaptive timeout, in integers | - (the delays between heartbeats vary) |
| `Lamport` | the clock and the journal have a lock each: an event is stamped in one step and recorded in another | two processes that two threads each share |
| `Decouverte` | register, deregister, TTL loop, check loop (copy, call, apply), a thread per call of a watcher, client with a cache (resolve, keep); in a unit of 1 s each loop makes one pass at any moment, as the checks (every 0.3 to 1 s) are due in each | any two of: deregistration, failure, resolution, refresh, invalidation, time; then a resolution, a refresh or time |
| `Cap` | CP: the majority is counted in one step (`DeciderCP`) and the node's own copy written or read in another; AP: the clock is read, then the lock taken, then a thread replicates, and a read without a majority is answered as OBSOLETE; `reconcilier` holds two locks | any three writes and partitions, then a reconciliation |
| `HDFS` | placement over racks, detection separate from failure, re-replication from and to nodes that may have stopped, `traiter_panne` of a node already dead; fewer nodes than replicas fail at once, and as many as replicas stay (`Tolerable`: the assumption on faults, which the code makes and does not enforce) | nodes of 3 racks of 2, or 2 of 3, that fail one after the other |
| `Spanner` | TrueTime (a clock per thread, off by at most epsilon), Paxos per shard, commit wait, application key by key, snapshots; a transaction reads the clock before it takes its number, and its own writes before the store; time passes when all wait and a bounded number of times otherwise | transactions on the same keys under clocks that differ, one of which reads; replicas that stop during a transaction |
| `Equilibrage` | five algorithms of layer 4 (`POWER_OF_TWO` is any backend in layer 7), connections without a request, rules of layer 7, rate limit; a backend may stop between its choice and its call | requests of two clients while backends stop and come back |
| `Passerelle` | token, token bucket (in sixtieths), policies one at a time, route | requests of two clients and a policy that is inserted among them |
| `ZeroTrust` | certificates with issuer, times and print; mTLS in two verifications, then the policies | calls during rotations and a revocation |
| `Spiffe` | entries, SVIDs as shared objects, renewal below 34 % of the life, nothing issued for an identity of another domain, federation by bundles; time passes where the simulation ages what it has | workloads that ask while documents age and domains federate |
| `Traces` | spans opened under a parent, closed, sent; parallel calls in threads; the collector's tree and cascade | two requests at once, one with parallel calls |
| `Observabilite` | a request as the updates it makes, each under its lock; rules of alert that read two counters one after the other; burn rates as integers | two requests while the alerts are evaluated |

### What must come about (`MCVivacite`)

The liveness properties of ten modules above, with the fairness of section 4.

## 4. The runs

| run | scenarios and bounds | what it shows |
|---|---|---|
| `raft` | *scrutins*: 3 nodes, 3 terms, no log, so that a deposed leader, a candidate that lost and a third election overlap; *succession*: after a first leadership two more, 2 entries, the shortest logs that differ in an uncommitted entry and agree on a committed one; *retards*: 3 distinct AppendEntries calls over 2 leaderships, so that late ones of the old leader meet the entries of the new; *pannes*: a node that stops and comes back | `TypeOK`, `ElectionSafety`, `LogMatching`, `LeaderCompleteness`, `StateMachineSafety`, `CommittedNeverRewritten` |
| `stockage` | WAL: 2 transactions on 2 keys and 6 log entries, or 7 for transactions one after the other with a checkpoint between them, crashes anywhere; LSM: 4 sequence numbers and 3 tables per compaction with deletions, or crashes inside flushes and compactions without; MVCC: 4 transactions, a loader, a writer, a deleter and a reader that begins in between, or READ COMMITTED readers among overlapping commits; event store: 2 threads with a `Compte` each and 3 events, or one thread, two amounts and 4 events | `ImplementeMagasin` (the WAL's refinement), `RecuperationFidele`, `LsnMonotone`, `LecturesIsolees` (snapshots of MVCC, the restart of LSM, aggregates as replays of the event stream), `LecturesFigees` (a snapshot and an SSTable never change, the refinement of LSM), `ImplementeCompte` (the refinement of the account) |
| `replication` | 2 writes and a read on 3 replicas with timeouts or with replicas that do not answer; 3 versions at 3 nodes in causal or in any order; gossip of 3 nodes, with a neighbour a round, losses and stops, or with two neighbours that get the same copy; 3 masters, a write each, or 4 merged writes; a ring of 6 positions and 3 nodes; 3 keys on 2 shards; a lock on 2 instances, 2 ticks and a second attempt of one of the two clients, which meets the late calls of the first | `EcritureDurable`, `LectureForte`, `HorlogesFideles`, `Convergence`, `PlacementFidele`, `SansRetour` (versions grow, keys move only to the node that joined) |
| `redlock` | 2 clients (exclusion is of pairs), 3 instances (the smallest number whose quorum leaves one out) of which one stops, pauses and restarts, 1 tick (the TTL; more ticks and attempts are in `replication`, any number in `RedlockProofs`) | `ExclusionMutuelle`, `EcritureValideAcceptee` |
| `mecanismes`, streams | 2 partitions, 2 members, 3 messages and 3 movements; 4 tasks of 2 priorities for 2 places; 3 tasks for 2 stealing workers; the cache without races, without writes, with everything; 8 ticks of windows of 3; streams of 5 events | `LivraisonOrdonnee`, `FilesSaines` (bounds, conservation, no one asleep in vain, one execution), `CacheFidele`, `FenetresExactes` (windows of the limiter and of streams) |
| `mecanismes`, services | 3 requests, of two keys and payloads: an owner, a waiter, one after the expiry (any number in `MecanismesProofs`); one call at a time of a window of 4; 3 sagas one after the other, or overlapping | `SansDoublon`, `ReponseFidele` (a key's handler runs once, and its callers get its result), `EffetsExacts` (a saga is all or nothing, and what is undone leaves nothing) |
| `mecanismes`, simulations | the scenarios of section 3's table, whose sizes are those of the simulations (with fewer requests where it sends hundreds) or two or three threads | `ScissionBreve` (two leaders last no longer than a COORDINATOR), `VuesFideles` (who is silent is suspected in bounded time and nobody else is), `OrdreFidele` (Lamport's condition; external consistency), `CopiesFideles`, `EntreeMesuree`, `IdentitesSaines`, `ObservationsFideles`, `PasJustifies` (no access, alert, loss from a full queue or closing of a circuit without its reason), `Constats` (the simulations print what they say) |
| `vivacite` | the modules with liveness properties, see below; gossip with one neighbour a round, which may be any | `ChacunRepond`, `Retablissement`, `TousTraites`, `Propagation` |
| `raft_liveness`, `raft_reponses`, `wal_perte`, `kafka_retention`, `horloges_desordre` | see section 6 | expected violations |

A property of a run of several modules is the conjunction of theirs, each under its
scenario; its comment in the MC module says which they are.

Deadlock is not checked where the system stops when the bounded work is done,
which is everywhere: a run ends when the last request, task or write has been
dealt with. Blocking that should not be is caught by `NulNeDortEnVain` (nobody
sleeps while there is what it waits for, part of `FilesSaines`) and by `vivacite`.

**Fairness** is weak fairness of the steps of each thread, stated per thread and
on the variables of its own component, because the operating system runs every
thread that can run: requests go on and their handlers return, callers call and
calls end, the circuit's timeout passes, the threads of a saga answer, members of a
group keep polling, workers keep taking, TTLs pass, gossip rounds go on; in the Bully
election the threads go on and messages arrive, the registry's loops, heartbeats and
notifications go on. Only the timeouts of Bully are strongly fair: a wait that ends
whatever else happens in between, and the heartbeat loop that
notices the leader's silence, are enabled again and again rather than for ever. No fairness
is assumed of writes, crashes, departures, partitions or operators.
`Retablissement` has as its premise that the service stays up, `Propagation` that
partitions end, `TousTraites` that the group keeps a member and the pool is not
stopped: these are the conditions under which the documentation promises
it; `PlusGrandElu` that no message is lost and no wait ends before its answer could
come. `raft_liveness` has weak fairness of every step of every node and no loss.

## 5. Proofs

TLAPS checks, for every value of the constants that the assumption of the module
admits (`RaftAssumption`, `QuorumAssumption`, ...: finite sets of nodes, naturals,
a majority that fits, as the code has them):

| module | theorem | of which behaviours | about |
|---|---|---|---|
| `RaftProofs` | `TypeCorrect`, `ElectionInvCorrect`, `ElectionSafetyCorrect` | all | a term has one leader at most |
| | `LogMatchingCorrect` | all | logs that have an entry of one term at one index are equal up to it |
| | `LeaderCompletenessCorrect`, `StateMachineSafetyCorrect`, `CommittedNeverRewrittenCorrect` | `SpecATemps`: no success of an earlier leadership is taken for a current one | what is committed is in the log of every later leader, is the same everywhere and is never rewritten |
| `ReplicationProofs`, quorums | `TypeCorrect`, `EcritureDurableCorrect`, `ReparationCorrecte` | all; for the repair, replicas that answer | an acknowledged write is on W replicas for good; read repair leaves nobody it looks at behind |
| | `LectureForteCorrect` | W + R > N | a read returns at least the newest write acknowledged when it began |
| gossip | `TypeCorrectGossip` | all | types |
| | `VersionsCroissantesVrai` | a key has one writer | no version a node holds goes back |
| sharding | `TypeCorrectSharding`, `PlageCompleteVraie` | all | types; a range query asks every shard that has a key of the range |
| | `UneSeuleCopieVraie`; `LectureTransparenteVraie` | a key is not used while it is moved; besides, one writer | a key is in the one shard where it is looked for; a read returns no less than what its key had when it began |
| masters | `TypeCorrectMaitres`, `AucunePerteVraie` | all | types; with MERGE the masters end with every write |
| | `ConvergenceVraie` | each master writes once, or MERGE | masters that have got every write hold one value |
| ring | `AnneauCoherentCorrect` | no node is added twice | the positions, the table and the positions of each node agree |
| `RedlockProofs` | `TypeCorrect` | all | types |
| | `ExclusionMutuelleCorrect`, `ClesDuDetenteurCorrect` | no instance restarts without its keys | one valid holder at most, whose keys are where it counted them |
| | `EcritureValideAccepteeCorrect` | besides, no pause before the token, one write per holder | the write of a valid holder is accepted |
| `StockageProofs`, WAL | `TypeCorrect`; `LsnMonotoneCorrect` | all; nothing is written behind a torn entry | types; the numbers of entries grow, across restarts |
| | `RecuperationFideleCorrect`, `ImplementeMagasinCorrect` | crashes anywhere, torn entries; the usage of section 6's first four lines excluded | recovery finds what was committed; the engine implements the durable store `Magasin` |
| MVCC | `TypeCorrectMVCC` | all | types |
| | `SnapshotCorrectVrai`, `SnapshotFigeVrai`, `ChaineVersionsVrai` | commits do not overlap, vacuum runs alone | a transaction reads what had committed when it began, and goes on reading it; a key has one live version |
| LSM | `ImplementeCorrect`, `ImmuableCorrect`, `MemoireCorrect`, `TypeCorrectLSM` | no `"recul"`, no `"suite"`, not both `"suppression"` and `"compaction"` (section 6): crashes between operations, inside a compaction, inside the write of a file | the engine implements the key-value store `Magasin`; no file is rewritten; the files are the tables in memory |
| `MecanismesProofs`, idempotence | `TypeCorrect`, `SansDoublonCorrect`, `ReponseFideleCorrect` | neither the wait nor the TTL ends before the handler | one execution per key and life of its entry; answers are of the caller's key and payload |
| Kafka | `TypeCorrectKafka` | all | types |
| | `AuMoinsUneFoisCorrect`, `OrdreGarantiCorrect` | no retention | below the committed offset all was processed; what was processed of a partition is a prefix |
| work stealing | `TypeCorrectVol`, `UneSeuleExecutionVraie` | all | a task is in one queue, in one hand or executed |
| Lamport | `TypeCorrectLamport`, `ConditionHorlogeVraie`, `OrdreTotalVrai`, `JournalOrdonneVrai` | all | timestamps extend what happened before to a total order; the journal of one thread's process is in that order |
| cache | `TypeCorrectCache`, `UnSeulRecalculCorrect` | all | types; one protected thread recomputes a key, and who waits has it to wait for |
| | `LectureFraicheCorrecte`; `ResultatPourTousCorrect` | no key is written while it is read; nothing is written, expires or fails | a read is not older than what was invalidated before it began; who waited gets what was computed |
| bounded queue | `ConservationCorrecte`, `NulNeDortEnVainCorrect`, `SacrificeConformeCorrect` | all | every task is counted once; nobody sleeps while there is what it waits for; each strategy gives up what it says |
| sagas | `SagaDefaiteVraie`; `ToutOuRienVrai`, `EtapesEnPrefixeVrai` | the last step does not fail; besides, sagas do not overlap | what was undone leaves nothing; all is done or nothing, in order |
| `CircuitBreaker` | `FermetureMeriteeCorrect` | calls do not overlap; an operator may step in | the circuit closes from HALF_OPEN only, after `nb_sondes` successful probes of that period |
| `Bully` | `TypeCorrect`, `ScissionBreveCorrect` | no message is lost; waits may be too short, nodes stop and come back at any time | a second leader has a message on its way that ends it |
| `HorlogesProofs` | `TypeCorrect`, `CausaliteFideleCorrect`, `RienDePerduCorrect` | all, versions in any order | clocks are ordered as causality is; no node drops a version that nothing has replaced |
| | `FreresMaximauxCorrect` | versions arrive after those they know of | siblings are exactly the versions that nothing has replaced |

Three proof modules have several components, as the runs do: each extends one of
them and takes the others as instances with their own constants, so that `K!Spec`
is the specification of `Kafka` for any constants.

The conditions of the third column are not a convenience: section 6 or the comment of
the `Permis` of the module says which behaviour of the code breaks the promise without them. Every inductive invariant
was checked with TLC on small instances before it was proved.

**Raft, elections.** Election safety is not inductive: a leader is one because of votes
that were counted in a past state. `ElectionInv` ties what a node counts to what the
others gave: a granted vote stays in `msgs` and binds its voter, which has moved on to
a later term or still has that vote (`VotesTenus`); it is that voter's only one in
that term (`VoteUnique`); whoever is not a follower has voted for itself
(`VotePourSoi`); every other vote it counts was given to it in its present term
(`VotesRecus`); a leader has counted a quorum (`MeneurElu`). Two quorums of n // 2 + 1
share a node, which cannot have voted twice.

**Raft, logs.** What has to be said is about logs nobody has any more. The
invariant `HistoireLog` quantifies over a history: `M[T]`, the leader of term T, and
`J[T]`, its log when it last led. Every log, and every `J`, agrees with `J[T]` up to each of its
entries of term T (`Conforme`); a leader's log is `J` of its term; an `AppendEntries`
carries a part of `J` of its term (`AppelsInv`; a call with `next_index` beyond the log,
which the code can make, carries nothing and a term 0). An election gives `J[T]` its first
value, `soumettre` extends it, nothing else changes it, and what `recevoir_append_entries`
truncates or adds leaves every log conforming. Log matching follows from two conforming logs.

**Raft, commits.** `Durable` adds who has acknowledged what: a success of term T
acknowledges `J[T]` up to `prev + nb`. A node still has each entry it acknowledged, or
a later leader up to its term has lost it (`AcquitInv`). A candidate asks with its
own log (`DemandesInv`), so a voter gives its vote only to someone who has all the
voter acknowledged (`ScrutinsInv`, the up-to-date check), and a leader has
all that the quorum of its election had acknowledged (`MeneursInv`). A committed
prefix is one that a quorum acknowledged (`CommitInv`); that quorum and a later leader's
share a node, and by induction over terms no later leader lost the entry.
The step that takes a success into `match_index` needs that the success was of the term
the node now leads in (`SuiviInv`). The code does not see to that, as `raft_reponses`
shows; hence `SpecATemps`, which takes nothing else away: calls and answers may be lost, late,
repeated, and nodes may stop and come back.

**Quorums.** Neither promise is inductive, because what matters happens in threads
that are under way. `Inv` says of writes that a confirmed thread's replica holds its
version or a newer one and that an acknowledged write has W such threads; this
stays, since replicas never go back (`MagasinCroit`). Of reads it says that, for the write
acknowledged when the read began, W replicas are its *witnesses* (`Temoins`): they hold
that write or a newer one, and if the read's thread has already been there, it
brought that version or a newer one, or nothing. Witnesses stay witnesses in every
step (`TemoinsGrandit`): a thread that reads a witness now reads something new
enough. R useful answers and W witnesses share a replica when W + R > N
(`FS_MajoritiesIntersect`), so the newest of the answers is new enough. For the repair,
`Inv` says that what was read of a replica is not newer than what it holds, so that
one that is not late when it is looked at needs no repair. That `PlusGrand` picks a greatest
member (`PlusGrandCorrect`) comes from the well-foundedness of `<` on the naturals.

**Redlock.** `ClesInv`: while the validity time of an attempt runs, each instance it counted
has its key, until its start plus the TTL at least (`ClesAcquises`). A SET that comes
late finds the key there; a release, however late, belongs to an attempt that is over
(`ReleasesDuPasse`); expiry and the pauses of instances take nothing away in time. Two
valid holders would share an instance, which has one key. For the fencing token,
`JetonInv` adds that a valid holder's token is newer than everyone else's.

**WAL.** `NumInv`: entries are numbered by their position, the torn one can only be the
last, and the checkpoint covers a prefix. `OuvertesInv`: an open transaction has written
behind the checkpoint, and what it has buffered is the last write of its keys in
the log. `EtatInv`: recovery from the log alone and from log and checkpoint give the same
store, which is the one in memory while the process runs. The key step is that a COMMIT
appended to the log changes what recovery computes by exactly the
transaction's buffer. `Recovery` is defined with the last committed write of each key, a set
of positions and not a fold, which is what makes it provable. The refinement maps the
committed state to `Recovery` and the open transactions to those of memory; checkpoints,
torn entries and restarts stutter or are the crash of `Magasin`.

**Idempotence.** The entry of a key, if its status is "en cours", belongs to a request that is
executing; who executes has the entry; who waits, waits for the entry of its key, which
cannot expire under it. `ExecutionsComptees` counts: the executions of a key are the
entries that expired and the one that is there.

**Circuit breaker.** Between the two halves of a call nothing changes the state it was
admitted in (`AppelSeul`), so every success counted in HALF_OPEN is a probe of this period
(`SondesDeLaPeriode`).

**Vector clocks.** The proof needs who wrote each version, which the model does not
keep: `Inv` asserts that there is an attribution `A` of authors such that a version's
or a node's clock has reached the component in which `i` was numbered exactly when it knows of
`i`, and that each component is zero or the number of some version. A node is
ahead of every clock in its own component (`AuteurEnTete`), which makes the numbers
of a new version new. Causality is then the order of clocks (`Causalite`), and different versions
have different clocks; the rule by which a version is let in among siblings loses nothing
because either it precedes one of them or it is kept.

**Kafka.** With retention the invariant is about counts: no offset is committed past what
was produced, the messages that are left were produced, and a consumer counts as done no
more than its batch. Without it (`Suivi`), an offset is the rank of its message, what was
processed of a partition is a prefix (`PrefixeInv`), and a poll began at an offset that was
committed (`DepuisInv`); before a message of a batch, those of its
partition were processed or are earlier in the batch (`SuiteInv`), so that to process the
next one makes a longer prefix. This stays when the partition has gone to somebody else
meanwhile, since offsets and what was processed do not go back.

**MVCC.** `ordre` lists who has committed or is about to. What had
committed when x began is a prefix of it (`PrefixeInv`); the `xmax` of a version is the next
transaction of the list that touched its key (`SuccesseurInv`). A version is there unless
the one that replaced it had committed before anyone active began (`GardeesInv`), which is
when vacuum may take it away. What x sees of a key is then the last write of its prefix,
and neither a commit nor a vacuum changes that.

**LSM.** `InvLSM` says that the tables of each level, in their order, are the files of that level by
number, but for empty tables, which have none (`Coherent`, `Conforme`); after a
restart numbers begin again, so it bounds them by `MaxSeq` instead of `seq`. What the levels say is
what the files say (`CoherentLit`): the youngest table with a key is the file with the greatest number. A
flush adds one table before all others (`CoherentAjoute`). When sequences grow with age
the merge keeps of each key what the levels have (`FusionCorrecte`), and however many
inputs are removed the files say the same (`RestantsLit`): either the
youngest table with the key is still there, or the new one has what it had. This is where
a tombstone would go wrong: it is not in the new table, and what it hid may still be there.
A restart finds the files of a level in their order because ranks in a set of numbers are
one to one (`RangCorrect`). A partly written file is a new one, which says nothing
(`IllisibleSansEffet`).

**Gossip and masters.** No version that is held, copied or on its way back is past what its
writer has counted (`VersionsInv`): a merge that comes late cannot take a node back, and a
new write is newer than everything. Of masters, `ChoixInv` says that an entry is a function of
the set of writes its master has got (the last, the first, what the rule makes of the last), and
`FusionInv` that with MERGE it is made of all of them and of nothing else.

**Sharding.** `MoveInv` says where the value of a key is in each phase of its move, `AppelInv`
that a call under way has the shard where its key is now: calls keep keys from moving.

**Work stealing, Lamport, sagas.** A task is in one place (`FilesInv`, `MainsInv`), in none
while its queue is being chosen (`ChoixInv`). Every event has a name, and the clock of a
process is not behind what it knows of, nor a message behind what it tells
(`HorlogeInv`); an event that is stamped and not recorded yet comes after the journal
of its process when no other thread uses it (`JournalInvLamport`). A saga that goes
on has done a prefix of its steps, one that is undone has the compensations of a prefix left, and the
services have nothing else of it (`EtapesInv`); alone, they have all of that (`DerniereInv`).

**Cache.** A key has a registered thread exactly while this thread recomputes it
(`MeneursInv`). `FraicheurInv` follows the value from the source to the cache: at every
point of its way it is not older than the last invalidation, or than the beginning of the call.

**Bounded queue.** The counters are numbers of tasks in certain states (`ComptesInv`); the
queue has no task twice and exactly those that are in it (`PlacesInv`), so its length is their
number, by a bijection. States exclude each other, so the numbers add up. One
step may move three tasks, the one that enters, the one that is given up and a producer that is woken.

**Bully, ring.** `ScissionBreve` is inductive with the types: who proclaims itself sends a
COORDINATOR to every other node, one that is handled leaves a follower and one that is ignored
was for a node that is stopped, and which comes back as a follower. On the ring, a node's positions are those
of its virtual nodes, which collide with nobody's (`HachageInv`), so each position in the list has one owner.

Model-checked only, and why: liveness and refinements under fairness (`ENABLED` and
fairness are out of the prover's reach); properties of what recursive functions and
folds compute over sequences (`Rejeu` of the event store and with it its
refinement of the account, the scripts of the simulations), which need induction over
data; what section 7 has for later.

## 6. Where code and documentation disagree

Five runs are expected to be violated; their counterexamples are short and
`PROJECT.json` quotes, under "findings", the lines that disagree.

- `raft_liveness` (`LeaderElected`): three nodes whose timers expire within one
  message delay split the vote, and nothing arms a timer again (`raft.py:215`).
- `raft_reponses` (`LeaderCompleteness`): the thread that made an `AppendEntries` call
  compares the term of the answer with the node's, never with that of its call
  (`raft.py:363`). A node that led term 3, lost the lead and leads again in term 5 counts
  what the third node acknowledged in term 3, an entry that has been replaced on this node
  meanwhile: it commits alone what the leader of term 6 does not have. Six terms are too
  many to explore, so `SpecReponses` restricts the behaviours to alternating leaderships;
  every step is a step of `Raft`.
- `wal_perte` (`RecuperationFidele`): after a restart on a file with a torn tail new
  entries are appended behind it and are never read (`wal.py:127`).
- `kafka_retention` (`AuMoinsUneFois`): a purge shortens the list that offsets index;
  offsets are given again below the committed ones (`kafka.py:106`).
- `horloges_desordre` (`FreresMaximaux`): a late version is kept beside the one that
  replaced it when it is in conflict with another sibling (`vector_clocks.py:329`).

The following are seen when an instance of the module named is given the value of
`Permis` (or another constant) named and the property is checked; each of them is
a usage or a fault the passing runs leave out.

| module | constant | property violated | what happens, and where |
|---|---|---|---|
| `WAL` | `"ckpt_ouvert"` | `RecuperationFidele` | a checkpoint while a transaction is open covers its first writes by number, not by content (`wal.py:314`) |
| `WAL` | `"meme_cle"` | `RecuperationFidele` | redo follows the order of the writes, commits follow their own (`wal.py:347`) |
| `WAL` | `"dechirure"`, `"suite"` | `LsnMonotone` | numbers behind a torn entry are given again (`wal.py:129`) |
| `WAL` | `"reprise_id"` | `RecuperationFidele` | an id used again inherits the COMMIT of its first use (`wal.py:343`) |
| `LSM` | `"recul"` | `ImplementeMagasin` | sequences begin again with every MemTable and the merge compares them (`lsm.py:311`) |
| `LSM` | `"suite"` | `SSTableImmuable` | file numbers begin again at a restart (`lsm.py:342`) |
| `LSM` | `"suppression"`, `"compaction"` | `ImplementeMagasin` | a crash between the removals of a compaction revives what a tombstone hid (`lsm.py:458`) |
| `MVCC` | `"commits"` | `SnapshotCorrect` | versions are applied before their transaction is committed, under another lock (`mvcc.py:240`) |
| `MVCC` | `"debut_rc"` | `LectureCommitee` | a begin inside the making of a READ COMMITTED snapshot (`mvcc.py:209`) |
| `MVCC` | `"vacuum"` | `SnapshotFige` | the horizon knows nothing of snapshots (`mvcc.py:357`) |
| `MVCC` | `Niveaux = {"SERIALIZABLE"}` | `Serialisable` | write skew (`mvcc.py:61`) |
| `Redlock` | `"redemarrage"` | `ExclusionMutuelle` | an instance that restarts has forgotten the lock (`redlock.py:143`) |
| `Redlock` | `"pause_jeton"` | `EcritureValideAcceptee` | a pause between the quorum and the token (`redlock.py:289`) |
| `Redlock` | `"deux_ecritures"` | `EcritureValideAcceptee` | the holder's second write is rejected (`redlock.py:330`) |
| `Redlock` | none | `LiberationComplete` | a SET carried out after its release stays until it expires (`redlock.py:264`) |
| `Idempotence` | `"delai"` | `SansDoublon` | a waiter whose 30 s are over executes too (`idempotence.py:170`) |
| `Idempotence` | `"ttl_en_cours"` | `ReponseFidele` | an execution that outlives its entry completes its successor's (`idempotence.py:176`) |
| `Idempotence` | none | `ErreurReseauNonMemorisee` | network errors are remembered (`idempotence.py:256`) |
| `Evenements` | `"partage"` | `ImplementeCompte` | threads that share a `Compte`: the version is read after the checks (`event_sourcing.py:322`) |
| `Evenements` | `"desordre"`, `"reconstruction"` | `ProjectionExacte` | subscribers overtake each other; a rebuild meets a notification (`event_sourcing.py:257`, `:420`) |
| `Evenements` | none | `SnapshotRecent` | an older snapshot replaces a newer one (`event_sourcing.py:238`) |
| `CircuitBreaker` | `"concurrence"` | `FermetureMeritee`, `SondesLimitees` | results of probes count after their period; probes are not limited (`circuit_breaker.py:154`, `:148`) |
| `CircuitBreaker` | none | `PasDOuvertureSansEchec` | the window outlives a closing (`circuit_breaker.py:209`) |
| `Flink` | `Desordre = 1` | `FenetreUnique` | a late event within `max_retard_s` opens an emitted window again (`flink.py:185`) |
| `Saga` | `"echec_notif"` | `SagaDefaite` | the notification fails after the shipment, which has no compensation (`saga.py:362`) |
| `Saga` | `"concurrence"` | `ToutOuRien`, `EtapesEnPrefixe` | the services keep one entry per name of a command: overlapping sagas undo each other's (`saga.py:133`) |
| `Gossip` | two authors of a key | `VersionsCroissantes` | a write takes the number after the node's own count (`gossip.py:132`) and replaces a newer version of somebody else |
| `MultiMaitre` | `"plusieurs"`, LWW, 4 writes | `Convergence` | entries of one source are ordered by version, others by time (`multi_master.py:218`) |
| `Sharding` | `"trafic"` | `LectureTransparente` | a shard is looked up, the key moves, the old shard is read (`sharding.py:239`) |
| `Bully` | `"imprevu"` | `PlusGrandElu` | a node stops or comes back during an election: the threads of its first life go on and may proclaim a smaller node (`bully.py:207`) |
| `Decouverte` | `"desordre"` | `ObservateursAJour` | every notification is a thread: an old list arrives after the new one (`service_discovery.py:267`) |
| `Decouverte` | `"pause"` | `CacheBorne` | a client is paused between its resolution and the line that keeps it, from where on the TTL counts (`service_discovery.py:386`) |
| `Cap` | `"concurrence"` | `SansInterblocage`, `DerniereEcritureGagne` | two nodes that reconcile with each other take the two locks in opposite orders (`cap.py:312`); the clock is read before the lock, and a write does not compare (`cap.py:233`) |
| `Cap` | none | `LectureLineaire` | an acknowledged CP write stays on its node, nothing replicates it (`cap.py:149`); reads elsewhere miss it ("cohérence linéarisable", `cap.py:106`) |
| `HDFS` | none | `SurvitAUnRack` | new replicas are placed without a look at the racks of those that are left (`hdfs.py:194`; "Survie à une panne de rack entier", `hdfs.py:24`) |
| `Spanner` | none | `LecturesCoherentes` | versions are stored key by key after the wait: a snapshot in between sees a part of a commit (`spanner.py:354`; "lectures cohérentes à un timestamp", `spanner.py:253`) |
| `Equilibrage` | `"rafales"` | `DebitParClient` | the limiter tests and appends without a lock (`load_balancer.py:412`) |
| `Passerelle` | none | `JournalComplet` | a refusal by default is not in the log of decisions (`gateway.py:194`) |
| `ZeroTrust` | none | `RotationSansCoupure` | one certificate is known per service: a rotation invalidates the one before it (`zerotrust.py:141`; "les deux coexistent", `simulation.py:241`) |
| `Observabilite` | none | `LentesTrouvees` | the search for slow traces looks at the duration of the root alone (`observabilite.py:491`) |
| `Anneau` | `"doublon"` | `AnneauCoherent` | a node added twice leaves positions of nobody when it goes |

Smaller observations, which contradict what a simulation or a comment says and no
property states: layer 7 keeps one turn (`_rr_idx`) for all its pools, and IP hash moves
most clients when a backend stops; the gateway's `rate-limit-guard` is never reached and
its public health route asks for a token all the same; a revoked URI stays revoked whatever is
issued for it afterwards; SPIFFE renews on request only and fetches a federated bundle
once; sampling of traces ignores `sampled`; the alert on the P99 of the observability
simulation never fires, because latencies are observed by service and the rule reads the
series without a label (`SansEtiquette`; `simulation.py:100`, `:174`); a cancelled transaction of Spanner leaves its entry in the logs of the groups
that had accepted it.

## 7. Plan and what is not modelled

Written in this order: Raft, because the rest of the repository cites it; the
storage engines, whose crashes no test reaches; the coordination and services
with threads; streams and queues; replicated data; the thirteen mechanisms with their
simulations; then the proofs of section 5. What comes next:

1. Proofs: `Redistribution` of the ring (distances modulo its size); `LectureCommitee`
   of MVCC, whose snapshot is taken in pieces; the mechanisms that are only
   model-checked so far (service discovery, rate limits, windows).
2. Hash sharding in `jour12-sharding`, the local cache and its evictions in
   `jour27-cache`, the weighted round robin of `jour16-load-balancing`.
3. The simulations of the mechanisms modelled first, as scripts like those of the
   thirteen.

Not modelled, with the reason, in `PROJECT.json` "components": the gRPC example
(generated code and I/O; its stock is one critical section) and the serialisation
benchmark (encodings and timings), indexes and query planner (sequential and
deterministic, the latter floating point), chaos (a harness whose results are
percentages of random draws), the `simulation.py` files of the mechanisms modelled
first, which are read as tests of what is claimed. In the modelled parts, latencies,
statistics nobody reads, reports and the randomness of back-off delays are left out, and
sizes that only move thresholds are small. Of `jour16` the weighted round robin and the
statistics are left out, of `jour29` buckets and rates over a window, of `jour4` sequence numbers and what is counted from them.

## 8. Running it

    tlc -workers 2 -config MCReplication.cfg MCReplication.tla
    tlapm ReplicationProofs.tla

`PROJECT.json` names the module and the configuration of every run. The passing
runs take from one to four minutes each with two
workers, the proofs about twenty-five minutes together, `MecanismesProofs` half of it.
