# A TLA+ model of robot-platform-service

The platform service is a Go HTTP server over one SQLite file. It keeps a
registry of robots, devices and Runtimes, the process generations (sessions) of
each Runtime with their heartbeats, and a ledger of tasks and runs; from the
heartbeats it computes a liveness. An edge agent on each device registers with
it and reports over HTTP. This directory holds TLA+ modules that model the
service and the agent, TLC configurations that check them on small instances,
and proofs, checked by TLAPS, of the theorems that hold for every value of the
constants. Paths below are relative to the repository root.

## Inventory

| Part | State it keeps | Operations | What makes it correct |
|---|---|---|---|
| Runtime sessions and heartbeats, v2 (`internal/store/platform.go:329-511`, `internal/api/platform.go:394-522`) | tables `runtime_sessions`, `runtime_heartbeats` | create session, heartbeat, end session | one current session per Runtime; a lost lead is lost for good; append-only audit rows with growing seq; only the current session moves liveness |
| SQLite transactions around them (`BeginTx`, WAL, no busy timeout: `internal/store/store.go:39-52`) | one goroutine's locals per request, a snapshot, the write lock | begin, read, first write, commit, rollback, process restart | interleavings have no outcome that serial execution lacks; every request is answered |
| Liveness evaluators (`internal/domain/platform.go:215-286`, `internal/domain/status.go`) | none; read a row, the interval and the clock | `Evaluate` for v1 and v2 | the two agree; thresholds at 3 and 6 intervals; silence degrades one level at a time |
| Runtime queries, v2 (`internal/api/platform.go:308-388`) | the handler's locals | liveness, detail and list queries | an answer is the truth of some moment between question and answer |
| Registry and run ledger, v2 (`internal/store/platform.go:59-291, 542-584`) | `robots`, `devices_v2`, `runtimes`, `external_id_mappings`, `tasks`, `runs_v2` | the create handlers | references unique, containment a forest on one robot, runs attributable; nothing of it is enforced by the schema (foreign keys are declared and never switched on) |
| Edge agent (`internal/edgeagent`, `cmd/edge-agent`) | `seq`, the signal channel, the context | register, heartbeat on a ticker, shutdown heartbeat | its own retries and timeouts never get it refused; the goodbye is last; it stops when told |
| Devices, heartbeats, tasks, runs, v1 (`internal/api/api.go`, `internal/store/store.go:90-291`) | `devices`, `heartbeats`, `tasks`, `runs`; the locals of a handler | register, heartbeat, create task and run, read a device | numbers accepted per device only grow; `last_seen_ms` belongs to the newest heartbeat; nothing dangles |
| Schema migration (`internal/store/store.go:60-81`, `schema.sql`) | the file's tables and columns | statements one by one at start | a start that broke off is completed by the next; a serving platform has upgraded the file of whichever release |
| Host metrics (`internal/edgeagent/hostmetrics`) | none; reads `/proc` and `/sys` at each heartbeat | collect | its numbers are what their names say |
| Platform process (`cmd/platformd`) | none of its own | start, serve, die | comes to serve, whatever the file |
| Demo scripts (`scripts`) | none | curl walkthroughs | - |

How they interact. Producers and agents call the HTTP handlers; each request is
a goroutine. A handler decodes, validates, reads the clock (`s.eval.Now()`),
then calls ONE store method, which runs one SQLite transaction (the v2 writers and v1 heartbeats) or
one statement. There are no callbacks, no in-memory caches and no background
tasks on the platform side: all shared state is the SQLite file, and liveness is
recomputed at every query. The agent is one goroutine with a `select` over a
ticker, a signal channel and a context.

The hard behaviours:

- the clock is read BEFORE the transaction, so commits may come in another
  order than the timestamps they store;
- every transaction reads first and writes later (a deferred transaction that
  upgrades), with other transactions committing in between;
- the queries read in several statements without a transaction, and read the
  clock last;
- calls are repeated after lost replies, and late calls arrive after newer ones;
- the platform may be restarted in the middle of a transaction or of its own
  migration, the agent at any moment; a new agent process numbers from 1 again;
- v1 heartbeats may carry a time of the client's choosing;
- integers wrap, and intervals are not bounded by the registration.

`PROJECT.json` lists these as hazards, each with its line and the properties that
would catch it going wrong.

## Modules

```
SessionLedger      what v2 promises: used-once ids, one leader, growing seq
   ^ implements
RuntimeSessions    tables + the three handlers, each transaction one step
   ^ implements            \
SessionTx                   RuntimeQuery --- LivenessRules --- LivenessWatch
 goroutines, snapshots,      the liveness     both              one silence seen
 write lock, restart         query, step      evaluators        by both
                             by step
Registry           robots, devices, Runtimes, references, tasks, runs

DeviceLog          what v1 promises: registered once, numbers only grow
   ^ implements          ^ implements
V1Platform         EdgeAgent
 handlers with           agent processes + lossy network
 stale reads, deaths     + the v1 handlers they call
   | extends
Migration          schema.sql statement by statement on the file found
```

V1Platform and EdgeAgent meet in DeviceLog: V1Platform shows that the handlers, in
all their steps, keep the log of a device; EdgeAgent uses them as single steps, and
shows that the platform it models keeps the same log.

The `MC` modules add the symmetry sets and the values TLC needs. The `...Proofs`
modules extend the module they are named after (LivenessProofs: LivenessWatch); two of
them use the theorems of another, RuntimeQueryProofs by extending RuntimeSessionsProofs and
SessionTxProofs through an instance of it. Operators commented `Mutant:` are
plausible bugs of the definition that follows them; no specification uses them:
putting one in the place of the definition must make TLC refute the
property it is listed with in `PROJECT.json`, which shows the property has teeth.

**RuntimeSessions.** `state`, `started`, `start`, `endedAt`, `lastHb` are the
columns of `runtime_sessions` (`"absent"`, 0 and `NoStart` for a missing row),
`hbs` the rows of `runtime_heartbeats`, `registered` the ids in `runtimes`.
`CreateSession`, `RecordHeartbeat`, `RetryHeartbeat`, `EndSession` are the
branches of the store methods that write. A request that is refused, or that
finds its row recorded already, changes nothing and is a stuttering step. The
decision of the heartbeat handler is the operator `HeartbeatOutcome`, which
keeps the code's odd test of a retry: the same seq AND the same `received_at`
millisecond (`platform.go:437-439, 450-452`). `ClockReadings` is what the
handler may have read before its transaction: any time up to `MaxLag` ago. The
`EndSession` of the code takes any existing session, an ended one included.

**SessionTx.** A job per goroutine goes through `Arrive` (decode, read clock),
`Read` (all SELECTs: one snapshot), `Upgrade` or `Busy` (the first write), and
`Commit`; `Rollback` and `Restart` may come at any point. What was read is kept
in the job (`idle`, `begun`, `decided`); `stale` is the set of handlers whose
snapshot somebody has committed after, `writer` the holder of the write lock. SQLite itself is external and modelled from its
documented WAL rules: the write lock is given to one transaction, and only if
nothing was committed since its snapshot; otherwise `SQLITE_BUSY`, at once, as the
DSN sets no busy timeout; the handler then rolls back and answers 500. The
writes of a transaction become visible together, so they are one step.

**LivenessRules / LivenessWatch.** The evaluators as functions, in two's
complement of width `Modulus`: `DeviceStatus` and `RuntimeLiveness` each have their own
switch, factors and default interval, as in the code, and share nothing but `Wrap`. The
defaults are five seconds, in units of the clock (`Second`). LivenessWatch drives both by
the same heartbeats and the same clock. `Period` is what an interval is meant to count
for, stated apart from the evaluators. The properties that name thresholds are stated for
intervals whose last threshold fits the integers (`Fits`), so none of them would notice
that an interval above 2^63/6 ms overflows; `EvaluatorsAgree` is stated for all intervals.

**RuntimeQuery.** Composes the handlers of RuntimeSessions with readers that run
`handleGetRuntimeLiveness`: `Ask`, `ReadCurrent`, `ReadNewest`, `Answer`. A query
that finds no row and a query that fails look the same to the handler, which
discards the errors. `seen` (what was true of the Runtime since the question) and
`failed` (which readers met an error) are history variables. `TrueLiveness` is
the contract's liveness of a state; `DetailLiveness` is what the detail and the
list query compute from it.

**Registry.** One action per create handler, its transaction one step. `MapRefs`
is the check and the `INSERT OR IGNORE` of external references; `answered` is a
history of what 201 replies have shown: `RefNamesOneObject` is about the replies for robots
and devices, and `CreateRuntime` shows what the code does with a Runtime's references:
they are replied and go nowhere. Only new rows are ever inserted: the code
has no update and no delete here.

**EdgeAgent.** `pc`, `seq`, `signalled`, `cancelled` are the agent's, `registered` and
`rows` the platform's view of the one device, `net` the requests under way and
`reply` the status on its way back. A request may be lost, may arrive late, even
after its process is gone, and a call may return with an error at any time,
whatever the platform did. `HeartbeatStatus` keeps the store's order of checks:
numbering first, existence second.

**DeviceLog.** `Register` and `Accept`: a device is registered once, only a registered
one has heartbeats accepted, and each number is above all before it.

**Migration.** `file` maps each table to its columns, `boot` is the statement to be
executed next, `deaths` counts how often the process died. `Statements` is
`schema.sql`; `RunStatement` leaves a table or a column alone that exists, as
`CREATE TABLE IF NOT EXISTS` and the test for "duplicate column name" do
(`store.go:70-77`). Each statement is committed by itself, and `Die` (a kill, or
a statement that fails and `log.Fatalf`) may come before any of them. `Named` is what
the queries of `internal/store` need (`Usable`: the table has it all). `FilesAssumption`
admits the files of every release: any of the later columns may be missing from a table
that exists. Three of them are in the runs: no file, one from before the Edge Agent, and one
from before v2. The first two columns of heartbeats and the host columns of devices came
together (`domain.go:29, 40`), so the file the ALTERs are for is the second, and its
`devices` lack hostname, arch and os.

**V1Platform.** Extends Migration: handlers run only while `Serving`, and `Crash` takes
them with the process. An old file may hold devices, none of them heard from yet.
On a `devices` table without the host columns `CreateDevice` and `ReadDevice` answer 500 (no
step), heartbeats of the devices in it are stored as ever. The goroutine's locals are `job`: a heartbeat whose time is chosen
(`Arrive`), one found above `MAX(seq)` (`Check`), stored and answered (`Store`), or
failed (`Fail`); a device's `last_seen_ms` read (`ReadDevice`) and shown with the last
heartbeat (`ReadBeat`). SQLite is external, as in SessionTx: `outdated` holds the
handlers after whose read somebody committed, and their INSERT is refused. Requests of one
statement or one transaction on tables nobody else competes for (`CreateDevice`,
`CreateTask`, `CreateRun`) are single steps.

## Runs

Deadlock is checked except in `registry` (every id may be used up) and `agent`
(every process may have stopped): there the system really comes to rest. In the
runs with a platform clock the handlers (ending a session again, a heartbeat, a refused
request that leaves its goroutine idle) or a restart keep the system moving when the
clock is at its bound.

| Run | Instance | What it shows |
|---|---|---|
| `lag` | 1 Runtime, 2 sessions, seq to 2, clock to 3, readings up to 1 old | The structural invariants and action properties hold however late commits are; reception, seq and session order agree, and a duplicate prolongs nothing, up to that lag; `ImplementsLedger`: the handlers implement SessionLedger. |
| `tx` | 2 handlers, 2 sessions, seq 1, clock to 2 | Racing creates, ends and beats, with rollbacks and restarts, implement the atomic handlers of RuntimeSessions (`ImplementsAtomic`). |
| `tx_beats` | 2 handlers, 1 session, seq to 2, clock to 2, fairness | The same where `MAX(seq)` may be stale; every request is answered, the lock is released. |
| `watch` | intervals 0 (the default 5), 1, 2, 3 and the wrapping 30, 43, 60 of width 256, clock to 34 | Both evaluators agree, also where they wrap; where they do not, the thresholds are exact and silence degrades by single levels; a silent producer is missing and offline in the end. |
| `query` | 1 reader, 2 sessions, clock to 5, interval 1, failing reads | "online" is never false; "unknown" is false only after a failed read. |
| `registry` | 2 robots, 3 devices, 2 Runtimes, one each of the rest, 1 reference | The references of robots and devices, containment, hosts and attribution stay sound. |
| `agent` | 2 processes, 2 heartbeats each and a goodbye | A process is refused only because of another one; a goodbye is final; who is told to stop stops; the platform keeps the device log. |
| `v1` | a new file, one from before the Edge Agent and one from before v2, 2 deaths, 1 device, 2 handlers, seq to 2, clock to 3, client time 4 or none | Every start upgrades all but the host columns, and comes to serve; racing heartbeats with clients' times keep the device log, `last_seen_ms` belongs to the newest, and a device is never shown with a heartbeat older than its `last_seen_ms`. |
| `resend` | as `lag`, readings never old | Divergence: an exact resend of an earlier heartbeat is answered 409. |
| `stale_clock` | 2 handlers, 1 session | Divergence: `last_heartbeat_at_ms` may move backwards. |
| `detail` | no reader | Divergence: detail and list say unknown where the liveness query says offline. |
| `old_file` | the three files, 1 handler | Divergence: a file from before the Edge Agent is served although its `devices` cannot be queried. |

Why these bounds are enough to be interesting. Two sessions are what supersession
needs (one takes over, one is late); a third behaves towards the second as the
second towards the first. Heartbeat decisions compare a seq with the maximum
and with itself: two numbers give below, equal and above. A lag of one in a clock of
three lets two commits swap timestamps. Two handlers are what SQLite's write lock
distinguishes: a holder and the others. In `watch` the clock has room for six
intervals of silence after several different times of the last heartbeat. Two
deaths allow a second start on a file the first left half migrated, with the clients'
data in it, and a third that must succeed. Three files are one for each release whose tables
differ in the columns named. Client time 4 lies beyond every reading of the
platform's clock, so an older heartbeat may be dated later. A device needs two others
for a containment cycle longer than two. Two agent processes are a predecessor and a
successor, or two agents configured with one device id.

The platform's clock only moves forward in the models. The code reads the wall clock,
which an administrator or NTP may set back; what that does to liveness is not
modelled. Readings that are late by the time they are stored are (`MaxLag`, `SessionTx`).

Symmetry is used only where safety is checked. The bounds on seq, clock, deaths and
heartbeats stand in guards or in the sets inputs come from; none of the theorems
below depends on them.

### Fairness

- `SessionTx!FairSpec`: weak fairness of each handler's own steps. The Go scheduler
  runs every goroutine, and SQLite never makes one wait (no busy timeout). Nothing
  is assumed of clients, clock or restarts. `RequestsAreAnswered` is still not
  trivial: a reader whose snapshot is stale must have a way out (`Busy`).
- `LivenessWatch!TimedSpec`: time passes, up to the clock's bound. Nothing is assumed
  of the producer. `SilenceIsNoticed` speaks of the moments after which the bounded clock
  has room for six intervals (`HasRoom`).
- `V1Platform!FairSpec`: a process that has been started executes its statements.
  Whether one is started, and whether anybody asks it anything, is left open;
  `StartedServes` is stated per life of the process.
- `EdgeAgent!FairSpec`: every call returns (the HTTP client has a timeout), and a
  `select` case that is ready again and again is taken, because Go chooses among
  ready cases at random: strong fairness of `TakeSignal` and `TakeCancel`. Nothing is
  assumed of the network, of the platform, or of the ticker.

## Where the code and its documents differ

Four differences are kept as runs, since they take several steps or several
actors to see: `resend` (contract 7.2 asks that the same heartbeat sent again
succeeds; `store/platform.go:439` recognises it only within the millisecond of the
first), `stale_clock` (the comment at `domain/platform.go:169` calls
`last_heartbeat_at_ms` the latest reception; the reading is taken before the
transaction and stored whatever is there), `detail` (contract 7.3 makes an
explicitly ended session offline; `api/platform.go:351` evaluates no session then) and
`old_file` (the ALTERs of `schema.sql` are headed "migration of an existing database",
`:28`, but add the columns of heartbeats alone. hostname, arch and os of devices came in the
same phase, `domain/domain.go:29`, and stand in the `CREATE TABLE IF NOT EXISTS` only,
`schema.sql:10`, which leaves an existing table as it is: the platform comes to serve, and
every registration and device query answers 500). That no later start repairs such a
file is proved (`OldDevicesStayUnusable`), as is that no other file is affected
(`FilesWithHostAreMigrated`).

Noticed while reading, and modelled as the code has it, but visible without a
model checker and therefore not made runs:

- `store/platform.go:503` rewrites `ended_at` of an ended session; the comment at
  `api/platform.go:503` announces a no-op.
- `store/platform.go:346` answers a repeated create with the caller's version and
  start time, and only the state from the row on file.
- `store/platform.go:448` accepts a heartbeat with the highest seq and another
  payload (202, nothing stored) where the contract asks for a conflict.
- `store/platform.go:441` drops the error of an UPDATE and commits.
- `api/platform.go:377` discards database errors and answers unknown (`failed` in
  RuntimeQuery); the conformance review asks for a 500.
- `store/platform.go:264-291` neither checks nor stores a Runtime's external references, and
  `api/platform.go:305` answers 201 with them: two Runtimes may each be told they hold one
  reference, and neither shows it when read again. The draft makes `(namespace,value)` of
  `runtime_external_refs` unique (`docs/MANAGEMENT_PLANE_V2_DRAFT.md:66`), and the conformance
  review demands that a mapping to another canonical id is a conflict
  (`docs/MANAGEMENT_PLANE_V2_CONFORMANCE_REVIEW.md:40-41`). Two creates show it, so it is
  not made a run; `RefNamesOneObject` and `UniqueReferences` leave Runtimes out.
- `store/platform.go:70` lets an object have two references in one namespace.
- `api/api.go:152` stores any positive `ts_ms` as `last_seen_ms` and a negative age counts as
  fresh, so one heartbeat dated in the future keeps a silent device ok until that time and
  three intervals have passed. The comment on `StatusOK` (`domain/domain.go:14`) does not
  speak of the future; `OwnClockKeepsWindow` proves that it takes a client's own time.
- `domain/status.go:36` calls a device never heard of missing, the comment of the
  constant (`domain/domain.go:13`) calls it unknown.
- The comment at `store/store.go:147` says a heartbeat updates the device's hostname, arch
  and os; the UPDATE writes `last_seen_ms` only.
- With `-db :memory:` every connection of the pool has a database of its own and only one
  of them is migrated (`store/store.go:41`). The model has the one file of the default.
- `edgeagent/hostmetrics/collector.go:112` speaks of the instantaneous CPU use; the
  counters of `/proc/stat` are divided as they are, which gives the average since boot. A
  field that cannot be parsed counts as 0 and not as missing, and a kernel without
  `MemAvailable` reads as memory 100% used.
- `domain/platform.go:279` and `domain/status.go:46` multiply an unbounded interval: above
  2^63/6 ms the product wraps, and a fresh heartbeat may read offline and missing. Both do so
  alike, so `EvaluatorsAgree` holds all the same; the properties on thresholds leave such
  intervals out (`Fits`).
- `edgeagent/agent.go:95` ends the agent when registration meets a platform that is
  down; the README speaks of retries.
- A liveness query that is delayed between reading the row and reading the clock may
  answer stale or offline although a heartbeat came in meanwhile. No document
  promises otherwise, so `NoFalseOnline` and `NoFalseUnknown` are all that is stated.

## Proofs

Assumptions on the constants, each checked by TLC in every run of its module:

- numbers are numbers and in range: `BoundsAssumption` (RuntimeSessions; the clock's bound is
  positive), `ClockAssumption` (SessionTx and V1Platform, the same of their clocks),
  `SeqAssumption`, `MaxSeqAssumption`, `DeathsAssumption`, `ClientTimesAssumption`,
  `WatchAssumption`, `IntervalAssumption`, `ModulusAssumption`, `SecondAssumption`;
- `ClockFitsAssumption` (RuntimeQuery): the clock fits the evaluator's integers, as milliseconds
  since 1970 fit an int64 for 292 million years;
- `NoOneAssumption` (the free lock's value is no handler), `NoneAssumption` (`None` is no id);
- `FilesAssumption` (above).

Nothing is assumed of the sets of ids; they may be infinite. The results below hold for every
value of the constants the assumptions admit; two theorems and those on thresholds have a
hypothesis of their own, which is named with them.

- **RuntimeSessionsProofs.** `Typing` by induction. `SingleCurrent`: `AtMostOneCurrent`
  with the types is inductive; the case that matters is `CreateSession`, whose UPDATE
  leaves no current session but the new one. `RowsInv`, the conjunction of types,
  parents, one row per seq and `LastHbOnRecord`, is inductive as a whole: that a
  heartbeat is recorded only above the maximum (`RecordedIsNewest`) gives uniqueness, that an absent
  session has no rows gives `lastHb = 0 <=> hbs = {}` for a new session.
  `UniqueSeqRows`, `LivenessEvidence` and `NoOrphanRows` follow. The action properties
  `LeadIsLostForGood`, `AuditIsAppendOnly`, `LateBeatsAreAuditOnly` and `Isolation` (no
  request changes rows of another Runtime; theorem only) follow from
  the types and the handlers' guards. `LedgerRefinement`: under the mapping leader = the current
  sessions, used = sessions with a row, beats = seqs on record, every handler takes a
  step of SessionLedger or stutters; `AtMostOneCurrent` is what makes `EndSession` of the
  current session a `Stop`.
  The second half is about how far order can go wrong when a handler commits up to `MaxLag` after
  it read the clock. `OrderInv` adds to `RowsInv` that no time on record lies in the future,
  `ReceptionFollowsSeq` and `CurrentIsNewest`, each with slack `MaxLag`, and is inductive only
  as a whole: a new row is newest by seq (above the maximum) and its reception is at
  most the lag behind now, which no time on record exceeds. `OrderedReception`,
  `NewestIsCurrent` and `DuplicatesProlongNothing` follow for every lag; with lag 0 they say
  that the orders agree. `PromptHandlersKeepLatest` (hypothesis: `MaxLag = 0`) says what that
  means for the run `stale_clock`: the comment it refutes would be true if no time passed
  between the reading of the clock and the commit.
- **SessionTxProofs.** `TxInv` says, besides the types: a handler that has decided and is not stale
  has the outcome its SELECTs would give now (`FreshAgrees`), the holder of the lock has decided and is not
  stale (`LockHeld`), readings of the clock lie in the past and only handlers that have
  read are stale. Every commit makes all other snapshots stale, so the first part survives a
  commit; the second is why the holder's decision is right (`WriterIsRight`), and why its
  commit is one step of the atomic handler while every other step stutters
  (`TransactionsAreAtomic`). It holds for any number of handlers.
  What is proved of the atomic handlers therefore holds of the racing ones, and
  this is proved too: the instance `Sequential` of RuntimeSessionsProofs, with the whole clock as
  the lag, gives `TransactionsKeepLedger` (the two refinements composed: goroutines in SQLite
  transactions implement SessionLedger), `TransactionsKeepTables` and `TransactionsKeepHistory`.
- **RuntimeQueryProofs.** A reader of the liveness query holds a row that others change behind
  its back. Its invariant `EvidenceInv` says of every reader: if what it was told, or what its
  row would be evaluated to by now, is "online", then that was true of the Runtime at some moment since
  the question; if it is "unknown", then that was true or a read of the query failed. Four facts make it
  inductive. A row with one of these two words is that of a current session, hence of the only
  one, so the word is the truth of the moment it is read (`FoundRowTells`, `RowIsEvidence`, with
  `AtMostOneCurrent` from `SingleCurrent`). Time that passes before the answer takes "online" away and
  leaves "unknown" as it is (`OnlineBefore`, `UnknownIsTimeless`; the first needs ages that
  fit the integers). Whoever finds no row without an error looks at a Runtime without sessions
  (`NoRowIsEvidence`): a newest session exists whenever there is one (`LatestExists`, by
  well-foundedness of the naturals, the clock being bounded). And the readers change no table
  (`QueriesDisturbNothing`), so every theorem of RuntimeSessionsProofs stays available.
  `OnlineIsNoLie` and `UnknownIsNoLie` follow for any number of readers and any failures.
- **RegistryProofs.** `RegistryTyping`, and `UniqueReferences`, `HostsOnRobot`, `AttributableRuns`,
  `NoDanglingReferences`, each from types and the invariant itself: rows are never
  updated, so what a create checked stays true. `UniqueReferences` needs besides that what was
  replied for robots and devices is stored (`StoredApart`), as the handlers look up the table. `Containment`: every set of devices has one whose
  parent is outside. A new device is nobody's parent and its parent is older: take it from
  a set that holds it and use the forest as it was, or it is alone and its own parent would
  have to exist before it. No induction over the number of devices is needed.
- **EdgeAgentProofs.** `AgentInv`: every number on the wire or on record was drawn by
  its process (`Drawn`) and is in one place only (`SentOnce`), a goodbye carries the last
  number drawn (`GoodbyeDrawnLast`), and what is known at each place of `Run` (`Places`),
  in particular that a 409 under way is due to another process. `OnlyAnotherRefuses`
  and `GoodbyeIsFinal` follow. `AgentsSeeDeviceLog`: `HandleRegister` is `Register` the first
  time, an accepted heartbeat is `Accept`, every other step stutters. They hold for any
  number of processes.
- **MigrationProofs.** `BootInv`: the statements before the current one are done (`Done`), and
  every table there is has its core (`Readable`). Types alone would not do: an
  ALTER is only known to find its table because its CREATE came before it, and
  `CREATE IF NOT EXISTS` leaves an incomplete table incomplete. The lemma `Script` is all that
  the proof uses of `schema.sql`: an ALTER follows the CREATE of its table, and every column
  that is named is core, added by an ALTER, or a host column, which the CREATE of devices
  has and no ALTER. `StartsUpgrade` follows for every file `FilesAssumption` admits and any
  number of deaths. What remains is told apart by the file alone, as a `devices` table gets the
  host columns with its CREATE or never (`HostStays`): `FilesWithHostAreMigrated` (hypothesis: no
  file of `Files` has `devices` without them) gives the property that the run `old_file`
  refutes, `OldDevicesStayUnusable` (hypothesis: every file has) that nothing mends it.
- **V1PlatformProofs.** `V1Inv` adds to types, `BootInv`, `LastSeenIsOfNewestRow` and
  `NothingDangles` what the goroutines hold (`JobInv`): a heartbeat found above all others is so
  still unless its handler is outdated (`CheckedAt`), a `last_seen_ms` that was read is the
  time of a row on record (`HalfAt`), an answer shows no older row (`ShownAt`). Storing is the
  step that matters: `CheckedAt` makes the new row the newest, and its commit outdates every
  other handler that has read. `DeviceLogRefinement` uses the same fact for `Accept`. Any number
  of devices, handlers and client times. `OwnClockKeepsWindow` is about the
  status that is shown: where clients send no time (hypothesis: `ClientTimes \subseteq {0}`; clock
  and thresholds fit the integers) no heartbeat stored or about to be stored is of the
  future (`NoFutureBeats`), and then "ok" does mean three intervals.
- **LivenessProofs.** `WordsCorrespond` compares the two switches case by case (`StatusCases`,
  `LivenessCases`): each compares the age with three and six times what its own default leaves of
  the interval, wrapped or not, and the constants of the two packages turn out equal. `ThresholdsHold` and `SilenceWorsens` assume that the clock itself fits the integers
  (`2 * MaxClock < Modulus`); `NoWrap` then removes the wrapping.

Only model-checked: what holds under fairness (`RequestsAreAnswered`, `LockIsReleased`,
`SilenceIsNoticed`, `StartedServes`, `ToldToStopStops`), which this prover cannot reach. The
four divergences are counterexamples and need no proof. Every invariant and every action property
the passing runs check is a theorem.

## Not modelled, and why

- The content of host metrics: a stateless read of files at each heartbeat, whose result agent
  and platform pass on unread.
- The agent's configuration from the environment, JSON and URL decoding, validation of names
  and kinds: conversions no property here is about.
- List queries beyond the liveness they show: one statement each, and they change nothing.
- Start-up flags and the demo scripts.
- 404 and 422 replies are refusals without effect: which of them is chosen matters only
  where a property speaks of it.
- Orderly shutdown of the platform: the program has none; a signal ends it as `Crash` does.

## Plan

Done: all modules above with their runs, and a proof of every safety property. Next, in this
order:

1. V1Platform in the place of EdgeAgent's own handlers, so that an agent meets a platform
   that dies while it answers, and the two refinements to DeviceLog composed as those of
   SessionTx and RuntimeSessions are.
2. A wall clock that is set back, in RuntimeSessions and V1Platform.
