----------------------------- MODULE V1Platform -----------------------------
(***************************************************************************)
(* The v1 half of the platform on one database file: the process starts    *)
(* and migrates the file (Migration), then serves devices, heartbeats,     *)
(* tasks and runs, one goroutine per request, until it dies.               *)
(*                                                                         *)
(* A heartbeat's handler chooses the time it will store (the client's      *)
(* ts_ms, or the clock), reads MAX(seq) in a transaction, then inserts the *)
(* row and updates the device; SQLite (external) refuses the write if      *)
(* anything was committed after that read.  A GET of a device reads the    *)
(* device and its last heartbeat in two queries.                           *)
(***************************************************************************)
EXTENDS Migration

CONSTANTS
  Devices, Tasks, RunIds,   \* ids clients may present
  Handlers,                 \* goroutines serving requests
  MaxSeq,                   \* bound on the sequence numbers sent
  MaxClock,                 \* bound on the platform clock
  ClientTimes,              \* ts_ms values clients send; 0 stands for none
  Interval,                 \* heartbeat_interval_ms of every device
  Modulus                   \* of the evaluator's integers

ASSUME ClockAssumption == MaxClock \in Nat \ {0} /\ MaxSeq \in Nat
ASSUME ClientTimesAssumption == ClientTimes \subseteq Nat
ASSUME IntervalAssumption == Interval \in Nat \ {0}

VARIABLES
  known,       \* ids in table devices
  lastSeen,    \* last_seen_ms, 0 when no heartbeat was accepted
  beats,       \* the rows of heartbeats, per device
  tasks,       \* ids in table tasks
  runs,        \* the rows of runs
  clock,
  job,         \* job[h]: the locals of goroutine h
  outdated     \* the handlers with a transaction others have committed after

tables == <<known, lastSeen, beats, tasks, runs>>
v1Vars == <<bootVars, tables, clock, job, outdated>>

Rules == INSTANCE LivenessRules WITH Second <- 1

Seqs == 1 .. MaxSeq
Stamps == (1 .. MaxClock) \cup (ClientTimes \ {0})
Rows == [seq : Seqs, ts : Stamps]
Runs == [id : RunIds, task : Tasks, device : Devices]

\* A goroutine is idle; has a heartbeat to store whose seq it has not compared
\* ("begun") or found above all others ("checked"); holds a device's
\* last_seen_ms ("half"); or has answered with that and the seq of the last
\* heartbeat, 0 for none ("shown").
Idle == [pc |-> "idle"]
Jobs ==
  {Idle}
    \cup [pc : {"begun", "checked"}, d : Devices, row : Rows]
    \cup [pc : {"half"}, d : Devices, seen : Stamps \cup {0}]
    \cup [pc : {"shown"}, d : Devices, seen : Stamps \cup {0}, last : Seqs \cup {0}]

TypeOK ==
  /\ BootTypeOK
  /\ known \subseteq Devices
  /\ lastSeen \in [Devices -> Stamps \cup {0}]
  /\ beats \in [Devices -> SUBSET Rows]
  /\ tasks \subseteq Tasks
  /\ runs \subseteq Runs
  /\ clock \in 1 .. MaxClock
  /\ job \in [Handlers -> Jobs]
  /\ outdated \subseteq Handlers

\* A file that has the table may hold devices, registered by an older release.
Init ==
  /\ BootInit
  /\ known \in IF file["devices"] = {} THEN {{}} ELSE SUBSET Devices
  /\ lastSeen = [d \in Devices |-> 0]
  /\ beats = [d \in Devices |-> {}]
  /\ tasks = {}
  /\ runs = {}
  /\ clock = 1
  /\ job = [h \in Handlers |-> Idle]
  /\ outdated = {}

-----------------------------------------------------------------------------

\* A commit outdates the other transactions that have read by now.
Commit(own) == outdated' = {h \in Handlers \ own : job[h].pc = "checked"}

Answered(h) == job' = [job EXCEPT ![h] = Idle]

\* Requests of one transaction.  A refused one changes nothing: 409 for an id
\* that exists, 422 for a run of an unknown task or device, 500 for a device
\* whose columns the table does not have.
CreateDevice(d) ==
  /\ Usable("devices")
  /\ d \notin known
  /\ known' = known \cup {d}
  /\ Commit({})
  /\ UNCHANGED <<job, lastSeen, beats, tasks, runs>>

CreateTask(t) ==
  /\ t \notin tasks
  /\ tasks' = tasks \cup {t}
  /\ Commit({})
  /\ UNCHANGED <<job, known, lastSeen, beats, runs>>

CreateRun(x, t, d) ==
  /\ t \in tasks /\ d \in known
  /\ \A run \in runs : run.id # x
  /\ runs' = runs \cup {[id |-> x, task |-> t, device |-> d]}
  /\ Commit({})
  /\ UNCHANGED <<job, known, lastSeen, beats, tasks>>

\* Mutant: a heartbeat without ts_ms keeps the time 0.
ArriveUndated(h, d, q, ts) ==
  /\ job[h].pc \in {"idle", "shown"}
  /\ job' = [job EXCEPT ![h] = [pc |-> "begun", d |-> d, row |-> [seq |-> q, ts |-> ts]]]
  /\ UNCHANGED <<tables, outdated>>

\* A heartbeat arrives, with a time of its own or without one.
Arrive(h, d, q, ts) ==
  /\ job[h].pc \in {"idle", "shown"}
  /\ job' = [job EXCEPT ![h] =
               [pc |-> "begun", d |-> d,
                row |-> [seq |-> q, ts |-> IF ts = 0 THEN clock ELSE ts]]]
  /\ UNCHANGED <<tables, outdated>>

\* SELECT MAX(seq); a seq that is not above it is answered 409.
Check(h) ==
  /\ job[h].pc = "begun"
  /\ IF \E row \in beats[job[h].d] : row.seq >= job[h].row.seq
     THEN Answered(h)
     ELSE job' = [job EXCEPT ![h] = [pc |-> "checked", d |-> @.d, row |-> @.row]]
  /\ UNCHANGED <<tables, outdated>>

\* INSERT and UPDATE of one heartbeat, and the COMMIT.
Write(d, row) ==
  /\ beats' = [beats EXCEPT ![d] = @ \cup {row}]
  /\ lastSeen' = [lastSeen EXCEPT ![d] = row.ts]
  /\ UNCHANGED <<known, tasks, runs>>

\* Mutant: MAX(seq) is read outside the transaction.
StoreUnread(h) ==
  /\ job[h].pc = "checked"
  /\ Answered(h)
  /\ \/ job[h].d \in known /\ Write(job[h].d, job[h].row) /\ Commit({h})
     \/ job[h].d \notin known /\ outdated' = outdated \ {h} /\ UNCHANGED tables

\* Mutant: the number of rows the UPDATE affected is not looked at.
StoreAnyway(h) ==
  /\ job[h].pc = "checked"
  /\ h \notin outdated
  /\ Answered(h)
  /\ Write(job[h].d, job[h].row) /\ Commit({h})

\* The INSERT comes first; an UPDATE that finds no device undoes it (404).
Store(h) ==
  /\ job[h].pc = "checked"
  /\ h \notin outdated
  /\ Answered(h)
  /\ \/ job[h].d \in known /\ Write(job[h].d, job[h].row) /\ Commit({h})
     \/ job[h].d \notin known /\ UNCHANGED <<tables, outdated>>

\* SQLITE_BUSY, or another error of the database: rolled back, answered 500.
Fail(h) ==
  /\ job[h].pc \in {"begun", "checked", "half"}
  /\ Answered(h)
  /\ outdated' = outdated \ {h}
  /\ UNCHANGED tables

\* GetDevice; an unknown device is answered 404, a table without the columns 500.
ReadDevice(h, d) ==
  /\ job[h].pc \in {"idle", "shown"}
  /\ Usable("devices")
  /\ d \in known
  /\ job' = [job EXCEPT ![h] = [pc |-> "half", d |-> d, seen |-> lastSeen[d]]]
  /\ UNCHANGED <<tables, outdated>>

\* Mutant: the rows are sorted the other way round.
FirstSeq(d) ==
  IF beats[d] = {} THEN 0
  ELSE (CHOOSE row \in beats[d] : \A other \in beats[d] : row.seq <= other.seq).seq

\* ORDER BY seq DESC LIMIT 1.
LastSeq(d) ==
  IF beats[d] = {} THEN 0
  ELSE (CHOOSE row \in beats[d] : \A other \in beats[d] : other.seq <= row.seq).seq

\* The status a device is shown with.
Status(d) == Rules!DeviceStatus(lastSeen[d], Interval, clock)

\* LastHeartbeat, and the answer.
ReadBeat(h) ==
  /\ job[h].pc = "half"
  /\ job' = [job EXCEPT ![h] =
               [pc |-> "shown", d |-> @.d, seen |-> @.seen, last |-> LastSeq(@.d)]]
  /\ UNCHANGED <<tables, outdated>>

HandlerStep(h) ==
  \/ \E d \in Devices : \/ ReadDevice(h, d)
                        \/ \E q \in Seqs, ts \in ClientTimes : Arrive(h, d, q, ts)
  \/ Check(h) \/ Store(h) \/ Fail(h) \/ ReadBeat(h)

Serve ==
  /\ Serving
  /\ \/ \E d \in Devices : CreateDevice(d)
     \/ \E t \in Tasks : CreateTask(t)
     \/ \E x \in RunIds, t \in Tasks, d \in Devices : CreateRun(x, t, d)
     \/ \E h \in Handlers : HandlerStep(h)
  /\ UNCHANGED <<bootVars, clock>>

\* The requests under way die with the process; SQLite rolls them back.
Crash ==
  /\ Die
  /\ job' = [h \in Handlers |-> Idle]
  /\ outdated' = {}
  /\ UNCHANGED <<tables, clock>>

Boot == (Start \/ RunStatement) /\ UNCHANGED <<tables, clock, job, outdated>>

Tick ==
  /\ clock < MaxClock
  /\ clock' = clock + 1
  /\ UNCHANGED <<bootVars, tables, job, outdated>>

Next == Boot \/ Serve \/ Crash \/ Tick

Spec == Init /\ [][Next]_v1Vars

\* A process that has been started runs; whether one is started, and whether
\* anybody asks it anything, is left open.
FairSpec == Spec /\ WF_v1Vars(RunStatement /\ Boot)

-----------------------------------------------------------------------------
\* last_seen_ms, from which a device's status is computed, is the time of the
\* heartbeat with the highest seq: whatever times clients choose and in whatever
\* order their requests commit, no older heartbeat overwrites a newer one.
LastSeenIsOfNewestRow ==
  \A d \in Devices :
    IF beats[d] = {} THEN lastSeen[d] = 0
    ELSE \E row \in beats[d] : /\ row.ts = lastSeen[d]
                               /\ \A other \in beats[d] : other.seq <= row.seq

\* Heartbeats have a device, runs a device and a task.  Foreign keys are not
\* enforced, and AddHeartbeat inserts before it knows that the device exists.
NothingDangles ==
  /\ \A d \in Devices : beats[d] # {} => d \in known
  /\ \A run \in runs : run.task \in tasks /\ run.device \in known

\* The two queries of GET /v1/devices/{id} are torn in one direction only: the
\* heartbeat shown is never older than the one the last_seen_ms beside it is of.
ShownBeatIsNotOlder ==
  \A h \in Handlers :
    job[h].pc = "shown" /\ job[h].seen # 0 =>
      \E row \in beats[job[h].d] : row.ts = job[h].seen /\ row.seq <= job[h].last

\* Handlers with stale reads, failures, deaths and new starts of the process
\* implement the abstract log of a device.
Log == INSTANCE DeviceLog WITH
  Numbers <- Seqs,
  log <- [d \in Devices |-> {row.seq : row \in beats[d]}]
ImplementsDeviceLog == Log!LogSpec

=============================================================================
