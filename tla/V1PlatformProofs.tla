-------------------------- MODULE V1PlatformProofs --------------------------
(***************************************************************************)
(* Theorems of V1Platform for every number of devices, handlers, sequence  *)
(* numbers and client times, every file FilesAssumption admits and any     *)
(* number of deaths.                                                       *)
(***************************************************************************)
EXTENDS V1Platform, MigrationProofs

\* What a goroutine holds, by how far it has come.
LEMMA JobFields ==
  ASSUME NEW j \in Jobs
  PROVE  /\ j.pc \in {"idle", "begun", "checked", "half", "shown"}
         /\ j.pc \in {"begun", "checked"} => j.d \in Devices /\ j.row \in Rows
         /\ j.pc \in {"half", "shown"} => j.d \in Devices /\ j.seen \in Stamps \cup {0}
         /\ j.pc = "shown" => j.last \in Seqs \cup {0}
  BY DEF Jobs, Idle

\* A heartbeat found above all others still is, unless its handler's snapshot
\* is outdated.
CheckedAt(h) ==
  job[h].pc = "checked" /\ h \notin outdated =>
    \A row \in beats[job[h].d] : row.seq < job[h].row.seq

\* A last_seen_ms that was read is the time of a heartbeat on record.
HalfAt(h) ==
  job[h].pc = "half" /\ job[h].seen # 0 =>
    \E row \in beats[job[h].d] : row.ts = job[h].seen

\* An answer satisfies ShownBeatIsNotOlder.
ShownAt(h) ==
  job[h].pc = "shown" /\ job[h].seen # 0 =>
    \E row \in beats[job[h].d] : row.ts = job[h].seen /\ row.seq <= job[h].last

JobInv == \A h \in Handlers : CheckedAt(h) /\ HalfAt(h) /\ ShownAt(h)

\* The inductive invariant.
V1Inv == TypeOK /\ BootInv /\ LastSeenIsOfNewestRow /\ NothingDangles /\ JobInv

\* The platform starts with it.
LEMMA InitV1Inv == Init => V1Inv
  <1> SUFFICES ASSUME Init PROVE V1Inv
    OBVIOUS
  <1>1. BootInv /\ BootTypeOK
    BY InitBootInv DEF Init, BootInv
  <1>2. TypeOK
    BY <1>1, ClockAssumption DEF Init, TypeOK, Jobs
  <1>3. JobInv
    BY DEF Init, JobInv, CheckedAt, HalfAt, ShownAt, Idle
  <1>4. LastSeenIsOfNewestRow /\ NothingDangles
    BY DEF Init, LastSeenIsOfNewestRow, NothingDangles
  <1> QED
    BY <1>1, <1>2, <1>3, <1>4 DEF V1Inv

\* The seq shown is at least that of every row.
LEMMA LastSeqIsMax ==
  ASSUME TypeOK, LastSeenIsOfNewestRow, NEW d \in Devices
  PROVE  /\ LastSeq(d) \in Seqs \cup {0}
         /\ \A row \in beats[d] : row.seq <= LastSeq(d)
  <1>1. CASE beats[d] = {}
    BY <1>1 DEF LastSeq
  <1>2. CASE beats[d] # {}
    <2> DEFINE Newest(row) == \A other \in beats[d] : other.seq <= row.seq
    <2>1. \E row \in beats[d] : Newest(row)
      BY <1>2 DEF LastSeenIsOfNewestRow
    <2>2. PICK row \in beats[d] : Newest(row) /\ LastSeq(d) = row.seq
      BY <1>2, <2>1 DEF LastSeq
    <2>3. row.seq \in Seqs
      BY <2>2 DEF TypeOK, Rows
    <2> QED
      BY <2>2, <2>3
  <1> QED
    BY <1>1, <1>2

\* What every handler step does to the locals of one goroutine.
LEMMA JobChange ==
  ASSUME TypeOK, NEW h \in Handlers, NEW j, job' = [job EXCEPT ![h] = j]
  PROVE  job'[h] = j /\ \A g \in Handlers : g # h => job'[g] = job[g]
  BY DEF TypeOK

\* Rows are only ever added, so what was read stays on record.
LEMMA ReadsStay ==
  ASSUME V1Inv, NEW h \in Handlers, job'[h] = job[h],
         \A d \in Devices : beats[d] \subseteq beats'[d]
  PROVE  HalfAt(h)' /\ ShownAt(h)'
  <1>1. job[h] \in Jobs /\ HalfAt(h) /\ ShownAt(h)
    BY DEF V1Inv, TypeOK, JobInv
  <1> QED
    BY <1>1, JobFields DEF HalfAt, ShownAt

\* A goroutine that is done holds nothing.
LEMMA IdleHolds ==
  ASSUME NEW h, job'[h] = Idle
  PROVE  CheckedAt(h)' /\ HalfAt(h)' /\ ShownAt(h)'
  BY DEF CheckedAt, HalfAt, ShownAt, Idle

\* A commit that adds no heartbeat outdates or keeps what was read.
LEMMA CommitKeepsJobs ==
  ASSUME V1Inv, Commit({}), job' = job, beats' = beats
  PROVE  JobInv'
  <1> SUFFICES ASSUME NEW h \in Handlers PROVE (CheckedAt(h) /\ HalfAt(h) /\ ShownAt(h))'
    BY DEF JobInv
  <1>1. HalfAt(h)' /\ ShownAt(h)'
    BY ReadsStay
  <1>2. CheckedAt(h)'
    BY DEF CheckedAt, Commit
  <1> QED
    BY <1>1, <1>2

\* Creating devices, tasks and runs.
LEMMA CreatesKeepV1Inv ==
  ASSUME V1Inv, UNCHANGED <<bootVars, clock>>,
         \/ \E d \in Devices : CreateDevice(d)
         \/ \E t \in Tasks : CreateTask(t)
         \/ \E x \in RunIds, t \in Tasks, d \in Devices : CreateRun(x, t, d)
  PROVE  V1Inv'
  <1>1. Commit({}) /\ job' = job /\ beats' = beats /\ lastSeen' = lastSeen
    BY DEF CreateDevice, CreateTask, CreateRun
  <1>2. JobInv'
    BY <1>1, CommitKeepsJobs
  <1>3. BootInv' /\ BootTypeOK'
    BY StepBootInv DEF V1Inv, BootInv
  <1>4. LastSeenIsOfNewestRow'
    BY <1>1 DEF V1Inv, LastSeenIsOfNewestRow
  <1> DEFINE Grown == /\ known \subseteq known' /\ tasks \subseteq tasks'
                      /\ known' \subseteq Devices /\ tasks' \subseteq Tasks
                      /\ runs' \subseteq Runs
                      /\ \A run \in runs' : run.task \in tasks' /\ run.device \in known'
  <1>5. Grown
    <2> TypeOK /\ NothingDangles
      BY DEF V1Inv
    <2>1. ASSUME NEW d \in Devices, CreateDevice(d) PROVE Grown
      BY <2>1 DEF CreateDevice, TypeOK, NothingDangles
    <2>2. ASSUME NEW t \in Tasks, CreateTask(t) PROVE Grown
      BY <2>2 DEF CreateTask, TypeOK, NothingDangles
    <2>3. ASSUME NEW x \in RunIds, NEW t \in Tasks, NEW d \in Devices, CreateRun(x, t, d)
          PROVE  Grown
      <3> DEFINE new == [id |-> x, task |-> t, device |-> d]
      <3>1. new \in Runs /\ new.task = t /\ new.device = d
        BY DEF Runs
      <3>2. /\ t \in tasks /\ d \in known /\ runs' = runs \cup {new}
            /\ known' = known /\ tasks' = tasks
        BY <2>3 DEF CreateRun
      <3> HIDE DEF new
      <3> QED
        BY <3>1, <3>2 DEF TypeOK, NothingDangles
    <2> QED
      BY <2>1, <2>2, <2>3
  <1>6. TypeOK'
    BY <1>1, <1>3, <1>5 DEF V1Inv, TypeOK, Commit
  <1>7. NothingDangles'
    BY <1>1, <1>5 DEF V1Inv, NothingDangles
  <1> QED
    BY <1>2, <1>3, <1>4, <1>6, <1>7 DEF V1Inv

\* A handler step that commits nothing: only one goroutine's locals change.
LEMMA LocalStep ==
  ASSUME V1Inv, NEW h \in Handlers, NEW j \in Jobs, job' = [job EXCEPT ![h] = j],
         UNCHANGED <<bootVars, tables, clock>>,
         outdated' = outdated \/ outdated' = outdated \ {h},
         CheckedAt(h)' /\ HalfAt(h)' /\ ShownAt(h)'
  PROVE  V1Inv'
  <1>1. TypeOK /\ BootInv /\ LastSeenIsOfNewestRow /\ NothingDangles /\ JobInv
    BY DEF V1Inv
  <1>2. /\ known' = known /\ lastSeen' = lastSeen /\ beats' = beats
        /\ tasks' = tasks /\ runs' = runs
    BY DEF tables
  <1>3. BootInv' /\ BootTypeOK'
    BY <1>1, StepBootInv DEF BootInv
  <1>4. job' \in [Handlers -> Jobs] /\ outdated' \subseteq Handlers
    BY <1>1 DEF TypeOK
  <1>5. TypeOK'
    BY <1>1, <1>2, <1>3, <1>4 DEF TypeOK
  <1>6. LastSeenIsOfNewestRow' /\ NothingDangles'
    BY <1>1, <1>2 DEF LastSeenIsOfNewestRow, NothingDangles
  <1>7. ASSUME NEW g \in Handlers, g # h PROVE (CheckedAt(g) /\ HalfAt(g) /\ ShownAt(g))'
    <2>1. job'[g] = job[g]
      BY <1>1, <1>7, JobChange
    <2>2. g \notin outdated' => g \notin outdated
      BY <1>7
    <2>3. HalfAt(g)' /\ ShownAt(g)'
      BY <1>2, <2>1, ReadsStay
    <2>4. CheckedAt(g)'
      BY <1>1, <1>2, <2>1, <2>2 DEF JobInv, CheckedAt
    <2> QED
      BY <2>3, <2>4
  <1>8. JobInv'
    BY <1>7 DEF JobInv
  <1> QED
    BY <1>3, <1>5, <1>6, <1>8 DEF V1Inv

\* Requests that arrive, and the two reads.
LEMMA ArriveKeepsV1Inv ==
  ASSUME V1Inv, UNCHANGED <<bootVars, clock>>, NEW h \in Handlers, NEW d \in Devices,
         NEW q \in Seqs, NEW ts \in ClientTimes, Arrive(h, d, q, ts)
  PROVE  V1Inv'
  <1> DEFINE row == [seq |-> q, ts |-> IF ts = 0 THEN clock ELSE ts]
             j == [pc |-> "begun", d |-> d, row |-> row]
  <1>1. row \in Rows
    BY DEF V1Inv, TypeOK, Rows, Stamps
  <1>2. j \in Jobs /\ j.pc = "begun"
    BY <1>1 DEF Jobs
  <1>3. job' = [job EXCEPT ![h] = j] /\ UNCHANGED <<tables, outdated>>
    BY DEF Arrive
  <1> HIDE DEF j
  <1>4. job'[h] = j
    BY <1>3, JobChange DEF V1Inv
  <1>5. CheckedAt(h)' /\ HalfAt(h)' /\ ShownAt(h)'
    BY <1>2, <1>4 DEF CheckedAt, HalfAt, ShownAt
  <1> QED
    BY <1>2, <1>3, <1>5, LocalStep

LEMMA AnsweredKeepsV1Inv ==
  ASSUME V1Inv, UNCHANGED <<bootVars, tables, clock>>, NEW h \in Handlers, Answered(h),
         outdated' = outdated \/ outdated' = outdated \ {h}
  PROVE  V1Inv'
  <1>1. Idle \in Jobs /\ job' = [job EXCEPT ![h] = Idle]
    BY DEF Jobs, Answered
  <1>2. job'[h] = Idle
    BY <1>1, JobChange DEF V1Inv
  <1>3. CheckedAt(h)' /\ HalfAt(h)' /\ ShownAt(h)'
    BY <1>2, IdleHolds
  <1> QED
    BY <1>1, <1>3, LocalStep

LEMMA CheckKeepsV1Inv ==
  ASSUME V1Inv, UNCHANGED <<bootVars, clock>>, NEW h \in Handlers, Check(h)
  PROVE  V1Inv'
  <1>1. job[h] \in Jobs /\ job[h].pc = "begun" /\ UNCHANGED <<tables, outdated>>
    BY DEF V1Inv, TypeOK, Check
  <1>2. CASE \E row \in beats[job[h].d] : row.seq >= job[h].row.seq
    <2>1. Answered(h)
      BY <1>2 DEF Check
    <2> QED
      BY <1>1, <2>1, AnsweredKeepsV1Inv
  <1>3. CASE ~ \E row \in beats[job[h].d] : row.seq >= job[h].row.seq
    <2> DEFINE j == [pc |-> "checked", d |-> job[h].d, row |-> job[h].row]
    <2>1. job[h].d \in Devices /\ job[h].row \in Rows
      BY <1>1, JobFields
    <2>2. /\ j \in Jobs /\ j.pc = "checked" /\ j.d = job[h].d /\ j.row = job[h].row
      BY <2>1 DEF Jobs
    <2>3. job' = [job EXCEPT ![h] = [pc |-> "checked", d |-> @.d, row |-> @.row]]
      BY <1>3 DEF Check
    <2>4. job' = [job EXCEPT ![h] = j]
      BY <2>3
    <2> HIDE DEF j
    <2>5. job'[h] = j
      BY <2>4, JobChange DEF V1Inv
    <2>6. \A row \in beats[j.d] : row.seq < j.row.seq
      <3>1. \A row \in beats[j.d] : row.seq \in Int /\ j.row.seq \in Int
        BY <2>1, <2>2 DEF V1Inv, TypeOK, Rows, Seqs
      <3> QED
        BY <1>3, <2>2, <3>1
    <2>7. CheckedAt(h)' /\ HalfAt(h)' /\ ShownAt(h)'
      BY <1>1, <2>2, <2>5, <2>6 DEF CheckedAt, HalfAt, ShownAt, tables
    <2> QED
      BY <1>1, <2>2, <2>4, <2>7, LocalStep
  <1> QED
    BY <1>2, <1>3

\* The last_seen_ms read is the time of a heartbeat on record.
LEMMA ReadDeviceKeepsV1Inv ==
  ASSUME V1Inv, UNCHANGED <<bootVars, clock>>, NEW h \in Handlers, NEW d \in Devices,
         ReadDevice(h, d)
  PROVE  V1Inv'
  <1> DEFINE j == [pc |-> "half", d |-> d, seen |-> lastSeen[d]]
  <1>1. j \in Jobs /\ j.pc = "half" /\ j.d = d /\ j.seen = lastSeen[d]
    BY DEF V1Inv, TypeOK, Jobs
  <1>2. job' = [job EXCEPT ![h] = j] /\ UNCHANGED <<tables, outdated>>
    BY DEF ReadDevice
  <1> HIDE DEF j
  <1>3. job'[h] = j
    BY <1>2, JobChange DEF V1Inv
  <1>4. lastSeen[d] # 0 => \E row \in beats[d] : row.ts = lastSeen[d]
    BY DEF V1Inv, LastSeenIsOfNewestRow
  <1>5. CheckedAt(h)' /\ HalfAt(h)' /\ ShownAt(h)'
    BY <1>1, <1>2, <1>3, <1>4 DEF CheckedAt, HalfAt, ShownAt, tables
  <1> QED
    BY <1>1, <1>2, <1>5, LocalStep

\* The seq read after it is at least that heartbeat's.
LEMMA ReadBeatKeepsV1Inv ==
  ASSUME V1Inv, UNCHANGED <<bootVars, clock>>, NEW h \in Handlers, ReadBeat(h)
  PROVE  V1Inv'
  <1> DEFINE j == [pc |-> "shown", d |-> job[h].d, seen |-> job[h].seen,
                   last |-> LastSeq(job[h].d)]
  <1>1. /\ job[h] \in Jobs /\ job[h].pc = "half" /\ UNCHANGED <<tables, outdated>>
        /\ job' = [job EXCEPT ![h] =
             [pc |-> "shown", d |-> @.d, seen |-> @.seen, last |-> LastSeq(@.d)]]
    BY DEF V1Inv, TypeOK, ReadBeat
  <1>2. job[h].d \in Devices /\ job[h].seen \in Stamps \cup {0}
    BY <1>1, JobFields
  <1>3. /\ LastSeq(job[h].d) \in Seqs \cup {0}
        /\ \A row \in beats[job[h].d] : row.seq <= LastSeq(job[h].d)
    BY <1>2, LastSeqIsMax DEF V1Inv
  <1>4. /\ j \in Jobs /\ j.pc = "shown" /\ j.d = job[h].d /\ j.seen = job[h].seen
        /\ j.last = LastSeq(job[h].d)
    BY <1>2, <1>3 DEF Jobs
  <1>5. job' = [job EXCEPT ![h] = j]
    BY <1>1
  <1> HIDE DEF j
  <1>6. job'[h] = j
    BY <1>5, JobChange DEF V1Inv
  <1>7. HalfAt(h)
    BY DEF V1Inv, JobInv
  <1>8. CheckedAt(h)' /\ HalfAt(h)' /\ ShownAt(h)'
    <2>1. beats' = beats
      BY <1>1 DEF tables
    <2>2. j.seen # 0 => \E row \in beats[j.d] : row.ts = j.seen /\ row.seq <= j.last
      BY <1>1, <1>3, <1>4, <1>7 DEF HalfAt
    <2> QED
      BY <1>4, <1>6, <2>1, <2>2 DEF CheckedAt, HalfAt, ShownAt
  <1> QED
    BY <1>1, <1>4, <1>5, <1>8, LocalStep

\* The row stored is above all others: the handler's snapshot is not outdated.
\* Its commit outdates every other handler that has read.
LEMMA StoreKeepsV1Inv ==
  ASSUME V1Inv, UNCHANGED <<bootVars, clock>>, NEW h \in Handlers, Store(h)
  PROVE  V1Inv'
  <1>1. /\ job[h] \in Jobs /\ job[h].pc = "checked" /\ h \notin outdated /\ Answered(h)
        /\ TypeOK /\ BootInv /\ LastSeenIsOfNewestRow /\ NothingDangles /\ JobInv
    BY DEF V1Inv, TypeOK, Store
  <1>2. PICK d, row : d = job[h].d /\ row = job[h].row
    OBVIOUS
  <1>3. d \in Devices /\ row \in Rows
    BY <1>1, <1>2, JobFields
  <1>4. CASE d \notin known
    <2>1. UNCHANGED <<tables, outdated>>
      BY <1>2, <1>4 DEF Store
    <2> QED
      BY <1>1, <2>1, AnsweredKeepsV1Inv
  <1>5. CASE d \in known
    <2>1. Write(d, row) /\ Commit({h})
      BY <1>2, <1>5 DEF Store
    <2>2. \A other \in beats[d] : other.seq < row.seq
      BY <1>1, <1>2 DEF JobInv, CheckedAt
    <2>3. /\ beats'[d] = beats[d] \cup {row} /\ lastSeen'[d] = row.ts
          /\ \A e \in Devices : e # d => beats'[e] = beats[e] /\ lastSeen'[e] = lastSeen[e]
          /\ known' = known /\ tasks' = tasks /\ runs' = runs
      BY <1>1, <1>3, <2>1 DEF Write, TypeOK
    <2>4. beats' \in [Devices -> SUBSET Rows] /\ lastSeen' \in [Devices -> Stamps \cup {0}]
      <3>1. row.ts \in Stamps
        BY <1>3 DEF Rows
      <3> QED
        BY <1>1, <1>3, <2>1, <3>1 DEF Write, TypeOK
    <2>5. job'[h] = Idle /\ \A g \in Handlers : g # h => job'[g] = job[g]
      BY <1>1, JobChange DEF Answered
    <2>6. job' \in [Handlers -> Jobs] /\ outdated' \subseteq Handlers
      BY <1>1, <2>1 DEF Answered, TypeOK, Jobs, Commit
    <2>7. BootInv' /\ BootTypeOK'
      BY <1>1, StepBootInv DEF BootInv
    <2>8. TypeOK'
      BY <1>1, <2>3, <2>4, <2>6, <2>7 DEF TypeOK
    <2>9. LastSeenIsOfNewestRow'
      <3>1. row.seq \in Int /\ \A other \in beats[d] : other.seq \in Int
        BY <1>1, <1>3 DEF TypeOK, Rows, Seqs
      <3>2. \A other \in beats'[d] : other.seq <= row.seq
        BY <2>2, <2>3, <3>1
      <3>3. ASSUME NEW e \in Devices
            PROVE  IF beats'[e] = {} THEN lastSeen'[e] = 0
                   ELSE \E r \in beats'[e] : /\ r.ts = lastSeen'[e]
                                             /\ \A other \in beats'[e] : other.seq <= r.seq
        <4>1. CASE e = d
          BY <2>3, <3>2, <4>1
        <4>2. CASE e # d
          BY <1>1, <2>3, <4>2 DEF LastSeenIsOfNewestRow
        <4> QED
          BY <4>1, <4>2
      <3> QED
        BY <3>3 DEF LastSeenIsOfNewestRow
    <2>10. NothingDangles'
      BY <1>1, <1>5, <2>3 DEF NothingDangles
    <2>11. ASSUME NEW g \in Handlers, g # h PROVE (CheckedAt(g) /\ HalfAt(g) /\ ShownAt(g))'
      <3>1. job'[g] = job[g]
        BY <2>5, <2>11
      <3>2. \A e \in Devices : beats[e] \subseteq beats'[e]
        BY <2>3
      <3>3. HalfAt(g)' /\ ShownAt(g)'
        BY <3>1, <3>2, ReadsStay
      <3>4. CheckedAt(g)'
        BY <2>1, <2>11, <3>1 DEF CheckedAt, Commit
      <3> QED
        BY <3>3, <3>4
    <2>12. JobInv'
      BY <2>5, <2>11, IdleHolds DEF JobInv
    <2> QED
      BY <2>7, <2>8, <2>9, <2>10, <2>12 DEF V1Inv
  <1> QED
    BY <1>4, <1>5

\* Starting, migrating, dying and time touch no table of devices, heartbeats,
\* tasks or runs; a death takes the goroutines with it.
LEMMA OtherStepsKeepV1Inv ==
  ASSUME V1Inv, Boot \/ Crash \/ Tick \/ UNCHANGED v1Vars
  PROVE  V1Inv'
  <1>1. TypeOK /\ BootInv /\ LastSeenIsOfNewestRow /\ NothingDangles /\ JobInv
    BY DEF V1Inv
  <1>2. UNCHANGED tables
    BY DEF Boot, Crash, Tick, v1Vars
  <1>3. /\ known' = known /\ lastSeen' = lastSeen /\ beats' = beats
        /\ tasks' = tasks /\ runs' = runs
    BY <1>2 DEF tables
  <1>4. [BootNext]_bootVars
    BY DEF Boot, Crash, Tick, v1Vars, BootNext
  <1>5. BootInv' /\ BootTypeOK'
    BY <1>1, <1>4, StepBootInv DEF BootInv
  <1>6. LastSeenIsOfNewestRow' /\ NothingDangles'
    BY <1>1, <1>3 DEF LastSeenIsOfNewestRow, NothingDangles
  <1>7. clock' \in 1 .. MaxClock
    BY <1>1, ClockAssumption DEF TypeOK, Boot, Crash, Tick, v1Vars
  <1>8. CASE Crash
    <2>1. job' = [h \in Handlers |-> Idle] /\ outdated' = {} /\ Idle \in Jobs
      BY <1>8 DEF Crash, Jobs
    <2>2. TypeOK'
      BY <1>1, <1>3, <1>5, <1>7, <2>1 DEF TypeOK
    <2>3. JobInv'
      BY <2>1, IdleHolds DEF JobInv
    <2> QED
      BY <1>5, <1>6, <2>2, <2>3 DEF V1Inv
  <1>9. CASE ~Crash
    <2>1. job' = job /\ outdated' = outdated
      BY <1>9 DEF Boot, Tick, v1Vars
    <2>2. TypeOK'
      BY <1>1, <1>3, <1>5, <1>7, <2>1 DEF TypeOK
    <2>3. JobInv'
      BY <1>1, <1>3, <2>1 DEF JobInv, CheckedAt, HalfAt, ShownAt
    <2> QED
      BY <1>5, <1>6, <2>2, <2>3 DEF V1Inv
  <1> QED
    BY <1>8, <1>9

\* Every step keeps it.
LEMMA StepV1Inv == V1Inv /\ [Next]_v1Vars => V1Inv'
  <1> SUFFICES ASSUME V1Inv, [Next]_v1Vars PROVE V1Inv'
    OBVIOUS
  <1>1. CASE Boot \/ Crash \/ Tick \/ UNCHANGED v1Vars
    BY <1>1, OtherStepsKeepV1Inv
  <1>2. CASE Serve
    <2>1. UNCHANGED <<bootVars, clock>>
      BY <1>2 DEF Serve
    <2>2. CASE ~ \E h \in Handlers : HandlerStep(h)
      BY <1>2, <2>1, <2>2, CreatesKeepV1Inv DEF Serve
    <2>3. CASE \E h \in Handlers : HandlerStep(h)
      <3>1. PICK h \in Handlers : HandlerStep(h)
        BY <2>3
      <3>2. ASSUME Fail(h) PROVE V1Inv'
        BY <2>1, <3>2, AnsweredKeepsV1Inv DEF Fail
      <3>3. ASSUME NEW d \in Devices, ReadDevice(h, d) PROVE V1Inv'
        BY <2>1, <3>3, ReadDeviceKeepsV1Inv
      <3>4. ASSUME NEW d \in Devices, NEW q \in Seqs, NEW ts \in ClientTimes, Arrive(h, d, q, ts)
            PROVE  V1Inv'
        BY <2>1, <3>4, ArriveKeepsV1Inv
      <3>5. ASSUME Check(h) PROVE V1Inv'
        BY <2>1, <3>5, CheckKeepsV1Inv
      <3>6. ASSUME Store(h) PROVE V1Inv'
        BY <2>1, <3>6, StoreKeepsV1Inv
      <3>7. ASSUME ReadBeat(h) PROVE V1Inv'
        BY <2>1, <3>7, ReadBeatKeepsV1Inv
      <3> QED
        BY <3>1, <3>2, <3>3, <3>4, <3>5, <3>6, <3>7 DEF HandlerStep
    <2> QED
      BY <2>2, <2>3
  <1> QED
    BY <1>1, <1>2 DEF Next

LEMMA V1Invariant == Spec => []V1Inv
  BY InitV1Inv, StepV1Inv, PTL DEF Spec

\* The state stays in its types, the locals of every handler included.
THEOREM V1Typing == Spec => []TypeOK
  <1>1. V1Inv => TypeOK
    BY DEF V1Inv
  <1> QED
    BY <1>1, V1Invariant, PTL

\* The platform serves only from a migrated file, however often it died.
THEOREM ServingIsUpgraded == Spec => []ServingMeansUpgraded
  <1>1. V1Inv => ServingMeansUpgraded
    BY DoneMeansUpgraded DEF V1Inv
  <1> QED
    BY <1>1, V1Invariant, PTL

\* last_seen_ms is the time of the heartbeat with the highest seq.
THEOREM LastSeenFollowsNewest == Spec => []LastSeenIsOfNewestRow
  <1>1. V1Inv => LastSeenIsOfNewestRow
    BY DEF V1Inv
  <1> QED
    BY <1>1, V1Invariant, PTL

\* No heartbeat without its device, no run without its device and task.
THEOREM RowsHaveOwners == Spec => []NothingDangles
  <1>1. V1Inv => NothingDangles
    BY DEF V1Inv
  <1> QED
    BY <1>1, V1Invariant, PTL

\* GET /v1/devices/{id} never shows a heartbeat older than its last_seen_ms.
THEOREM DetailsAreNotOlder == Spec => []ShownBeatIsNotOlder
  <1>1. V1Inv => ShownBeatIsNotOlder
    BY DEF V1Inv, JobInv, ShownAt, ShownBeatIsNotOlder
  <1> QED
    BY <1>1, V1Invariant, PTL

-----------------------------------------------------------------------------
\* The log of a device, as the refinement mapping shows it.
LogOf == [d \in Devices |-> {row.seq : row \in beats[d]}]

\* Only storing a heartbeat and creating a device change known or beats.
LEMMA LogStutters ==
  ASSUME known' = known, beats' = beats
  PROVE  UNCHANGED Log!logVars
  BY DEF Log!logVars

\* A stored heartbeat is an Accept: its device is known, and its number above
\* all others because the snapshot it was compared in is still the newest.
LEMMA StoreIsAccept ==
  ASSUME V1Inv, NEW h \in Handlers, Store(h)
  PROVE  [Log!LogNext]_(Log!logVars)
  <1>1. job[h] \in Jobs /\ job[h].pc = "checked" /\ h \notin outdated /\ TypeOK /\ JobInv
    BY DEF V1Inv, TypeOK, Store
  <1>2. PICK d, row : d = job[h].d /\ row = job[h].row
    OBVIOUS
  <1>3. d \in Devices /\ row \in Rows
    BY <1>1, <1>2, JobFields
  <1>4. CASE d \notin known
    <2>1. known' = known /\ beats' = beats
      BY <1>2, <1>4 DEF Store, tables
    <2> QED
      BY <2>1, LogStutters
  <1>5. CASE d \in known
    <2>1. Write(d, row)
      BY <1>2, <1>5 DEF Store
    <2>2. \A other \in beats[d] : other.seq < row.seq
      BY <1>1, <1>2 DEF JobInv, CheckedAt
    <2>3. /\ beats'[d] = beats[d] \cup {row} /\ known' = known
          /\ \A e \in Devices : e # d => beats'[e] = beats[e]
      BY <1>1, <1>3, <2>1 DEF Write, TypeOK
    <2>4. row.seq \in Seqs
      BY <1>3 DEF Rows
    <2>5. LogOf' = [LogOf EXCEPT ![d] = @ \cup {row.seq}]
      <3>1. LogOf' = [e \in Devices |-> {r.seq : r \in beats'[e]}]
        BY DEF LogOf
      <3>2. \A e \in Devices : e # d => {r.seq : r \in beats'[e]} = {r.seq : r \in beats[e]}
        BY <2>3
      <3>3. {r.seq : r \in beats'[d]} = {r.seq : r \in beats[d]} \cup {row.seq}
        BY <2>3
      <3> QED
        BY <1>3, <3>1, <3>2, <3>3 DEF LogOf
    <2>6. \A m \in LogOf[d] : m < row.seq
      BY <1>3, <2>2 DEF LogOf
    <2>7. Log!Accept(d, row.seq)
      BY <1>5, <2>3, <2>5, <2>6 DEF Log!Accept, LogOf
    <2> QED
      BY <1>3, <2>4, <2>7 DEF Log!LogNext
  <1> QED
    BY <1>4, <1>5

\* Every step of the platform is a step of the log or leaves it alone.
LEMMA StepRefinesLog == V1Inv /\ [Next]_v1Vars => [Log!LogNext]_(Log!logVars)
  <1> SUFFICES ASSUME V1Inv, [Next]_v1Vars PROVE [Log!LogNext]_(Log!logVars)
    OBVIOUS
  <1>1. CASE Boot \/ Crash \/ Tick \/ UNCHANGED v1Vars
    <2>1. known' = known /\ beats' = beats
      BY <1>1 DEF Boot, Crash, Tick, v1Vars, tables
    <2> QED
      BY <2>1, LogStutters
  <1>2. ASSUME NEW d \in Devices, CreateDevice(d) PROVE [Log!LogNext]_(Log!logVars)
    <2>1. d \notin known /\ known' = known \cup {d} /\ beats' = beats
      BY <1>2 DEF CreateDevice
    <2>2. Log!Register(d)
      BY <2>1 DEF Log!Register
    <2> QED
      BY <2>2 DEF Log!LogNext
  <1>3. ASSUME NEW t \in Tasks, CreateTask(t) PROVE [Log!LogNext]_(Log!logVars)
    BY <1>3, LogStutters DEF CreateTask
  <1>4. ASSUME NEW x \in RunIds, NEW t \in Tasks, NEW d \in Devices, CreateRun(x, t, d)
        PROVE  [Log!LogNext]_(Log!logVars)
    BY <1>4, LogStutters DEF CreateRun
  <1>5. ASSUME NEW h \in Handlers, HandlerStep(h) PROVE [Log!LogNext]_(Log!logVars)
    <2>1. CASE Store(h)
      BY <2>1, StoreIsAccept
    <2>2. CASE ~Store(h)
      <3>1. known' = known /\ beats' = beats
        BY <1>5, <2>2 DEF HandlerStep, ReadDevice, Arrive, Check, Fail, ReadBeat, tables
      <3> QED
        BY <3>1, LogStutters
    <2> QED
      BY <2>1, <2>2
  <1> QED
    BY <1>1, <1>2, <1>3, <1>4, <1>5 DEF Next, Serve

\* Handlers with stale reads, failures and deaths of the process implement the
\* log of a device.
THEOREM DeviceLogRefinement == Spec => ImplementsDeviceLog
  <1>1. Init => Log!LogInit
    BY DEF Init, Log!LogInit
  <1>2. V1Inv /\ [Next]_v1Vars => [Log!LogNext]_(Log!logVars)
    BY StepRefinesLog
  <1> QED
    BY <1>1, <1>2, V1Invariant, PTL DEF Spec, ImplementsDeviceLog, Log!LogSpec

-----------------------------------------------------------------------------
(* What status "ok" is worth when no client sends a time of its own.       *)

\* The heartbeat goroutine h is about to store was received by now.
ReceivedAt(h) ==
  job[h].pc \in {"begun", "checked"} => job[h].row.ts <= clock

\* No heartbeat is of the future.
NoFutureBeats ==
  /\ \A d \in Devices : lastSeen[d] <= clock
  /\ \A h \in Handlers : ReceivedAt(h)

\* Every step keeps it, as long as the platform dates the heartbeats.
LEMMA StepNoFutureBeats ==
  ASSUME ClientTimes \subseteq {0}, V1Inv, NoFutureBeats, [Next]_v1Vars
  PROVE  NoFutureBeats'
  <1>1. /\ job \in [Handlers -> Jobs] /\ lastSeen \in [Devices -> Stamps \cup {0}]
        /\ clock \in Int
    BY DEF V1Inv, TypeOK
  <1>2. \A x \in Stamps \cup {0} : x \in Int
    BY DEF Stamps
  <1>3. ASSUME NEW h \in Handlers, job[h].pc \in {"begun", "checked"}
        PROVE  job[h].d \in Devices /\ job[h].row \in Rows /\ job[h].row.ts \in Stamps
    BY <1>1, <1>3, JobFields DEF Rows
  <1>4. CASE Tick
    <2>1. clock' = clock + 1 /\ job' = job /\ lastSeen' = lastSeen
      BY <1>4 DEF Tick, tables
    <2> QED
      BY <1>1, <1>2, <1>3, <2>1 DEF NoFutureBeats, ReceivedAt
  <1>5. CASE Crash
    <2>1. /\ clock' = clock /\ lastSeen' = lastSeen
          /\ \A h \in Handlers : job'[h].pc = "idle"
      BY <1>5 DEF Crash, tables, Idle
    <2> QED
      BY <2>1 DEF NoFutureBeats, ReceivedAt
  <1>6. CASE Boot \/ UNCHANGED v1Vars \/ (Serve /\ ~ \E h \in Handlers : HandlerStep(h))
    <2>1. clock' = clock /\ job' = job /\ lastSeen' = lastSeen
      BY <1>6 DEF Boot, Serve, CreateDevice, CreateTask, CreateRun, v1Vars, tables
    <2> QED
      BY <2>1 DEF NoFutureBeats, ReceivedAt
  <1>7. ASSUME Serve, NEW h \in Handlers, HandlerStep(h) PROVE NoFutureBeats'
    <2>1. clock' = clock
      BY <1>7 DEF Serve
    <2>2. ASSUME NEW j, job' = [job EXCEPT ![h] = j], lastSeen' = lastSeen,
                 j.pc \in {"begun", "checked"} => j.row.ts <= clock
          PROVE  NoFutureBeats'
      <3>1. job'[h] = j /\ \A g \in Handlers : g # h => job'[g] = job[g]
        BY <1>1, <2>2
      <3> QED
        BY <2>1, <2>2, <3>1 DEF NoFutureBeats, ReceivedAt
    <2>3. ASSUME NEW d \in Devices, NEW q \in Seqs, NEW ts \in ClientTimes, Arrive(h, d, q, ts)
          PROVE  NoFutureBeats'
      <3> DEFINE j == [pc |-> "begun", d |-> d, row |-> [seq |-> q, ts |-> clock]]
      <3>1. ts = 0 /\ j.row.ts = clock
        OBVIOUS
      <3>2. job' = [job EXCEPT ![h] = j] /\ lastSeen' = lastSeen
        BY <2>3, <3>1 DEF Arrive, tables
      <3> HIDE DEF j
      <3>3. j.row.ts <= clock
        BY <1>1, <3>1
      <3> QED
        BY <2>2, <3>2, <3>3
    <2>4. ASSUME Answered(h), lastSeen' = lastSeen PROVE NoFutureBeats'
      <3>1. job' = [job EXCEPT ![h] = Idle] /\ Idle.pc = "idle"
        BY <2>4 DEF Answered, Idle
      <3> QED
        BY <2>2, <2>4, <3>1
    <2>5. CASE Check(h)
      <3>1. lastSeen' = lastSeen /\ job[h].pc = "begun"
        BY <2>5 DEF Check, tables
      <3>2. CASE ~Answered(h)
        <4> DEFINE j == [pc |-> "checked", d |-> job[h].d, row |-> job[h].row]
        <4>1. job' = [job EXCEPT ![h] = [pc |-> "checked", d |-> @.d, row |-> @.row]]
          BY <2>5, <3>2 DEF Check
        <4>2. job' = [job EXCEPT ![h] = j] /\ j.row.ts = job[h].row.ts
          BY <4>1
        <4>3. job[h].row.ts <= clock
          BY <3>1 DEF NoFutureBeats, ReceivedAt
        <4> HIDE DEF j
        <4> QED
          BY <2>2, <3>1, <4>2, <4>3
      <3> QED
        BY <2>4, <3>1, <3>2
    <2>6. CASE Store(h)
      <3>1. job[h].pc = "checked" /\ Answered(h)
        BY <2>6 DEF Store
      <3>2. job[h].row.ts <= clock /\ job[h].d \in Devices
        BY <1>3, <3>1 DEF NoFutureBeats, ReceivedAt
      <3>3. lastSeen' = lastSeen \/ lastSeen' = [lastSeen EXCEPT ![job[h].d] = job[h].row.ts]
        BY <2>6 DEF Store, Write, tables
      <3>4. \A d \in Devices : lastSeen'[d] <= clock
        BY <1>1, <3>2, <3>3 DEF NoFutureBeats
      <3>5. \A g \in Handlers : job'[g].pc = "idle" \/ job'[g] = job[g]
        BY <1>1, <3>1 DEF Answered, Idle
      <3> QED
        BY <2>1, <3>4, <3>5 DEF NoFutureBeats, ReceivedAt
    <2>7. CASE Fail(h)
      BY <2>4, <2>7 DEF Fail, tables
    <2>8. ASSUME NEW d \in Devices, ReadDevice(h, d) PROVE NoFutureBeats'
      <3> DEFINE j == [pc |-> "half", d |-> d, seen |-> lastSeen[d]]
      <3>1. job' = [job EXCEPT ![h] = j] /\ lastSeen' = lastSeen /\ j.pc = "half"
        BY <2>8 DEF ReadDevice, tables
      <3> HIDE DEF j
      <3> QED
        BY <2>2, <3>1
    <2>9. CASE ReadBeat(h)
      <3> DEFINE j == [pc |-> "shown", d |-> job[h].d, seen |-> job[h].seen,
                       last |-> LastSeq(job[h].d)]
      <3>1. /\ lastSeen' = lastSeen /\ j.pc = "shown"
            /\ job' = [job EXCEPT ![h] =
                 [pc |-> "shown", d |-> @.d, seen |-> @.seen, last |-> LastSeq(@.d)]]
        BY <2>9 DEF ReadBeat, tables
      <3>2. job' = [job EXCEPT ![h] = j]
        BY <3>1
      <3> HIDE DEF j
      <3> QED
        BY <2>2, <3>1, <3>2
    <2> QED
      BY <1>7, <2>3, <2>5, <2>6, <2>7, <2>8, <2>9 DEF HandlerStep
  <1> QED
    BY <1>4, <1>5, <1>6, <1>7 DEF Next

\* An ok device's last_seen_ms lies in the stale window, the last three intervals.
OkMeansInWindow ==
  \A d \in Devices :
    Status(d) = "ok" => lastSeen[d] \in clock - Rules!StaleFactor * Interval .. clock

\* Where no client sends a ts_ms of its own, a device is ok only if a heartbeat
\* was received in the last three intervals (internal/domain/domain.go:14): a
\* device kept ok by nothing but a date in the future takes such a client.
\* Times and thresholds are taken to fit the evaluator's integers.
THEOREM OwnClockKeepsWindow ==
  ASSUME ClientTimes \subseteq {0},
         Modulus \in Nat, 2 * MaxClock < Modulus, 2 * 6 * Interval < Modulus
  PROVE  Spec => []OkMeansInWindow
  <1>1. Init => NoFutureBeats
    BY DEF Init, NoFutureBeats, ReceivedAt, Idle
  <1>2. V1Inv /\ NoFutureBeats /\ [Next]_v1Vars => NoFutureBeats'
    BY StepNoFutureBeats
  <1>3. V1Inv /\ NoFutureBeats => OkMeansInWindow
    <2> SUFFICES ASSUME V1Inv, NoFutureBeats, NEW d \in Devices,
                        Status(d) = "ok"
                 PROVE  lastSeen[d] \in clock - Rules!StaleFactor * Interval .. clock
      BY DEF OkMeansInWindow
    <2>1. PICK half \in Int :
            half = Modulus \div 2 /\ 2 * half <= Modulus /\ Modulus <= 2 * half + 1
      OBVIOUS
    <2>2. /\ Modulus \in Nat /\ MaxClock \in Nat /\ MaxClock > 0
          /\ Interval \in Nat /\ Interval > 0
      BY ClockAssumption, IntervalAssumption
    <2>3. \A x \in Int : 0 <= x /\ 2 * x < Modulus => Rules!Wrap(x) = x
      <3> SUFFICES ASSUME NEW x \in Int, 0 <= x, 2 * x < Modulus PROVE Rules!Wrap(x) = x
        OBVIOUS
      <3>1. x + half \in 0 .. Modulus - 1 /\ Modulus > 0
        BY <2>1, <2>2
      <3>2. \A m, a \in Int : m > 0 /\ 0 <= a /\ a < m => a % m = a
        OBVIOUS
      <3>3. (x + half) % Modulus = x + half
        BY <2>1, <2>2, <3>1, <3>2
      <3> QED
        BY <2>1, <3>3 DEF Rules!Wrap
    <2>4. /\ lastSeen[d] \in Int /\ clock \in Int /\ 0 <= lastSeen[d]
          /\ lastSeen[d] <= clock /\ clock <= MaxClock
      <3>1. lastSeen[d] \in Stamps \cup {0} /\ clock \in 1 .. MaxClock /\ lastSeen[d] <= clock
        BY DEF V1Inv, TypeOK, NoFutureBeats
      <3>2. lastSeen[d] \in Nat
        <4>1. \A x \in 1 .. MaxClock : x \in Nat
          BY <2>2
        <4>2. ClientTimes \ {0} = {}
          OBVIOUS
        <4>3. \A x \in Stamps \cup {0} : x \in 1 .. MaxClock \/ x = 0
          BY <4>2 DEF Stamps
        <4>4. lastSeen[d] \in 1 .. MaxClock \/ lastSeen[d] = 0
          BY <3>1, <4>3
        <4> QED
          BY <4>1, <4>4
      <3> QED
        BY <2>2, <3>1, <3>2
    <2>5. PICK age \in Int : age = clock - lastSeen[d] /\ 0 <= age /\ age <= MaxClock
      <3>1. \A l, c, m \in Int : 0 <= l /\ l <= c /\ c <= m => c - l \in Int /\ 0 <= c - l /\ c - l <= m
        OBVIOUS
      <3> QED
        BY <2>2, <2>4, <3>1
    <2>6. Rules!Wrap(clock - lastSeen[d]) = age
      BY <2>2, <2>3, <2>5
    <2>7. PICK limit \in Int : limit = Interval * 3 /\ 0 <= limit /\ 2 * limit < Modulus
      BY <2>2
    <2>8. Rules!Wrap(Interval * Rules!StaleFactor) = limit
      BY <2>3, <2>7 DEF Rules!StaleFactor
    <2>9. PICK far \in BOOLEAN : far <=> age <= Rules!Wrap(Interval * Rules!MissingFactor)
      OBVIOUS
    <2>10. ~(Interval <= 0)
      BY <2>2
    <2>11. Status(d) = IF lastSeen[d] = 0 THEN "missing"
                       ELSE IF age <= limit THEN "ok" ELSE IF far THEN "stale" ELSE "missing"
      BY <2>6, <2>8, <2>9, <2>10 DEF Status, Rules!DeviceStatus
    <2>12. age <= limit
      BY <2>11
    <2>13. Rules!StaleFactor * Interval = limit
      BY <2>2, <2>7 DEF Rules!StaleFactor
    <2> QED
      BY <2>4, <2>5, <2>7, <2>12, <2>13
  <1> QED
    BY <1>1, <1>2, <1>3, V1Invariant, PTL DEF Spec

=============================================================================
