-------------------------- MODULE SessionTxProofs --------------------------
(***************************************************************************)
(* For any number of handlers, Runtimes and sessions: the transaction that *)
(* holds the write lock decides on what the tables hold, and interleaved   *)
(* transactions implement the atomic handlers.  Both rest on TxInv: a job  *)
(* whose snapshot is not stale has read what the tables still say.         *)
(***************************************************************************)
EXTENDS SessionTx, TLAPS

\* What handler h has read is what the tables hold now.
Agrees(h) ==
  /\ Outcome(job[h].req, job[h].t) = job[h].outcome
  /\ job[h].current = (state[job[h].req.r][job[h].req.s] = "current")

FreshAgrees == \A h \in Handlers \ stale : job[h].pc = "decided" => Agrees(h)

LockHeld == \A h \in Handlers : writer = h => job[h].pc = "decided" /\ h \notin stale

ReadingsArePast == \A h \in Handlers : job[h] # Idle => job[h].t <= now

OnlyReadersAreStale == \A h \in stale : job[h].pc = "decided"

TxInv == TypeOK /\ FreshAgrees /\ LockHeld /\ ReadingsArePast /\ OnlyReadersAreStale

-----------------------------------------------------------------------------
(* Jobs, requests and decisions.                                           *)

\* The fields a job has at each place of its handler.
LEMMA JobFields ==
  ASSUME NEW j \in Jobs
  PROVE  /\ j.pc \in {"idle", "begun", "decided"}
         /\ j.pc = "idle" <=> j = Idle
         /\ j # Idle => j.req \in Requests /\ j.t \in 1 .. MaxClock
         /\ j.pc = "decided" => j.outcome \in Writes /\ j.current \in BOOLEAN
  BY DEF Jobs, Idle, Writes

\* The fields of a request.
LEMMA RequestFields ==
  ASSUME NEW req \in Requests
  PROVE  /\ req.op \in {"create", "beat", "end"}
         /\ req.r \in Runtimes /\ req.s \in SessionIds
         /\ req.op = "create" => req.p \in Starts
         /\ req.op = "beat" => req.q \in 1 .. MaxSeq /\ req.rep \in ReportTimes
  BY DEF Requests

\* Each outcome that writes belongs to one kind of request.
LEMMA OutcomeKinds ==
  ASSUME NEW req \in Requests, NEW t, Outcome(req, t) \in Writes
  PROVE  /\ Outcome(req, t) = "created" =>
              req.op = "create" /\ Atomic!CreateOutcome(req.r, req.s) = "created"
         /\ Outcome(req, t) \in {"recorded", "retried"} =>
              /\ req.op = "beat"
              /\ Atomic!HeartbeatOutcome(req.r, req.s, req.q, t) = Outcome(req, t)
         /\ Outcome(req, t) = "ended" =>
              req.op = "end" /\ state[req.r][req.s] # "absent"
  BY RequestFields DEF Outcome, Writes, Atomic!CreateOutcome, Atomic!HeartbeatOutcome

\* The decision of a transaction depends on nothing but the tables: not on the
\* clock, and not on the other transactions.
LEMMA SameTablesSameOutcome ==
  ASSUME UNCHANGED tables, NEW h \in Handlers,
         job'[h].req = job[h].req, job'[h].t = job[h].t
  PROVE  Outcome(job[h].req, job[h].t)' = Outcome(job[h].req, job[h].t)
  BY DEF tables, Outcome, Atomic!CreateOutcome, Atomic!HeartbeatOutcome,
         Atomic!SeqOnRecord, Atomic!SeqPassed, Atomic!IsRetry

\* So what agreed with the tables keeps agreeing while they stand still.
LEMMA SameTablesSameDecision ==
  ASSUME UNCHANGED tables, NEW h \in Handlers, UNCHANGED job[h], Agrees(h)
  PROVE  Agrees(h)'
  BY SameTablesSameOutcome DEF tables, Agrees

-----------------------------------------------------------------------------
(* The invariant.                                                          *)

\* Nothing has been read when the platform starts on an empty file.
LEMMA InitTxInv == Init => TxInv
<1> SUFFICES ASSUME Init PROVE TxInv
  OBVIOUS
<1>1. Atomic!TypeOK
  BY ClockAssumption
     DEF Init, Atomic!Init, Atomic!TypeOK, Atomic!PerSession, Atomic!Everywhere,
         Atomic!SessionStates, Atomic!Times
<1>2. job \in [Handlers -> Jobs] /\ stale \subseteq Handlers /\ writer \in Handlers \cup {NoOne}
  BY DEF Init, Jobs
<1>3. FreshAgrees /\ LockHeld /\ ReadingsArePast /\ OnlyReadersAreStale
  BY NoOneAssumption DEF Init, FreshAgrees, LockHeld, ReadingsArePast, OnlyReadersAreStale, Idle
<1> QED
  BY <1>1, <1>2, <1>3 DEF TxInv, TypeOK

\* A step that leaves the tables alone and changes the job of one handler, h,
\* keeps the invariant if h's new job and the lock are in order.
LEMMA OneJobStep ==
  ASSUME TxInv, NEW h \in Handlers, NEW j \in Jobs,
         UNCHANGED <<tables, now>>,
         job' = [job EXCEPT ![h] = j],
         stale' = stale \/ (stale' = stale \ {h} /\ j = Idle),
         h \notin stale \/ j = Idle,
         h \in stale' => FALSE,
         writer' = writer \/ writer' = NoOne,
         writer' # h,
         j # Idle => j.t <= now,
         j.pc = "decided" => Agrees(h)'
  PROVE  TxInv'
<1> USE DEF TxInv
<1>1. TypeOK'
  BY DEF TypeOK, tables, Atomic!TypeOK, Atomic!PerSession
<1>2. job'[h] = j /\ \A g \in Handlers \ {h} : job'[g] = job[g]
  BY DEF TypeOK
<1>3. FreshAgrees'
  <2> SUFFICES ASSUME NEW g \in Handlers \ stale', job'[g].pc = "decided"
               PROVE  Agrees(g)'
    BY DEF FreshAgrees
  <2>1. CASE g = h
    BY <1>2, <2>1
  <2>2. CASE g # h
    BY <1>2, <2>2, SameTablesSameDecision DEF FreshAgrees
  <2> QED
    BY <2>1, <2>2
<1>4. LockHeld'
  BY <1>2, NoOneAssumption DEF LockHeld
<1>5. ReadingsArePast'
  BY <1>2 DEF ReadingsArePast
<1>6. OnlyReadersAreStale'
  BY <1>2 DEF OnlyReadersAreStale
<1> QED
  BY <1>1, <1>3, <1>4, <1>5, <1>6

\* Arrival and the steps of a handler other than its commit.
LEMMA StepsBeforeCommit ==
  ASSUME TxInv, NEW h \in Handlers,
         \/ \E req \in Requests : Arrive(h, req)
         \/ Read(h) \/ Upgrade(h) \/ Busy(h) \/ Rollback(h)
  PROVE  TxInv'
<1> job[h] \in Jobs
  BY DEF TxInv, TypeOK
<1> Idle \in Jobs /\ Idle.pc = "idle"
  BY DEF Jobs, Idle
<1> now \in 1 .. MaxClock
  BY DEF TxInv, TypeOK, Atomic!TypeOK, Atomic!Times
<1>1. ASSUME NEW req \in Requests, Arrive(h, req) PROVE TxInv'
  <2> DEFINE j == [pc |-> "begun", req |-> req, t |-> now]
  <2>1. j \in Jobs /\ j.pc = "begun" /\ j.t <= now
    BY DEF Jobs
  <2>2. writer # h /\ h \notin stale
    BY <1>1 DEF Arrive, TxInv, LockHeld, OnlyReadersAreStale
  <2>3. UNCHANGED <<tables, now, stale, writer>> /\ job' = [job EXCEPT ![h] = j]
    BY <1>1 DEF Arrive
  <2> HIDE DEF j
  <2> QED
    BY <2>1, <2>2, <2>3, OneJobStep
<1>2. CASE Read(h)
  <2> DEFINE req == job[h].req
             outcome == Outcome(req, job[h].t)
             current == state[req.r][req.s] = "current"
             decided == [pc |-> "decided", req |-> req, t |-> job[h].t,
                         outcome |-> outcome, current |-> current]
             j == IF outcome \notin Writes \/ (outcome = "retried" /\ ~current)
                  THEN Idle ELSE decided
  <2>1. job' = [job EXCEPT ![h] = j] /\ UNCHANGED <<tables, now, stale, writer>>
    BY <1>2 DEF Read
  <2>2. job[h].pc = "begun" /\ writer # h /\ h \notin stale
    BY <1>2 DEF Read, TxInv, LockHeld, OnlyReadersAreStale
  <2>3. req \in Requests /\ job[h].t \in 1 .. MaxClock /\ job[h].t <= now
    BY <2>2, JobFields DEF TxInv, ReadingsArePast
  <2>4. outcome \in Writes => decided \in Jobs
    BY <2>3 DEF Jobs, Writes
  <2>5. j \in Jobs /\ (j = Idle \/ j = decided)
    BY <2>4
  <2>6. j = decided => Agrees(h)'
    <3> SUFFICES ASSUME j = decided PROVE Agrees(h)'
      OBVIOUS
    <3>1. job'[h] = decided
      BY <2>1 DEF TxInv, TypeOK
    <3>2. /\ job'[h].req = job[h].req /\ job'[h].t = job[h].t
          /\ job'[h].outcome = outcome /\ job'[h].current = current
      BY <3>1
    <3>3. Outcome(job[h].req, job[h].t)' = job'[h].outcome
      BY <2>1, <3>2, SameTablesSameOutcome
    <3>4. job'[h].current = (state'[job'[h].req.r][job'[h].req.s] = "current")
      <4>1. state' = state
        BY <2>1 DEF tables
      <4> QED
        BY <3>2, <4>1
    <3> QED
      BY <3>3, <3>4 DEF Agrees
  <2>7. j # Idle => j.t <= now
    BY <2>3, <2>5
  <2>8. j.pc = "decided" => j = decided
    BY <2>5
  <2> HIDE DEF j
  <2> QED
    BY <2>1, <2>2, <2>5, <2>6, <2>7, <2>8, OneJobStep
<1>3. CASE Upgrade(h)
  <2>1. /\ job[h].pc = "decided" /\ h \notin stale
        /\ UNCHANGED <<tables, now, job, stale>> /\ writer' = h
    BY <1>3 DEF Upgrade, CanUpgrade
  <2>2. TypeOK'
    BY <2>1 DEF TxInv, TypeOK, tables, Atomic!TypeOK, Atomic!PerSession
  <2>3. FreshAgrees'
    BY <2>1, SameTablesSameDecision DEF TxInv, FreshAgrees
  <2>4. LockHeld' /\ ReadingsArePast' /\ OnlyReadersAreStale'
    BY <2>1 DEF TxInv, LockHeld, ReadingsArePast, OnlyReadersAreStale
  <2> QED
    BY <2>2, <2>3, <2>4 DEF TxInv
<1>4. CASE Busy(h)
  BY <1>4, OneJobStep DEF Busy, Answered
<1>5. CASE Rollback(h)
  BY <1>5, NoOneAssumption, OneJobStep DEF Rollback, Answered
<1> QED
  BY <1>1, <1>2, <1>3, <1>4, <1>5

\* What the transaction that commits has decided is still right.
LEMMA CommitFacts ==
  ASSUME TxInv, NEW h \in Handlers, Commit(h)
  PROVE  /\ job[h].req \in Requests
         /\ job[h].t \in Atomic!Times /\ job[h].t \in Atomic!ClockReadings
         /\ job[h].outcome \in Writes
         /\ Outcome(job[h].req, job[h].t) = job[h].outcome
         /\ job[h].current = (state[job[h].req.r][job[h].req.s] = "current")
<1> job[h] \in Jobs /\ now \in 1 .. MaxClock /\ MaxClock \in Nat
  BY ClockAssumption DEF TxInv, TypeOK, Atomic!TypeOK, Atomic!Times
<1>1. job[h].pc = "decided" /\ h \notin stale
  BY DEF Commit, TxInv, LockHeld
<1>2. job[h].req \in Requests /\ job[h].t \in 1 .. MaxClock /\ job[h].outcome \in Writes
  BY <1>1, JobFields
<1>3. job[h].t <= now
  BY <1>1, JobFields DEF TxInv, ReadingsArePast
<1>4. job[h].t \in Atomic!Times /\ job[h].t \in Atomic!ClockReadings
  BY <1>2, <1>3 DEF Atomic!Times, Atomic!ClockReadings
<1>5. Agrees(h)
  BY <1>1 DEF TxInv, FreshAgrees
<1> QED
  BY <1>2, <1>4, <1>5 DEF Agrees

\* Therefore its statements are those the atomic handler would execute now.
LEMMA CommitIsAtomic ==
  ASSUME TxInv, NEW h \in Handlers, Commit(h)
  PROVE  \E r \in Runtimes, s \in SessionIds, t \in Atomic!ClockReadings :
           Atomic!Request(r, s, t)
<1> DEFINE req == job[h].req
           t == job[h].t
<1>1. /\ req \in Requests /\ t \in Atomic!ClockReadings
      /\ job[h].outcome \in Writes /\ Outcome(req, t) = job[h].outcome
      /\ job[h].current = (state[req.r][req.s] = "current")
  BY CommitFacts
<1>2. UNCHANGED now
  BY DEF Commit
<1>3. CASE job[h].outcome = "created" /\ WriteCreate(req, t)
  <2>1. req.p \in Starts /\ Atomic!CreateOutcome(req.r, req.s) = "created"
    BY <1>1, <1>3, OutcomeKinds, RequestFields
  <2>2. Atomic!CreateSession(req.r, req.s, req.p, t)
    BY <1>2, <1>3, <2>1 DEF WriteCreate, Atomic!CreateSession
  <2> QED
    BY <1>1, <2>1, <2>2, RequestFields DEF Atomic!Request
<1>4. CASE /\ job[h].outcome \in {"recorded", "retried"}
           /\ WriteBeat(req, t, job[h].outcome = "recorded", job[h].current)
  <2>1. /\ req.q \in Atomic!Seqs /\ req.rep \in ReportTimes
        /\ Atomic!HeartbeatOutcome(req.r, req.s, req.q, t) = job[h].outcome
    BY <1>1, <1>4, OutcomeKinds, RequestFields DEF Atomic!Seqs
  <2>2. Atomic!ApplyToLiveness(req.r, req.s, t)
    BY <1>1, <1>4, RequestFields
       DEF WriteBeat, Atomic!ApplyToLiveness, TxInv, TypeOK, Atomic!TypeOK, Atomic!PerSession
  <2>3. CASE job[h].outcome = "recorded"
    <3>1. Atomic!RecordHeartbeat(req.r, req.s, req.q, req.rep, t)
      BY <1>2, <1>4, <2>1, <2>2, <2>3 DEF WriteBeat, Atomic!RecordHeartbeat
    <3> QED
      BY <1>1, <2>1, <3>1, RequestFields DEF Atomic!Request
  <2>4. CASE job[h].outcome = "retried"
    <3>1. Atomic!RetryHeartbeat(req.r, req.s, req.q, t)
      BY <1>2, <1>4, <2>1, <2>2, <2>4 DEF WriteBeat, Atomic!RetryHeartbeat
    <3> QED
      BY <1>1, <2>1, <3>1, RequestFields DEF Atomic!Request
  <2> QED
    BY <1>4, <2>3, <2>4
<1>5. CASE job[h].outcome = "ended" /\ WriteEnd(req, t)
  <2>1. state[req.r][req.s] # "absent"
    BY <1>1, <1>5, OutcomeKinds
  <2>2. Atomic!EndSession(req.r, req.s, t)
    BY <1>2, <1>5, <2>1 DEF WriteEnd, Atomic!EndSession
  <2> QED
    BY <1>1, <2>2, RequestFields DEF Atomic!Request
<1> QED
  BY <1>3, <1>4, <1>5 DEF Commit

\* The atomic handlers keep the types of the tables.
LEMMA RequestTyping ==
  ASSUME Atomic!TypeOK, NEW r \in Runtimes, NEW s \in SessionIds,
         NEW t \in Atomic!ClockReadings, Atomic!Request(r, s, t)
  PROVE  Atomic!TypeOK'
<1> USE DEF Atomic!TypeOK, Atomic!PerSession
<1> t \in Atomic!Times
  BY DEF Atomic!ClockReadings
<1>1. ASSUME NEW p \in Starts, Atomic!CreateSession(r, s, p, t) PROVE Atomic!TypeOK'
  BY <1>1 DEF Atomic!CreateSession, Atomic!SessionStates
<1>2. ASSUME NEW q \in Atomic!Seqs, NEW rep \in ReportTimes,
             Atomic!RecordHeartbeat(r, s, q, rep, t)
      PROVE  Atomic!TypeOK'
  <2>1. [seq |-> q, reported |-> rep, received |-> t] \in Atomic!Heartbeats
    BY DEF Atomic!Heartbeats
  <2> QED
    BY <1>2, <2>1 DEF Atomic!RecordHeartbeat, Atomic!ApplyToLiveness
<1>3. ASSUME NEW q \in Atomic!Seqs, Atomic!RetryHeartbeat(r, s, q, t) PROVE Atomic!TypeOK'
  BY <1>3 DEF Atomic!RetryHeartbeat, Atomic!ApplyToLiveness
<1>4. CASE Atomic!EndSession(r, s, t)
  BY <1>4 DEF Atomic!EndSession, Atomic!SessionStates
<1> QED
  BY <1>1, <1>2, <1>3, <1>4 DEF Atomic!Request

\* A commit makes every other snapshot stale, so nobody is left to disagree.
LEMMA CommitStep == ASSUME TxInv, NEW h \in Handlers, Commit(h) PROVE TxInv'
<1>1. /\ job' = [job EXCEPT ![h] = Idle] /\ stale' = StaleAfter(h)
      /\ writer' = NoOne /\ now' = now
  BY DEF Commit
<1>2. job'[h] = Idle /\ \A g \in Handlers \ {h} : job'[g] = job[g]
  BY <1>1 DEF TxInv, TypeOK
<1>3. Idle \in Jobs /\ Idle.pc = "idle"
  BY DEF Jobs, Idle
<1>4. Atomic!TypeOK'
  BY CommitIsAtomic, RequestTyping DEF TxInv, TypeOK
<1>5. TypeOK'
  BY <1>1, <1>3, <1>4 DEF TypeOK, TxInv, StaleAfter
<1>6. FreshAgrees'
  BY <1>1, <1>2, <1>3 DEF FreshAgrees, StaleAfter
<1>7. LockHeld'
  BY <1>1, NoOneAssumption DEF LockHeld
<1>8. ReadingsArePast' /\ OnlyReadersAreStale'
  BY <1>1, <1>2 DEF ReadingsArePast, OnlyReadersAreStale, TxInv, StaleAfter
<1> QED
  BY <1>5, <1>6, <1>7, <1>8 DEF TxInv

\* The steps that are no handler's.
LEMMA OtherSteps ==
  ASSUME TxInv, Tick \/ Restart \/ \E r \in Runtimes : RegisterRuntime(r)
  PROVE  TxInv'
<1>1. CASE Tick
  <2>1. /\ UNCHANGED <<tables, job, stale, writer>> /\ now' = now + 1 /\ now < MaxClock
        /\ now \in 1 .. MaxClock /\ MaxClock \in Nat
    BY <1>1, ClockAssumption
       DEF Tick, Atomic!Tick, tables, TxInv, TypeOK, Atomic!TypeOK, Atomic!Times
  <2>2. TypeOK'
    BY <2>1 DEF TxInv, TypeOK, tables, Atomic!TypeOK, Atomic!PerSession, Atomic!Times
  <2>3. FreshAgrees'
    BY <2>1, SameTablesSameDecision DEF TxInv, FreshAgrees
  <2>4. ReadingsArePast'
    <3> SUFFICES ASSUME NEW h \in Handlers, job[h] # Idle PROVE job[h].t <= now + 1
      BY <2>1 DEF ReadingsArePast
    <3>1. job[h].t \in 1 .. MaxClock /\ job[h].t <= now
      BY JobFields DEF TxInv, TypeOK, ReadingsArePast
    <3> QED
      BY <2>1, <3>1
  <2>5. LockHeld' /\ OnlyReadersAreStale'
    BY <2>1 DEF TxInv, LockHeld, OnlyReadersAreStale
  <2> QED
    BY <2>2, <2>3, <2>4, <2>5 DEF TxInv
<1>2. CASE Restart
  <2>1. /\ UNCHANGED <<tables, now>> /\ stale' = {} /\ writer' = NoOne
        /\ \A h \in Handlers : job'[h] = Idle
    BY <1>2 DEF Restart
  <2>2. Idle \in Jobs /\ Idle.pc = "idle"
    BY DEF Jobs, Idle
  <2>3. TypeOK'
    BY <1>2, <2>1, <2>2 DEF Restart, TxInv, TypeOK, tables, Atomic!TypeOK, Atomic!PerSession
  <2> QED
    BY <2>1, <2>2, <2>3, NoOneAssumption
       DEF TxInv, FreshAgrees, LockHeld, ReadingsArePast, OnlyReadersAreStale
<1>3. ASSUME NEW r \in Runtimes, RegisterRuntime(r) PROVE TxInv'
  <2>1. /\ UNCHANGED <<now, job, writer>> /\ writer = NoOne
        /\ stale' = {h \in Handlers : job[h].pc = "decided"}
    BY <1>3, NoOneAssumption
       DEF RegisterRuntime, Atomic!RegisterRuntime, StaleAfter
  <2>2. TypeOK'
    BY <1>3, <2>1
       DEF RegisterRuntime, Atomic!RegisterRuntime, TxInv, TypeOK, Atomic!TypeOK,
           Atomic!PerSession
  <2> QED
    BY <2>1, <2>2, NoOneAssumption
       DEF TxInv, FreshAgrees, LockHeld, ReadingsArePast, OnlyReadersAreStale
<1> QED
  BY <1>1, <1>2, <1>3

\* Every step keeps the invariant.
LEMMA StepTxInv == TxInv /\ [Next]_txVars => TxInv'
<1> SUFFICES ASSUME TxInv, [Next]_txVars PROVE TxInv'
  OBVIOUS
<1>1. CASE Next
  BY <1>1, StepsBeforeCommit, CommitStep, OtherSteps DEF Next, Step
<1>2. CASE UNCHANGED txVars
  <2>1. UNCHANGED <<tables, now, job, stale, writer>>
    BY <1>2 DEF txVars, tables
  <2>2. TypeOK'
    BY <2>1 DEF TxInv, TypeOK, tables, Atomic!TypeOK, Atomic!PerSession
  <2>3. FreshAgrees'
    BY <2>1, SameTablesSameDecision DEF TxInv, FreshAgrees
  <2>4. LockHeld' /\ ReadingsArePast' /\ OnlyReadersAreStale'
    BY <2>1 DEF TxInv, LockHeld, ReadingsArePast, OnlyReadersAreStale
  <2> QED
    BY <2>2, <2>3, <2>4 DEF TxInv
<1> QED
  BY <1>1, <1>2

\* TxInv holds in every reachable state.
LEMMA TxInvariant == Spec => []TxInv
<1> QED
  BY InitTxInv, StepTxInv, PTL DEF Spec

-----------------------------------------------------------------------------
(* The theorems.                                                           *)

\* Tables, jobs and lock keep their types, however transactions interleave.
THEOREM TxTyping == Spec => []TypeOK
<1>1. TxInv => TypeOK
  BY DEF TxInv
<1> QED
  BY <1>1, TxInvariant, PTL

\* Whoever holds the write lock may still act on what it read before it had it:
\* SQLite refuses the lock to anybody who has read an older state.
THEOREM WriterIsRight == Spec => []WriterDecisionHolds
<1>1. TxInv => WriterDecisionHolds
  BY DEF TxInv, LockHeld, FreshAgrees, Agrees, WriterDecisionHolds
<1> QED
  BY <1>1, TxInvariant, PTL

\* Interleaved transactions, with stale reads, rollbacks and restarts, implement
\* the handlers of RuntimeSessions executed one at a time.
THEOREM TransactionsAreAtomic == Spec => ImplementsAtomic
<1>1. Init => Atomic!Init
  BY DEF Init
<1>2. TxInv /\ [Next]_txVars => [Atomic!Next]_(Atomic!vars)
  <2> SUFFICES ASSUME TxInv, [Next]_txVars PROVE Atomic!Next \/ UNCHANGED Atomic!vars
    OBVIOUS
  <2>1. CASE Tick
    BY <2>1 DEF Tick, Atomic!Next
  <2>2. ASSUME NEW r \in Runtimes, RegisterRuntime(r) PROVE Atomic!Next
    BY <2>2 DEF RegisterRuntime, Atomic!Next
  <2>3. ASSUME NEW h \in Handlers, Commit(h) PROVE Atomic!Next
    BY <2>3, CommitIsAtomic DEF Atomic!Next
  <2>4. ASSUME \/ UNCHANGED txVars \/ Restart
               \/ \E h \in Handlers :
                    \/ \E req \in Requests : Arrive(h, req)
                    \/ Read(h) \/ Upgrade(h) \/ Busy(h) \/ Rollback(h)
        PROVE  UNCHANGED Atomic!vars
    <3>1. UNCHANGED <<tables, now>>
      BY <2>4 DEF txVars, tables, Restart, Arrive, Read, Upgrade, Busy, Rollback, Answered
    <3> QED
      BY <3>1 DEF tables, Atomic!vars
  <2> QED
    BY <2>1, <2>2, <2>3, <2>4 DEF Next, Step
<1> QED
  BY <1>1, <1>2, TxInvariant, PTL DEF Spec, ImplementsAtomic, Atomic!Spec

-----------------------------------------------------------------------------
(* What the handlers keep one at a time, the racing transactions keep too. *)

Sequential == INSTANCE RuntimeSessionsProofs WITH MaxLag <- MaxClock

\* The bounds are what the theorems about the handlers assume of them.
LEMMA SequentialBounds == Sequential!BoundsAssumption
BY ClockAssumption, SeqAssumption DEF Sequential!BoundsAssumption

\* Those theorems are about the specification the transactions implement.
LEMMA SequentialSpec == Atomic!Spec => Sequential!Spec
<1>1. Atomic!Init => Sequential!Init
  BY DEF Atomic!Init, Sequential!Init, Atomic!Everywhere, Sequential!Everywhere
<1>2. \A r, s, q, t : Atomic!HeartbeatOutcome(r, s, q, t) = Sequential!HeartbeatOutcome(r, s, q, t)
  BY DEF Atomic!HeartbeatOutcome, Sequential!HeartbeatOutcome,
         Atomic!SeqPassed, Sequential!SeqPassed, Atomic!SeqOnRecord, Sequential!SeqOnRecord,
         Atomic!IsRetry, Sequential!IsRetry
<1>3. ASSUME NEW r, NEW s, NEW t, Atomic!Request(r, s, t) PROVE Sequential!Request(r, s, t)
  BY <1>2, <1>3
     DEF Atomic!Request, Sequential!Request, Atomic!Seqs, Sequential!Seqs,
         Atomic!CreateSession, Sequential!CreateSession,
         Atomic!CreateOutcome, Sequential!CreateOutcome,
         Atomic!RecordHeartbeat, Sequential!RecordHeartbeat,
         Atomic!RetryHeartbeat, Sequential!RetryHeartbeat,
         Atomic!ApplyToLiveness, Sequential!ApplyToLiveness,
         Atomic!EndSession, Sequential!EndSession
<1>4. Atomic!ClockReadings = Sequential!ClockReadings
  BY DEF Atomic!ClockReadings, Sequential!ClockReadings, Atomic!Times, Sequential!Times
<1>5. [Atomic!Next]_(Atomic!vars) => [Sequential!Next]_(Sequential!vars)
  BY <1>3, <1>4
     DEF Atomic!Next, Sequential!Next, Atomic!vars, Sequential!vars, Atomic!Tick,
         Sequential!Tick, Atomic!RegisterRuntime, Sequential!RegisterRuntime
<1> QED
  BY <1>1, <1>5, PTL DEF Atomic!Spec, Sequential!Spec

\* The transactions behave like the handlers one at a time, which the theorems
\* are about.
LEMMA RunsAsSequential == Spec => Sequential!Spec
BY SequentialSpec, TransactionsAreAtomic, PTL DEF ImplementsAtomic

\* End to end: goroutines that race for SQLite's lock, decide on snapshots, fail,
\* roll back and die with the process implement the ledger that v2 promises.
THEOREM TransactionsKeepLedger == Spec => Atomic!ImplementsLedger
<1>1. Sequential!Ledger!LedgerInit => Atomic!Ledger!LedgerInit
  BY DEF Sequential!Ledger!LedgerInit, Atomic!Ledger!LedgerInit
<1>2. [Sequential!Ledger!LedgerNext]_(Sequential!Ledger!ledgerVars)
        => [Atomic!Ledger!LedgerNext]_(Atomic!Ledger!ledgerVars)
  BY DEF Sequential!Ledger!LedgerNext, Atomic!Ledger!LedgerNext,
         Sequential!Ledger!ledgerVars, Atomic!Ledger!ledgerVars,
         Sequential!Ledger!Start, Atomic!Ledger!Start,
         Sequential!Ledger!Stop, Atomic!Ledger!Stop,
         Sequential!Ledger!Beat, Atomic!Ledger!Beat, Sequential!Seqs, Atomic!Seqs
<1>3. Sequential!ImplementsLedger => Atomic!ImplementsLedger
  BY <1>1, <1>2, PTL
     DEF Sequential!ImplementsLedger, Atomic!ImplementsLedger,
         Sequential!Ledger!LedgerSpec, Atomic!Ledger!LedgerSpec
<1>4. Sequential!Spec => Sequential!ImplementsLedger
  BY SequentialBounds, Sequential!LedgerRefinement
<1> QED
  BY <1>3, <1>4, RunsAsSequential, PTL

\* However transactions interleave, a Runtime has at most one current session, a
\* session one heartbeat per seq, and liveness is recovered from rows on record.
THEOREM TransactionsKeepTables ==
  Spec => []/\ Atomic!AtMostOneCurrent
            /\ Atomic!OneRowPerSeq
            /\ Atomic!LastHbOnRecord
            /\ Atomic!RowsHaveParents
<1>1. Sequential!Spec => /\ []Sequential!AtMostOneCurrent /\ []Sequential!OneRowPerSeq
                         /\ []Sequential!LastHbOnRecord /\ []Sequential!RowsHaveParents
  BY SequentialBounds, Sequential!SingleCurrent, Sequential!UniqueSeqRows,
     Sequential!LivenessEvidence, Sequential!NoOrphanRows
<1>2. /\ Sequential!AtMostOneCurrent => Atomic!AtMostOneCurrent
      /\ Sequential!OneRowPerSeq => Atomic!OneRowPerSeq
      /\ Sequential!LastHbOnRecord => Atomic!LastHbOnRecord
      /\ Sequential!RowsHaveParents => Atomic!RowsHaveParents
  BY DEF Sequential!AtMostOneCurrent, Atomic!AtMostOneCurrent,
         Sequential!OneRowPerSeq, Atomic!OneRowPerSeq,
         Sequential!LastHbOnRecord, Atomic!LastHbOnRecord,
         Sequential!RowsHaveParents, Atomic!RowsHaveParents
<1> QED
  BY <1>1, <1>2, RunsAsSequential, PTL

\* However they interleave, no transaction brings a session back, loses or
\* reorders a heartbeat, or moves liveness from a session that is not current.
THEOREM TransactionsKeepHistory ==
  Spec => /\ Atomic!NoResurrection
          /\ Atomic!AuditGrowsBySeq
          /\ Atomic!OnlyCurrentMovesLiveness
<1>1. Sequential!Spec => /\ Sequential!NoResurrection /\ Sequential!AuditGrowsBySeq
                         /\ Sequential!OnlyCurrentMovesLiveness
  BY SequentialBounds, Sequential!LeadIsLostForGood, Sequential!AuditIsAppendOnly,
     Sequential!LateBeatsAreAuditOnly
<1>2. Sequential!NoResurrection => Atomic!NoResurrection
  BY DEF Sequential!NoResurrection, Atomic!NoResurrection, Sequential!vars, Atomic!vars,
         Sequential!Rank, Atomic!Rank
<1>3. Sequential!AuditGrowsBySeq => Atomic!AuditGrowsBySeq
  BY DEF Sequential!AuditGrowsBySeq, Atomic!AuditGrowsBySeq, Sequential!vars, Atomic!vars
<1>4. Sequential!OnlyCurrentMovesLiveness => Atomic!OnlyCurrentMovesLiveness
  BY DEF Sequential!OnlyCurrentMovesLiveness, Atomic!OnlyCurrentMovesLiveness,
         Sequential!vars, Atomic!vars
<1> QED
  BY <1>1, <1>2, <1>3, <1>4, RunsAsSequential, PTL

=============================================================================
