----------------------------- MODULE SessionTx -----------------------------
(***************************************************************************)
(* The session handlers as they run: one goroutine per HTTP request, each  *)
(* reading the clock, then opening a SQLite transaction (BEGIN DEFERRED in *)
(* WAL mode, no busy timeout), reading, deciding, writing and committing,  *)
(* with every other request free to run between any two of these steps.    *)
(* What a handler has read lives in its local variables and may be stale   *)
(* by the time it writes.                                                  *)
(*                                                                         *)
(* SQLite (external): the first SELECT fixes a snapshot; the first write   *)
(* asks for the one write lock and fails with SQLITE_BUSY if another       *)
(* transaction holds it, or if anything was committed since the snapshot.  *)
(***************************************************************************)
EXTENDS Integers, FiniteSets

CONSTANTS
  Runtimes, SessionIds, Starts, NoStart, ReportTimes, MaxSeq, MaxClock,
  Handlers,     \* goroutines serving requests
  NoOne         \* the write lock is free

ASSUME NoOneAssumption == NoOne \notin Handlers
ASSUME ClockAssumption == MaxClock \in Nat \ {0}
ASSUME SeqAssumption == MaxSeq \in Nat

VARIABLES
  registered, now, state, started, start, endedAt, lastHb, hbs,
  job,          \* job[h]: the locals of goroutine h
  stale,        \* the handlers whose snapshot others have committed after
  writer        \* the handler whose transaction holds SQLite's write lock

tables == <<registered, state, started, start, endedAt, lastHb, hbs>>
txVars == <<registered, now, state, started, start, endedAt, lastHb, hbs,
            job, stale, writer>>

\* The handlers as atomic steps; here a clock reading may be arbitrarily old.
Atomic == INSTANCE RuntimeSessions WITH MaxLag <- MaxClock

Requests ==
  [op : {"create"}, r : Runtimes, s : SessionIds, p : Starts]
    \cup [op : {"beat"}, r : Runtimes, s : SessionIds, q : 1 .. MaxSeq, rep : ReportTimes]
    \cup [op : {"end"}, r : Runtimes, s : SessionIds]

\* A goroutine is idle; has read the clock (t); or has read the tables from its
\* snapshot and knows what to write (current: the session was current then).
Idle == [pc |-> "idle"]
Jobs ==
  {Idle}
    \cup [pc : {"begun"}, req : Requests, t : 1 .. MaxClock]
    \cup [pc : {"decided"}, req : Requests, t : 1 .. MaxClock, current : BOOLEAN,
          outcome : {"created", "recorded", "retried", "ended"}]

TypeOK ==
  /\ Atomic!TypeOK
  /\ job \in [Handlers -> Jobs]
  /\ stale \subseteq Handlers
  /\ writer \in Handlers \cup {NoOne}

Init ==
  /\ Atomic!Init
  /\ job = [h \in Handlers |-> Idle]
  /\ stale = {}
  /\ writer = NoOne

-----------------------------------------------------------------------------

\* The handler decodes the request and reads the clock (s.eval.Now()).
Arrive(h, req) ==
  /\ job[h] = Idle
  /\ job' = [job EXCEPT ![h] = [pc |-> "begun", req |-> req, t |-> now]]
  /\ UNCHANGED <<tables, now, stale, writer>>

\* What the transaction's SELECTs tell the handler.
Outcome(req, t) ==
  IF req.op = "create" THEN Atomic!CreateOutcome(req.r, req.s)
  ELSE IF req.op = "beat" THEN Atomic!HeartbeatOutcome(req.r, req.s, req.q, t)
  ELSE IF state[req.r][req.s] = "absent" THEN "not_found"
  ELSE "ended"

Writes == {"created", "recorded", "retried", "ended"}

\* Mutant: the early return after a refusal is missing.
ReadWithoutReturn(h) ==
  /\ job[h].pc = "begun"
  /\ LET req == job[h].req
     IN  job' = [job EXCEPT ![h] =
                   [pc |-> "decided", req |-> req, t |-> @.t, outcome |-> Outcome(req, @.t),
                    current |-> state[req.r][req.s] = "current"]]
  /\ UNCHANGED <<tables, now, stale, writer>>

\* The SELECTs, all from one snapshot.  A handler with nothing to write answers.
Read(h) ==
  /\ job[h].pc = "begun"
  /\ LET req == job[h].req
         outcome == Outcome(req, job[h].t)
         current == state[req.r][req.s] = "current"
         noUpdate == outcome = "retried" /\ ~current
     IN  job' = [job EXCEPT ![h] =
                   IF outcome \notin Writes \/ noUpdate THEN Idle
                   ELSE [pc |-> "decided", req |-> req, t |-> @.t, outcome |-> outcome,
                         current |-> current]]
  /\ UNCHANGED <<tables, now, stale, writer>>

\* SQLite grants the write lock only to a transaction whose snapshot is current.
CanUpgrade(h) == writer = NoOne /\ h \notin stale

\* Mutant: the SELECTs run on the database handle, outside the transaction,
\* which therefore has no snapshot yet when it writes.
UpgradeUnread(h) ==
  /\ job[h].pc = "decided"
  /\ writer = NoOne
  /\ writer' = h
  /\ UNCHANGED <<tables, now, job, stale>>

\* The first UPDATE or INSERT takes the write lock.
Upgrade(h) ==
  /\ job[h].pc = "decided"
  /\ CanUpgrade(h)
  /\ writer' = h
  /\ UNCHANGED <<tables, now, job, stale>>

\* The handler is done, with or without success; its snapshot is gone.
Answered(h) ==
  /\ job' = [job EXCEPT ![h] = Idle]
  /\ stale' = stale \ {h}
  /\ UNCHANGED <<tables, now>>

\* Mutant: only a held lock is taken for SQLITE_BUSY, a stale snapshot is waited out.
BusyWaiting(h) ==
  /\ job[h].pc = "decided"
  /\ writer \notin {h, NoOne}
  /\ Answered(h)
  /\ UNCHANGED writer

\* SQLITE_BUSY: the handler rolls back and answers 500.
Busy(h) ==
  /\ job[h].pc = "decided"
  /\ writer # h /\ ~CanUpgrade(h)
  /\ Answered(h)
  /\ UNCHANGED writer

\* Mutant: the INSERT without the superseding UPDATE.
WriteCreateBesides(req, t) ==
  /\ state' = [state EXCEPT ![req.r][req.s] = "current"]
  /\ started' = [started EXCEPT ![req.r][req.s] = t]
  /\ start' = [start EXCEPT ![req.r][req.s] = req.p]
  /\ lastHb' = [lastHb EXCEPT ![req.r][req.s] = 0]
  /\ UNCHANGED <<registered, endedAt, hbs>>

\* The statements of each transaction, driven by what the handler has read.
WriteCreate(req, t) ==
  /\ state' = [state EXCEPT ![req.r] = [x \in SessionIds |->
                 IF x = req.s THEN "current"
                 ELSE IF state[req.r][x] = "current" THEN "superseded"
                 ELSE state[req.r][x]]]
  /\ started' = [started EXCEPT ![req.r][req.s] = t]
  /\ start' = [start EXCEPT ![req.r][req.s] = req.p]
  /\ lastHb' = [lastHb EXCEPT ![req.r][req.s] = 0]
  /\ UNCHANGED <<registered, endedAt, hbs>>

WriteBeat(req, t, insert, current) ==
  /\ hbs' = IF insert
            THEN [hbs EXCEPT ![req.r][req.s] =
                    @ \cup {[seq |-> req.q, reported |-> req.rep, received |-> t]}]
            ELSE hbs
  /\ lastHb' = IF current THEN [lastHb EXCEPT ![req.r][req.s] = t] ELSE lastHb
  /\ UNCHANGED <<registered, state, started, start, endedAt>>

WriteEnd(req, t) ==
  /\ state' = [state EXCEPT ![req.r][req.s] = "ended"]
  /\ endedAt' = [endedAt EXCEPT ![req.r][req.s] = t]
  /\ UNCHANGED <<registered, started, start, lastHb, hbs>>

\* A commit makes the snapshot of every other open transaction stale.
StaleAfter(h) == {g \in Handlers \ {h} : job[g].pc = "decided"}

\* The remaining statements and COMMIT: all of the writes appear at once.
Commit(h) ==
  /\ job[h].pc = "decided"
  /\ writer = h
  /\ LET j == job[h]
     IN  \/ j.outcome = "created" /\ WriteCreate(j.req, j.t)
         \/ /\ j.outcome \in {"recorded", "retried"}
            /\ WriteBeat(j.req, j.t, j.outcome = "recorded", j.current)
         \/ j.outcome = "ended" /\ WriteEnd(j.req, j.t)
  /\ job' = [job EXCEPT ![h] = Idle]
  /\ stale' = StaleAfter(h)
  /\ writer' = NoOne
  /\ UNCHANGED now

\* Mutant: the deferred Rollback is missing.
RollbackForgotten(h) ==
  /\ job[h] # Idle
  /\ Answered(h)
  /\ UNCHANGED writer

\* A statement fails or the client goes away: the deferred Rollback undoes the
\* transaction and releases the lock.
Rollback(h) ==
  /\ job[h] # Idle
  /\ Answered(h)
  /\ writer' = IF writer = h THEN NoOne ELSE writer

\* The platform process dies and is started again on the same file.
Restart ==
  /\ \E h \in Handlers : job[h] # Idle
  /\ job' = [h \in Handlers |-> Idle]
  /\ stale' = {}
  /\ writer' = NoOne
  /\ UNCHANGED <<tables, now>>

\* A Runtime is registered by a transaction of another handler.
RegisterRuntime(r) ==
  /\ writer = NoOne
  /\ Atomic!RegisterRuntime(r)
  /\ stale' = StaleAfter(NoOne)
  /\ UNCHANGED <<job, writer>>

Tick ==
  /\ Atomic!Tick
  /\ UNCHANGED <<job, stale, writer>>

Step(h) == Read(h) \/ Upgrade(h) \/ Busy(h) \/ Commit(h)

Next ==
  \/ Tick \/ Restart
  \/ \E r \in Runtimes : RegisterRuntime(r)
  \/ \E h \in Handlers :
       \/ \E req \in Requests : Arrive(h, req)
       \/ Step(h) \/ Rollback(h)

Spec == Init /\ [][Next]_txVars

\* The Go scheduler runs every goroutine and SQLite never blocks one (there is
\* no busy timeout), so a started request keeps taking steps.
Fairness == \A h \in Handlers : WF_txVars(Step(h))

FairSpec == Spec /\ Fairness

-----------------------------------------------------------------------------
\* Interleaved transactions with stale reads, rollbacks and restarts have no
\* outcome that running the same handlers one at a time could not have.
ImplementsAtomic == Atomic!Spec

\* The holder of the write lock has a snapshot nobody has committed after: what
\* it read is what the tables hold, so its decision is still the right one.
WriterDecisionHolds ==
  \A h \in Handlers :
    writer = h =>
      /\ job[h].pc = "decided" /\ h \notin stale
      /\ Outcome(job[h].req, job[h].t) = job[h].outcome
      /\ job[h].current = (state[job[h].req.r][job[h].req.s] = "current")

\* Every request is eventually answered, and the write lock never stays taken.
RequestsAreAnswered == \A h \in Handlers : job[h] # Idle ~> job[h] = Idle
LockIsReleased == writer # NoOne ~> writer = NoOne

\* What the comment on RuntimeSession.LastHeartbeatAtMs says
\* (domain/platform.go:169): the latest received_at of the session.
LastHbIsLatestReceived == Atomic!LastHbIsLatestReceived

=============================================================================
