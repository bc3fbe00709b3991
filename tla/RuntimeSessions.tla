-------------------------- MODULE RuntimeSessions --------------------------
(***************************************************************************)
(* Runtime sessions and their heartbeats as the platform keeps them: the   *)
(* tables runtime_sessions and runtime_heartbeats, and the three handlers  *)
(* that write them (create session, heartbeat, end session), each with the *)
(* store transaction it runs as one atomic step.  SessionTx shows why the  *)
(* transactions may be taken as atomic.                                    *)
(*                                                                         *)
(* A handler reads the clock BEFORE its transaction begins, so the time it *)
(* stores may lag the clock by however long the transaction had to wait:   *)
(* MaxLag bounds that lag (0: every request is handled in no time).        *)
(***************************************************************************)
EXTENDS Integers, FiniteSets

CONSTANTS
  Runtimes,     \* runtime ids
  SessionIds,   \* session ids a producer may present
  Starts,       \* what a start report carries (version, reported time)
  NoStart,      \* the content of a row that does not exist
  ReportTimes,  \* reported_at values a producer may send
  MaxSeq,       \* bound on the sequence numbers sent
  MaxClock,     \* bound on the platform clock
  MaxLag        \* bound on the age of a handler's clock reading

ASSUME BoundsAssumption == /\ MaxSeq \in Nat
                           /\ MaxClock \in Nat \ {0}
                           /\ MaxLag \in Nat

VARIABLES
  registered,   \* ids in table runtimes
  now,          \* the platform clock
  state,        \* session_state, "absent" when there is no row
  started,      \* started_at_received
  start,        \* software_version_ref and started_at_reported
  endedAt,      \* ended_at, 0 when NULL
  lastHb,       \* last_heartbeat_at_ms, 0 when none was applied
  hbs           \* the rows of runtime_heartbeats, per runtime and session

vars == <<registered, now, state, started, start, endedAt, lastHb, hbs>>

SessionStates == {"absent", "current", "superseded", "ended"}
Seqs == 1 .. MaxSeq
Times == 1 .. MaxClock
Heartbeats == [seq : Seqs, reported : ReportTimes, received : Times]
PerSession(S) == [Runtimes -> [SessionIds -> S]]
Everywhere(v) == [r \in Runtimes |-> [s \in SessionIds |-> v]]

\* Types of the columns; 0 stands for NULL or the column's default.
TypeOK ==
  /\ registered \subseteq Runtimes
  /\ now \in Times
  /\ state \in PerSession(SessionStates)
  /\ started \in PerSession(Times \cup {0})
  /\ start \in PerSession(Starts \cup {NoStart})
  /\ endedAt \in PerSession(Times \cup {0})
  /\ lastHb \in PerSession(Times \cup {0})
  /\ hbs \in PerSession(SUBSET Heartbeats)

Init ==
  /\ registered = {}
  /\ now = 1
  /\ state = Everywhere("absent")
  /\ started = Everywhere(0)
  /\ start = Everywhere(NoStart)
  /\ endedAt = Everywhere(0)
  /\ lastHb = Everywhere(0)
  /\ hbs = Everywhere({})

\* The readings of the clock a handler about to commit may be holding.
ClockReadings == {t \in Times : t <= now /\ now - t <= MaxLag}

-----------------------------------------------------------------------------
(* Outcomes, as functions of the state the transaction sees.               *)

\* Mutant: only a current session counts as existing, so an old one restarts.
CreateOutcomeRestarting(r, s) ==
  IF r \notin registered THEN "not_found"
  ELSE IF state[r][s] = "current" THEN "existing"
  ELSE "created"

CreateOutcome(r, s) ==
  IF r \notin registered THEN "not_found"
  ELSE IF state[r][s] # "absent" THEN "existing"
  ELSE "created"

\* The seq is on record; or it is below the highest on record.
SeqOnRecord(r, s, q) == \E h \in hbs[r][s] : h.seq = q
SeqPassed(r, s, q) == \E h \in hbs[r][s] : h.seq > q

\* Same sequence number, received at the very same millisecond.
IsRetry(r, s, q, t) == \E h \in hbs[r][s] : h.seq = q /\ h.received = t

\* Mutant: a known seq is recorded again unless it is an exact retry.
HeartbeatOutcomeRepeating(r, s, q, t) ==
  IF state[r][s] = "absent" THEN "not_found"
  ELSE IF IsRetry(r, s, q, t) THEN "retried"
  ELSE IF SeqPassed(r, s, q) THEN "regression"
  ELSE "recorded"

\* Mutant: a seq below the highest is recorded when it is new.
HeartbeatOutcomeOutOfOrder(r, s, q, t) ==
  IF state[r][s] = "absent" THEN "not_found"
  ELSE IF SeqOnRecord(r, s, q) THEN "ignored"
  ELSE "recorded"

\* Mutant: a duplicate of the highest seq is treated as a retry.
HeartbeatOutcomeRefreshing(r, s, q, t) ==
  IF state[r][s] = "absent" THEN "not_found"
  ELSE IF SeqPassed(r, s, q) THEN "regression"
  ELSE IF SeqOnRecord(r, s, q) THEN "retried"
  ELSE "recorded"

HeartbeatOutcome(r, s, q, t) ==
  IF state[r][s] = "absent" THEN "not_found"
  ELSE IF SeqPassed(r, s, q)
       THEN IF IsRetry(r, s, q, t) THEN "retried" ELSE "regression"
  ELSE IF SeqOnRecord(r, s, q)
       THEN IF IsRetry(r, s, q, t) THEN "retried" ELSE "ignored"
  ELSE "recorded"

\* The HTTP status of each outcome of the heartbeat handler.
HeartbeatStatus(outcome) ==
  IF outcome = "not_found" THEN 404
  ELSE IF outcome = "regression" THEN 409
  ELSE 202

-----------------------------------------------------------------------------
(* The handlers.  A request that is refused or changes nothing is a        *)
(* stuttering step and has no action.                                      *)

RegisterRuntime(r) ==
  /\ r \notin registered
  /\ registered' = registered \cup {r}
  /\ UNCHANGED <<now, state, started, start, endedAt, lastHb, hbs>>

\* Mutant: the session that was current is not superseded.
CreateSessionBesides(r, s, p, t) ==
  /\ CreateOutcome(r, s) = "created"
  /\ state' = [state EXCEPT ![r][s] = "current"]
  /\ started' = [started EXCEPT ![r][s] = t]
  /\ start' = [start EXCEPT ![r][s] = p]
  /\ lastHb' = [lastHb EXCEPT ![r][s] = 0]
  /\ UNCHANGED <<registered, now, endedAt, hbs>>

\* The session that was current is superseded, the new one becomes current.
CreateSession(r, s, p, t) ==
  /\ CreateOutcome(r, s) = "created"
  /\ state' = [state EXCEPT ![r] = [x \in SessionIds |->
                 IF x = s THEN "current"
                 ELSE IF state[r][x] = "current" THEN "superseded"
                 ELSE state[r][x]]]
  /\ started' = [started EXCEPT ![r][s] = t]
  /\ start' = [start EXCEPT ![r][s] = p]
  /\ lastHb' = [lastHb EXCEPT ![r][s] = 0]
  /\ UNCHANGED <<registered, now, endedAt, hbs>>

\* Only the current session's last_heartbeat_at_ms follows its heartbeats.
ApplyToLiveness(r, s, t) ==
  lastHb' = [lastHb EXCEPT ![r][s] = IF state[r][s] = "current" THEN t ELSE @]

RecordHeartbeat(r, s, q, rep, t) ==
  /\ HeartbeatOutcome(r, s, q, t) = "recorded"
  /\ hbs' = [hbs EXCEPT ![r][s] =
               @ \cup {[seq |-> q, reported |-> rep, received |-> t]}]
  /\ ApplyToLiveness(r, s, t)
  /\ UNCHANGED <<registered, now, state, started, start, endedAt>>

RetryHeartbeat(r, s, q, t) ==
  /\ HeartbeatOutcome(r, s, q, t) = "retried"
  /\ ApplyToLiveness(r, s, t)
  /\ UNCHANGED <<registered, now, state, started, start, endedAt, hbs>>

\* Mutant: a state literal the readers do not know.
EndSessionMisspelt(r, s, t) ==
  /\ state[r][s] # "absent"
  /\ state' = [state EXCEPT ![r][s] = "closed"]
  /\ endedAt' = [endedAt EXCEPT ![r][s] = t]
  /\ UNCHANGED <<registered, now, started, start, lastHb, hbs>>

\* Any existing session, whatever its state, becomes ended now.
EndSession(r, s, t) ==
  /\ state[r][s] # "absent"
  /\ state' = [state EXCEPT ![r][s] = "ended"]
  /\ endedAt' = [endedAt EXCEPT ![r][s] = t]
  /\ UNCHANGED <<registered, now, started, start, lastHb, hbs>>

Tick ==
  /\ now < MaxClock
  /\ now' = now + 1
  /\ UNCHANGED <<registered, state, started, start, endedAt, lastHb, hbs>>

\* One request of a producer on session s of runtime r, its clock reading t.
Request(r, s, t) ==
  \/ \E p \in Starts : CreateSession(r, s, p, t)
  \/ \E q \in Seqs, rep \in ReportTimes : RecordHeartbeat(r, s, q, rep, t)
  \/ \E q \in Seqs : RetryHeartbeat(r, s, q, t)
  \/ EndSession(r, s, t)

Next ==
  \/ Tick
  \/ \E r \in Runtimes : RegisterRuntime(r)
  \/ \E r \in Runtimes, s \in SessionIds, t \in ClockReadings : Request(r, s, t)

Spec == Init /\ [][Next]_vars

-----------------------------------------------------------------------------
(* Safety, whatever the lag of the handlers' clock readings.               *)

\* At most one session of a Runtime is current: the table has no constraint
\* that says so, only CreateRuntimeSession's UPDATE before its INSERT does.
AtMostOneCurrent ==
  \A r \in Runtimes : \A s1, s2 \in SessionIds :
    state[r][s1] = "current" /\ state[r][s2] = "current" => s1 = s2

\* A session has at most one heartbeat row per seq, although the UNIQUE key of
\* runtime_heartbeats also holds reported_at and so would admit several.
OneRowPerSeq ==
  \A r \in Runtimes, s \in SessionIds : \A h1, h2 \in hbs[r][s] :
    h1.seq = h2.seq => h1 = h2

\* last_heartbeat_at_ms, from which liveness is recovered after a platform
\* restart, is the received_at of a heartbeat that is really on record; and a
\* current session reads "no heartbeat yet" exactly while it has none.
LastHbOnRecord ==
  \A r \in Runtimes, s \in SessionIds :
    /\ lastHb[r][s] # 0 => \E h \in hbs[r][s] : h.received = lastHb[r][s]
    /\ state[r][s] = "current" => (lastHb[r][s] = 0 <=> hbs[r][s] = {})

\* Heartbeat rows and session rows hang off existing parents (foreign keys are
\* declared but SQLite is not asked to enforce them).
RowsHaveParents ==
  \A r \in Runtimes, s \in SessionIds :
    /\ hbs[r][s] # {} => state[r][s] # "absent"
    /\ state[r][s] # "absent" => r \in registered

\* A session that has lost the lead never regains it, not by a repeated create,
\* not by a late heartbeat; an ended one stays ended; no row is deleted.
Rank == [absent |-> 0, current |-> 1, superseded |-> 2, ended |-> 3]
NoResurrection ==
  [][\A r \in Runtimes, s \in SessionIds :
       Rank[state[r][s]] <= Rank[state'[r][s]]]_vars

\* The audit trail is append-only, and every row appended has a seq above all
\* the session's earlier ones.
AuditGrowsBySeq ==
  [][\A r \in Runtimes, s \in SessionIds :
       /\ hbs[r][s] \subseteq hbs'[r][s]
       /\ \A new \in hbs'[r][s] \ hbs[r][s], old \in hbs[r][s] :
            old.seq < new.seq]_vars

\* A late heartbeat of a superseded or ended session is audit only: whoever
\* moves the liveness of a Runtime speaks through its current session.
OnlyCurrentMovesLiveness ==
  [][\A r \in Runtimes, s \in SessionIds :
       lastHb'[r][s] # lastHb[r][s] => /\ state[r][s] = "current"
                                       /\ state'[r][s] = "current"]_vars

\* The refinement: these handlers implement the abstract ledger.
Ledger == INSTANCE SessionLedger WITH
  leader <- [r \in Runtimes |-> {s \in SessionIds : state[r][s] = "current"}],
  used <- [r \in Runtimes |-> {s \in SessionIds : state[r][s] # "absent"}],
  beats <- [r \in Runtimes |-> [s \in SessionIds |-> {h.seq : h \in hbs[r][s]}]]

\* The abstract ledger's specification holds of these handlers.
ImplementsLedger == Ledger!LedgerSpec

-----------------------------------------------------------------------------
(* Safety up to the lag of the handlers' clock readings: exact orders when    *)
(* requests are handled in no time (MaxLag = 0).                              *)

\* Sequence order is reception order, and no reception is newer than the
\* current session's last_heartbeat_at_ms, by more than the lag.
ReceptionFollowsSeq ==
  \A r \in Runtimes, s \in SessionIds :
    /\ \A h1, h2 \in hbs[r][s] :
         h1.seq < h2.seq => h1.received <= h2.received + MaxLag
    /\ state[r][s] = "current" =>
         \A h \in hbs[r][s] : h.received <= lastHb[r][s] + MaxLag

\* No session started later than the current one by more than the lag, so that
\* "newest by started_at_received" and "current" agree up to the lag.
CurrentIsNewest ==
  \A r \in Runtimes : \A s1, s2 \in SessionIds :
    state[r][s1] = "current" /\ state[r][s2] # "absent"
      => started[r][s2] <= started[r][s1] + MaxLag

\* A duplicate never prolongs liveness: a step that puts no new heartbeat on
\* record moves last_heartbeat_at_ms by no more than the lag.
OnlyNewBeatMovesLiveness ==
  [][\A r \in Runtimes, s \in SessionIds :
       hbs'[r][s] = hbs[r][s] => /\ lastHb'[r][s] <= lastHb[r][s] + MaxLag
                                 /\ lastHb[r][s] <= lastHb'[r][s] + MaxLag]_vars

-----------------------------------------------------------------------------
(* What the documents say of the program and the code does not do.         *)

\* The same seq with the same payload succeeds (contract 7.2, line 241).
SameHeartbeatAgainSucceeds ==
  \A r \in Runtimes, s \in SessionIds, t \in ClockReadings :
    \A h \in hbs[r][s] :
      HeartbeatStatus(HeartbeatOutcome(r, s, h.seq, t)) = 202

\* last_heartbeat_at_ms is the latest persisted received_at of the current
\* session (domain/platform.go:169).
LastHbIsLatestReceived ==
  \A r \in Runtimes, s \in SessionIds :
    state[r][s] = "current" => \A h \in hbs[r][s] : h.received <= lastHb[r][s]

=============================================================================
