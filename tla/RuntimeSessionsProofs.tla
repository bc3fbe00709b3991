----------------------- MODULE RuntimeSessionsProofs -----------------------
(***************************************************************************)
(* Theorems about RuntimeSessions for every set of runtimes and sessions,  *)
(* every bound on sequence numbers and clock, and every lag of the         *)
(* handlers' clock readings.                                               *)
(***************************************************************************)
EXTENDS RuntimeSessions, TLAPS

-----------------------------------------------------------------------------
(* Type correctness.                                                       *)

\* Empty tables are typed.
LEMMA InitTypeOK == Init => TypeOK
  <1> SUFFICES ASSUME Init PROVE TypeOK
    OBVIOUS
  <1>1. now \in Times
    BY BoundsAssumption DEF Init, Times
  <1> QED
    BY <1>1 DEF Init, TypeOK, PerSession, Everywhere, SessionStates

\* Every handler keeps the types of the columns.
LEMMA StepTypeOK == TypeOK /\ [Next]_vars => TypeOK'
  <1> SUFFICES ASSUME TypeOK, [Next]_vars PROVE TypeOK'
    OBVIOUS
  <1> USE DEF TypeOK, PerSession
  <1>1. CASE Tick
    BY <1>1, BoundsAssumption DEF Tick, Times
  <1>2. ASSUME NEW r \in Runtimes, RegisterRuntime(r)
        PROVE TypeOK'
    BY <1>2 DEF RegisterRuntime
  <1>3. ASSUME NEW r \in Runtimes, NEW s \in SessionIds, NEW t \in ClockReadings,
               Request(r, s, t)
        PROVE TypeOK'
    <2> t \in Times
      BY DEF ClockReadings
    <2>1. ASSUME NEW p \in Starts, CreateSession(r, s, p, t)
          PROVE TypeOK'
      BY <2>1 DEF CreateSession, SessionStates
    <2>2. ASSUME NEW q \in Seqs, NEW rep \in ReportTimes,
                 RecordHeartbeat(r, s, q, rep, t)
          PROVE TypeOK'
      <3>1. [seq |-> q, reported |-> rep, received |-> t] \in Heartbeats
        BY DEF Heartbeats
      <3> QED
        BY <2>2, <3>1 DEF RecordHeartbeat, ApplyToLiveness
    <2>3. ASSUME NEW q \in Seqs, RetryHeartbeat(r, s, q, t)
          PROVE TypeOK'
      BY <2>3 DEF RetryHeartbeat, ApplyToLiveness
    <2>4. CASE EndSession(r, s, t)
      BY <2>4 DEF EndSession, SessionStates
    <2> QED
      BY <1>3, <2>1, <2>2, <2>3, <2>4 DEF Request
  <1>4. CASE UNCHANGED vars
    BY <1>4 DEF vars
  <1> QED
    BY <1>1, <1>2, <1>3, <1>4 DEF Next

\* Every column holds values of its type in every reachable state.
THEOREM Typing == Spec => []TypeOK
  <1>1. Init => TypeOK
    BY InitTypeOK
  <1>2. TypeOK /\ [Next]_vars => TypeOK'
    BY StepTypeOK
  <1> QED
    BY <1>1, <1>2, PTL DEF Spec

-----------------------------------------------------------------------------
(* One current session.                                                    *)

\* The superseding UPDATE leaves no second current session beside the new one.
LEMMA StepAtMostOneCurrent ==
  TypeOK /\ AtMostOneCurrent /\ [Next]_vars => AtMostOneCurrent'
  <1> SUFFICES ASSUME TypeOK, AtMostOneCurrent, [Next]_vars
               PROVE AtMostOneCurrent'
    OBVIOUS
  <1> USE DEF AtMostOneCurrent
  <1>1. CASE UNCHANGED state
    BY <1>1
  <1>2. ASSUME NEW r \in Runtimes, NEW s \in SessionIds, NEW t \in ClockReadings,
               NEW p \in Starts, CreateSession(r, s, p, t)
        PROVE AtMostOneCurrent'
    <2> SUFFICES ASSUME NEW rr \in Runtimes, NEW s1 \in SessionIds,
                        NEW s2 \in SessionIds,
                        state'[rr][s1] = "current", state'[rr][s2] = "current"
                 PROVE s1 = s2
      OBVIOUS
    <2>1. CASE rr = r
      <3>1. \A x \in SessionIds : state'[r][x] = "current" => x = s
        BY <1>2 DEF CreateSession, TypeOK, PerSession
      <3> QED
        BY <2>1, <3>1
    <2>2. CASE rr # r
      BY <1>2, <2>2 DEF CreateSession, TypeOK, PerSession
    <2> QED
      BY <2>1, <2>2
  <1>3. ASSUME NEW r \in Runtimes, NEW s \in SessionIds, NEW t \in ClockReadings,
               EndSession(r, s, t)
        PROVE AtMostOneCurrent'
    BY <1>3 DEF EndSession, TypeOK, PerSession
  <1> QED
    BY <1>1, <1>2, <1>3
       DEF Next, Request, Tick, RegisterRuntime, RecordHeartbeat, RetryHeartbeat, vars

\* However creates, heartbeats and ends are ordered, a Runtime never has two
\* current sessions: CreateRuntimeSession keeps by itself what the schema does
\* not enforce.
THEOREM SingleCurrent == Spec => []AtMostOneCurrent
  <1>1. Init => AtMostOneCurrent
    BY DEF Init, AtMostOneCurrent, Everywhere
  <1>2. TypeOK /\ AtMostOneCurrent /\ [Next]_vars => AtMostOneCurrent'
    BY StepAtMostOneCurrent
  <1> QED
    BY <1>1, <1>2, Typing, PTL DEF Spec

-----------------------------------------------------------------------------
(* The heartbeat rows and what last_heartbeat_at_ms says of them.          *)

\* What a heartbeat that is put on record has found in the table.
LEMMA RecordedIsNewest ==
  ASSUME NEW r \in Runtimes, NEW s \in SessionIds, NEW q \in Seqs, NEW t,
         TypeOK, HeartbeatOutcome(r, s, q, t) = "recorded"
  PROVE  /\ state[r][s] # "absent"
         /\ \A h \in hbs[r][s] : h.seq < q
  <1>1. state[r][s] # "absent" /\ ~SeqPassed(r, s, q) /\ ~SeqOnRecord(r, s, q)
    BY DEF HeartbeatOutcome
  <1>2. ASSUME NEW h \in hbs[r][s] PROVE h.seq < q
    <2>1. h.seq \in Int /\ q \in Int
      BY DEF TypeOK, PerSession, Heartbeats, Seqs
    <2>2. ~(h.seq > q) /\ h.seq # q
      BY <1>1 DEF SeqPassed, SeqOnRecord
    <2> QED
      BY <2>1, <2>2
  <1> QED
    BY <1>1, <1>2

RowsInv == TypeOK /\ RowsHaveParents /\ OneRowPerSeq /\ LastHbOnRecord

\* Every handler keeps the heartbeat rows, their parents and last_heartbeat_at_ms
\* in step with each other.
LEMMA StepRowsInv == RowsInv /\ [Next]_vars => RowsInv'
  <1> SUFFICES ASSUME RowsInv, [Next]_vars PROVE RowsInv'
    OBVIOUS
  <1>t. TypeOK /\ TypeOK'
    BY StepTypeOK DEF RowsInv
  <1> USE DEF RowsHaveParents, OneRowPerSeq, LastHbOnRecord
  <1>1. CASE UNCHANGED <<registered, state, lastHb, hbs>>
    BY <1>1, <1>t DEF RowsInv
  <1>2. ASSUME NEW r \in Runtimes, RegisterRuntime(r)
        PROVE RowsInv'
    BY <1>2, <1>t DEF RowsInv, RegisterRuntime
  <1>3. ASSUME NEW r \in Runtimes, NEW s \in SessionIds, NEW t \in ClockReadings,
               Request(r, s, t)
        PROVE RowsInv'
    <2> t \in Nat \ {0}
      BY DEF ClockReadings, Times
    <2>1. ASSUME NEW p \in Starts, CreateSession(r, s, p, t)
          PROVE RowsInv'
      <3>1. r \in registered /\ state[r][s] = "absent" /\ hbs[r][s] = {}
        BY <2>1 DEF RowsInv, CreateSession, CreateOutcome
      <3>2. RowsHaveParents' /\ OneRowPerSeq'
        BY <2>1, <3>1, <1>t DEF RowsInv, CreateSession, TypeOK, PerSession
      <3>3. LastHbOnRecord'
        BY <2>1, <3>1, <1>t DEF RowsInv, CreateSession, TypeOK, PerSession
      <3> QED
        BY <3>2, <3>3, <1>t DEF RowsInv
    <2>2. ASSUME NEW q \in Seqs, NEW rep \in ReportTimes,
                 RecordHeartbeat(r, s, q, rep, t)
          PROVE RowsInv'
      <3> DEFINE new == [seq |-> q, reported |-> rep, received |-> t]
      <3>1. /\ state[r][s] # "absent"
            /\ \A h \in hbs[r][s] : h.seq < q
        BY <2>2, <1>t, RecordedIsNewest DEF RecordHeartbeat
      <3>2. hbs' = [hbs EXCEPT ![r][s] = @ \cup {new}]
        BY <2>2 DEF RecordHeartbeat
      <3>3. RowsHaveParents'
        BY <2>2, <3>1, <3>2, <1>t DEF RowsInv, RecordHeartbeat, TypeOK, PerSession
      <3>4. OneRowPerSeq'
        <4> SUFFICES ASSUME NEW rr \in Runtimes, NEW ss \in SessionIds,
                            NEW h1 \in hbs'[rr][ss], NEW h2 \in hbs'[rr][ss],
                            h1.seq = h2.seq
                     PROVE  h1 = h2
          OBVIOUS
        <4>1. CASE rr = r /\ ss = s
          <5>1. hbs'[r][s] = hbs[r][s] \cup {new}
            BY <3>2, <1>t DEF TypeOK, PerSession
          <5>2. new.seq = q /\ q \in Int /\ \A h \in hbs[r][s] : h.seq \in Int
            BY <1>t DEF TypeOK, PerSession, Heartbeats, Seqs
          <5>3. \A h \in hbs[r][s] : h.seq # q
            BY <3>1, <5>2
          <5> HIDE DEF new
          <5> QED
            BY <4>1, <5>1, <5>2, <5>3 DEF RowsInv
        <4>2. CASE ~(rr = r /\ ss = s)
          BY <4>2, <3>2, <1>t DEF RowsInv, TypeOK, PerSession
        <4> QED
          BY <4>1, <4>2
      <3>5. LastHbOnRecord'
        <4> SUFFICES ASSUME NEW rr \in Runtimes, NEW ss \in SessionIds
                     PROVE  /\ lastHb'[rr][ss] # 0 =>
                                 \E h \in hbs'[rr][ss] : h.received = lastHb'[rr][ss]
                            /\ state'[rr][ss] = "current" =>
                                 (lastHb'[rr][ss] = 0 <=> hbs'[rr][ss] = {})
          OBVIOUS
        <4>1. state' = state /\ new.received = t
          BY <2>2 DEF RecordHeartbeat
        <4>2. lastHb' = [lastHb EXCEPT ![r][s] =
                           IF state[r][s] = "current" THEN t ELSE @]
          BY <2>2 DEF RecordHeartbeat, ApplyToLiveness
        <4>3. /\ lastHb[rr][ss] # 0 =>
                   \E h \in hbs[rr][ss] : h.received = lastHb[rr][ss]
              /\ state[rr][ss] = "current" =>
                   (lastHb[rr][ss] = 0 <=> hbs[rr][ss] = {})
          BY DEF RowsInv
        <4> HIDE DEF new
        <4>4. CASE rr = r /\ ss = s
          <5>1. /\ hbs'[r][s] = hbs[r][s] \cup {new}
                /\ lastHb'[r][s] = IF state[r][s] = "current" THEN t ELSE lastHb[r][s]
            BY <3>2, <4>2, <1>t DEF TypeOK, PerSession
          <5> QED
            BY <4>1, <4>3, <4>4, <5>1
        <4>5. CASE ~(rr = r /\ ss = s)
          <5>1. hbs'[rr][ss] = hbs[rr][ss] /\ lastHb'[rr][ss] = lastHb[rr][ss]
            BY <3>2, <4>2, <4>5, <1>t DEF TypeOK, PerSession
          <5> QED
            BY <4>1, <4>3, <5>1
        <4> QED
          BY <4>4, <4>5
      <3> QED
        BY <3>3, <3>4, <3>5, <1>t DEF RowsInv
    <2>3. ASSUME NEW q \in Seqs, RetryHeartbeat(r, s, q, t)
          PROVE RowsInv'
      <3>1. PICK h \in hbs[r][s] : h.received = t
        BY <2>3 DEF RetryHeartbeat, HeartbeatOutcome, IsRetry
      <3> QED
        BY <2>3, <3>1, <1>t DEF RowsInv, RetryHeartbeat, ApplyToLiveness, TypeOK, PerSession
    <2>4. CASE EndSession(r, s, t)
      BY <2>4, <1>t DEF RowsInv, EndSession, TypeOK, PerSession
    <2> QED
      BY <1>3, <2>1, <2>2, <2>3, <2>4 DEF Request
  <1> QED
    BY <1>1, <1>2, <1>3 DEF Next, Tick, vars

\* RowsInv holds in every reachable state.
LEMMA RowsInvariant == Spec => []RowsInv
  <1>1. Init => RowsInv
    BY InitTypeOK DEF Init, RowsInv, RowsHaveParents, OneRowPerSeq, LastHbOnRecord, Everywhere
  <1>2. RowsInv /\ [Next]_vars => RowsInv'
    BY StepRowsInv
  <1> QED
    BY <1>1, <1>2, PTL DEF Spec

\* Heartbeat rows belong to sessions and sessions to Runtimes that exist, with no
\* foreign key enforced.
THEOREM NoOrphanRows == Spec => []RowsHaveParents
  <1>1. RowsInv => RowsHaveParents
    BY DEF RowsInv
  <1> QED
    BY <1>1, RowsInvariant, PTL

\* A session never has two heartbeat rows of one seq, though the table's UNIQUE
\* key would admit them.
THEOREM UniqueSeqRows == Spec => []OneRowPerSeq
  <1>1. RowsInv => OneRowPerSeq
    BY DEF RowsInv
  <1> QED
    BY <1>1, RowsInvariant, PTL

\* What a restarted platform recovers liveness from is on record, and a current
\* session reads "no heartbeat yet" exactly while it has none.
THEOREM LivenessEvidence == Spec => []LastHbOnRecord
  <1>1. RowsInv => LastHbOnRecord
    BY DEF RowsInv
  <1> QED
    BY <1>1, RowsInvariant, PTL

-----------------------------------------------------------------------------
(* What a step may never do.                                               *)

\* A session that lost the lead never regains it, and no session row is lost.
THEOREM LeadIsLostForGood == Spec => NoResurrection
  <1> DEFINE Up(old, new) == Rank[old] <= Rank[new]
             A == \A r \in Runtimes, s \in SessionIds : Up(state[r][s], state'[r][s])
  <1>0. /\ \A x \in SessionStates : Up(x, x) /\ Up(x, "ended") /\ Up("absent", x)
        /\ Up("current", "superseded")
    BY DEF SessionStates, Rank
  <1>1. TypeOK /\ [Next]_vars => [A]_vars
    <2> SUFFICES ASSUME TypeOK, Next PROVE A
      OBVIOUS
    <2> HIDE DEF Up
    <2> USE DEF TypeOK, PerSession
    <2>1. CASE UNCHANGED state
      BY <2>1, <1>0
    <2>2. ASSUME NEW r \in Runtimes, NEW s \in SessionIds, NEW t \in ClockReadings,
                 NEW p \in Starts, CreateSession(r, s, p, t)
          PROVE A
      <3>1. state[r][s] = "absent"
        BY <2>2 DEF CreateSession, CreateOutcome
      <3>2. "current" \in SessionStates
        BY DEF SessionStates
      <3> QED
        BY <2>2, <3>1, <3>2, <1>0 DEF CreateSession
    <2>3. ASSUME NEW r \in Runtimes, NEW s \in SessionIds, NEW t \in ClockReadings,
                 EndSession(r, s, t)
          PROVE A
      BY <2>3, <1>0 DEF EndSession
    <2> QED
      BY <2>1, <2>2, <2>3
         DEF Next, Request, Tick, RegisterRuntime, RecordHeartbeat, RetryHeartbeat
  <1>2. TypeOK /\ [Next]_vars => [\A r \in Runtimes, s \in SessionIds :
                                   Rank[state[r][s]] <= Rank[state'[r][s]]]_vars
    BY <1>1
  <1> QED
    BY <1>2, Typing, PTL DEF Spec, NoResurrection

\* Heartbeat rows are only ever added, each above the session's earlier ones.
THEOREM AuditIsAppendOnly == Spec => AuditGrowsBySeq
  <1> DEFINE A == \A r \in Runtimes, s \in SessionIds :
                    /\ hbs[r][s] \subseteq hbs'[r][s]
                    /\ \A new \in hbs'[r][s] \ hbs[r][s], old \in hbs[r][s] :
                         old.seq < new.seq
  <1>1. TypeOK /\ [Next]_vars => [A]_vars
    <2> SUFFICES ASSUME TypeOK, Next PROVE A
      OBVIOUS
    <2>1. CASE UNCHANGED hbs
      BY <2>1
    <2>2. ASSUME NEW r \in Runtimes, NEW s \in SessionIds, NEW t \in ClockReadings,
                 NEW q \in Seqs, NEW rep \in ReportTimes,
                 RecordHeartbeat(r, s, q, rep, t)
          PROVE A
      <3> DEFINE row == [seq |-> q, reported |-> rep, received |-> t]
      <3>1. \A h \in hbs[r][s] : h.seq < q
        BY <2>2, RecordedIsNewest DEF RecordHeartbeat
      <3>2. hbs' = [hbs EXCEPT ![r][s] = @ \cup {row}] /\ row.seq = q
        BY <2>2 DEF RecordHeartbeat
      <3> HIDE DEF row
      <3> QED
        BY <3>1, <3>2 DEF TypeOK, PerSession
    <2> QED
      BY <2>1, <2>2
         DEF Next, Request, Tick, RegisterRuntime, CreateSession, RetryHeartbeat, EndSession
  <1> QED
    BY <1>1, Typing, PTL DEF Spec, AuditGrowsBySeq

\* Late heartbeats of superseded and ended sessions leave liveness alone.
THEOREM LateBeatsAreAuditOnly == Spec => OnlyCurrentMovesLiveness
  <1> DEFINE A == \A r \in Runtimes, s \in SessionIds :
                    lastHb'[r][s] # lastHb[r][s] => /\ state[r][s] = "current"
                                                    /\ state'[r][s] = "current"
  <1>1. RowsInv /\ RowsInv' /\ [Next]_vars => [A]_vars
    <2> SUFFICES ASSUME RowsInv, Next PROVE A
      OBVIOUS
    <2> USE DEF RowsInv, TypeOK, PerSession
    <2>1. CASE UNCHANGED lastHb
      BY <2>1
    <2>2. ASSUME NEW r \in Runtimes, NEW s \in SessionIds, NEW t \in ClockReadings,
                 NEW p \in Starts, CreateSession(r, s, p, t)
          PROVE A
      <3>1. hbs[r][s] = {}
        BY <2>2 DEF CreateSession, CreateOutcome, RowsHaveParents
      <3>2. lastHb[r][s] = 0
        BY <3>1 DEF LastHbOnRecord
      <3> QED
        BY <2>2, <3>2 DEF CreateSession
    <2>3. ASSUME NEW r \in Runtimes, NEW s \in SessionIds, NEW t \in ClockReadings,
                 ApplyToLiveness(r, s, t), UNCHANGED state
          PROVE A
      BY <2>3 DEF ApplyToLiveness
    <2> QED
      BY <2>1, <2>2, <2>3
         DEF Next, Request, Tick, RegisterRuntime, RecordHeartbeat, RetryHeartbeat, EndSession
  <1> QED
    BY <1>1, RowsInvariant, PTL DEF Spec, OnlyCurrentMovesLiveness

-----------------------------------------------------------------------------
(* The handlers implement the abstract ledger.                             *)

leaderOf == [r \in Runtimes |-> {s \in SessionIds : state[r][s] = "current"}]
usedOf == [r \in Runtimes |-> {s \in SessionIds : state[r][s] # "absent"}]
beatsOf == [r \in Runtimes |-> [s \in SessionIds |-> {h.seq : h \in hbs[r][s]}]]

\* Empty tables are an empty ledger.
LEMMA InitImplements == Init => Ledger!LedgerInit
  <1> SUFFICES ASSUME Init PROVE Ledger!LedgerInit
    OBVIOUS
  <1>1. \A r \in Runtimes, s \in SessionIds : state[r][s] = "absent" /\ hbs[r][s] = {}
    BY DEF Init, Everywhere
  <1>2. leaderOf = [r \in Runtimes |-> {}]
    BY <1>1 DEF leaderOf
  <1>3. usedOf = [r \in Runtimes |-> {}]
    BY <1>1 DEF usedOf
  <1>4. beatsOf = [r \in Runtimes |-> [s \in SessionIds |-> {}]]
    BY <1>1 DEF beatsOf
  <1> QED
    BY <1>2, <1>3, <1>4 DEF Ledger!LedgerInit, leaderOf, usedOf, beatsOf

\* Each handler is a step of the ledger, or changes nothing the ledger shows.
LEMMA StepImplements ==
  TypeOK /\ AtMostOneCurrent /\ [Next]_vars => [Ledger!LedgerNext]_(Ledger!ledgerVars)
  <1> SUFFICES ASSUME TypeOK, AtMostOneCurrent, [Next]_vars
               PROVE  \/ Ledger!LedgerNext
                      \/ UNCHANGED <<leaderOf, usedOf, beatsOf>>
    BY DEF Ledger!ledgerVars, leaderOf, usedOf, beatsOf
  <1>1. CASE UNCHANGED <<state, hbs>>
    BY <1>1 DEF leaderOf, usedOf, beatsOf
  <1>2. ASSUME NEW r \in Runtimes, NEW s \in SessionIds, NEW t \in ClockReadings,
               NEW p \in Starts, CreateSession(r, s, p, t)
        PROVE Ledger!LedgerNext
    <2>1. state[r][s] = "absent"
      BY <1>2 DEF CreateSession, CreateOutcome
    <2>2. \A rr \in Runtimes, x \in SessionIds :
            state'[rr][x] = IF rr # r THEN state[rr][x]
                            ELSE IF x = s THEN "current"
                            ELSE IF state[r][x] = "current" THEN "superseded"
                            ELSE state[r][x]
      BY <1>2 DEF CreateSession, TypeOK, PerSession
    <2>3. leaderOf' = [leaderOf EXCEPT ![r] = {s}]
      BY <2>2 DEF leaderOf
    <2>4. usedOf' = [usedOf EXCEPT ![r] = @ \cup {s}]
      BY <2>2 DEF usedOf
    <2>5. beatsOf' = beatsOf /\ s \notin usedOf[r]
      BY <1>2, <2>1 DEF CreateSession, beatsOf, usedOf
    <2>6. Ledger!Start(r, s)
      BY <2>3, <2>4, <2>5 DEF Ledger!Start, leaderOf, usedOf, beatsOf
    <2> QED
      BY <2>6 DEF Ledger!LedgerNext
  <1>3. ASSUME NEW r \in Runtimes, NEW s \in SessionIds, NEW t \in ClockReadings,
               NEW q \in Seqs, NEW rep \in ReportTimes,
               RecordHeartbeat(r, s, q, rep, t)
        PROVE Ledger!LedgerNext
    <2> DEFINE row == [seq |-> q, reported |-> rep, received |-> t]
    <2>1. state[r][s] # "absent" /\ \A h \in hbs[r][s] : h.seq < q
      BY <1>3, RecordedIsNewest DEF RecordHeartbeat
    <2>2. UNCHANGED state /\ hbs' = [hbs EXCEPT ![r][s] = @ \cup {row}] /\ row.seq = q
      BY <1>3 DEF RecordHeartbeat
    <2> HIDE DEF row
    <2>3. \A rr \in Runtimes, x \in SessionIds :
            hbs'[rr][x] = IF rr = r /\ x = s THEN hbs[r][s] \cup {row} ELSE hbs[rr][x]
      BY <2>2 DEF TypeOK, PerSession
    <2>4. {h.seq : h \in hbs[r][s] \cup {row}} = {h.seq : h \in hbs[r][s]} \cup {q}
      BY <2>2
    <2>5. beatsOf' = [beatsOf EXCEPT ![r][s] = @ \cup {q}]
      <3>1. \A rr \in Runtimes, x \in SessionIds :
              {h.seq : h \in hbs'[rr][x]} = IF rr = r /\ x = s
                                           THEN {h.seq : h \in hbs[r][s]} \cup {q}
                                           ELSE {h.seq : h \in hbs[rr][x]}
        BY <2>3, <2>4
      <3> QED
        BY <3>1, Zenon DEF beatsOf
    <2>6. UNCHANGED <<leaderOf, usedOf>>
      BY <2>2 DEF leaderOf, usedOf
    <2>7. s \in usedOf[r] /\ \A x \in beatsOf[r][s] : x < q
      BY <2>1 DEF usedOf, beatsOf
    <2>8. Ledger!Beat(r, s, q)
      BY <2>5, <2>6, <2>7 DEF Ledger!Beat, leaderOf, usedOf, beatsOf
    <2> QED
      BY <2>8 DEF Ledger!LedgerNext
  <1>4. ASSUME NEW r \in Runtimes, NEW s \in SessionIds, NEW t \in ClockReadings,
               EndSession(r, s, t)
        PROVE Ledger!LedgerNext \/ UNCHANGED <<leaderOf, usedOf, beatsOf>>
    <2>1. \A rr \in Runtimes, x \in SessionIds :
            state'[rr][x] = IF rr = r /\ x = s THEN "ended" ELSE state[rr][x]
      BY <1>4 DEF EndSession, TypeOK, PerSession
    <2>2. UNCHANGED beatsOf /\ state[r][s] # "absent"
      BY <1>4 DEF EndSession, beatsOf
    <2>3. UNCHANGED usedOf
      BY <2>1, <2>2 DEF usedOf
    <2>4. CASE state[r][s] = "current"
      <3>1. leaderOf[r] = {s}
        BY <2>4 DEF leaderOf, AtMostOneCurrent
      <3>2. leaderOf' = [leaderOf EXCEPT ![r] = {}]
        <4>1. \A rr \in Runtimes :
                {x \in SessionIds : state'[rr][x] = "current"}
                  = IF rr = r THEN {} ELSE {x \in SessionIds : state[rr][x] = "current"}
          BY <2>1, <2>4 DEF AtMostOneCurrent
        <4> QED
          BY <4>1, Zenon DEF leaderOf
      <3>3. Ledger!Stop(r, s)
        BY <2>2, <2>3, <3>1, <3>2 DEF Ledger!Stop, leaderOf, usedOf, beatsOf
      <3> QED
        BY <3>3 DEF Ledger!LedgerNext
    <2>5. CASE state[r][s] # "current"
      BY <2>1, <2>2, <2>3, <2>5 DEF leaderOf
    <2> QED
      BY <2>4, <2>5
  <1> QED
    BY <1>1, <1>2, <1>3, <1>4
       DEF Next, Request, Tick, RegisterRuntime, RetryHeartbeat, vars

\* Seen through the refinement mapping, the handlers only ever take steps of
\* the abstract ledger: used-once ids, one leader, growing sequence numbers.
THEOREM LedgerRefinement == Spec => ImplementsLedger
  <1>1. Init => Ledger!LedgerInit
    BY InitImplements
  <1>2. TypeOK /\ AtMostOneCurrent /\ [Next]_vars
          => [Ledger!LedgerNext]_(Ledger!ledgerVars)
    BY StepImplements
  <1> QED
    BY <1>1, <1>2, Typing, SingleCurrent, PTL
       DEF Spec, ImplementsLedger, Ledger!LedgerSpec

-----------------------------------------------------------------------------
(* Isolation.                                                              *)

\* Runtimes are isolated: the same session id under two Runtimes names two
\* unrelated rows, and no request reaches a row of a Runtime it does not name.
Rows(r) == <<state[r], started[r], start[r], endedAt[r], lastHb[r], hbs[r]>>
RuntimesAreIsolated ==
  [][\A r1, r2 \in Runtimes :
       Rows(r1)' # Rows(r1) /\ Rows(r2)' # Rows(r2) => r1 = r2]_vars

\* Every statement of the handlers names the Runtime of the request, so no
\* step changes rows of two Runtimes.
THEOREM Isolation == Spec => RuntimesAreIsolated
  <1>1. TypeOK /\ [Next]_vars
          => [\A r1, r2 \in Runtimes :
                Rows(r1)' # Rows(r1) /\ Rows(r2)' # Rows(r2) => r1 = r2]_vars
    <2> SUFFICES ASSUME TypeOK, Next,
                        NEW r1 \in Runtimes, NEW r2 \in Runtimes, r1 # r2,
                        Rows(r1)' # Rows(r1), Rows(r2)' # Rows(r2)
                 PROVE FALSE
      OBVIOUS
    <2> USE DEF Rows, TypeOK, PerSession
    <2>1. CASE Tick
      BY <2>1 DEF Tick
    <2>2. CASE \E r \in Runtimes : RegisterRuntime(r)
      BY <2>2 DEF RegisterRuntime
    <2>3. ASSUME NEW r \in Runtimes, NEW s \in SessionIds, NEW t \in ClockReadings,
                 Request(r, s, t)
          PROVE \A o \in Runtimes \ {r} : Rows(o)' = Rows(o)
      BY <2>3 DEF Request, CreateSession, RecordHeartbeat, RetryHeartbeat,
                  ApplyToLiveness, EndSession
    <2> QED
      BY <2>1, <2>2, <2>3 DEF Next
  <1> QED
    BY <1>1, Typing, PTL DEF Spec, RuntimesAreIsolated

-----------------------------------------------------------------------------
(* How far reception order, sequence order and the order of the sessions   *)
(* can disagree: by MaxLag, the age of the clock reading a handler commits *)
(* with, and not at all when it is 0.                                      *)

\* No time on record lies in the future.
NothingFromTheFuture ==
  \A r \in Runtimes, s \in SessionIds :
    /\ started[r][s] <= now
    /\ lastHb[r][s] <= now
    /\ \A h \in hbs[r][s] : h.received <= now

OrderInv == RowsInv /\ NothingFromTheFuture /\ ReceptionFollowsSeq /\ CurrentIsNewest

\* Empty tables satisfy it.
LEMMA InitOrderInv == Init => OrderInv
  <1> SUFFICES ASSUME Init PROVE OrderInv
    OBVIOUS
  <1>1. RowsInv
    BY InitTypeOK DEF Init, RowsInv, RowsHaveParents, OneRowPerSeq, LastHbOnRecord, Everywhere
  <1>2. NothingFromTheFuture /\ ReceptionFollowsSeq /\ CurrentIsNewest
    BY DEF Init, NothingFromTheFuture, ReceptionFollowsSeq, CurrentIsNewest, Everywhere
  <1> QED
    BY <1>1, <1>2 DEF OrderInv

\* A handler commits with a reading of the clock that lags by MaxLag at most.
LEMMA ReadingIsRecent ==
  ASSUME TypeOK, NEW t \in ClockReadings
  PROVE  /\ t \in Nat /\ now \in Nat /\ MaxLag \in Nat
         /\ t <= now /\ now <= t + MaxLag
  BY BoundsAssumption DEF ClockReadings, TypeOK, Times

\* Every handler keeps the orders.
LEMMA StepOrderInv == OrderInv /\ [Next]_vars => OrderInv'
  <1> SUFFICES ASSUME OrderInv, [Next]_vars PROVE OrderInv'
    OBVIOUS
  <1>1. RowsInv' /\ TypeOK /\ TypeOK'
    BY StepRowsInv DEF OrderInv, RowsInv
  <1> now \in Nat /\ now' \in Nat /\ MaxLag \in Nat
    BY <1>1, BoundsAssumption DEF TypeOK, Times
  <1>2. \A r \in Runtimes, s \in SessionIds :
          /\ started[r][s] \in Nat /\ lastHb[r][s] \in Nat
          /\ \A h \in hbs[r][s] : h.received \in Nat /\ h.seq \in Nat
    BY <1>1 DEF TypeOK, PerSession, Times, Heartbeats, Seqs
  <1> USE DEF OrderInv, NothingFromTheFuture, ReceptionFollowsSeq, CurrentIsNewest
  <1> DEFINE Orders == NothingFromTheFuture /\ ReceptionFollowsSeq /\ CurrentIsNewest
  <1>3. CASE Tick
    <2> now' = now + 1 /\ UNCHANGED <<registered, state, started, start, endedAt, lastHb, hbs>>
      BY <1>3 DEF Tick
    <2>1. NothingFromTheFuture'
      BY <1>2
    <2>2. ReceptionFollowsSeq' /\ CurrentIsNewest'
      OBVIOUS
    <2> QED
      BY <1>1, <2>1, <2>2
  <1>4. ASSUME NEW r \in Runtimes, RegisterRuntime(r) PROVE Orders'
    BY <1>4 DEF RegisterRuntime
  <1>5. ASSUME NEW r \in Runtimes, NEW s \in SessionIds, NEW t \in ClockReadings,
               Request(r, s, t)
        PROVE  Orders'
    <2>1. t \in Nat /\ t <= now /\ now <= t + MaxLag
      BY <1>1, ReadingIsRecent
    <2>2. ASSUME NEW p \in Starts, CreateSession(r, s, p, t) PROVE Orders'
      <3>1. /\ \A y \in Runtimes, x \in SessionIds :
                 /\ state'[y][x] = IF y = r THEN IF x = s THEN "current"
                                                 ELSE IF state[r][x] = "current"
                                                      THEN "superseded" ELSE state[r][x]
                                   ELSE state[y][x]
                 /\ started'[y][x] = IF y = r /\ x = s THEN t ELSE started[y][x]
                 /\ lastHb'[y][x] = IF y = r /\ x = s THEN 0 ELSE lastHb[y][x]
            /\ hbs' = hbs /\ now' = now
        BY <1>1, <2>1, <2>2 DEF CreateSession, TypeOK, PerSession
      <3>2. state[r][s] = "absent" /\ hbs[r][s] = {}
        BY <2>2 DEF CreateSession, CreateOutcome, RowsInv, RowsHaveParents
      <3>3. NothingFromTheFuture'
        BY <2>1, <3>1
      <3>4. ReceptionFollowsSeq'
        BY <3>1, <3>2
      <3>5. CurrentIsNewest'
        BY <1>2, <2>1, <3>1
      <3> QED
        BY <3>3, <3>4, <3>5
    <2>3. ASSUME NEW q \in Seqs, NEW rep \in ReportTimes, RecordHeartbeat(r, s, q, rep, t)
          PROVE  Orders'
      <3> DEFINE new == [seq |-> q, reported |-> rep, received |-> t]
      <3>1. /\ \A y \in Runtimes, x \in SessionIds :
                 /\ hbs'[y][x] = IF y = r /\ x = s THEN hbs[r][s] \cup {new} ELSE hbs[y][x]
                 /\ lastHb'[y][x] = IF y = r /\ x = s /\ state[r][s] = "current"
                                    THEN t ELSE lastHb[y][x]
            /\ state' = state /\ started' = started /\ now' = now
        BY <1>1, <2>1, <2>3 DEF RecordHeartbeat, ApplyToLiveness, TypeOK, PerSession
      <3>2. \A h \in hbs[r][s] : h.seq < q
        BY <1>1, <2>3, RecordedIsNewest DEF RecordHeartbeat
      <3>3. NothingFromTheFuture'
        BY <1>2, <2>1, <3>1
      <3>4. ReceptionFollowsSeq'
        BY <1>2, <2>1, <3>1, <3>2 DEF Seqs
      <3>5. CurrentIsNewest'
        BY <3>1
      <3> QED
        BY <3>3, <3>4, <3>5
    <2>4. ASSUME NEW q \in Seqs, RetryHeartbeat(r, s, q, t) PROVE Orders'
      <3>1. /\ \A y \in Runtimes, x \in SessionIds :
                 lastHb'[y][x] = IF y = r /\ x = s /\ state[r][s] = "current"
                                 THEN t ELSE lastHb[y][x]
            /\ hbs' = hbs /\ state' = state /\ started' = started /\ now' = now
        BY <1>1, <2>1, <2>4 DEF RetryHeartbeat, ApplyToLiveness, TypeOK, PerSession
      <3>2. NothingFromTheFuture'
        BY <2>1, <3>1
      <3>3. ReceptionFollowsSeq'
        BY <1>2, <2>1, <3>1
      <3>4. CurrentIsNewest'
        BY <3>1
      <3> QED
        BY <3>2, <3>3, <3>4
    <2>5. CASE EndSession(r, s, t)
      <3>1. /\ \A y \in Runtimes, x \in SessionIds :
                 state'[y][x] = IF y = r /\ x = s THEN "ended" ELSE state[y][x]
            /\ hbs' = hbs /\ lastHb' = lastHb /\ started' = started /\ now' = now
            /\ state[r][s] # "absent"
        BY <1>1, <2>5 DEF EndSession, TypeOK, PerSession
      <3> QED
        BY <3>1
    <2> QED
      BY <1>5, <2>2, <2>3, <2>4, <2>5 DEF Request
  <1>6. CASE UNCHANGED vars
    BY <1>1, <1>6 DEF vars
  <1> QED
    BY <1>1, <1>3, <1>4, <1>5, <1>6 DEF Next

\* OrderInv holds in every reachable state.
LEMMA OrderInvariant == Spec => []OrderInv
  <1>1. OrderInv /\ [Next]_vars => OrderInv'
    BY StepOrderInv
  <1> QED
    BY <1>1, InitOrderInv, PTL DEF Spec

\* Sequence order is reception order, and last_heartbeat_at_ms of the current
\* session is the newest reception, up to the lag between clock and commit.
THEOREM OrderedReception == Spec => []ReceptionFollowsSeq
  <1>1. OrderInv => ReceptionFollowsSeq
    BY DEF OrderInv
  <1> QED
    BY <1>1, OrderInvariant, PTL

\* No session started later than the current one by more than the lag.
THEOREM NewestIsCurrent == Spec => []CurrentIsNewest
  <1>1. OrderInv => CurrentIsNewest
    BY DEF OrderInv
  <1> QED
    BY <1>1, OrderInvariant, PTL

\* A duplicate prolongs liveness by the lag at most: the retry branch repeats
\* the reception of a row on record, and a new session starts at 0.
THEOREM DuplicatesProlongNothing == Spec => OnlyNewBeatMovesLiveness
  <1> DEFINE Near(y, x) == /\ lastHb'[y][x] <= lastHb[y][x] + MaxLag
                           /\ lastHb[y][x] <= lastHb'[y][x] + MaxLag
  <1>1. OrderInv /\ [Next]_vars
          => [\A r \in Runtimes, s \in SessionIds :
                hbs'[r][s] = hbs[r][s] => Near(r, s)]_vars
    <2> SUFFICES ASSUME OrderInv, Next, NEW y \in Runtimes, NEW x \in SessionIds,
                        hbs'[y][x] = hbs[y][x]
                 PROVE  Near(y, x)
      OBVIOUS
    <2> TypeOK
      BY DEF OrderInv, RowsInv
    <2> lastHb[y][x] \in Nat /\ MaxLag \in Nat
      BY BoundsAssumption DEF TypeOK, PerSession, Times
    <2>0. lastHb'[y][x] = lastHb[y][x] => Near(y, x)
      OBVIOUS
    <2>1. CASE Tick \/ \E r \in Runtimes : RegisterRuntime(r)
      BY <2>0, <2>1 DEF Tick, RegisterRuntime
    <2>2. ASSUME NEW r \in Runtimes, NEW s \in SessionIds, NEW t \in ClockReadings,
                 Request(r, s, t)
          PROVE  Near(y, x)
      <3>1. t \in Nat /\ now \in Nat /\ t <= now /\ now <= t + MaxLag
        BY ReadingIsRecent
      <3>2. ASSUME NEW p \in Starts, CreateSession(r, s, p, t)
            PROVE  lastHb'[y][x] = lastHb[y][x]
        <4>1. /\ lastHb'[y][x] = IF y = r /\ x = s THEN 0 ELSE lastHb[y][x]
              /\ state[r][s] = "absent"
          BY <3>2 DEF CreateSession, CreateOutcome, TypeOK, PerSession
        <4>2. lastHb[r][s] = 0
          BY <4>1 DEF OrderInv, RowsInv, LastHbOnRecord, RowsHaveParents
        <4> QED
          BY <4>1, <4>2
      <3>3. ASSUME NEW q \in Seqs, NEW rep \in ReportTimes, RecordHeartbeat(r, s, q, rep, t)
            PROVE  lastHb'[y][x] = lastHb[y][x]
        <4> DEFINE new == [seq |-> q, reported |-> rep, received |-> t]
        <4>1. /\ hbs'[r][s] = hbs[r][s] \cup {new} /\ new.seq = q
              /\ ~(y = r /\ x = s) => lastHb'[y][x] = lastHb[y][x]
          BY <3>3 DEF RecordHeartbeat, ApplyToLiveness, TypeOK, PerSession
        <4>2. \A h \in hbs[r][s] : h.seq < q
          BY <3>3, RecordedIsNewest DEF RecordHeartbeat
        <4>3. ~ q < q
          BY DEF Seqs
        <4> HIDE DEF new
        <4>4. new \notin hbs[r][s]
          BY <4>1, <4>2, <4>3
        <4> QED
          BY <4>1, <4>4
      <3>4. ASSUME NEW q \in Seqs, RetryHeartbeat(r, s, q, t) PROVE Near(y, x)
        <4>1. /\ lastHb'[y][x] = IF y = r /\ x = s /\ state[r][s] = "current"
                                 THEN t ELSE lastHb[y][x]
              /\ HeartbeatOutcome(r, s, q, t) = "retried"
          BY <3>4 DEF RetryHeartbeat, ApplyToLiveness, TypeOK, PerSession
        <4>2. PICK h \in hbs[r][s] : h.received = t
          BY <4>1 DEF HeartbeatOutcome, IsRetry
        <4>3. CASE y = r /\ x = s /\ state[r][s] = "current"
          <5>1. lastHb[r][s] <= now /\ t <= lastHb[r][s] + MaxLag
            BY <4>2, <4>3 DEF OrderInv, NothingFromTheFuture, ReceptionFollowsSeq
          <5>2. \A a, b, n, lag \in Nat : a <= n /\ n <= b + lag => a <= b + lag
            OBVIOUS
          <5>3. lastHb'[y][x] = t
            BY <4>1, <4>3
          <5>4. lastHb[y][x] <= t + MaxLag /\ t <= lastHb[y][x] + MaxLag
            BY <3>1, <4>3, <5>1, <5>2
          <5> QED
            BY <5>3, <5>4
        <4> QED
          BY <2>0, <4>1, <4>3
      <3>5. CASE EndSession(r, s, t)
        BY <2>0, <3>5 DEF EndSession
      <3> QED
        BY <2>0, <2>2, <3>2, <3>3, <3>4, <3>5 DEF Request
    <2> QED
      BY <2>1, <2>2 DEF Next
  <1> QED
    BY <1>1, OrderInvariant, PTL DEF Spec, OnlyNewBeatMovesLiveness

\* Where a request is handled in no time, last_heartbeat_at_ms is what its
\* comment says, the latest received_at of the current session: that it can be
\* older is due to the clock being read before the transaction, and to nothing
\* else.
THEOREM PromptHandlersKeepLatest ==
  ASSUME MaxLag = 0
  PROVE  Spec => []LastHbIsLatestReceived
  <1>1. OrderInv => LastHbIsLatestReceived
    <2> SUFFICES ASSUME OrderInv, NEW r \in Runtimes, NEW s \in SessionIds,
                        state[r][s] = "current", NEW h \in hbs[r][s]
                 PROVE  h.received <= lastHb[r][s]
      BY DEF LastHbIsLatestReceived
    <2>1. h.received <= lastHb[r][s] + MaxLag
      BY DEF OrderInv, ReceptionFollowsSeq
    <2>2. lastHb[r][s] \in Int
      BY DEF OrderInv, RowsInv, TypeOK, PerSession, Times
    <2> QED
      BY <2>1, <2>2
  <1> QED
    BY <1>1, OrderInvariant, PTL

=============================================================================
