---------------------------- MODULE RuntimeQuery ----------------------------
(***************************************************************************)
(* GET /v2/runtimes/{id}/liveness: a handler that reads the Runtime, then  *)
(* its current session, then (if there is none) its newest session, each   *)
(* in a query of its own outside any transaction, and last of all reads    *)
(* the clock and evaluates what it is holding.  Sessions are created,      *)
(* heartbeat and end, and time passes, between any two of these steps.     *)
(***************************************************************************)
EXTENDS RuntimeSessions

CONSTANTS
  Readers,          \* goroutines serving liveness queries
  Interval,         \* heartbeat_interval_ms of every Runtime
  Modulus           \* of the evaluator's integers, large enough not to wrap

ASSUME IntervalAssumption == Interval \in Nat \ {0}
ASSUME ClockFitsAssumption == Modulus \in Nat /\ 2 * MaxClock < Modulus

VARIABLES
  query,            \* query[q]: the locals of reader q
  failed,           \* history: the readers that met a database error
  seen              \* history: the liveness values that have been true of the
                    \* Runtime q asks about since q started
queryVars == <<vars, query, failed, seen>>

Rules == INSTANCE LivenessRules WITH Second <- 1

Levels == {"unknown", "online", "stale", "offline"}
SessionCopies == [state : SessionStates, lastHb : Times \cup {0}]

Idle == [pc |-> "idle"]
Queries ==
  {Idle}
    \cup [pc : {"current", "newest"}, r : Runtimes]
    \cup [pc : {"evaluate"}, r : Runtimes, sess : SessionCopies]
    \cup [pc : {"answered"}, r : Runtimes, liveness : Levels]

QueryTypeOK ==
  /\ TypeOK
  /\ query \in [Readers -> Queries]
  /\ failed \subseteq Readers
  /\ seen \in [Readers -> SUBSET Levels]

QueryInit ==
  /\ Init
  /\ query = [q \in Readers |-> Idle]
  /\ failed = {}
  /\ seen = [q \in Readers |-> {}]

Copy(r, s) == [state |-> state[r][s], lastHb |-> lastHb[r][s]]

CurrentSessions(r) == {s \in SessionIds : state[r][s] = "current"}

\* ORDER BY started_at_received DESC: SQLite may put any of several equals first.
NewestSessions(r) ==
  {s \in SessionIds : /\ state[r][s] # "absent"
                      /\ \A x \in SessionIds :
                           state[r][x] # "absent" => started[r][x] <= started[r][s]}

\* The rows the handler may end up evaluating if nothing moves under it.
Subject(r) ==
  IF CurrentSessions(r) # {} THEN CurrentSessions(r) ELSE NewestSessions(r)

LivenessOf(sess) == Rules!RuntimeLiveness(sess, Interval, now)

\* What the contract calls the liveness of a Runtime, in this very state.
TrueLiveness(r) ==
  IF Subject(r) = {} THEN "unknown"
  ELSE LivenessOf(Copy(r, CHOOSE s \in Subject(r) : TRUE))

\* GET /v2/runtimes/{id} and the list of a robot's Runtimes evaluate the
\* current session only.
DetailLiveness(r) ==
  IF CurrentSessions(r) = {} THEN LivenessOf(Rules!NoSession) ELSE TrueLiveness(r)

-----------------------------------------------------------------------------
(* The steps of the handler.                                               *)

\* GetRuntime finds the row; without one the handler answers 404.
Ask(q, r) ==
  /\ query[q].pc \in {"idle", "answered"}
  /\ r \in registered
  /\ query' = [query EXCEPT ![q] = [pc |-> "current", r |-> r]]
  /\ failed' = failed \ {q}

\* A query returns a row, which is evaluated; or no row or an error, which look
\* the same to the handler: it goes on with nil.
Evaluate(q, sess) ==
  /\ query' = [query EXCEPT ![q] = [pc |-> "evaluate", r |-> @.r, sess |-> sess]]
  /\ UNCHANGED failed
WithoutRow(q, rows, next) ==
  /\ query' = [query EXCEPT ![q] = next]
  /\ \/ rows = {} /\ UNCHANGED failed
     \/ failed' = failed \cup {q}

\* Mutant: the fallback to the newest session is missing.
ReadCurrentOnly(q) ==
  /\ query[q].pc = "current"
  /\ LET r == query[q].r
     IN  \/ \E s \in CurrentSessions(r) : Evaluate(q, Copy(r, s))
         \/ WithoutRow(q, CurrentSessions(r),
                       [pc |-> "evaluate", r |-> r, sess |-> Rules!NoSession])

\* GetCurrentSession.
ReadCurrent(q) ==
  /\ query[q].pc = "current"
  /\ LET r == query[q].r
     IN  \/ \E s \in CurrentSessions(r) : Evaluate(q, Copy(r, s))
         \/ WithoutRow(q, CurrentSessions(r), [pc |-> "newest", r |-> r])

\* Mutant: the newest session is evaluated as if it were current.
ReadNewestAsCurrent(q) ==
  /\ query[q].pc = "newest"
  /\ LET r == query[q].r
     IN  \/ \E s \in NewestSessions(r) :
              Evaluate(q, [Copy(r, s) EXCEPT !.state = "current"])
         \/ WithoutRow(q, NewestSessions(r),
                       [pc |-> "evaluate", r |-> r, sess |-> Rules!NoSession])

\* ListRuntimeSessions; the handler takes the first row, or nil.
ReadNewest(q) ==
  /\ query[q].pc = "newest"
  /\ LET r == query[q].r
     IN  \/ \E s \in NewestSessions(r) : Evaluate(q, Copy(r, s))
         \/ WithoutRow(q, NewestSessions(r),
                       [pc |-> "evaluate", r |-> r, sess |-> Rules!NoSession])

\* Mutant: the session's state is answered in the place of its liveness.
AnswerState(q) ==
  /\ query[q].pc = "evaluate"
  /\ query' = [query EXCEPT ![q] =
                 [pc |-> "answered", r |-> @.r, liveness |-> @.sess.state]]
  /\ UNCHANGED failed

\* Evaluate reads the clock only now.
Answer(q) ==
  /\ query[q].pc = "evaluate"
  /\ query' = [query EXCEPT ![q] =
                 [pc |-> "answered", r |-> @.r, liveness |-> LivenessOf(@.sess)]]
  /\ UNCHANGED failed

QueryStep(q) ==
  /\ \/ \E r \in Runtimes : Ask(q, r)
     \/ ReadCurrent(q) \/ ReadNewest(q) \/ Answer(q)
  /\ UNCHANGED vars

\* The history: what is true now of the Runtime asked about, and what was true
\* at some moment since the question was asked.
TruthFor(q) == TrueLiveness(query[q].r)
Observe ==
  seen' = [q \in Readers |->
             IF query'[q].pc = "idle" THEN {}
             ELSE {TruthFor(q)'} \cup
                  (IF query'[q].pc = "current" /\ query[q].pc # "current"
                   THEN {} ELSE seen[q])]

QueryNext ==
  /\ \/ \E q \in Readers : QueryStep(q)
     \/ Next /\ UNCHANGED <<query, failed>>
  /\ Observe

QuerySpec == QueryInit /\ [][QueryNext]_queryVars

-----------------------------------------------------------------------------
\* "online" is never a lie: a Runtime reported online was online at a moment
\* between question and answer, whatever was written and however long the
\* handler slept in between, and even when reads fail.
NoFalseOnline ==
  \A q \in Readers :
    query[q].pc = "answered" /\ query[q].liveness = "online" => "online" \in seen[q]

\* The same of "unknown", unless one of the reader's own queries failed.
NoFalseUnknown ==
  \A q \in Readers \ failed :
    query[q].pc = "answered" /\ query[q].liveness = "unknown" => "unknown" \in seen[q]

\* A Runtime whose session has ended is offline (contract 7.3, line 258), in
\* whichever of the queries it is read.
DetailAgreesWithLiveness ==
  \A r \in registered : DetailLiveness(r) = TrueLiveness(r)

=============================================================================
