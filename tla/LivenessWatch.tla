--------------------------- MODULE LivenessWatch ---------------------------
(***************************************************************************)
(* One device of v1 and one current session of v2 that heartbeat at the    *)
(* same instants with the same interval, watched by both evaluators.       *)
(***************************************************************************)
EXTENDS LivenessRules

CONSTANTS
  Intervals,   \* heartbeat_interval_ms values a registration may carry
  MaxClock     \* bound on the platform clock

ASSUME WatchAssumption == Intervals \subseteq Int /\ MaxClock \in Nat \ {0}

VARIABLES
  interval,
  last,        \* last_seen_ms and last_heartbeat_at_ms
  clock

watchVars == <<interval, last, clock>>

TypeOK == interval \in Intervals /\ last \in 0 .. MaxClock /\ clock \in 1 .. MaxClock

Init == interval \in Intervals /\ last = 0 /\ clock = 1

Beat == last' = clock /\ UNCHANGED <<interval, clock>>
Pass == clock < MaxClock /\ clock' = clock + 1 /\ UNCHANGED <<interval, last>>

Next == Beat \/ Pass
Spec == Init /\ [][Next]_watchVars

\* Time passes.  Nothing is assumed of the producer.
TimedSpec == Spec /\ WF_watchVars(Pass)

Liveness == RuntimeLiveness([state |-> "current", lastHb |-> last], interval, clock)
Status == DeviceStatus(last, interval, clock)

\* The two evaluators, each with its own switch, factors and default interval
\* (internal/domain/status.go:32-51, internal/domain/platform.go:258-285), keep
\* one policy, as the comment on the v2 factors says (internal/domain/platform.go:217):
\* ok is online, stale is stale, missing is offline or (never heard) unknown.
EvaluatorsAgree ==
  /\ Status = "ok" <=> Liveness = "online"
  /\ Status = "stale" <=> Liveness = "stale"
  /\ last = 0 <=> Liveness = "unknown"

\* The interval that counts: five seconds when none was given.
Period == IF interval > 0 THEN interval ELSE 5 * Second

\* The last threshold does not overflow.
Fits == 2 * 6 * Period < Modulus

\* Silence only ever makes matters worse, and by one notch per threshold: a
\* heartbeat is the only way back to online, and stale precedes offline, for
\* every interval that fits the integers.
Severity == [online |-> 1, stale |-> 2, offline |-> 3, unknown |-> 0]
SilenceDegrades ==
  [][Fits /\ last' = last =>
       /\ Severity[Liveness'] \in {Severity[Liveness], Severity[Liveness] + 1}
       /\ Liveness = "unknown" => Liveness' = "unknown"]_watchVars

\* The thresholds are those of the rule: online up to and including three
\* intervals, offline from one millisecond past six (domain/platform.go:252).
ThresholdsAreExact ==
  Fits /\ last # 0 =>
    /\ Liveness = "online" <=> clock - last <= 3 * Period
    /\ Liveness = "offline" <=> clock - last > 6 * Period

\* A producer that falls silent is noticed by both evaluators: it is missing
\* and offline in the end, unless it is heard again.  (Stated for the moments
\* after which the bounded clock has room for the last threshold to pass.)
HasRoom == last + 6 * Period < MaxClock
SilenceIsNoticed ==
  \A t \in 1 .. MaxClock :
    (last = t /\ HasRoom) ~> (last # t \/ (Status = "missing" /\ Liveness = "offline"))

=============================================================================
