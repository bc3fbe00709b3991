--------------------------- MODULE LivenessRules ---------------------------
(***************************************************************************)
(* The two evaluators of internal/domain: DeviceStatus of a v1 device and  *)
(* RuntimeLiveness of a v2 session, from the last heartbeat the platform   *)
(* received and the heartbeat interval.  Arithmetic is int64 and wraps.    *)
(***************************************************************************)
EXTENDS Integers

CONSTANTS
  Modulus,   \* 2^64 in the code; the width of the integers
  Second     \* in the unit of the clock; 1000 in the code

ASSUME ModulusAssumption == Modulus \in Nat \ {0, 1}
ASSUME SecondAssumption == Second \in Nat \ {0}

\* Mutant: only one of the two packages' copies is changed.
MissingFactorDrifted == 5

\* The constants of v1.
DefaultHeartbeatInterval == 5 * Second
StaleFactor == 3
MissingFactor == 6

\* The constants of v2.
DefaultRuntimeHeartbeatInterval == 5 * Second
RuntimeStaleFactor == 3
RuntimeOfflineFactor == 6

\* Two's complement.
Wrap(x) == ((x + Modulus \div 2) % Modulus) - Modulus \div 2

NoSession == [state |-> "absent", lastHb |-> 0]

\* Mutant: < for <=.
RuntimeLivenessExclusive(sess, rtInterval, t) ==
  LET interval == IF rtInterval <= 0 THEN DefaultRuntimeHeartbeatInterval ELSE rtInterval
      age == Wrap(t - sess.lastHb)
  IN  IF sess.state = "absent" THEN "unknown"
      ELSE IF sess.state \in {"ended", "superseded"} THEN "offline"
      ELSE IF sess.lastHb = 0 THEN "unknown"
      ELSE IF age < Wrap(interval * RuntimeStaleFactor) THEN "online"
      ELSE IF age < Wrap(interval * RuntimeOfflineFactor) THEN "stale"
      ELSE "offline"

\* Mutant: the factors of the two cases swapped.
RuntimeLivenessSwapped(sess, rtInterval, t) ==
  LET interval == IF rtInterval <= 0 THEN DefaultRuntimeHeartbeatInterval ELSE rtInterval
      age == Wrap(t - sess.lastHb)
  IN  IF sess.state = "absent" THEN "unknown"
      ELSE IF sess.state \in {"ended", "superseded"} THEN "offline"
      ELSE IF sess.lastHb = 0 THEN "unknown"
      ELSE IF age <= Wrap(interval * RuntimeOfflineFactor) THEN "online"
      ELSE IF age <= Wrap(interval * RuntimeStaleFactor) THEN "stale"
      ELSE "offline"

\* sess is NoSession when the handler passes nil.
RuntimeLiveness(sess, rtInterval, t) ==
  LET interval == IF rtInterval <= 0 THEN DefaultRuntimeHeartbeatInterval ELSE rtInterval
      age == Wrap(t - sess.lastHb)
  IN  IF sess.state = "absent" THEN "unknown"
      ELSE IF sess.state \in {"ended", "superseded"} THEN "offline"
      ELSE IF sess.lastHb = 0 THEN "unknown"
      ELSE IF age <= Wrap(interval * RuntimeStaleFactor) THEN "online"
      ELSE IF age <= Wrap(interval * RuntimeOfflineFactor) THEN "stale"
      ELSE "offline"

\* Mutant: the default of the switch is missing.
DeviceStatusWithoutDefault(lastSeen, devInterval, t) ==
  LET interval == IF devInterval <= 0 THEN DefaultHeartbeatInterval ELSE devInterval
      age == Wrap(t - lastSeen)
  IN  IF lastSeen = 0 THEN "missing"
      ELSE IF age <= Wrap(interval * StaleFactor) THEN "ok"
      ELSE "stale"

DeviceStatus(lastSeen, devInterval, t) ==
  LET interval == IF devInterval <= 0 THEN DefaultHeartbeatInterval ELSE devInterval
      age == Wrap(t - lastSeen)
  IN  IF lastSeen = 0 THEN "missing"
      ELSE IF age <= Wrap(interval * StaleFactor) THEN "ok"
      ELSE IF age <= Wrap(interval * MissingFactor) THEN "stale"
      ELSE "missing"

=============================================================================
