--------------------------- MODULE LivenessProofs ---------------------------
(***************************************************************************)
(* The evaluators for every interval and every width of the integers.      *)
(***************************************************************************)
EXTENDS LivenessWatch, TLAPS

\* What fits the integers is left as it is.
LEMMA NoWrap ==
  ASSUME NEW x \in Int, -(Modulus \div 2) <= x, 2 * x < Modulus
  PROVE  Wrap(x) = x
  <1>1. Modulus \in Int /\ Modulus > 1
    BY ModulusAssumption
  <1>2. PICK half \in Int : half = Modulus \div 2 /\ 2 * half <= Modulus /\ Modulus <= 2 * half + 1
    BY <1>1
  <1>3. x + half \in 0 .. Modulus - 1
    BY <1>1, <1>2
  <1>4. \A m, a \in Int : m > 1 /\ 0 <= a /\ a < m => a % m = a
    OBVIOUS
  <1>5. (x + half) % Modulus = x + half
    BY <1>1, <1>3, <1>4
  <1> QED
    BY <1>2, <1>5 DEF Wrap

\* The state keeps its types.
LEMMA WatchTyping == Spec => []TypeOK
  <1>1. Init => TypeOK
    BY WatchAssumption DEF Init, TypeOK
  <1>2. TypeOK /\ [Next]_watchVars => TypeOK'
    BY WatchAssumption DEF TypeOK, Next, Beat, Pass, watchVars
  <1> QED
    BY <1>1, <1>2, PTL DEF Spec

\* The switch of v1, spelt out by what its two comparisons yield.
LEMMA StatusCases ==
  ASSUME NEW i \in Int, NEW l, NEW t, l # 0, NEW e, e = IF i > 0 THEN i ELSE 5 * Second
  PROVE  DeviceStatus(l, i, t) = IF Wrap(t - l) <= Wrap(e * 3) THEN "ok"
                                 ELSE IF Wrap(t - l) <= Wrap(e * 6) THEN "stale" ELSE "missing"
  <1>1. e = IF i <= 0 THEN DefaultHeartbeatInterval ELSE i
    BY DEF DefaultHeartbeatInterval
  <1> QED
    BY <1>1 DEF DeviceStatus, StaleFactor, MissingFactor

\* The switch of v2 in the same way, for a current session.
LEMMA LivenessCases ==
  ASSUME NEW i \in Int, NEW l, NEW t, l # 0, NEW e, e = IF i > 0 THEN i ELSE 5 * Second
  PROVE  RuntimeLiveness([state |-> "current", lastHb |-> l], i, t) =
           IF Wrap(t - l) <= Wrap(e * 3) THEN "online"
           ELSE IF Wrap(t - l) <= Wrap(e * 6) THEN "stale" ELSE "offline"
  <1>1. e = IF i <= 0 THEN DefaultRuntimeHeartbeatInterval ELSE i
    BY DEF DefaultRuntimeHeartbeatInterval
  <1> QED
    BY <1>1 DEF RuntimeLiveness, RuntimeStaleFactor, RuntimeOfflineFactor

\* The two evaluators agree on any interval and any two times, even where the
\* integers wrap: case by case, their separate switches decide alike.
LEMMA Agreement ==
  ASSUME NEW i \in Int, NEW l, NEW t, NEW live, NEW status,
         live = RuntimeLiveness([state |-> "current", lastHb |-> l], i, t),
         status = DeviceStatus(l, i, t)
  PROVE  /\ status = "ok" <=> live = "online"
         /\ status = "stale" <=> live = "stale"
         /\ l = 0 <=> live = "unknown"
  <1>1. CASE l = 0
    BY <1>1 DEF RuntimeLiveness, DeviceStatus
  <1>2. CASE l # 0
    <2>0. PICK e : e = IF i > 0 THEN i ELSE 5 * Second
      OBVIOUS
    <2>1. PICK near \in BOOLEAN : near <=> Wrap(t - l) <= Wrap(e * 3)
      OBVIOUS
    <2>2. PICK far \in BOOLEAN : far <=> Wrap(t - l) <= Wrap(e * 6)
      OBVIOUS
    <2>3. live = IF near THEN "online" ELSE IF far THEN "stale" ELSE "offline"
      BY <1>2, <2>0, <2>1, <2>2, LivenessCases
    <2>4. status = IF near THEN "ok" ELSE IF far THEN "stale" ELSE "missing"
      BY <1>2, <2>0, <2>1, <2>2, StatusCases
    <2> QED
      BY <1>2, <2>3, <2>4
  <1> QED
    BY <1>1, <1>2

\* While times and thresholds fit the integers nothing wraps: liveness is a
\* comparison of the age with two multiples of the interval.
LEMMA LivenessByAge ==
  ASSUME NEW l \in (0 .. MaxClock) \ {0}, NEW t \in 1 .. MaxClock, 2 * MaxClock < Modulus,
         NEW i \in Int, NEW e, e = IF i > 0 THEN i ELSE 5 * Second, 2 * 6 * e < Modulus
  PROVE  RuntimeLiveness([state |-> "current", lastHb |-> l], i, t) =
           IF t - l <= 3 * e THEN "online" ELSE IF t - l <= 6 * e THEN "stale" ELSE "offline"
  <1>1. PICK age : age = t - l
    OBVIOUS
  <1>2. e \in Int /\ e > 0 /\ Modulus \in Nat
    BY SecondAssumption, ModulusAssumption
  <1>3. age \in Int /\ -MaxClock < age /\ age < MaxClock /\ MaxClock \in Nat
    BY <1>1, WatchAssumption
  <1>4. -(Modulus \div 2) <= age /\ 2 * age < Modulus
    BY <1>2, <1>3
  <1>5. Wrap(age) = age
    BY <1>3, <1>4, NoWrap
  <1>6. \A x \in Int : x > 0 /\ 2 * x < Modulus => Wrap(x) = x
    <2> SUFFICES ASSUME NEW x \in Int, x > 0, 2 * x < Modulus PROVE Wrap(x) = x
      OBVIOUS
    <2>1. -(Modulus \div 2) <= x
      BY <1>2
    <2> QED
      BY <2>1, NoWrap
  <1>7. e * 3 \in Int /\ e * 6 \in Int /\ e * 3 > 0 /\ e * 6 > 0
        /\ 2 * (e * 3) < Modulus /\ 2 * (e * 6) < Modulus /\ e * 3 = 3 * e /\ e * 6 = 6 * e
    BY <1>2
  <1>8. Wrap(e * 3) = 3 * e /\ Wrap(e * 6) = 6 * e
    BY <1>6, <1>7
  <1>9. RuntimeLiveness([state |-> "current", lastHb |-> l], i, t) =
          IF Wrap(age) <= Wrap(e * 3) THEN "online"
          ELSE IF Wrap(age) <= Wrap(e * 6) THEN "stale" ELSE "offline"
    BY <1>1, LivenessCases
  <1> QED
    BY <1>1, <1>5, <1>8, <1>9

\* The correspondence between the v1 and the v2 words holds always.
THEOREM WordsCorrespond == Spec => []EvaluatorsAgree
  <1>1. TypeOK => EvaluatorsAgree
    BY Agreement, WatchAssumption DEF TypeOK, EvaluatorsAgree, Liveness, Status
  <1> QED
    BY <1>1, WatchTyping, PTL

\* The thresholds lie where the rule puts them, for every interval that fits.
THEOREM ThresholdsHold ==
  ASSUME 2 * MaxClock < Modulus
  PROVE  Spec => []ThresholdsAreExact
  <1>1. TypeOK => ThresholdsAreExact
    <2> SUFFICES ASSUME TypeOK, Fits, last # 0
                 PROVE  /\ Liveness = "online" <=> clock - last <= 3 * Period
                        /\ Liveness = "offline" <=> clock - last > 6 * Period
      BY DEF ThresholdsAreExact
    <2>1. PICK age, e : age = clock - last /\ e = Period
      OBVIOUS
    <2>2. age \in Int /\ e \in Int /\ e > 0
      BY <2>1, WatchAssumption, SecondAssumption DEF TypeOK, Period
    <2>3. last \in (0 .. MaxClock) \ {0} /\ clock \in 1 .. MaxClock /\ interval \in Int
          /\ 2 * 6 * e < Modulus
      BY <2>1, WatchAssumption DEF TypeOK, Fits
    <2>4. Liveness = IF age <= 3 * e THEN "online"
                     ELSE IF age <= 6 * e THEN "stale" ELSE "offline"
      BY <2>1, <2>3, LivenessByAge DEF Liveness, Period
    <2> QED
      BY <2>1, <2>2, <2>4
  <1> QED
    BY <1>1, WatchTyping, PTL

\* While nothing is heard, liveness gets worse by at most a notch per step.
THEOREM SilenceWorsens ==
  ASSUME 2 * MaxClock < Modulus
  PROVE  Spec => SilenceDegrades
  <1> DEFINE Worse == /\ Severity[Liveness'] \in {Severity[Liveness], Severity[Liveness] + 1}
                      /\ Liveness = "unknown" => Liveness' = "unknown"
  <1>1. ASSUME TypeOK, TypeOK', [Next]_watchVars PROVE [Fits /\ last' = last => Worse]_watchVars
    <2> SUFFICES ASSUME Fits, last' = last, Pass PROVE Worse
      BY <1>1 DEF Next, Beat, watchVars
    <2>1. interval' = interval /\ clock' = clock + 1
      BY DEF Pass
    <2>2. CASE last = 0
      BY <2>2 DEF Liveness, RuntimeLiveness, Severity
    <2>3. CASE last # 0
      <3>1. PICK age, e : age = clock - last /\ e = Period
        OBVIOUS
      <3>2. age \in Int /\ e \in Int /\ e > 0
        BY <1>1, <3>1, WatchAssumption, SecondAssumption DEF TypeOK, Period
      <3>3. last \in (0 .. MaxClock) \ {0} /\ clock \in 1 .. MaxClock /\ clock' \in 1 .. MaxClock
            /\ interval \in Int /\ 2 * 6 * e < Modulus
        BY <1>1, <2>3, <3>1, WatchAssumption DEF TypeOK, Fits
      <3>4. Liveness = IF age <= 3 * e THEN "online"
                       ELSE IF age <= 6 * e THEN "stale" ELSE "offline"
        BY <3>1, <3>3, LivenessByAge DEF Liveness, Period
      <3>5. Liveness' = IF age + 1 <= 3 * e THEN "online"
                        ELSE IF age + 1 <= 6 * e THEN "stale" ELSE "offline"
        <4>1. Liveness' = RuntimeLiveness([state |-> "current", lastHb |-> last], interval, clock')
          BY <2>1 DEF Liveness
        <4>2. clock' - last = age + 1
          BY <2>1, <3>1, <3>3
        <4>3. Liveness' = IF clock' - last <= 3 * e THEN "online"
                          ELSE IF clock' - last <= 6 * e THEN "stale" ELSE "offline"
          BY <3>1, <3>3, <4>1, LivenessByAge DEF Period
        <4> QED
          BY <4>2, <4>3
      <3> QED
        BY <3>2, <3>4, <3>5 DEF Severity
    <2> QED
      BY <2>2, <2>3
  <1> QED
    BY <1>1, WatchTyping, PTL DEF Spec, SilenceDegrades

=============================================================================
