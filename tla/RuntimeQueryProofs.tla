------------------------- MODULE RuntimeQueryProofs -------------------------
(***************************************************************************)
(* What a liveness query may answer while sessions are created, heartbeat  *)
(* and end under it, for any number of readers, Runtimes and sessions, and *)
(* any interval.                                                           *)
(***************************************************************************)
EXTENDS RuntimeQuery, RuntimeSessionsProofs, WellFoundedInduction

-----------------------------------------------------------------------------
(* The evaluator.                                                          *)

\* Liveness is one of the four words.
LEMMA LivenessIsALevel ==
  ASSUME NEW sess, NEW t PROVE Rules!RuntimeLiveness(sess, Interval, t) \in Levels
BY DEF Rules!RuntimeLiveness, Levels

\* "unknown" has nothing to do with time: no session, or a current one that has
\* not been heard yet.
LEMMA UnknownIsTimeless ==
  ASSUME NEW sess \in SessionCopies, NEW t
  PROVE  Rules!RuntimeLiveness(sess, Interval, t) = "unknown"
           <=> sess.state = "absent" \/ (sess.state = "current" /\ sess.lastHb = 0)
BY DEF Rules!RuntimeLiveness, SessionCopies, SessionStates

\* "online" is said of a current session only.
LEMMA OnlineIsCurrent ==
  ASSUME NEW sess \in SessionCopies, NEW t,
         Rules!RuntimeLiveness(sess, Interval, t) = "online"
  PROVE  sess.state = "current" /\ sess.lastHb # 0
BY DEF Rules!RuntimeLiveness, SessionCopies, SessionStates

\* The difference of two times on the clock is left as it is by the integers.
LEMMA AgesFit ==
  ASSUME NEW l \in Times, NEW t \in Times
  PROVE  Rules!Wrap(t - l) = t - l
<1>1. PICK half \in Int :
        half = Modulus \div 2 /\ 2 * half <= Modulus /\ Modulus <= 2 * half + 1
  BY ClockFitsAssumption
<1>2. Modulus \in Nat /\ Modulus > 1 /\ MaxClock \in Nat
  BY ClockFitsAssumption, BoundsAssumption
<1>3. PICK age \in Int : age = t - l /\ -MaxClock < age /\ age < MaxClock
  BY <1>2 DEF Times
<1>4. age + half \in 0 .. Modulus - 1
  BY <1>1, <1>2, <1>3, ClockFitsAssumption
<1>5. \A m, a \in Int : m > 1 /\ 0 <= a /\ a < m => a % m = a
  OBVIOUS
<1>6. (age + half) % Modulus = age + half
  BY <1>2, <1>4, <1>5
<1> QED
  BY <1>1, <1>3, <1>6 DEF Rules!Wrap

\* What is online at a tick of the clock was online before it.
LEMMA OnlineBefore ==
  ASSUME NEW sess \in SessionCopies, NEW t \in Times, t + 1 \in Times,
         Rules!RuntimeLiveness(sess, Interval, t + 1) = "online"
  PROVE  Rules!RuntimeLiveness(sess, Interval, t) = "online"
<1>1. sess.state = "current" /\ sess.lastHb # 0
  BY OnlineIsCurrent
<1>2. PICK l \in Times : l = sess.lastHb
  BY <1>1 DEF SessionCopies
<1>3. Rules!Wrap(t - l) = t - l /\ Rules!Wrap((t + 1) - l) = (t + 1) - l
  BY AgesFit
<1>4. PICK limit : limit = Rules!Wrap(Interval * 3)
  OBVIOUS
<1>5. limit \in Int /\ ~(Interval <= 0)
  <2>1. Interval \in Int /\ Interval > 0
    BY IntervalAssumption
  <2>2. PICK x \in Int : x = Interval * 3
    BY <2>1
  <2>3. Modulus \in Int /\ Modulus > 0 /\ Modulus \div 2 \in Int
    BY ClockFitsAssumption, BoundsAssumption
  <2>4. (x + Modulus \div 2) % Modulus \in Int
    BY <2>2, <2>3
  <2> QED
    BY <1>4, <2>1, <2>2, <2>3, <2>4 DEF Rules!Wrap
<1>6. (t + 1) - l <= limit
  BY <1>1, <1>2, <1>3, <1>4, <1>5
     DEF Rules!RuntimeLiveness, Rules!RuntimeStaleFactor
<1>7. t - l <= limit
  BY <1>5, <1>6 DEF Times
<1> QED
  BY <1>1, <1>2, <1>3, <1>4, <1>5, <1>7
     DEF Rules!RuntimeLiveness, Rules!RuntimeStaleFactor

-----------------------------------------------------------------------------
(* The rows a query finds.                                                 *)

\* Of any set of times on the clock one is the latest.
LEMMA LatestExists ==
  ASSUME NEW T \in SUBSET (Times \cup {0}), T # {}
  PROVE  \E x \in T : \A y \in T : y <= x
<1> DEFINE R == OpToRel(<, Nat)
           Back == {MaxClock - x : x \in T}
<1>1. MaxClock \in Nat /\ \A x \in T : x \in 0 .. MaxClock
  BY BoundsAssumption DEF Times
<1>2. IsWellFoundedOn(R, Nat)
  BY NatLessThanWellFounded
<1>3. Back \subseteq Nat /\ Back # {}
  BY <1>1
<1>4. \A a, b \in Nat : a < b => <<a, b>> \in R
  BY DEF OpToRel
<1> HIDE DEF R
<1>5. PICK b \in Back : \A a \in Back : <<a, b>> \notin R
  BY <1>2, <1>3, WFMin
<1>6. \A a \in Back : ~ (a < b)
  BY <1>3, <1>4, <1>5
<1>7. PICK x \in T : b = MaxClock - x
  BY <1>5
<1>8. ASSUME NEW y \in T PROVE y <= x
  <2>1. MaxClock - y \in Back /\ ~ (MaxClock - y < b)
    BY <1>6
  <2> QED
    BY <1>1, <1>7, <2>1
<1> QED
  BY <1>8

\* A Runtime that has sessions has a newest one.
LEMMA NewestExists ==
  ASSUME TypeOK, NEW r \in Runtimes, NEW s \in SessionIds, state[r][s] # "absent"
  PROVE  NewestSessions(r) # {}
<1> DEFINE Known == {x \in SessionIds : state[r][x] # "absent"}
           T == {started[r][x] : x \in Known}
<1>1. T \subseteq Times \cup {0} /\ T # {}
  BY DEF TypeOK, PerSession
<1> HIDE DEF T
<1>2. PICK latest \in T : \A y \in T : y <= latest
  BY <1>1, LatestExists
<1>3. PICK x \in Known : latest = started[r][x]
  BY <1>2 DEF T
<1>4. \A y \in Known : started[r][y] <= started[r][x]
  BY <1>2, <1>3 DEF T
<1>5. x \in NewestSessions(r)
  BY <1>3, <1>4 DEF NewestSessions
<1> QED
  BY <1>5

\* A row that is found tells, when it tells "online" or "unknown", what is true
\* of the Runtime as it is found: it is the current one, and there is no other.
LEMMA FoundRowTells ==
  TypeOK /\ AtMostOneCurrent =>
    \A y \in Runtimes : \A x \in CurrentSessions(y) \cup NewestSessions(y) :
      LivenessOf(Copy(y, x)) \in {"online", "unknown"}
        => TrueLiveness(y) = LivenessOf(Copy(y, x))
<1> SUFFICES ASSUME TypeOK, AtMostOneCurrent, NEW r \in Runtimes,
                    NEW s \in CurrentSessions(r) \cup NewestSessions(r),
                    LivenessOf(Copy(r, s)) \in {"online", "unknown"}
             PROVE  TrueLiveness(r) = LivenessOf(Copy(r, s))
  OBVIOUS
<1>1. s \in SessionIds /\ state[r][s] # "absent"
  BY DEF CurrentSessions, NewestSessions
<1>2. Copy(r, s) \in SessionCopies /\ Copy(r, s).state = state[r][s]
  BY <1>1 DEF Copy, SessionCopies, TypeOK, PerSession
<1>3. state[r][s] = "current"
  BY <1>1, <1>2, OnlineIsCurrent, UnknownIsTimeless DEF LivenessOf
<1>4. Subject(r) = {s}
  BY <1>1, <1>3 DEF Subject, CurrentSessions, AtMostOneCurrent
<1>5. (CHOOSE x \in Subject(r) : TRUE) = s
  BY <1>4
<1> QED
  BY <1>4, <1>5 DEF TrueLiveness

\* Where no row is found there is none, current or not.
LEMMA NoRowTells ==
  TypeOK => \A y \in Runtimes : NewestSessions(y) = {} => TrueLiveness(y) = "unknown"
<1> SUFFICES ASSUME TypeOK, NEW r \in Runtimes, NewestSessions(r) = {}
             PROVE  TrueLiveness(r) = "unknown"
  OBVIOUS
<1>1. \A s \in SessionIds : state[r][s] = "absent"
  BY NewestExists
<1>2. Subject(r) = {}
  BY <1>1 DEF Subject, CurrentSessions
<1> QED
  BY <1>2 DEF TrueLiveness

-----------------------------------------------------------------------------
(* Types.                                                                  *)

\* The locals of a reader, by how far it has come.
LEMMA QueryFields ==
  ASSUME NEW x \in Queries
  PROVE  /\ x.pc \in {"idle", "current", "newest", "evaluate", "answered"}
         /\ x.pc # "idle" => x.r \in Runtimes
         /\ x.pc = "evaluate" => x.sess \in SessionCopies
         /\ x.pc = "answered" => x.liveness \in Levels
BY DEF Queries, Idle

\* What is true of a Runtime is one of the four words.
LEMMA TruthIsALevel == \A r : TrueLiveness(r) \in Levels
BY LivenessIsALevel DEF TrueLiveness, LivenessOf, Levels

\* The steps of the readers and of the writers.
LEMMA QueryStepsAreSteps == QueryNext => [Next]_vars
BY DEF QueryNext, QueryStep

\* The locals a step of a reader leaves are typed, and its Runtime stays the
\* one it asked about.
LEMMA ReaderStepTyping ==
  ASSUME QueryTypeOK, NEW q \in Readers, QueryStep(q)
  PROVE  query' \in [Readers -> Queries] /\ failed' \subseteq Readers
<1>1. query[q] \in Queries /\ query \in [Readers -> Queries]
  BY DEF QueryTypeOK
<1>2. failed' \subseteq Readers
  BY DEF QueryTypeOK, QueryStep, Ask, ReadCurrent, ReadNewest, Answer, Evaluate, WithoutRow
<1>3. ASSUME NEW r \in Runtimes, Ask(q, r) PROVE query' \in [Readers -> Queries]
  <2>1. [pc |-> "current", r |-> r] \in Queries
    BY DEF Queries
  <2> QED
    BY <1>1, <1>3, <2>1 DEF Ask
<1>4. ASSUME NEW r \in Runtimes, NEW sess \in SessionCopies, query[q].r = r, Evaluate(q, sess)
      PROVE  query' \in [Readers -> Queries]
  <2>1. [pc |-> "evaluate", r |-> r, sess |-> sess] \in Queries
    BY DEF Queries
  <2> QED
    BY <1>1, <1>4, <2>1 DEF Evaluate
<1>5. ASSUME NEW rows, NEW new \in Queries, WithoutRow(q, rows, new)
      PROVE  query' \in [Readers -> Queries]
  BY <1>1, <1>5 DEF WithoutRow
<1>6. Rules!NoSession \in SessionCopies
  BY DEF Rules!NoSession, SessionCopies, SessionStates
<1>7. \A r \in Runtimes, s \in SessionIds : Copy(r, s) \in SessionCopies
  BY DEF Copy, SessionCopies, QueryTypeOK, TypeOK, PerSession
<1>8. CASE ReadCurrent(q)
  <2>1. PICK r \in Runtimes : r = query[q].r
    BY <1>1, <1>8, QueryFields DEF ReadCurrent
  <2>2. [pc |-> "newest", r |-> r] \in Queries
    BY DEF Queries
  <2> QED
    BY <1>2, <1>4, <1>5, <1>7, <1>8, <2>1, <2>2 DEF ReadCurrent, CurrentSessions
<1>9. CASE ReadNewest(q)
  <2>1. PICK r \in Runtimes : r = query[q].r
    BY <1>1, <1>9, QueryFields DEF ReadNewest
  <2>2. [pc |-> "evaluate", r |-> r, sess |-> Rules!NoSession] \in Queries
    BY <1>6 DEF Queries
  <2> QED
    BY <1>2, <1>4, <1>5, <1>7, <1>9, <2>1, <2>2 DEF ReadNewest, NewestSessions
<1>10. CASE Answer(q)
  <2>1. PICK r \in Runtimes, l \in Levels : r = query[q].r /\ l = LivenessOf(query[q].sess)
    BY <1>1, <1>10, QueryFields, LivenessIsALevel DEF Answer, LivenessOf
  <2>2. [pc |-> "answered", r |-> r, liveness |-> l] \in Queries
    BY DEF Queries
  <2> QED
    BY <1>1, <1>2, <1>10, <2>1, <2>2 DEF Answer
<1> QED
  BY <1>2, <1>3, <1>8, <1>9, <1>10 DEF QueryStep

\* Every step keeps the types of the tables, the locals and the histories.
LEMMA StepQueryTypeOK == QueryTypeOK /\ [QueryNext]_queryVars => QueryTypeOK'
<1> SUFFICES ASSUME QueryTypeOK, [QueryNext]_queryVars PROVE QueryTypeOK'
  OBVIOUS
<1>1. CASE UNCHANGED queryVars
  <2>1. UNCHANGED vars /\ TypeOK
    BY <1>1 DEF queryVars, QueryTypeOK
  <2>2. TypeOK'
    BY <2>1, StepTypeOK
  <2> QED
    BY <1>1, <2>2 DEF queryVars, QueryTypeOK
<1>2. CASE QueryNext
  <2>1. TypeOK'
    BY <1>2, QueryStepsAreSteps, StepTypeOK DEF QueryTypeOK
  <2>2. query' \in [Readers -> Queries] /\ failed' \subseteq Readers
    BY <1>2, ReaderStepTyping DEF QueryNext, QueryTypeOK
  <2>3. (\A r : TrueLiveness(r) \in Levels)'
    BY TruthIsALevel, PTL
  <2>4. \A q \in Readers : TruthFor(q)' \in Levels
    BY <2>3 DEF TruthFor
  <2>5. seen' \in [Readers -> SUBSET Levels]
    BY <1>2, <2>4 DEF QueryNext, Observe, QueryTypeOK
  <2> QED
    BY <2>1, <2>2, <2>5 DEF QueryTypeOK
<1> QED
  BY <1>1, <1>2

\* Tables, readers' locals and histories keep their types, however readers and
\* writers interleave.
THEOREM QueryTyping == QuerySpec => []QueryTypeOK
<1>1. QueryInit => QueryTypeOK
  <2> SUFFICES ASSUME QueryInit PROVE QueryTypeOK
    OBVIOUS
  <2>1. TypeOK
    BY InitTypeOK DEF QueryInit
  <2>2. Idle \in Queries
    BY DEF Queries
  <2> QED
    BY <2>1, <2>2 DEF QueryInit, QueryTypeOK
<1> QED
  BY <1>1, StepQueryTypeOK, PTL DEF QuerySpec

\* Queries disturb nothing: whatever holds of the handlers holds beside them.
LEMMA QueriesDisturbNothing == QuerySpec => Spec
<1>1. QueryInit => Init
  BY DEF QueryInit
<1>2. [QueryNext]_queryVars => [Next]_vars
  BY QueryStepsAreSteps DEF queryVars
<1> QED
  BY <1>1, <1>2, PTL DEF QuerySpec, Spec

-----------------------------------------------------------------------------
(* What a reader holds.                                                    *)

\* What an answer from the row a reader holds would say, and what an answer that
\* was given says, was true of the Runtime since the question: "online" in any
\* case, "unknown" unless a query of the reader has failed.
Evidence(q) ==
  LET word == IF query[q].pc = "evaluate" THEN LivenessOf(query[q].sess)
              ELSE IF query[q].pc = "answered" THEN query[q].liveness
              ELSE "none"
  IN  /\ word = "online" => "online" \in seen[q]
      /\ word = "unknown" /\ q \notin failed => "unknown" \in seen[q]

EvidenceInv == \A q \in Readers : Evidence(q)

\* The history has the truth of the moment, and forgets only at a question.
LEMMA Observed ==
  ASSUME NEW q \in Readers, Observe, query'[q].pc # "idle"
  PROVE  /\ TruthFor(q)' \in seen'[q]
         /\ query'[q].pc # "current" \/ query[q].pc = "current" => seen[q] \subseteq seen'[q]
BY DEF Observe

\* What "is true of the Runtime asked about" means for a given one.
LEMMA TruthOfRuntime == \A p, y : query[p].r = y => TruthFor(p) = TrueLiveness(y)
BY DEF TruthFor

\* A row in a reader's hands says "online" or "unknown" after a step only if it
\* said so before: time takes "online" away and leaves "unknown" alone.
LEMMA HeldRowAges ==
  ASSUME TypeOK, TypeOK', [Next]_vars, NEW sess \in SessionCopies,
         LivenessOf(sess)' \in {"online", "unknown"}
  PROVE  LivenessOf(sess) = LivenessOf(sess)'
<1> DEFINE At(t) == Rules!RuntimeLiveness(sess, Interval, t)
<1>1. LivenessOf(sess) = At(now) /\ LivenessOf(sess)' = At(now')
  BY DEF LivenessOf
<1>2. now \in Times /\ now' \in Times
  BY DEF TypeOK
<1>3. now' = now \/ now' = now + 1
  BY DEF Next, Tick, RegisterRuntime, Request, CreateSession, RecordHeartbeat,
         RetryHeartbeat, EndSession, vars
<1>4. At(now') = "online" => At(now) = "online"
  BY <1>2, <1>3, OnlineBefore
<1>5. At(now') = "unknown" => At(now) = "unknown"
  BY UnknownIsTimeless
<1> HIDE DEF At
<1> QED
  BY <1>1, <1>4, <1>5

\* A reader that does not move keeps its evidence.
LEMMA EvidenceStays ==
  ASSUME QueryTypeOK, QueryTypeOK', [Next]_vars, Observe,
         NEW q \in Readers, Evidence(q),
         query'[q] = query[q], q \in failed' <=> q \in failed
  PROVE  Evidence(q)'
<1>1. query[q] \in Queries /\ TypeOK /\ TypeOK'
  BY DEF QueryTypeOK
<1>2. CASE query[q].pc = "evaluate"
  <2>1. PICK sess \in SessionCopies : sess = query[q].sess
    BY <1>1, <1>2, QueryFields
  <2>2. LivenessOf(sess)' \in {"online", "unknown"} => LivenessOf(sess) = LivenessOf(sess)'
    BY <1>1, HeldRowAges
  <2>3. LivenessOf(query[q].sess) = LivenessOf(sess) /\ LivenessOf(query[q].sess)' = LivenessOf(sess)'
    BY <2>1 DEF LivenessOf
  <2>4. seen[q] \subseteq seen'[q]
    BY <1>2, Observed
  <2> QED
    BY <1>2, <2>2, <2>3, <2>4 DEF Evidence
<1>3. CASE query[q].pc = "answered"
  <2>1. seen[q] \subseteq seen'[q]
    BY <1>3, Observed
  <2> QED
    BY <1>3, <2>1 DEF Evidence
<1>4. CASE query[q].pc \notin {"evaluate", "answered"}
  BY <1>4 DEF Evidence
<1> QED
  BY <1>2, <1>3, <1>4

\* A reader that finds a row finds the evidence with it.
LEMMA RowIsEvidence ==
  ASSUME QueryTypeOK', AtMostOneCurrent', UNCHANGED vars, Observe,
         NEW q \in Readers, NEW r \in Runtimes,
         NEW s \in CurrentSessions(r) \cup NewestSessions(r),
         query'[q] = [pc |-> "evaluate", r |-> r, sess |-> Copy(r, s)]
  PROVE  Evidence(q)'
<1>1. PICK sess : sess = Copy(r, s)
  OBVIOUS
<1>2. query'[q].pc = "evaluate" /\ query'[q].r = r /\ query'[q].sess = sess
  BY <1>1
<1>3. (CurrentSessions(r) \cup NewestSessions(r))' = CurrentSessions(r) \cup NewestSessions(r)
      /\ Copy(r, s)' = sess
  BY <1>1 DEF vars, CurrentSessions, NewestSessions, Copy
<1>4. LivenessOf(Copy(r, s))' = LivenessOf(sess)' /\ LivenessOf(query[q].sess)' = LivenessOf(sess)'
  BY <1>2, <1>3 DEF LivenessOf
<1>5. LivenessOf(Copy(r, s))' \in {"online", "unknown"} => TrueLiveness(r)' = LivenessOf(Copy(r, s))'
  <2>1. (TypeOK /\ AtMostOneCurrent =>
           \A y \in Runtimes : \A x \in CurrentSessions(y) \cup NewestSessions(y) :
             LivenessOf(Copy(y, x)) \in {"online", "unknown"}
               => TrueLiveness(y) = LivenessOf(Copy(y, x)))'
    BY FoundRowTells, PTL
  <2>2. TypeOK' /\ s \in (CurrentSessions(r) \cup NewestSessions(r))'
    BY <1>3 DEF QueryTypeOK
  <2> QED
    BY <2>1, <2>2
<1>6. TrueLiveness(r)' \in seen'[q]
  <2>1. (\A p, y : query[p].r = y => TruthFor(p) = TrueLiveness(y))'
    BY TruthOfRuntime, PTL
  <2> QED
    BY <1>2, <2>1, Observed
<1> QED
  BY <1>2, <1>4, <1>5, <1>6 DEF Evidence

\* A reader that finds no row has the evidence too, unless the query failed.
LEMMA NoRowIsEvidence ==
  ASSUME QueryTypeOK', UNCHANGED vars, Observe,
         NEW q \in Readers, NEW r \in Runtimes,
         NewestSessions(r) = {} \/ q \in failed',
         query'[q] = [pc |-> "evaluate", r |-> r, sess |-> Rules!NoSession]
  PROVE  Evidence(q)'
<1>1. query'[q].pc = "evaluate" /\ query'[q].r = r /\ query'[q].sess = Rules!NoSession
  OBVIOUS
<1>2. LivenessOf(query[q].sess)' = "unknown"
  BY <1>1 DEF LivenessOf, Rules!RuntimeLiveness, Rules!NoSession
<1>3. CASE NewestSessions(r) = {}
  <2>1. (TypeOK => \A y \in Runtimes : NewestSessions(y) = {} => TrueLiveness(y) = "unknown")'
    BY NoRowTells, PTL
  <2>2. NewestSessions(r)' = {}
    BY <1>3 DEF vars, NewestSessions
  <2>3. TrueLiveness(r)' = "unknown"
    BY <2>1, <2>2 DEF QueryTypeOK
  <2>4. (\A p, y : query[p].r = y => TruthFor(p) = TrueLiveness(y))'
    BY TruthOfRuntime, PTL
  <2>5. "unknown" \in seen'[q]
    BY <1>1, <2>3, <2>4, Observed
  <2> QED
    BY <1>1, <1>2, <2>5 DEF Evidence
<1>4. CASE q \in failed'
  BY <1>1, <1>2, <1>4 DEF Evidence
<1> QED
  BY <1>3, <1>4

\* The reader that takes a step has evidence for what it holds or answers next.
LEMMA ReaderKeepsEvidence ==
  ASSUME QueryTypeOK, QueryTypeOK', AtMostOneCurrent', Observe,
         NEW q \in Readers, Evidence(q), QueryStep(q)
  PROVE  Evidence(q)'
<1>1. query[q] \in Queries /\ query \in [Readers -> Queries]
  BY DEF QueryTypeOK
<1>2. UNCHANGED vars
  BY DEF QueryStep
<1>3. ASSUME NEW r \in Runtimes, Ask(q, r) PROVE Evidence(q)'
  <2>1. query'[q].pc = "current"
    BY <1>1, <1>3 DEF Ask
  <2> QED
    BY <2>1 DEF Evidence
<1>4. ASSUME NEW r \in Runtimes, r = query[q].r,
             NEW s \in CurrentSessions(r) \cup NewestSessions(r), Evaluate(q, Copy(r, s))
      PROVE  Evidence(q)'
  <2>1. query'[q] = [pc |-> "evaluate", r |-> r, sess |-> Copy(r, s)]
    BY <1>1, <1>4 DEF Evaluate
  <2> QED
    BY <1>2, <2>1, RowIsEvidence
<1>5. CASE ReadCurrent(q)
  <2>1. PICK r \in Runtimes : r = query[q].r
    BY <1>1, <1>5, QueryFields DEF ReadCurrent
  <2>2. ASSUME WithoutRow(q, CurrentSessions(r), [pc |-> "newest", r |-> r])
        PROVE  Evidence(q)'
    <3>1. query'[q].pc = "newest"
      BY <1>1, <2>2 DEF WithoutRow
    <3> QED
      BY <3>1 DEF Evidence
  <2> QED
    BY <1>4, <1>5, <2>1, <2>2 DEF ReadCurrent
<1>6. CASE ReadNewest(q)
  <2>1. PICK r \in Runtimes : r = query[q].r
    BY <1>1, <1>6, QueryFields DEF ReadNewest
  <2> DEFINE nil == [pc |-> "evaluate", r |-> r, sess |-> Rules!NoSession]
  <2>2. ASSUME WithoutRow(q, NewestSessions(r), nil) PROVE Evidence(q)'
    <3>1. query'[q] = nil /\ (NewestSessions(r) = {} \/ q \in failed')
      BY <1>1, <2>2 DEF WithoutRow
    <3> QED
      BY <1>2, <3>1, NoRowIsEvidence
  <2> HIDE DEF nil
  <2>3. \/ \E s \in NewestSessions(r) : Evaluate(q, Copy(r, s))
        \/ WithoutRow(q, NewestSessions(r), nil)
    BY <1>6, <2>1 DEF ReadNewest, nil
  <2> QED
    BY <1>4, <2>1, <2>2, <2>3
<1>7. CASE Answer(q)
  <2>1. PICK l : l = LivenessOf(query[q].sess)
    OBVIOUS
  <2>2. query[q].pc = "evaluate" /\ failed' = failed
    BY <1>7 DEF Answer
  <2>3. query'[q].pc = "answered" /\ query'[q].liveness = l
    BY <1>1, <1>7, <2>1 DEF Answer
  <2>4. seen[q] \subseteq seen'[q]
    BY <2>3, Observed
  <2> QED
    BY <2>1, <2>2, <2>3, <2>4 DEF Evidence
<1> QED
  BY <1>3, <1>5, <1>6, <1>7 DEF QueryStep

\* Every step, of a reader or of a writer, keeps the evidence of all readers.
LEMMA StepEvidence ==
  QueryTypeOK /\ QueryTypeOK' /\ AtMostOneCurrent' /\ EvidenceInv /\ [QueryNext]_queryVars
    => EvidenceInv'
<1> SUFFICES ASSUME QueryTypeOK, QueryTypeOK', AtMostOneCurrent', EvidenceInv,
                    [QueryNext]_queryVars, NEW q \in Readers
             PROVE  Evidence(q)'
  BY DEF EvidenceInv
<1>1. Evidence(q)
  BY DEF EvidenceInv
<1>2. CASE UNCHANGED queryVars
  BY <1>1, <1>2 DEF queryVars, vars, Evidence, LivenessOf
<1>3. CASE QueryNext
  <2>1. Observe /\ [Next]_vars
    BY <1>3, QueryStepsAreSteps DEF QueryNext
  <2>2. CASE QueryStep(q)
    BY <1>1, <2>1, <2>2, ReaderKeepsEvidence
  <2>3. CASE ~QueryStep(q)
    <3>1. query'[q] = query[q] /\ (q \in failed' <=> q \in failed)
      BY <1>3, <2>3 DEF QueryNext, QueryStep, Ask, ReadCurrent, ReadNewest, Answer,
         Evaluate, WithoutRow, QueryTypeOK
    <3> QED
      BY <1>1, <2>1, <3>1, EvidenceStays
  <2> QED
    BY <2>2, <2>3
<1> QED
  BY <1>2, <1>3

\* Readers have evidence in every reachable state.
LEMMA EvidenceInvariant == QuerySpec => []EvidenceInv
<1>1. QueryInit => EvidenceInv
  BY DEF QueryInit, EvidenceInv, Evidence, Idle
<1>2. QuerySpec => []AtMostOneCurrent
  BY QueriesDisturbNothing, SingleCurrent, PTL
<1> QED
  BY <1>1, <1>2, StepEvidence, QueryTyping, PTL DEF QuerySpec

-----------------------------------------------------------------------------
(* The theorems.                                                           *)

\* A Runtime that is reported online was online at a moment since the question,
\* whatever was written meanwhile, however long the handler slept, and even
\* when its queries fail.
THEOREM OnlineIsNoLie == QuerySpec => []NoFalseOnline
<1>1. EvidenceInv => NoFalseOnline
  BY DEF EvidenceInv, Evidence, NoFalseOnline
<1> QED
  BY <1>1, EvidenceInvariant, PTL

\* A Runtime that is reported unknown was so at a moment since the question,
\* unless a query of this very reader failed.
THEOREM UnknownIsNoLie == QuerySpec => []NoFalseUnknown
<1>1. EvidenceInv => NoFalseUnknown
  BY DEF EvidenceInv, Evidence, NoFalseUnknown
<1> QED
  BY <1>1, EvidenceInvariant, PTL

=============================================================================
