-------------------------- MODULE EdgeAgentProofs --------------------------
(***************************************************************************)
(* For any number of agent processes and heartbeats: only another process  *)
(* can make the platform refuse one, and a goodbye is final.  Both rest on *)
(* AgentInv: a process's requests and rows carry distinct numbers it has   *)
(* drawn already, and it draws none after its goodbye.                     *)
(***************************************************************************)
EXTENDS EdgeAgent, TLAPS

Sent == net \cup rows

\* Every number on the wire or on record has been drawn by its process.
Drawn == \A m \in Sent : m.seq <= seq[m.p]

\* No number is on the wire twice, or on the wire and on record.
SentOnce ==
  /\ \A m1, m2 \in net : m1.p = m2.p /\ m1.seq = m2.seq => m1 = m2
  /\ \A m \in net, row \in rows : m.p = row.p => m.seq # row.seq

\* A goodbye carries the last number its process draws.
GoodbyeDrawnLast ==
  \A m \in Sent : m.kind = "goodbye" => /\ pc[m.p] \in Stopped \cup {"closing"}
                            /\ m.seq = seq[m.p]

\* What is known at each place of Run.
Places ==
  \A p \in Processes :
    /\ pc[p] = "off" => \A m \in Sent : m.p # p
    /\ \A m \in net : m.kind = "register" <=> m.seq = 0
    /\ pc[p] \in {"off", "registering", "waiting", "beating"} => seq[p] <= MaxSeq
    /\ pc[p] \in {"off", "registering"} => seq[p] = 0
    /\ pc[p] \in {"beating", "closing"} => seq[p] > 0
    /\ pc[p] \notin Calling => reply[p] = 0
    /\ pc[p] \in {"waiting", "beating", "closing"} => registered
    /\ reply[p] \in {201, 409} => registered
    /\ reply[p] # 404
    /\ pc[p] = "beating" /\ reply[p] = 409
         => \E row \in rows : row.p # p /\ row.seq >= seq[p]

AgentInv ==
  /\ TypeOK /\ Drawn /\ SentOnce /\ GoodbyeDrawnLast /\ Places
  /\ RefusedByAnother

\* The initial state satisfies the invariant.
LEMMA InitAgentInv == Init => AgentInv
<1> SUFFICES ASSUME Init PROVE AgentInv
  OBVIOUS
<1> USE MaxSeqAssumption DEF Init, Numbers, Calling, Stopped, Sent
<1>1. TypeOK
  <2>1. pc \in [Processes -> {"off", "waiting"} \cup Calling \cup Stopped]
    OBVIOUS
  <2>2. seq \in [Processes -> Numbers]
    OBVIOUS
  <2>3. reply \in [Processes -> {0, 201, 202, 404, 409, 500}]
    OBVIOUS
  <2>4. registered \in BOOLEAN
    OBVIOUS
  <2> QED
    BY <2>1, <2>2, <2>3, <2>4 DEF TypeOK
<1>2. Drawn /\ SentOnce /\ GoodbyeDrawnLast
  BY DEF Drawn, SentOnce, GoodbyeDrawnLast
<1>3. Places /\ RefusedByAnother
  BY DEF Places, RefusedByAnother
<1> QED
  BY <1>1, <1>2, <1>3 DEF AgentInv

\* Every step of agent, platform and environment preserves it.
LEMMA StepAgentInv == AgentInv /\ [Next]_agentVars => AgentInv'
<1> SUFFICES ASSUME AgentInv, [Next]_agentVars PROVE AgentInv'
  OBVIOUS
<1> USE MaxSeqAssumption DEF AgentInv, Kinds, TypeOK, Sent, Drawn, SentOnce, GoodbyeDrawnLast, Places,
  RefusedByAnother, Numbers, Calling, Stopped, Requests
<1>1. ASSUME NEW p \in Processes, Start(p) PROVE AgentInv'
  BY <1>1 DEF Start, Send
<1>2. ASSUME NEW p \in Processes, Beat(p) PROVE AgentInv'
  <2>1. TypeOK'
    BY <1>2 DEF Beat, Send
  <2>2. Drawn'
    BY <1>2 DEF Beat, Send
  <2>3. SentOnce'
    BY <1>2 DEF Beat, Send
  <2>4. GoodbyeDrawnLast'
    BY <1>2 DEF Beat, Send
  <2>5. Places'
    <3>1. \A m \in Sent' : m \in Sent \/ (m.p = p /\ m.kind = "beat" /\ m.seq # 0)
      BY <1>2 DEF Beat, Send
    <3>2. reply[p] = 0
      BY <1>2 DEF Beat
    <3>3. net' \subseteq net \cup {[kind |-> "beat", p |-> p, seq |-> seq[p] + 1]}
      BY <1>2 DEF Beat, Send
    <3>4. \A m \in net' : m.kind = "register" <=> m.seq = 0
      BY <1>2, <3>3 DEF Beat
    <3>5. pc'[p] = "beating" /\ seq'[p] > 0 /\ seq'[p] <= MaxSeq
      BY <1>2 DEF Beat
    <3>6. \A x \in Processes \ {p} : pc'[x] = pc[x] /\ seq'[x] = seq[x]
      BY <1>2 DEF Beat
    <3>7. reply' = reply /\ registered' = registered /\ rows' = rows
      BY <1>2 DEF Beat
    <3>8. registered
      BY <1>2 DEF Beat
    <3> QED
      BY <3>1, <3>2, <3>4, <3>5, <3>6, <3>7, <3>8
  <2>6. RefusedByAnother'
    BY <1>2 DEF Beat, Send
  <2> QED
    BY <2>1, <2>2, <2>3, <2>4, <2>5, <2>6
<1>3. ASSUME NEW p \in Processes, TakeSignal(p) PROVE AgentInv'
  <2>1. TypeOK'
    BY <1>3 DEF TakeSignal, Send
  <2>2. Drawn'
    BY <1>3 DEF TakeSignal, Send
  <2>3. SentOnce'
    BY <1>3 DEF TakeSignal, Send
  <2>4. GoodbyeDrawnLast'
    BY <1>3 DEF TakeSignal, Send
  <2>5. Places'
    BY <1>3 DEF TakeSignal, Send
  <2>6. RefusedByAnother'
    BY <1>3 DEF TakeSignal, Send
  <2> QED
    BY <2>1, <2>2, <2>3, <2>4, <2>5, <2>6
<1>4. ASSUME NEW p \in Processes, TakeCancel(p) PROVE AgentInv'
  <2>1. TypeOK'
    BY <1>4 DEF TakeCancel
  <2>2. Drawn'
    BY <1>4 DEF TakeCancel
  <2>3. SentOnce'
    BY <1>4 DEF TakeCancel
  <2>4. GoodbyeDrawnLast'
    BY <1>4 DEF TakeCancel
  <2>5. Places'
    BY <1>4 DEF TakeCancel
  <2>6. RefusedByAnother'
    BY <1>4 DEF TakeCancel
  <2> QED
    BY <2>1, <2>2, <2>3, <2>4, <2>5, <2>6
<1>5. ASSUME NEW p \in Processes, Return(p) PROVE AgentInv'
  <2>1. TypeOK'
    BY <1>5 DEF Return, AfterCall
  <2>2. Drawn'
    BY <1>5 DEF Return, AfterCall
  <2>3. SentOnce'
    BY <1>5 DEF Return, AfterCall
  <2>4. GoodbyeDrawnLast'
    BY <1>5 DEF Return, AfterCall
  <2>5. Places'
    BY <1>5 DEF Return, AfterCall
  <2>6. RefusedByAnother'
    BY <1>5 DEF Return, AfterCall
  <2> QED
    BY <2>1, <2>2, <2>3, <2>4, <2>5, <2>6
<1>6. ASSUME NEW p \in Processes, Signal(p) \/ Shutdown(p) \/ Kill(p) PROVE AgentInv'
  BY <1>6 DEF Signal, Shutdown, Kill, Running
<1>7. ASSUME NEW m \in net, HandleRegister(m) PROVE AgentInv'
  <2>1. TypeOK'
    BY <1>7 DEF HandleRegister, Answer
  <2>2. Drawn'
    BY <1>7 DEF HandleRegister, Answer
  <2>3. SentOnce'
    BY <1>7 DEF HandleRegister, Answer
  <2>4. GoodbyeDrawnLast'
    BY <1>7 DEF HandleRegister, Answer
  <2>5. Places'
    BY <1>7 DEF HandleRegister, Answer
  <2>6. RefusedByAnother'
    BY <1>7 DEF HandleRegister, Answer
  <2> QED
    BY <2>1, <2>2, <2>3, <2>4, <2>5, <2>6
<1>8. ASSUME NEW m \in net, HandleHeartbeat(m) PROVE AgentInv'
  <2>1. TypeOK'
    BY <1>8 DEF HandleHeartbeat, Answer, HeartbeatStatus, AboveAll
  <2>2. Drawn'
    BY <1>8 DEF HandleHeartbeat, Answer, HeartbeatStatus, AboveAll
  <2>3. SentOnce'
    BY <1>8 DEF HandleHeartbeat, Answer, HeartbeatStatus, AboveAll
  <2>4. GoodbyeDrawnLast'
    BY <1>8 DEF HandleHeartbeat, Answer, HeartbeatStatus, AboveAll
  <2>5. Places'
    <3>1. m.seq # 0 /\ registered' = registered /\ seq' = seq /\ pc' = pc
      BY <1>8 DEF HandleHeartbeat
    <3>2. HeartbeatStatus(m) = 409 /\ seq[m.p] = m.seq
            => \E row \in rows : row.p # m.p /\ row.seq >= m.seq
      <4> SUFFICES ASSUME NEW row \in rows, row.seq >= m.seq, seq[m.p] = m.seq
                   PROVE  row.p # m.p
        BY DEF HeartbeatStatus, AboveAll
      <4> QED
        OBVIOUS
    <3>3. HeartbeatStatus(m) = 404 => ~registered
      BY DEF HeartbeatStatus
    <3>4. HeartbeatStatus(m) \in {202, 404, 409}
      BY DEF HeartbeatStatus
    <3>5. rows \subseteq rows' /\ Sent' \subseteq Sent /\ net' \subseteq net
      BY <1>8 DEF HandleHeartbeat
    <3>6. ASSUME NEW p \in Processes
          PROVE \/ reply'[p] = reply[p]
                \/ /\ p = m.p /\ pc[p] \in {"beating", "closing"} /\ seq[p] = m.seq
                   /\ reply'[p] = HeartbeatStatus(m)
      BY <1>8, <3>1 DEF HandleHeartbeat, Answer
    <3> HIDE DEF HeartbeatStatus
    <3> QED
      BY <3>1, <3>2, <3>3, <3>4, <3>5, <3>6
  <2>6. RefusedByAnother'
    BY <1>8 DEF HandleHeartbeat, Answer, HeartbeatStatus, AboveAll
  <2> QED
    BY <2>1, <2>2, <2>3, <2>4, <2>5, <2>6
<1>9. ASSUME NEW m \in net, HandleFails(m) \/ Lose(m) PROVE AgentInv'
  BY <1>9 DEF HandleFails, Answer, Lose
<1>10. CASE UNCHANGED agentVars
  BY <1>10 DEF agentVars
<1> QED
  BY <1>1, <1>2, <1>3, <1>4, <1>5, <1>6, <1>7, <1>8, <1>9, <1>10
  DEF Next, AgentStep, PlatformStep

\* AgentInv holds in every reachable state.
THEOREM AgentInvariant == Spec => []AgentInv
BY InitAgentInv, StepAgentInv, PTL DEF Spec

\* The variables of agent and platform keep their types.
THEOREM AgentTyping == Spec => []TypeOK
<1>1. AgentInv => TypeOK
  BY DEF AgentInv
<1> QED
  BY <1>1, AgentInvariant, PTL

\* However replies are lost and requests delayed, a process is refused (and so
\* ends) only when another process of the device has had a number at least as
\* high recorded.
THEOREM OnlyAnotherRefuses == Spec => []RefusedByAnother
<1>1. AgentInv => RefusedByAnother
  BY DEF AgentInv
<1> QED
  BY <1>1, AgentInvariant, PTL

\* Nothing of a process is recorded after its goodbye is.
THEOREM GoodbyeIsFinal == Spec => GoodbyeIsLast
<1> DEFINE Final == \A bye \in rows : bye.kind = "goodbye" => \A new \in rows' \ rows : new.p # bye.p
<1>1. ASSUME AgentInv, [Next]_agentVars PROVE [Final]_agentVars
  <2>1. ASSUME NEW m \in net, HandleHeartbeat(m) PROVE Final
    <3>1. \A bye \in rows : bye.kind = "goodbye" /\ bye.p = m.p => m.seq <= bye.seq
      BY <1>1 DEF AgentInv, Drawn, GoodbyeDrawnLast, Sent
    <3>2. HeartbeatStatus(m) = 202 => \A bye \in rows : bye.seq < m.seq
      BY DEF HeartbeatStatus, AboveAll
    <3> QED
      BY <1>1, <2>1, <3>1, <3>2 DEF HandleHeartbeat, AgentInv, TypeOK, Requests, Numbers
  <2>2. CASE rows' = rows
    BY <2>2
  <2> QED
    BY <1>1, <2>1, <2>2 DEF Next, AgentStep, PlatformStep, Start, Beat, TakeSignal, TakeCancel,
      Return, Signal, Shutdown, Kill, HandleRegister, HandleFails, Lose, agentVars
<1> QED
  BY <1>1, AgentInvariant, PTL DEF Spec, GoodbyeIsLast

\* Of all the steps only the two handlers that write are steps of the log.
LEMMA StepRefinesLog == AgentInv /\ [Next]_agentVars => [Log!LogNext]_(Log!logVars)
<1> SUFFICES ASSUME AgentInv, [Next]_agentVars PROVE [Log!LogNext]_(Log!logVars)
  OBVIOUS
<1>1. ASSUME registered' = registered, rows' = rows PROVE [Log!LogNext]_(Log!logVars)
  BY <1>1 DEF Log!logVars
<1>2. ASSUME NEW m \in net, HandleRegister(m) PROVE [Log!LogNext]_(Log!logVars)
  <2>1. registered' = TRUE /\ rows' = rows
    BY <1>2 DEF HandleRegister
  <2>2. CASE registered
    BY <1>1, <2>1, <2>2
  <2>3. CASE ~registered
    <3>1. Log!Register("device")
      BY <2>1, <2>3 DEF Log!Register
    <3> QED
      BY <3>1 DEF Log!LogNext
  <2> QED
    BY <2>2, <2>3
<1>3. ASSUME NEW m \in net, HandleHeartbeat(m) PROVE [Log!LogNext]_(Log!logVars)
  <2>1. registered' = registered /\ m.seq \in Numbers
    BY <1>3 DEF HandleHeartbeat, AgentInv, TypeOK, Requests
  <2>2. CASE HeartbeatStatus(m) # 202
    <3>1. rows' = rows
      BY <1>3, <2>2 DEF HandleHeartbeat
    <3> QED
      BY <1>1, <2>1, <3>1
  <2>3. CASE HeartbeatStatus(m) = 202
    <3>1. registered /\ AboveAll(m.seq)
      BY <2>3 DEF HeartbeatStatus
    <3>2. rows' = rows \cup {m}
      BY <1>3, <2>3 DEF HandleHeartbeat
    <3>3. {row.seq : row \in rows'} = {row.seq : row \in rows} \cup {m.seq}
      BY <3>2
    <3>4. \A n \in {row.seq : row \in rows} : n < m.seq
      BY <3>1 DEF AboveAll
    <3>5. Log!Accept("device", m.seq)
      BY <2>1, <3>1, <3>3, <3>4 DEF Log!Accept
    <3> QED
      BY <2>1, <3>5 DEF Log!LogNext
  <2> QED
    BY <2>2, <2>3
<1> QED
  BY <1>1, <1>2, <1>3 DEF Next, AgentStep, PlatformStep, Start, Beat, TakeSignal, TakeCancel,
    Return, Signal, Shutdown, Kill, HandleFails, Lose, agentVars

\* However many processes report for the device, and whatever the network does
\* to their requests, the platform keeps the abstract log of it.
THEOREM AgentsSeeDeviceLog == Spec => ImplementsDeviceLog
<1>1. Init => Log!LogInit
  BY DEF Init, Log!LogInit
<1> QED
  BY <1>1, StepRefinesLog, AgentInvariant, PTL DEF Spec, ImplementsDeviceLog, Log!LogSpec

=============================================================================
