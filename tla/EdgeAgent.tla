----------------------------- MODULE EdgeAgent -----------------------------
(***************************************************************************)
(* Processes of the edge agent reporting for one device over HTTP to the   *)
(* v1 endpoints.  Each process registers the device, then sends numbered   *)
(* heartbeats on a ticker until it is told to stop or is refused.  The     *)
(* platform numbers heartbeats per DEVICE, the agent per PROCESS.          *)
(*                                                                         *)
(* A request or its reply may be lost or late: the client gives up after   *)
(* its timeout, but what it sent may still reach the platform afterwards,  *)
(* even after the process is gone.                                         *)
(***************************************************************************)
EXTENDS Integers

CONSTANTS
  Processes,   \* runs of the agent; each draws a session id of its own
  MaxSeq       \* bound on the heartbeats a process sends before its goodbye

ASSUME MaxSeqAssumption == MaxSeq \in Nat

VARIABLES
  pc,          \* where Run is, per process
  seq,         \* Agent.seq
  signalled,   \* the processes with SIGINT or SIGTERM waiting in sigCh
  cancelled,   \* the processes whose context Shutdown has cancelled
  registered,  \* the device has a row in table devices
  rows,        \* the device's rows of table heartbeats
  net,         \* requests on their way to the platform
  reply        \* the status on its way to a process, 0 when there is none

agentVars == <<pc, seq, signalled, cancelled, registered, rows, net, reply>>

Numbers == 0 .. MaxSeq + 1
Kinds == {"register", "beat", "goodbye"}
Requests == [kind : Kinds, p : Processes, seq : Numbers]   \* seq 0 to register
Calling == {"registering", "beating", "closing"}
Stopped == {"done", "refused", "failed", "killed"}

TypeOK ==
  /\ pc \in [Processes -> {"off", "waiting"} \cup Calling \cup Stopped]
  /\ seq \in [Processes -> Numbers]
  /\ signalled \subseteq Processes
  /\ cancelled \subseteq Processes
  /\ registered \in BOOLEAN
  /\ rows \subseteq Requests
  /\ net \subseteq Requests
  /\ reply \in [Processes -> {0, 201, 202, 404, 409, 500}]

Init ==
  /\ pc = [p \in Processes |-> "off"]
  /\ seq = [p \in Processes |-> 0]
  /\ signalled = {}
  /\ cancelled = {}
  /\ registered = FALSE
  /\ rows = {}
  /\ net = {}
  /\ reply = [p \in Processes |-> 0]

-----------------------------------------------------------------------------
(* The agent.                                                              *)

\* client.do: with a cancelled context nothing is sent and the call fails.
Send(kind, p, n) ==
  net' = IF p \in cancelled THEN net ELSE net \cup {[kind |-> kind, p |-> p, seq |-> n]}

\* New and the beginning of Run: signals are caught from here on.
Start(p) ==
  /\ pc[p] = "off"
  /\ pc' = [pc EXCEPT ![p] = "registering"]
  /\ Send("register", p, 0)
  /\ UNCHANGED <<seq, signalled, cancelled, registered, rows, reply>>

\* sendHeartbeat: the number is drawn before the call and never given back.
Beat(p) ==
  /\ pc[p] = "waiting"
  /\ seq[p] < MaxSeq
  /\ seq' = [seq EXCEPT ![p] = @ + 1]
  /\ pc' = [pc EXCEPT ![p] = "beating"]
  /\ Send("beat", p, seq[p] + 1)
  /\ UNCHANGED <<signalled, cancelled, registered, rows, reply>>

\* The select loop takes the signal: sendShutdownHeartbeat.
TakeSignal(p) ==
  /\ pc[p] = "waiting"
  /\ p \in signalled
  /\ seq' = [seq EXCEPT ![p] = @ + 1]
  /\ signalled' = signalled \ {p}
  /\ pc' = [pc EXCEPT ![p] = "closing"]
  /\ Send("goodbye", p, seq[p] + 1)
  /\ UNCHANGED <<cancelled, registered, rows, reply>>

\* The select loop takes ctx.Done: Run returns without a goodbye.
TakeCancel(p) ==
  /\ pc[p] = "waiting"
  /\ p \in cancelled
  /\ pc' = [pc EXCEPT ![p] = "done"]
  /\ UNCHANGED <<seq, signalled, cancelled, registered, rows, net, reply>>

\* Mutants: the loop goes on after the goodbye, always or when it was not accepted.
AfterCallGoingOn(at, status) ==
  IF at = "registering"
  THEN IF status \in {201, 409} THEN "waiting" ELSE "failed"
  ELSE IF status \in 400 .. 499 THEN "refused"
  ELSE "waiting"
AfterCallInsisting(at, status) ==
  IF at = "closing" THEN IF status = 202 THEN "done" ELSE "waiting"
  ELSE IF at = "registering"
       THEN IF status \in {201, 409} THEN "waiting" ELSE "failed"
  ELSE IF status \in 400 .. 499 THEN "refused"
  ELSE "waiting"

\* What Run does next, given the status of its call (0: a transport error).
AfterCall(at, status) ==
  IF at = "closing" THEN "done"
  ELSE IF at = "registering"
       THEN IF status \in {201, 409} THEN "waiting" ELSE "failed"
  ELSE IF status \in 400 .. 499 THEN "refused"
  ELSE "waiting"

\* Mutant: a heartbeat that failed gives its number back to be sent again.
ReturnGivingBack(p) ==
  /\ pc[p] \in Calling
  /\ \E status \in {reply[p], 0} :
       /\ pc' = [pc EXCEPT ![p] = AfterCall(@, status)]
       /\ seq' = [seq EXCEPT ![p] = IF pc[p] = "beating" /\ status = 0 THEN @ - 1 ELSE @]
  /\ reply' = [reply EXCEPT ![p] = 0]
  /\ UNCHANGED <<signalled, cancelled, registered, rows, net>>

\* The call returns: with the reply, or with an error (connection refused, the
\* client's timeout, a cancelled context), after which a reply is not read.
Return(p) ==
  /\ pc[p] \in Calling
  /\ \E status \in {reply[p], 0} : pc' = [pc EXCEPT ![p] = AfterCall(@, status)]
  /\ reply' = [reply EXCEPT ![p] = 0]
  /\ UNCHANGED <<seq, signalled, cancelled, registered, rows, net>>

-----------------------------------------------------------------------------
(* The platform's v1 handlers.                                             *)

AboveAll(n) == \A row \in rows : row.seq < n

\* Mutant: the regression is answered as a malformed request.
HeartbeatStatusBad(m) ==
  IF ~AboveAll(m.seq) THEN 400
  ELSE IF ~registered THEN 404
  ELSE 202

\* Mutant: only a number on record is refused.
HeartbeatStatusUnordered(m) ==
  IF \E row \in rows : row.seq = m.seq THEN 409
  ELSE IF ~registered THEN 404
  ELSE 202

\* The status of the heartbeat handler.
HeartbeatStatus(m) ==
  IF ~AboveAll(m.seq) THEN 409
  ELSE IF ~registered THEN 404
  ELSE 202

\* The reply reaches only a process still waiting for this very call.
Answer(m, status) ==
  reply' = IF pc[m.p] \in Calling /\ seq[m.p] = m.seq
           THEN [reply EXCEPT ![m.p] = status] ELSE reply

\* POST /v1/devices
HandleRegister(m) ==
  /\ m \in net /\ m.kind = "register"
  /\ net' = net \ {m}
  /\ registered' = TRUE
  /\ Answer(m, IF registered THEN 409 ELSE 201)
  /\ UNCHANGED <<pc, seq, signalled, cancelled, rows>>

\* POST /v1/devices/{id}/heartbeats
HandleHeartbeat(m) ==
  /\ m \in net /\ m.kind # "register"
  /\ net' = net \ {m}
  /\ rows' = IF HeartbeatStatus(m) = 202 THEN rows \cup {m} ELSE rows
  /\ Answer(m, HeartbeatStatus(m))
  /\ UNCHANGED <<pc, seq, signalled, cancelled, registered>>

\* The database refuses (SQLITE_BUSY, disk): 500 and nothing changes.
HandleFails(m) ==
  /\ m \in net
  /\ net' = net \ {m}
  /\ Answer(m, 500)
  /\ UNCHANGED <<pc, seq, signalled, cancelled, registered, rows>>

-----------------------------------------------------------------------------
(* The environment.                                                        *)

Lose(m) ==
  /\ m \in net
  /\ net' = net \ {m}
  /\ UNCHANGED <<pc, seq, signalled, cancelled, registered, rows, reply>>

Running(p) == pc[p] \in Calling \cup {"waiting"}

Signal(p) ==
  /\ Running(p) /\ pc[p] # "closing"
  /\ signalled' = signalled \cup {p}
  /\ UNCHANGED <<pc, seq, cancelled, registered, rows, net, reply>>

Shutdown(p) ==
  /\ Running(p)
  /\ cancelled' = cancelled \cup {p}
  /\ UNCHANGED <<pc, seq, signalled, registered, rows, net, reply>>

\* The process is killed or the host loses power.
Kill(p) ==
  /\ Running(p)
  /\ pc' = [pc EXCEPT ![p] = "killed"]
  /\ reply' = [reply EXCEPT ![p] = 0]
  /\ UNCHANGED <<seq, signalled, cancelled, registered, rows, net>>

AgentStep(p) == Start(p) \/ Beat(p) \/ TakeSignal(p) \/ TakeCancel(p) \/ Return(p)
PlatformStep(m) == HandleRegister(m) \/ HandleHeartbeat(m) \/ HandleFails(m)

Next ==
  \/ \E p \in Processes : AgentStep(p) \/ Signal(p) \/ Shutdown(p) \/ Kill(p)
  \/ \E m \in net : PlatformStep(m) \/ Lose(m)

Spec == Init /\ [][Next]_agentVars

\* Every call returns, because the client has a timeout.  The select statement
\* chooses at random among the cases that are ready, so a case that is ready
\* again and again is taken.  Nothing is assumed of network and platform.
Fairness ==
  \A p \in Processes : /\ WF_agentVars(Return(p))
                       /\ SF_agentVars(TakeSignal(p))
                       /\ SF_agentVars(TakeCancel(p))

FairSpec == Spec /\ Fairness

-----------------------------------------------------------------------------
\* A process is refused only because another process of the device is ahead of
\* it: its own lost replies, timeouts and late requests never make the platform
\* see a number twice (agent.go:161 draws it before the call).
RefusedByAnother ==
  \A p \in Processes :
    pc[p] = "refused" => \E row \in rows : row.p # p /\ row.seq >= seq[p]

\* Once a process's goodbye is on record nothing of that process is recorded
\* after it, however late its earlier requests arrive.
GoodbyeIsLast ==
  [][\A bye \in rows : bye.kind = "goodbye" =>
       \A new \in rows' \ rows : new.p # bye.p]_agentVars

\* Seen from these processes, too, the platform implements the abstract log of
\* the one device they report for, whatever is lost, late or sent twice over.
Log == INSTANCE DeviceLog WITH
  Devices <- {"device"},
  known <- IF registered THEN {"device"} ELSE {},
  log <- [d \in {"device"} |-> {row.seq : row \in rows}]
ImplementsDeviceLog == Log!LogSpec

\* A process told to stop stops, even if the platform never answers.
ToldToStopStops ==
  \A p \in Processes : p \in signalled \cup cancelled ~> pc[p] \in Stopped

=============================================================================
