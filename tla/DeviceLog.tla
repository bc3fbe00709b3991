----------------------------- MODULE DeviceLog -----------------------------
(***************************************************************************)
(* What v1 promises about a device, without tables, requests or clocks: a  *)
(* device is registered once, only a registered one has heartbeats         *)
(* accepted, and their numbers only ever grow.  V1Platform implements this *)
(* module, and so does the platform that EdgeAgent's processes talk to.    *)
(***************************************************************************)
EXTENDS Integers

CONSTANTS
  Devices,   \* device ids
  Numbers    \* sequence numbers a device may send, a set of numbers

VARIABLES
  known,     \* the devices registered
  log        \* log[d]: the numbers accepted from d

logVars == <<known, log>>

\* Devices may be registered from before, none of them heard from yet.
LogInit ==
  /\ known \in SUBSET Devices
  /\ log = [d \in Devices |-> {}]

Register(d) ==
  /\ d \notin known
  /\ known' = known \cup {d}
  /\ UNCHANGED log

Accept(d, n) ==
  /\ d \in known
  /\ \A m \in log[d] : m < n
  /\ log' = [log EXCEPT ![d] = @ \cup {n}]
  /\ UNCHANGED known

LogNext ==
  \E d \in Devices :
    \/ Register(d)
    \/ \E n \in Numbers : Accept(d, n)

LogSpec == LogInit /\ [][LogNext]_logVars

=============================================================================
