------------------------------ MODULE Registry ------------------------------
(***************************************************************************)
(* The v2 registry and run ledger: robots, their devices (in a containment *)
(* hierarchy), the Runtimes deployed on them, the external references that *)
(* name them, and the runs attributed to a Runtime's session.  Every       *)
(* create handler is one transaction and one step here; a request that is  *)
(* refused (400, 404, 409, 422) rolls back and is a stuttering step.       *)
(* Nothing in the tables declares most of these relations, and SQLite does *)
(* not enforce the foreign keys that are declared: the handlers' own       *)
(* checks are all there is.                                                *)
(***************************************************************************)
EXTENDS Integers, FiniteSets

CONSTANTS
  Robots, Devices, Runtimes, SessionIds, Tasks, Runs,  \* ids that may be drawn
  Namespaces, Values,   \* of external references, already trimmed
  None                  \* an optional reference left empty

ASSUME NoneAssumption == None \notin Robots \cup Devices

VARIABLES
  robots,     \* ids in table robots
  devices,    \* table devices_v2: id -> robot and parent device
  runtimes,   \* table runtimes: id -> robot and host device
  sessions,   \* keys of runtime_sessions
  tasks,      \* ids in table tasks
  runs,       \* rows of runs_v2
  mapping,    \* rows of external_id_mappings
  answered    \* history: the references 201 answers have confirmed

registryVars == <<robots, devices, runtimes, sessions, tasks, runs, mapping, answered>>

Refs == [ns : Namespaces, value : Values]
MappingRows == [kind : {"robot", "device", "runtime"},
                id : Robots \cup Devices \cup Runtimes, ref : Refs]
RunRows == [id : Runs, task : Tasks, robot : Robots, runtime : Runtimes, session : SessionIds]

TypeOK ==
  /\ robots \subseteq Robots
  /\ DOMAIN devices \subseteq Devices
  /\ \A d \in DOMAIN devices : devices[d] \in [robot : Robots, parent : Devices \cup {None}]
  /\ DOMAIN runtimes \subseteq Runtimes
  /\ \A r \in DOMAIN runtimes : runtimes[r] \in [robot : Robots, host : Devices \cup {None}]
  /\ sessions \subseteq Runtimes \X SessionIds
  /\ tasks \subseteq Tasks
  /\ runs \subseteq RunRows
  /\ mapping \subseteq MappingRows
  /\ answered \subseteq MappingRows

EmptyTable == [x \in {} |-> None]
Insert(table, id, row) == [x \in DOMAIN table \cup {id} |-> IF x = id THEN row ELSE table[x]]

Init ==
  /\ robots = {} /\ devices = EmptyTable /\ runtimes = EmptyTable
  /\ sessions = {} /\ tasks = {} /\ runs = {} /\ mapping = {} /\ answered = {}

-----------------------------------------------------------------------------
\* checkExternalRefConflict: another object of the kind holds the reference.
RefTaken(kind, id, ref) ==
  \E m \in mapping : m.kind = kind /\ m.ref = ref /\ m.id # id

\* Mutant: a kind the lookups do not use.
RowsForAnything(kind, id, refs) ==
  {[kind |-> "object", id |-> id, ref |-> ref] : ref \in refs}

RowsFor(kind, id, refs) == {[kind |-> kind, id |-> id, ref |-> ref] : ref \in refs}

\* Mutant: INSERT OR IGNORE is trusted to find the conflict.
MapRefsUnchecked(kind, id, refs) == mapping' = mapping \cup RowsFor(kind, id, refs)

\* Check, then INSERT OR IGNORE, the references of a new object.
MapRefs(kind, id, refs) ==
  /\ \A ref \in refs : ~RefTaken(kind, id, ref)
  /\ mapping' = mapping \cup RowsFor(kind, id, refs)

\* The 201 answer shows the object with its references.
Confirm(kind, id, refs) == answered' = answered \cup RowsFor(kind, id, refs)

\* An empty reference, or a device of the same robot.
OnRobot(device, robot) ==
  device = None \/ (device \in DOMAIN devices /\ devices[device].robot = robot)

CreateRobot(id, refs) ==
  /\ id \notin robots
  /\ robots' = robots \cup {id}
  /\ MapRefs("robot", id, refs)
  /\ Confirm("robot", id, refs)
  /\ UNCHANGED <<devices, runtimes, sessions, tasks, runs>>

\* Mutant: the parent is looked up after the INSERT, and finds the device itself.
CreateDeviceV2Self(id, robot, parent, refs) ==
  /\ robot \in robots
  /\ OnRobot(parent, robot) \/ parent = id
  /\ id \notin DOMAIN devices
  /\ devices' = Insert(devices, id, [robot |-> robot, parent |-> parent])
  /\ MapRefs("device", id, refs)
  /\ Confirm("device", id, refs)
  /\ UNCHANGED <<robots, runtimes, sessions, tasks, runs>>

\* Mutant: the references are stored before, and outside of, the transaction.
CreateDeviceV2RefsFirst(id, robot, parent, refs) ==
  /\ MapRefs("device", id, refs)
  /\ IF robot \in robots /\ OnRobot(parent, robot) /\ id \notin DOMAIN devices
     THEN /\ devices' = Insert(devices, id, [robot |-> robot, parent |-> parent])
          /\ Confirm("device", id, refs)
     ELSE UNCHANGED <<devices, answered>>
  /\ UNCHANGED <<robots, runtimes, sessions, tasks, runs>>

CreateDeviceV2(id, robot, parent, refs) ==
  /\ robot \in robots
  /\ OnRobot(parent, robot)
  /\ id \notin DOMAIN devices
  /\ devices' = Insert(devices, id, [robot |-> robot, parent |-> parent])
  /\ MapRefs("device", id, refs)
  /\ Confirm("device", id, refs)
  /\ UNCHANGED <<robots, runtimes, sessions, tasks, runs>>

\* Mutant: the host has to exist, on whatever robot.
CreateRuntimeAnyHost(id, robot, host, refs) ==
  /\ robot \in robots
  /\ host = None \/ host \in DOMAIN devices
  /\ id \notin DOMAIN runtimes
  /\ runtimes' = Insert(runtimes, id, [robot |-> robot, host |-> host])
  /\ Confirm("runtime", id, refs)
  /\ UNCHANGED <<robots, devices, sessions, tasks, runs, mapping>>

\* The references of a Runtime are answered but neither checked nor stored.
CreateRuntime(id, robot, host, refs) ==
  /\ robot \in robots
  /\ OnRobot(host, robot)
  /\ id \notin DOMAIN runtimes
  /\ runtimes' = Insert(runtimes, id, [robot |-> robot, host |-> host])
  /\ Confirm("runtime", id, refs)
  /\ UNCHANGED <<robots, devices, sessions, tasks, runs, mapping>>

CreateSession(runtime, sid) ==
  /\ runtime \in DOMAIN runtimes
  /\ sessions' = sessions \cup {<<runtime, sid>>}
  /\ UNCHANGED <<robots, devices, runtimes, tasks, runs, mapping, answered>>

CreateTask(id) ==
  /\ id \notin tasks
  /\ tasks' = tasks \cup {id}
  /\ UNCHANGED <<robots, devices, runtimes, sessions, runs, mapping, answered>>

\* Mutant: the run's robot is not compared with the Runtime's.
CreateRunV2AnyRobot(run) ==
  /\ run.task \in tasks
  /\ <<run.runtime, run.session>> \in sessions
  /\ run.runtime \in DOMAIN runtimes
  /\ \A x \in runs : x.id # run.id
  /\ runs' = runs \cup {run}
  /\ UNCHANGED <<robots, devices, runtimes, sessions, tasks, mapping, answered>>

CreateRunV2(run) ==
  /\ run.task \in tasks
  /\ <<run.runtime, run.session>> \in sessions
  /\ run.runtime \in DOMAIN runtimes
  /\ runtimes[run.runtime].robot = run.robot
  /\ \A x \in runs : x.id # run.id
  /\ runs' = runs \cup {run}
  /\ UNCHANGED <<robots, devices, runtimes, sessions, tasks, mapping, answered>>

Next ==
  \/ \E id \in Robots, refs \in SUBSET Refs : CreateRobot(id, refs)
  \/ \E id \in Devices, robot \in Robots, parent \in Devices \cup {None},
        refs \in SUBSET Refs : CreateDeviceV2(id, robot, parent, refs)
  \/ \E id \in Runtimes, robot \in Robots, host \in Devices \cup {None},
        refs \in SUBSET Refs : CreateRuntime(id, robot, host, refs)
  \/ \E runtime \in Runtimes, sid \in SessionIds : CreateSession(runtime, sid)
  \/ \E id \in Tasks : CreateTask(id)
  \/ \E run \in RunRows : CreateRunV2(run)

Spec == Init /\ [][Next]_registryVars

-----------------------------------------------------------------------------
\* A reference that a 201 answer confirmed for a robot is confirmed for no other
\* robot, one confirmed for a device for no other device, although the UNIQUE key
\* of external_id_mappings includes the object and permits several.  Runtimes are
\* left out: CreateRuntime confirms references it neither checks nor stores, so
\* two of them may be told they hold one (README, "Where the code differs").
RefNamesOneObject ==
  \A a, b \in answered :
    a.kind \in {"robot", "device"} /\ b.kind = a.kind /\ b.ref = a.ref => b.id = a.id

\* Containment is a forest within one robot: parents exist, belong to the same
\* robot, and no device is its own ancestor (every group of devices has one
\* whose parent is outside of it).
ContainmentIsForest ==
  /\ \A d \in DOMAIN devices : OnRobot(devices[d].parent, devices[d].robot)
  /\ \A group \in (SUBSET DOMAIN devices) \ {{}} :
       \E d \in group : devices[d].parent \notin group

\* A Runtime's host is a device of the Runtime's robot; both robots exist.
HostsAreOnRobot ==
  /\ \A r \in DOMAIN runtimes : /\ runtimes[r].robot \in robots
                                /\ OnRobot(runtimes[r].host, runtimes[r].robot)
  /\ \A d \in DOMAIN devices : devices[d].robot \in robots

\* A run names a session that exists, of a Runtime that belongs to the robot the
\* run names, and an existing task.
RunsAreAttributable ==
  \A run \in runs :
    /\ run.task \in tasks
    /\ <<run.runtime, run.session>> \in sessions
    /\ run.runtime \in DOMAIN runtimes
    /\ runtimes[run.runtime].robot = run.robot

\* No refused or rolled back create leaves a reference behind: each mapping row
\* belongs to an object that exists and was answered for.
RefsHaveObjects ==
  \A m \in mapping : /\ m \in answered
                     /\ m.id \in IF m.kind = "robot" THEN robots ELSE DOMAIN devices

=============================================================================
