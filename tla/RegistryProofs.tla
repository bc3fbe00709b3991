--------------------------- MODULE RegistryProofs ---------------------------
(***************************************************************************)
(* For any number of robots, devices, Runtimes, references and runs: what  *)
(* the handlers' checks keep true of tables on which nothing is enforced.  *)
(***************************************************************************)
EXTENDS Registry, TLAPS

-----------------------------------------------------------------------------
\* The mapping rows of a request are typed.
LEMMA RowsForTyping ==
  ASSUME NEW kind \in {"robot", "device", "runtime"},
         NEW id \in Robots \cup Devices \cup Runtimes, NEW refs \in SUBSET Refs
  PROVE  RowsFor(kind, id, refs) \subseteq MappingRows
BY DEF RowsFor, MappingRows

\* Every create keeps the types of the tables.
LEMMA StepTypeOK == TypeOK /\ [Next]_registryVars => TypeOK'
<1> SUFFICES ASSUME TypeOK, [Next]_registryVars PROVE TypeOK'
  OBVIOUS
<1> USE DEF TypeOK
<1>1. ASSUME NEW id \in Robots, NEW refs \in SUBSET Refs, CreateRobot(id, refs)
      PROVE  TypeOK'
  <2>1. RowsFor("robot", id, refs) \subseteq MappingRows
    BY RowsForTyping
  <2> QED
    BY <1>1, <2>1 DEF CreateRobot, MapRefs, Confirm
<1>2. ASSUME NEW id \in Devices, NEW robot \in Robots, NEW parent \in Devices \cup {None},
             NEW refs \in SUBSET Refs, CreateDeviceV2(id, robot, parent, refs)
      PROVE  TypeOK'
  <2>1. RowsFor("device", id, refs) \subseteq MappingRows
    BY RowsForTyping
  <2>2. PICK row : row = [robot |-> robot, parent |-> parent]
    OBVIOUS
  <2>3. row \in [robot : Robots, parent : Devices \cup {None}]
    BY <2>2
  <2>4. /\ DOMAIN devices' = DOMAIN devices \cup {id} /\ devices'[id] = row
        /\ \A x \in DOMAIN devices \ {id} : devices'[x] = devices[x]
    BY <1>2, <2>2 DEF CreateDeviceV2, Insert
  <2>5. /\ DOMAIN devices' \subseteq Devices
        /\ \A d \in DOMAIN devices' : devices'[d] \in [robot : Robots, parent : Devices \cup {None}]
    BY <2>3, <2>4
  <2> QED
    BY <1>2, <2>1, <2>5 DEF CreateDeviceV2, MapRefs, Confirm
<1>3. ASSUME NEW id \in Runtimes, NEW robot \in Robots, NEW host \in Devices \cup {None},
             NEW refs \in SUBSET Refs, CreateRuntime(id, robot, host, refs)
      PROVE  TypeOK'
  <2>1. RowsFor("runtime", id, refs) \subseteq MappingRows
    BY RowsForTyping
  <2>2. PICK row : row = [robot |-> robot, host |-> host]
    OBVIOUS
  <2>3. row \in [robot : Robots, host : Devices \cup {None}]
    BY <2>2
  <2>4. /\ DOMAIN runtimes' = DOMAIN runtimes \cup {id} /\ runtimes'[id] = row
        /\ \A x \in DOMAIN runtimes \ {id} : runtimes'[x] = runtimes[x]
    BY <1>3, <2>2 DEF CreateRuntime, Insert
  <2>5. /\ DOMAIN runtimes' \subseteq Runtimes
        /\ \A r \in DOMAIN runtimes' : runtimes'[r] \in [robot : Robots, host : Devices \cup {None}]
    BY <2>3, <2>4
  <2> QED
    BY <1>3, <2>1, <2>5 DEF CreateRuntime, Confirm
<1>4. ASSUME NEW runtime \in Runtimes, NEW sid \in SessionIds, CreateSession(runtime, sid)
      PROVE  TypeOK'
  BY <1>4 DEF CreateSession
<1>5. ASSUME NEW id \in Tasks, CreateTask(id) PROVE TypeOK'
  BY <1>5 DEF CreateTask
<1>6. ASSUME NEW run \in RunRows, CreateRunV2(run) PROVE TypeOK'
  BY <1>6 DEF CreateRunV2
<1>7. CASE UNCHANGED registryVars
  BY <1>7 DEF registryVars
<1> QED
  BY <1>1, <1>2, <1>3, <1>4, <1>5, <1>6, <1>7 DEF Next

\* Every table holds rows of its type in every reachable state.
THEOREM RegistryTyping == Spec => []TypeOK
<1>1. Init => TypeOK
  BY DEF Init, TypeOK, EmptyTable
<1>2. TypeOK /\ [Next]_registryVars => TypeOK'
  BY StepTypeOK
<1> QED
  BY <1>1, <1>2, PTL DEF Spec

-----------------------------------------------------------------------------
\* What was confirmed for robots and devices is stored, and the lookups keep the
\* stored references apart: the answers alone are not inductive, as the handlers
\* read the table and not what was answered.
StoredApart ==
  /\ \A a \in answered : a.kind \in {"robot", "device"} => a \in mapping
  /\ \A m, n \in mapping : m.kind = n.kind /\ m.ref = n.ref => m.id = n.id

\* A create that stores what it confirms keeps it.
LEMMA StoringKeepsApart ==
  ASSUME StoredApart, NEW kind, NEW id, NEW refs, MapRefs(kind, id, refs), Confirm(kind, id, refs)
  PROVE  StoredApart'
<1>1. \A m, n \in mapping' : m.kind = n.kind /\ m.ref = n.ref => m.id = n.id
  BY DEF MapRefs, RefTaken, RowsFor, StoredApart
<1>2. \A a \in answered' : a.kind \in {"robot", "device"} => a \in mapping'
  BY DEF MapRefs, Confirm, StoredApart
<1> QED
  BY <1>1, <1>2 DEF StoredApart

\* No reference is ever confirmed for two robots, or for two devices.
THEOREM UniqueReferences == Spec => []RefNamesOneObject
<1>1. Init => StoredApart
  BY DEF Init, StoredApart
<1>2. StoredApart /\ [Next]_registryVars => StoredApart'
  <2> SUFFICES ASSUME StoredApart, [Next]_registryVars PROVE StoredApart'
    OBVIOUS
  <2>1. ASSUME NEW id, NEW refs, CreateRobot(id, refs) PROVE StoredApart'
    BY <2>1, StoringKeepsApart DEF CreateRobot
  <2>2. ASSUME NEW id, NEW robot, NEW parent, NEW refs, CreateDeviceV2(id, robot, parent, refs)
        PROVE  StoredApart'
    BY <2>2, StoringKeepsApart DEF CreateDeviceV2
  <2>3. ASSUME NEW id, NEW robot, NEW host, NEW refs, CreateRuntime(id, robot, host, refs)
        PROVE  StoredApart'
    <3>1. \A a \in RowsFor("runtime", id, refs) : a.kind = "runtime"
      BY DEF RowsFor
    <3> QED
      BY <2>3, <3>1 DEF CreateRuntime, Confirm, StoredApart
  <2>4. CASE UNCHANGED <<mapping, answered>>
    BY <2>4 DEF StoredApart
  <2> QED
    BY <2>1, <2>2, <2>3, <2>4 DEF Next, CreateSession, CreateTask, CreateRunV2, registryVars
<1>3. StoredApart => RefNamesOneObject
  BY DEF StoredApart, RefNamesOneObject
<1> QED
  BY <1>1, <1>2, <1>3, PTL DEF Spec

-----------------------------------------------------------------------------
\* Devices and Runtimes are on robots that exist, Runtimes' hosts on their robot.
THEOREM HostsOnRobot == Spec => []HostsAreOnRobot
<1>1. Init => HostsAreOnRobot
  BY DEF Init, HostsAreOnRobot, EmptyTable
<1>2. HostsAreOnRobot /\ [Next]_registryVars => HostsAreOnRobot'
  <2> SUFFICES ASSUME HostsAreOnRobot, [Next]_registryVars PROVE HostsAreOnRobot'
    OBVIOUS
  <2> USE DEF HostsAreOnRobot, OnRobot
  <2>1. ASSUME NEW id, NEW refs, CreateRobot(id, refs) PROVE HostsAreOnRobot'
    BY <2>1 DEF CreateRobot
  <2>2. ASSUME NEW id, NEW robot, NEW parent, NEW refs,
               CreateDeviceV2(id, robot, parent, refs)
        PROVE HostsAreOnRobot'
    <3>1. DOMAIN devices' = DOMAIN devices \cup {id} /\ devices'[id].robot = robot
      BY <2>2 DEF CreateDeviceV2, Insert
    <3>2. \A x \in DOMAIN devices : devices'[x] = devices[x]
      BY <2>2 DEF CreateDeviceV2, Insert
    <3> QED
      BY <2>2, <3>1, <3>2 DEF CreateDeviceV2
  <2>3. ASSUME NEW id, NEW robot, NEW host, NEW refs,
               CreateRuntime(id, robot, host, refs)
        PROVE HostsAreOnRobot'
    <3>1. DOMAIN runtimes' = DOMAIN runtimes \cup {id}
          /\ runtimes'[id] = [robot |-> robot, host |-> host]
      BY <2>3 DEF CreateRuntime, Insert
    <3>2. \A x \in DOMAIN runtimes : runtimes'[x] = runtimes[x]
      BY <2>3 DEF CreateRuntime, Insert
    <3> QED
      BY <2>3, <3>1, <3>2 DEF CreateRuntime
  <2>4. CASE UNCHANGED <<robots, devices, runtimes>>
    BY <2>4
  <2> QED
    BY <2>1, <2>2, <2>3, <2>4 DEF Next, CreateSession, CreateTask, CreateRunV2, registryVars
<1> QED
  BY <1>1, <1>2, PTL DEF Spec

\* Every run belongs to a session of a Runtime of the robot it names: a Runtime
\* never moves to another robot, so what was checked once stays true.
THEOREM AttributableRuns == Spec => []RunsAreAttributable
<1>1. Init => RunsAreAttributable
  BY DEF Init, RunsAreAttributable
<1>2. RunsAreAttributable /\ [Next]_registryVars => RunsAreAttributable'
  <2> SUFFICES ASSUME RunsAreAttributable, [Next]_registryVars PROVE RunsAreAttributable'
    OBVIOUS
  <2> USE DEF RunsAreAttributable
  <2>1. ASSUME NEW id, NEW robot, NEW host, NEW refs,
               CreateRuntime(id, robot, host, refs)
        PROVE RunsAreAttributable'
    <3>1. \A x \in DOMAIN runtimes : x \in DOMAIN runtimes' /\ runtimes'[x] = runtimes[x]
      BY <2>1 DEF CreateRuntime, Insert
    <3> QED
      BY <2>1, <3>1 DEF CreateRuntime
  <2>2. ASSUME NEW run, CreateRunV2(run) PROVE RunsAreAttributable'
    BY <2>2 DEF CreateRunV2
  <2>3. CASE UNCHANGED <<runs, runtimes>> /\ sessions \subseteq sessions' /\ tasks \subseteq tasks'
    BY <2>3
  <2> QED
    BY <2>1, <2>2, <2>3 DEF Next, CreateRobot, CreateDeviceV2, CreateSession, CreateTask,
      registryVars
<1> QED
  BY <1>1, <1>2, PTL DEF Spec

\* Every stored reference belongs to an object that exists and was answered for.
THEOREM NoDanglingReferences == Spec => []RefsHaveObjects
<1>1. Init => RefsHaveObjects
  BY DEF Init, RefsHaveObjects
<1>2. RefsHaveObjects /\ [Next]_registryVars => RefsHaveObjects'
  <2> SUFFICES ASSUME RefsHaveObjects, [Next]_registryVars PROVE RefsHaveObjects'
    OBVIOUS
  <2> USE DEF RefsHaveObjects, MapRefs, RowsFor, Confirm
  <2>1. ASSUME NEW id, NEW refs, CreateRobot(id, refs) PROVE RefsHaveObjects'
    BY <2>1 DEF CreateRobot
  <2>2. ASSUME NEW id, NEW robot, NEW parent, NEW refs,
               CreateDeviceV2(id, robot, parent, refs)
        PROVE RefsHaveObjects'
    BY <2>2 DEF CreateDeviceV2, Insert
  <2>3. CASE /\ UNCHANGED <<mapping, robots, devices>>
             /\ answered \subseteq answered'
    BY <2>3
  <2> QED
    BY <2>1, <2>2, <2>3 DEF Next, CreateRuntime, CreateSession, CreateTask, CreateRunV2,
      registryVars
<1> QED
  BY <1>1, <1>2, PTL DEF Spec

-----------------------------------------------------------------------------
(* Containment.                                                            *)

\* A new device is nobody's parent, and its own parent is older than it: with
\* it, every group of devices still has one whose parent is outside the group.
LEMMA NewDeviceKeepsForest ==
  ASSUME TypeOK, ContainmentIsForest,
         NEW id \in Devices, NEW robot \in Robots, NEW parent \in Devices \cup {None},
         NEW refs, CreateDeviceV2(id, robot, parent, refs)
  PROVE  ContainmentIsForest'
<1>1. /\ DOMAIN devices' = DOMAIN devices \cup {id} /\ id \notin DOMAIN devices
      /\ devices'[id].parent = parent /\ devices'[id].robot = robot
      /\ \A x \in DOMAIN devices : devices'[x] = devices[x]
  <2>1. PICK row : row = [robot |-> robot, parent |-> parent]
    OBVIOUS
  <2>2. devices' = Insert(devices, id, row) /\ id \notin DOMAIN devices
    BY <2>1 DEF CreateDeviceV2
  <2>3. row.robot = robot /\ row.parent = parent
    BY <2>1
  <2>4. /\ DOMAIN devices' = DOMAIN devices \cup {id} /\ devices'[id] = row
        /\ \A x \in DOMAIN devices \ {id} : devices'[x] = devices[x]
    BY <2>2 DEF Insert
  <2> QED
    BY <2>2, <2>3, <2>4
<1>2. OnRobot(parent, robot)
  BY DEF CreateDeviceV2
<1>3. \A d \in DOMAIN devices : OnRobot(devices[d].parent, devices[d].robot)
  BY DEF ContainmentIsForest
<1>4. id # None
  BY NoneAssumption
<1>5. ASSUME NEW d \in DOMAIN devices' PROVE OnRobot(devices[d].parent, devices[d].robot)'
  <2>1. \A x, y : OnRobot(x, y) => x = None \/ (x \in DOMAIN devices' /\ devices'[x].robot = y)
    BY <1>1 DEF OnRobot
  <2>2. OnRobot(devices'[d].parent, devices'[d].robot)
    BY <1>1, <1>2, <1>3
  <2>3. devices'[d].parent = None
          \/ (devices'[d].parent \in DOMAIN devices' /\ devices'[devices'[d].parent].robot = devices'[d].robot)
    BY <2>1, <2>2
  <2> QED
    BY <2>3 DEF OnRobot
<1>6. \A x, y : OnRobot(x, y) => x # id
  BY <1>1, <1>4 DEF OnRobot
<1>7. parent # id /\ \A d \in DOMAIN devices : devices[d].parent # id
  BY <1>2, <1>3, <1>6
<1>8. ASSUME NEW group \in (SUBSET DOMAIN devices') \ {{}}
      PROVE  \E d \in group : devices'[d].parent \notin group
  <2>1. CASE group \ {id} = {}
    <3>1. id \in group /\ \A x \in group : x = id
      BY <2>1
    <3> QED
      BY <1>1, <1>7, <3>1
  <2>2. CASE group \ {id} # {}
    <3>1. group \ {id} \in (SUBSET DOMAIN devices) \ {{}}
      BY <1>1, <2>2
    <3>2. PICK d \in group \ {id} : devices[d].parent \notin group \ {id}
      BY <3>1 DEF ContainmentIsForest
    <3>3. d \in DOMAIN devices
      BY <3>1
    <3> QED
      BY <1>1, <1>7, <3>2, <3>3
  <2> QED
    BY <2>1, <2>2
<1> QED
  BY <1>5, <1>8 DEF ContainmentIsForest

\* No device is ever its own ancestor, and parents are on the robot of their
\* children: devices never change, and a parent exists before its child.
THEOREM Containment == Spec => []ContainmentIsForest
<1>1. Init => ContainmentIsForest
  <2> SUFFICES ASSUME Init PROVE ContainmentIsForest
    OBVIOUS
  <2>1. DOMAIN devices = {}
    BY DEF Init, EmptyTable
  <2> QED
    BY <2>1 DEF ContainmentIsForest
<1>2. TypeOK /\ ContainmentIsForest /\ [Next]_registryVars => ContainmentIsForest'
  <2> SUFFICES ASSUME TypeOK, ContainmentIsForest, [Next]_registryVars
               PROVE  ContainmentIsForest'
    OBVIOUS
  <2>1. CASE UNCHANGED devices
    BY <2>1 DEF ContainmentIsForest, OnRobot
  <2>2. ASSUME NEW id \in Devices, NEW robot \in Robots, NEW parent \in Devices \cup {None},
               NEW refs, CreateDeviceV2(id, robot, parent, refs)
        PROVE  ContainmentIsForest'
    BY <2>2, NewDeviceKeepsForest
  <2> QED
    BY <2>1, <2>2 DEF Next, CreateRobot, CreateRuntime, CreateSession, CreateTask,
      CreateRunV2, registryVars
<1> QED
  BY <1>1, <1>2, RegistryTyping, PTL DEF Spec

=============================================================================
