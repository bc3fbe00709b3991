-------------------------- MODULE MigrationProofs --------------------------
(***************************************************************************)
(* Whatever file the platform is started on, and however often an earlier  *)
(* start broke off, the file is upgraded as far as schema.sql can when the *)
(* platform listens; which files that leaves incomplete is told exactly.   *)
(***************************************************************************)
EXTENDS Migration, TLAPS

\* The columns schema.sql can add to a table that exists already.
Added == [t \in Tables |-> IF t = "heartbeats" THEN {"session_id", "metrics"} ELSE {}]

\* What a statement is for is in the file.
Done(st) == IF st.op = "create" THEN file[st.table] # {} ELSE st.columns \subseteq file[st.table]

\* The inductive invariant: the statements before the current one are done, and
\* the file is still one that the remaining ones can complete.
BootInv ==
  /\ BootTypeOK
  /\ Readable(file)
  /\ \A i \in 1 .. Len(Statements) : i < boot => Done(Statements[i])

\* What matters of schema.sql: its statements name known tables and columns, a
\* CREATE has the core, an ALTER comes after the CREATE of its table, and every
\* column named by a query is core, added by an ALTER, or a host column, which
\* the CREATE of devices has and no ALTER.
LEMMA Script ==
  /\ Len(Statements) \in Nat
  /\ \A i \in 1 .. Len(Statements) :
       LET st == Statements[i]
       IN  /\ st.op \in {"create", "alter"}
           /\ st.table \in Tables
           /\ st.columns \subseteq Columns
           /\ st.op = "create" => "core" \in st.columns
           /\ st.table = "devices" => st.op = "create" /\ "host" \in st.columns
           /\ st.op = "alter" => \E j \in 1 .. Len(Statements) :
                                   /\ j < i
                                   /\ Statements[j].op = "create"
                                   /\ Statements[j].table = st.table
  /\ \A t \in Tables : Named[t] # {} =>
       \E i \in 1 .. Len(Statements) :
         Statements[i].op = "create" /\ Statements[i].table = t
  /\ \A t \in Tables : \A c \in Added[t] :
       \E i \in 1 .. Len(Statements) :
         Statements[i].op = "alter" /\ Statements[i].table = t /\ c \in Statements[i].columns
  /\ \A t \in Tables : Named[t] \ {"host"} \subseteq {"core"} \cup Added[t]
  /\ "host" \in Named["devices"] /\ \A t \in Tables : t # "devices" => "host" \notin Named[t]
  <1>1. /\ Len(Statements) = 15
        /\ Statements[1] = Create("devices", {"host"})
        /\ Statements[2] = Create("heartbeats", {"session_id", "metrics"})
        /\ Statements[3] = AddColumn("heartbeats", "session_id")
        /\ Statements[4] = AddColumn("heartbeats", "metrics")
        /\ Statements[5] = Create("tasks", {})
        /\ Statements[6] = Create("runs", {})
        /\ Statements[7] = Create("alerts", {})
        /\ Statements[8] = Create("versions", {})
        /\ Statements[9] = Create("robots", {})
        /\ Statements[10] = Create("devices_v2", {})
        /\ Statements[11] = Create("runtimes", {})
        /\ Statements[12] = Create("runtime_sessions", {})
        /\ Statements[13] = Create("runtime_heartbeats", {})
        /\ Statements[14] = Create("external_id_mappings", {})
        /\ Statements[15] = Create("runs_v2", {})
    BY DEF Statements
  <1>2. \A i \in 1 .. 15 : i = 1 \/ i = 2 \/ i = 3 \/ i = 4 \/ i = 5 \/ i = 6 \/ i = 7 \/ i = 8
                           \/ i = 9 \/ i = 10 \/ i = 11 \/ i = 12 \/ i = 13 \/ i = 14 \/ i = 15
    OBVIOUS
  <1> HIDE DEF Statements
  <1>3. /\ \A i \in (1 .. 15) \ {3, 4} : Statements[i].op = "create"
        /\ \A i \in {3, 4} : Statements[i].op = "alter" /\ Statements[i].table = "heartbeats"
    BY <1>1, <1>2 DEF Create, AddColumn
  <1>4. \A i \in 1 .. 15 : Statements[i].table \in Tables /\ Statements[i].columns \subseteq Columns
    BY <1>1, <1>2 DEF Create, AddColumn, Tables, Columns
  <1>5. \A i \in (1 .. 15) \ {3, 4} :
          /\ "core" \in Statements[i].columns
          /\ Statements[i].table = "devices" => "host" \in Statements[i].columns
    BY <1>1, <1>2 DEF Create
  <1>6. \A t \in Tables :
          \E i \in (1 .. 15) \ {3, 4} : Statements[i].table = t
    BY <1>1 DEF Create, Tables
  <1>7. \A t \in Tables : \A c \in Added[t] :
          t = "heartbeats" /\ (c \in Statements[3].columns \/ c \in Statements[4].columns)
    BY <1>1 DEF AddColumn, Added
  <1>8. 2 \in 1 .. 15 /\ Statements[2].op = "create" /\ Statements[2].table = "heartbeats"
    BY <1>1 DEF Create
  <1>9. /\ \A t \in Tables : Named[t] \ {"host"} \subseteq {"core"} \cup Added[t]
        /\ "host" \in Named["devices"]
        /\ \A t \in Tables : t # "devices" => "host" \notin Named[t]
    BY DEF Named, Added, Tables
  <1> QED
    BY <1>1, <1>3, <1>4, <1>5, <1>6, <1>7, <1>8, <1>9

\* Any file the platform may find satisfies it before the first start.
LEMMA InitBootInv == BootInit => BootInv
  <1> SUFFICES ASSUME BootInit PROVE BootInv
    OBVIOUS
  <1>1. Readable(file) /\ file \in [Tables -> SUBSET Columns]
    BY FilesAssumption DEF BootInit, Readable
  <1>2. boot = 0 /\ deaths = 0 /\ Len(Statements) \in Nat
    BY Script DEF BootInit
  <1> HIDE DEF Statements
  <1> QED
    BY <1>1, <1>2, DeathsAssumption DEF BootInv, BootTypeOK, Listening

\* Starting, executing the next statement and dying all keep it.
LEMMA StepBootInv == BootInv /\ [BootNext]_bootVars => BootInv'
  <1> SUFFICES ASSUME BootInv, [BootNext]_bootVars PROVE BootInv'
    OBVIOUS
  <1> HIDE DEF Statements, Tables, Columns, Named, Added
  <1> Len(Statements) \in Nat
    BY Script
  <1> USE DEF BootInv
  <1>1. CASE Start
    BY <1>1 DEF Start, BootTypeOK, Listening, Done, Readable
  <1>2. CASE Die
    BY <1>2, DeathsAssumption DEF Die, BootTypeOK, Listening, Done, Readable
  <1>3. CASE UNCHANGED bootVars
    BY <1>3 DEF bootVars, BootTypeOK, Done, Readable
  <1>4. CASE RunStatement
    <2>0. PICK st : st = Statements[boot]
      OBVIOUS
    <2>1. boot \in 1 .. Len(Statements) /\ boot' = boot + 1 /\ deaths' = deaths
          /\ file' = Executed(st)
      BY <1>4, <2>0 DEF RunStatement
    <2>2. /\ st.op \in {"create", "alter"} /\ st.table \in Tables
          /\ st.columns \subseteq Columns
          /\ st.op = "create" => "core" \in st.columns
      BY <2>0, <2>1, Script
    <2>3. st.op = "alter" => file[st.table] # {}
      BY <2>0, <2>1, Script DEF Done
    <2>4. file \in [Tables -> SUBSET Columns]
      BY DEF BootTypeOK
    <2>5. /\ \A t \in Tables : t # st.table => file'[t] = file[t]
          /\ file'[st.table] = IF st.op = "alter" \/ file[st.table] = {}
                              THEN file[st.table] \cup st.columns ELSE file[st.table]
      BY <2>1, <2>2, <2>4 DEF Executed
    <2>6. file' \in [Tables -> SUBSET Columns]
      BY <2>1, <2>2, <2>4 DEF Executed
    <2>7. BootTypeOK'
      BY <2>1, <2>6 DEF BootTypeOK, Listening
    <2>8. Readable(file)'
      BY <2>2, <2>3, <2>5, <2>6 DEF Readable
    <2>9. Done(st)'
      BY <2>2, <2>5 DEF Done
    <2>10. ASSUME NEW i \in 1 .. Len(Statements), i < boot PROVE Done(Statements[i])'
      <3>1. Done(Statements[i]) /\ Statements[i].table \in Tables
        BY <2>10, Script
      <3> QED
        BY <2>5, <3>1 DEF Done
    <2>11. ASSUME NEW i \in 1 .. Len(Statements), i < boot' PROVE Done(Statements[i])'
      <3>1. CASE i < boot
        BY <2>10, <3>1
      <3>2. CASE i = boot
        BY <2>0, <2>9, <3>2
      <3> QED
        BY <2>1, <2>11, <3>1, <3>2
    <2> QED
      BY <2>7, <2>8, <2>11
  <1> QED
    BY <1>1, <1>2, <1>3, <1>4 DEF BootNext

\* With every statement done, every table is there and every column added.
LEMMA DoneMeansUpgraded == BootInv => ServingMeansUpgraded
  <1> SUFFICES ASSUME BootInv, Serving, NEW t \in Tables PROVE Named[t] \ {"host"} \subseteq file[t]
    BY DEF ServingMeansUpgraded
  <1> HIDE DEF Statements, Tables, Columns, Named, Added
  <1>1. Len(Statements) \in Nat /\ \A i \in 1 .. Len(Statements) : Done(Statements[i])
    BY Script DEF BootInv, Serving, Listening
  <1>2. Added[t] \subseteq file[t]
    BY <1>1, Script DEF Done
  <1>3. Named[t] # {} => file[t] # {}
    BY <1>1, Script DEF Done
  <1>4. file[t] = {} \/ "core" \in file[t]
    BY DEF BootInv, Readable
  <1>5. Named[t] \ {"host"} \subseteq {"core"} \cup Added[t]
    BY Script
  <1> QED
    BY <1>2, <1>3, <1>4, <1>5

\* BootInv holds in every state of a start.
LEMMA BootInvariant == BootSpec => []BootInv
  <1>1. BootInv /\ [BootNext]_bootVars => BootInv'
    BY StepBootInv
  <1> QED
    BY <1>1, InitBootInv, PTL DEF BootSpec

\* When the platform listens the file is upgraded but for the host columns,
\* whichever release wrote it and wherever earlier starts broke off.
THEOREM StartsUpgrade == BootSpec => []ServingMeansUpgraded
  BY BootInvariant, DoneMeansUpgraded, PTL

\* A devices table gets the host columns with its CREATE or never.
HasHost == file["devices"] = {} \/ "host" \in file["devices"]
LacksHost == file["devices"] # {} /\ "host" \notin file["devices"]

\* No step of a start changes which of the two it is.
LEMMA HostStays ==
  ASSUME BootInv, [BootNext]_bootVars
  PROVE  (HasHost => HasHost') /\ (LacksHost => LacksHost')
  <1>1. CASE UNCHANGED file
    BY <1>1 DEF HasHost, LacksHost
  <1>2. CASE RunStatement
    <2> HIDE DEF Statements, Tables, Columns
    <2>1. PICK st : st = Statements[boot]
      OBVIOUS
    <2>2. /\ st.table = "devices" => st.op = "create" /\ "host" \in st.columns
          /\ st.op \in {"create", "alter"}
      BY <1>2, <2>1, Script DEF RunStatement
    <2>3. "devices" \in DOMAIN file
      BY DEF BootInv, BootTypeOK, Tables
    <2>4. /\ st.table # "devices" => file'["devices"] = file["devices"]
          /\ st.table = "devices" =>
               file'["devices"] = IF file["devices"] = {} THEN st.columns ELSE file["devices"]
      <3>1. file' = [file EXCEPT ![st.table] =
                       IF st.op = "alter" \/ @ = {} THEN @ \cup st.columns ELSE @]
        BY <1>2, <2>1 DEF RunStatement, Executed
      <3> QED
        BY <2>2, <2>3, <3>1
    <2> QED
      BY <2>2, <2>4 DEF HasHost, LacksHost
  <1> QED
    BY <1>1, <1>2 DEF BootNext, Start, Die, bootVars

\* On new files and on files whose devices have the host columns, nothing that
\* a query names is missing when the platform listens.
THEOREM FilesWithHostAreMigrated ==
  ASSUME \A f \in Files : f["devices"] = {} \/ "host" \in f["devices"]
  PROVE  BootSpec => []ServingMeansMigrated
  <1>1. BootInit => HasHost
    BY DEF BootInit, HasHost
  <1>2. BootInv /\ HasHost /\ [BootNext]_bootVars => HasHost'
    BY HostStays
  <1>3. BootInv /\ HasHost => ServingMeansMigrated
    <2> SUFFICES ASSUME BootInv, HasHost, Serving, NEW t \in Tables PROVE Usable(t)
      BY DEF ServingMeansMigrated
    <2> HIDE DEF Statements, Tables, Columns, Named
    <2>1. Named[t] \ {"host"} \subseteq file[t]
      BY DoneMeansUpgraded DEF ServingMeansUpgraded
    <2>2. t = "devices" => "host" \in file[t]
      <3>1. t = "devices" => file[t] # {}
        <4>1. Len(Statements) \in Nat /\ \A i \in 1 .. Len(Statements) : Done(Statements[i])
          BY Script DEF BootInv, Serving, Listening
        <4> QED
          BY <4>1, Script DEF Done
      <3> QED
        BY <3>1 DEF HasHost
    <2> QED
      BY <2>1, <2>2, Script DEF Usable
  <1> QED
    BY <1>1, <1>2, <1>3, BootInvariant, PTL DEF BootSpec

\* On a file whose devices lack the host columns no start ever adds them: the
\* platform is never able to answer a query that names them.
THEOREM OldDevicesStayUnusable ==
  ASSUME \A f \in Files : f["devices"] # {} /\ "host" \notin f["devices"]
  PROVE  BootSpec => []~Usable("devices")
  <1>1. BootInit => LacksHost
    BY DEF BootInit, LacksHost
  <1>2. BootInv /\ LacksHost /\ [BootNext]_bootVars => LacksHost'
    BY HostStays
  <1>3. LacksHost => ~Usable("devices")
    <2> HIDE DEF Named
    <2> QED
      BY Script DEF LacksHost, Usable
  <1> QED
    BY <1>1, <1>2, <1>3, BootInvariant, PTL DEF BootSpec

=============================================================================
