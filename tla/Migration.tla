----------------------------- MODULE Migration -----------------------------
(***************************************************************************)
(* The start of the platform: store.Open executes schema.sql statement by  *)
(* statement, each committed by itself, on whatever database file it       *)
(* finds, and the server listens only when all of them have succeeded.     *)
(* The process may die between any two statements, or one of them may      *)
(* fail, which ends the process too; the next start finds the file as it   *)
(* was left.                                                               *)
(*                                                                         *)
(* A table is the set of its columns, {} when it does not exist.  Columns  *)
(* that always came together are one: "core" are those a table had from    *)
(* the first; "host" is hostname, arch and os of a device, which came with *)
(* the Edge Agent, as did session_id and metrics of a heartbeat.           *)
(***************************************************************************)
EXTENDS Integers, Sequences

CONSTANTS
  Files,        \* the contents of the files the platform may be started on
  MaxDeaths     \* bound on the number of times the process dies

Tables == {"devices", "heartbeats", "tasks", "runs", "alerts", "versions", "robots",
           "devices_v2", "runtimes", "runtime_sessions", "runtime_heartbeats",
           "external_id_mappings", "runs_v2"}
Columns == {"core", "host", "session_id", "metrics"}

Create(t, more) == [op |-> "create", table |-> t, columns |-> {"core"} \cup more]
AddColumn(t, c) == [op |-> "alter", table |-> t, columns |-> {c}]

\* Mutant: the new column is written into CREATE TABLE only.
StatementsWithoutAlter ==
  <<Create("devices", {"host"}),
    Create("heartbeats", {"session_id", "metrics"}),
    AddColumn("heartbeats", "session_id"),
    Create("tasks", {}), Create("runs", {}), Create("alerts", {}), Create("versions", {}),
    Create("robots", {}), Create("devices_v2", {}), Create("runtimes", {}),
    Create("runtime_sessions", {}), Create("runtime_heartbeats", {}),
    Create("external_id_mappings", {}), Create("runs_v2", {})>>

\* schema.sql, split at the semicolons.
Statements ==
  <<Create("devices", {"host"}),
    Create("heartbeats", {"session_id", "metrics"}),
    AddColumn("heartbeats", "session_id"), AddColumn("heartbeats", "metrics"),
    Create("tasks", {}), Create("runs", {}), Create("alerts", {}), Create("versions", {}),
    Create("robots", {}), Create("devices_v2", {}), Create("runtimes", {}),
    Create("runtime_sessions", {}), Create("runtime_heartbeats", {}),
    Create("external_id_mappings", {}), Create("runs_v2", {})>>

\* The columns that the SQL of internal/store names; nothing reads or writes
\* the tables alerts and versions.
Named ==
  [t \in Tables |-> IF t \in {"alerts", "versions"} THEN {}
                    ELSE IF t = "devices" THEN {"core", "host"}
                    ELSE IF t = "heartbeats" THEN {"core", "session_id", "metrics"}
                    ELSE {"core"}]

\* A file of any release, or a new one: the later columns may be missing from
\* the tables it has.
Readable(f) ==
  /\ f \in [Tables -> SUBSET Columns]
  /\ \A t \in Tables : f[t] = {} \/ "core" \in f[t]

ASSUME FilesAssumption == \A f \in Files : Readable(f)
ASSUME DeathsAssumption == MaxDeaths \in Nat

VARIABLES
  file,         \* the tables of the database file
  boot,         \* 0: no process; else the statement to execute next
  deaths        \* how often a process has died

bootVars == <<file, boot, deaths>>

Listening == Len(Statements) + 1
Serving == boot = Listening

\* The queries on a table compile; otherwise they fail with "no such column".
Usable(t) == Named[t] \subseteq file[t]

BootTypeOK ==
  /\ file \in [Tables -> SUBSET Columns]
  /\ boot \in 0 .. Listening
  /\ deaths \in 0 .. MaxDeaths

BootInit == file \in Files /\ boot = 0 /\ deaths = 0

Start ==
  /\ boot = 0
  /\ boot' = 1
  /\ UNCHANGED <<file, deaths>>

\* IF NOT EXISTS leaves a table alone; a duplicate column is left alone too.
Executed(st) ==
  [file EXCEPT ![st.table] = IF st.op = "alter" \/ @ = {} THEN @ \cup st.columns ELSE @]

\* Mutant: "duplicate column name" is an error like any other.
RunStatementStrictly ==
  /\ boot \in 1 .. Len(Statements)
  /\ LET st == Statements[boot]
     IN  IF st.op = "alter" /\ st.columns \subseteq file[st.table]
         THEN boot' = 0 /\ UNCHANGED file
         ELSE boot' = boot + 1 /\ file' = Executed(st)
  /\ UNCHANGED deaths

RunStatement ==
  /\ boot \in 1 .. Len(Statements)
  /\ file' = Executed(Statements[boot])
  /\ boot' = boot + 1
  /\ UNCHANGED deaths

\* The process is killed, or a statement fails and log.Fatalf ends it.
Die ==
  /\ boot # 0
  /\ deaths < MaxDeaths
  /\ boot' = 0
  /\ deaths' = deaths + 1
  /\ UNCHANGED file

BootNext == Start \/ RunStatement \/ Die
BootSpec == BootInit /\ [][BootNext]_bootVars

-----------------------------------------------------------------------------
\* When the platform listens, the file is upgraded as far as schema.sql can:
\* whichever release wrote it and wherever earlier starts broke off, no table
\* and no column is missing but the host columns of a devices table without them.
ServingMeansUpgraded == Serving => \A t \in Tables : Named[t] \ {"host"} \subseteq file[t]

\* What the comment on the ALTERs says (internal/store/schema.sql:28): they
\* migrate an existing file, so that every column the queries name is there.
ServingMeansMigrated == Serving => \A t \in Tables : Usable(t)

\* A process that is started and does not die comes to serve: what an earlier
\* start has already done to the file never stops a later one.
StartedServes ==
  \A n \in 0 .. MaxDeaths :
    (boot # 0 /\ deaths = n) ~> (Serving \/ deaths > n)

=============================================================================
