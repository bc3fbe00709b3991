---------------------------- MODULE MCV1Platform ----------------------------
(* Small instances of V1Platform for TLC.                                  *)
EXTENDS V1Platform

NewFile == [t \in Tables |-> {}]

\* Written before the Edge Agent, and before v2: no host columns of devices,
\* no session_id and metrics of heartbeats.
FileBeforeAgent ==
  [t \in Tables |-> IF t \in {"devices", "heartbeats", "tasks", "runs", "alerts", "versions"}
                    THEN {"core"} ELSE {}]

\* Written with the Edge Agent, before v2.
FileBeforeV2 ==
  [FileBeforeAgent EXCEPT !["devices"] = {"core", "host"},
                          !["heartbeats"] = {"core", "session_id", "metrics"}]

DatabaseFiles == {NewFile, FileBeforeAgent, FileBeforeV2}
=============================================================================
