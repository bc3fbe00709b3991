--------------------------- MODULE SessionLedger ---------------------------
(***************************************************************************)
(* What the platform promises about the process generations of a Runtime,  *)
(* without tables, clocks or HTTP: a session id is used once, at most one  *)
(* session leads a Runtime, and the sequence numbers a session has had     *)
(* accepted only ever grow.  RuntimeSessions implements this module.       *)
(***************************************************************************)
EXTENDS Integers

CONSTANTS
  Runtimes,     \* runtime ids
  SessionIds,   \* session ids a producer may present
  Seqs          \* sequence numbers a producer may present, a set of numbers

VARIABLES
  leader,       \* leader[r]: {} or {the session that speaks for r}
  used,         \* used[r]: the session ids r has ever started
  beats         \* beats[r][s]: the sequence numbers accepted from s

ledgerVars == <<leader, used, beats>>

LedgerInit ==
  /\ leader = [r \in Runtimes |-> {}]
  /\ used = [r \in Runtimes |-> {}]
  /\ beats = [r \in Runtimes |-> [s \in SessionIds |-> {}]]

\* A new generation takes over; its id must never have been used before.
Start(r, s) ==
  /\ s \notin used[r]
  /\ leader' = [leader EXCEPT ![r] = {s}]
  /\ used' = [used EXCEPT ![r] = @ \cup {s}]
  /\ UNCHANGED beats

\* The generation that leads says goodbye; nobody leads until the next Start.
Stop(r, s) ==
  /\ leader[r] = {s}
  /\ leader' = [leader EXCEPT ![r] = {}]
  /\ UNCHANGED <<used, beats>>

\* A started session, leading or not, has a higher sequence number accepted.
Beat(r, s, q) ==
  /\ s \in used[r]
  /\ \A p \in beats[r][s] : p < q
  /\ beats' = [beats EXCEPT ![r][s] = @ \cup {q}]
  /\ UNCHANGED <<leader, used>>

LedgerNext ==
  \E r \in Runtimes, s \in SessionIds :
    \/ Start(r, s)
    \/ Stop(r, s)
    \/ \E q \in Seqs : Beat(r, s, q)

LedgerSpec == LedgerInit /\ [][LedgerNext]_ledgerVars

=============================================================================
