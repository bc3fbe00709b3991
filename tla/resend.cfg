SPECIFICATION Spec
CONSTANTS
  Runtimes = {r1}
  SessionIds = {s1, s2}
  Starts = {p1}
  NoStart = NoStart
  ReportTimes = {a}
  MaxSeq = 2
  MaxClock = 3
  MaxLag = 0
INVARIANT SameHeartbeatAgainSucceeds
