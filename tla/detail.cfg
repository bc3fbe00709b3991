SPECIFICATION QuerySpec
CONSTANTS
  Runtimes = {r1}
  SessionIds = {s1, s2}
  Starts = {p1}
  NoStart = NoStart
  ReportTimes = {a}
  MaxSeq = 1
  MaxClock = 5
  MaxLag = 0
  Readers = {}
  Interval = 1
  Modulus = 1024
INVARIANT DetailAgreesWithLiveness
