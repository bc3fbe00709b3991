SPECIFICATION Spec
CONSTANTS
  Runtimes = {r1}
  SessionIds = {s1}
  Starts = {p1}
  NoStart = NoStart
  ReportTimes = {a}
  MaxSeq = 2
  MaxClock = 2
  Handlers = {h1, h2}
  NoOne = NoOne
INVARIANT LastHbIsLatestReceived
