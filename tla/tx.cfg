SPECIFICATION Spec
CONSTANTS
  Runtimes = {r1}
  SessionIds = {s1, s2}
  Starts = {p1}
  NoStart = NoStart
  ReportTimes = {a}
  MaxSeq = 1
  MaxClock = 2
  Handlers = {h1, h2}
  NoOne = NoOne
SYMMETRY Symmetry
INVARIANTS TypeOK WriterDecisionHolds
PROPERTY ImplementsAtomic
