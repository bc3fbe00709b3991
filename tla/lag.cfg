SPECIFICATION Spec
CONSTANTS
  Runtimes = {r1}
  SessionIds = {s1, s2}
  Starts = {p1}
  NoStart = NoStart
  ReportTimes = {a}
  MaxSeq = 2
  MaxClock = 3
  MaxLag = 1
INVARIANTS TypeOK AtMostOneCurrent OneRowPerSeq LastHbOnRecord
           ReceptionFollowsSeq CurrentIsNewest
PROPERTIES NoResurrection AuditGrowsBySeq
           OnlyNewBeatMovesLiveness ImplementsLedger
SYMMETRY Symmetry
