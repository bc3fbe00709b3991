SPECIFICATION Spec
CONSTANTS
  Files <- DatabaseFiles
  MaxDeaths = 0
  Devices = {d1}
  Tasks = {}
  RunIds = {}
  Handlers = {h1}
  MaxSeq = 1
  MaxClock = 1
  ClientTimes = {0}
  Interval = 1
  Modulus = 1024
INVARIANT ServingMeansMigrated
