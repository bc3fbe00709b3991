SPECIFICATION FairSpec
CONSTANTS
  Files <- DatabaseFiles
  MaxDeaths = 2
  Devices = {d1}
  Tasks = {t1}
  RunIds = {x1}
  Handlers = {h1, h2}
  MaxSeq = 2
  MaxClock = 3
  ClientTimes = {0, 4}
  Interval = 1
  Modulus = 1024
INVARIANTS TypeOK LastSeenIsOfNewestRow ShownBeatIsNotOlder
           ServingMeansUpgraded
PROPERTIES ImplementsDeviceLog StartedServes
