SPECIFICATION FairSpec
CONSTANTS
  Processes = {a1, a2}
  MaxSeq = 2
CHECK_DEADLOCK FALSE
INVARIANTS TypeOK RefusedByAnother
PROPERTIES GoodbyeIsLast ImplementsDeviceLog ToldToStopStops
