SPECIFICATION Spec
CONSTANTS
  Robots = {rob1, rob2}
  Devices = {dev1, dev2, dev3}
  Runtimes = {rt1, rt2}
  SessionIds = {s1}
  Tasks = {t1}
  Runs = {run1}
  Namespaces = {n1}
  Values = {v1}
  None = None
SYMMETRY Symmetry
CHECK_DEADLOCK FALSE
INVARIANTS TypeOK RefNamesOneObject ContainmentIsForest HostsAreOnRobot RunsAreAttributable RefsHaveObjects
