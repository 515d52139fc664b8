SPECIFICATION Spec
CONSTANTS
  Servers = {s1}
  Circuits = 2
  MaxFaults = 1
PROPERTY EveryBootServes
CHECK_DEADLOCK FALSE
