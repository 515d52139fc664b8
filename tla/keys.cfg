SPECIFICATION Spec
CONSTANTS
  Servers = {s1, s2}
  Circuits = 2
  MaxFaults = 2
INVARIANT ServedKeysDeployed
PROPERTY WholeFilesServe
CHECK_DEADLOCK FALSE
