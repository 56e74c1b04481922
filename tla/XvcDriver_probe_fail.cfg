\* device_create may fail.
CONSTANTS
  FaultPoints = {"device"}
  MaxLoads = 2
  MaxProbes = 3
  MaxOpens = 1
  MaxIoctls = 2
SPECIFICATION Spec
INVARIANT ProbeHonest
\* The module may stay loaded, or unloaded, with nothing more to do.
CHECK_DEADLOCK FALSE
