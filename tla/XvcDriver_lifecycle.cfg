\* Two loads, three probes (register, bind after unbind), a file opened
\* and ioctls, every kernel call succeeding.
CONSTANTS
  FaultPoints = {}
  MaxLoads = 2
  MaxProbes = 3
  MaxOpens = 1
  MaxIoctls = 2
SPECIFICATION Spec
INVARIANT  ProbeHonest CleanupOnce NoLeak
\* The module may stay loaded, or unloaded, with nothing more to do.
CHECK_DEADLOCK FALSE
