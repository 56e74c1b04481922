\* One client sends a 30-bit shift (4 bytes) to either user-space shift loop.
\* XVC 1.0 asks for exactly 30 TCK cycles.
CONSTANTS
  a = a
  b = b
  Clients <- MCClients
  Builds = {"xapp1251", "zynqmp_uio"}
  Lens = {30}
  MaxCmds = 1
  IntWidth = 16
SPECIFICATION Spec
INVARIANT ClockedExact
CHECK_DEADLOCK FALSE
