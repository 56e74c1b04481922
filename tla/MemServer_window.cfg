\* A hub window of 32 bytes at 0xA0 in an 8-bit size_t; reads and writes of
\* one or two words at its start and end, and of num_bytes = 2^W - 8.
CONSTANTS
  W = 8
  HubAddr = 160
  HubSize = 32
  Addrs = {160, 184}
  Sizes = {4, 8, 248}
  MaxConns = 1
  MaxReqs = 2
  MwrMax = 24
  BufAddr = 64
  Failures = FALSE
SPECIFICATION Spec
INVARIANT AccessInWindow
\* The server stops when accept() fails or open_port exits.
CHECK_DEADLOCK FALSE
