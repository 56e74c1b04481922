\* The three builds; two clients, two commands each, lengths around the
\* 32-bit word and byte boundaries and one over the 2048-byte buffer.
\* The server may stop in select() with no client left, so deadlock is not
\* checked.
CONSTANTS
  a = a
  b = b
  Clients <- MCClients
  Builds = {"xapp1251", "zynqmp_uio", "zynqmp_ioctl"}
  Lens = {0, 9, 20, 30, 33, 8193}
  MaxCmds = 2
  IntWidth = 16
SPECIFICATION Spec
INVARIANT TypeOK ChunksTile ClockedInVector
CHECK_DEADLOCK FALSE
