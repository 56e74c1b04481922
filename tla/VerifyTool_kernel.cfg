\* The verification tool's 32-bit bypass test against the ioctl, while
\* other processes issue shift and bypass ioctls of lengths around the
\* 32-bit word, an invalid opcode, and kmalloc failures; the bridge
\* finishes every shift within the poll budget and no user copy faults.
\* vb starts at 0 or at a stack value past the test length.
CONSTANTS
  Width <- MCWidth
  Lens = {0, 5, 32, 40}
  Opcodes = {1, 2, 3}
  PollLimit = 2
  MaxIoctls = 3
  HwSlow = FALSE
  Faults = FALSE
  TestLens <- MCTestLens
  PatLen = 15
  VbStart = {0, 255}
SPECIFICATION ToolSpec
INVARIANT ClockedExact ShiftMode TdoFresh InBounds ToolSound FillInBuffers
PROPERTY IoctlReturns
\* The driver may wait for an ioctl that never comes, and the tool ends.
CHECK_DEADLOCK FALSE
