----------------------------- MODULE JtagKernel -----------------------------
(***************************************************************************)
(* The XDMA_IOCXVC ioctl of the zynqMP kernel driver:                      *)
(* xil_xvc_ioctl and xil_xvc_shift_bits in                                 *)
(* src/jtag/zynqMP/src/driver/xvc_driver.c, against the JTAG register      *)
(* block of the debug bridge.                                              *)
(*                                                                         *)
(* char_ctrl_ioctl holds the inode spinlock across the call, so ioctls run *)
(* one after another; the debug bridge runs concurrently with the driver.  *)
(* The bridge latches LENGTH and the bypass bit when CONTROL bit 0 is      *)
(* written 1 while it is idle, clears bit 0 when the shift is done, and    *)
(* ignores the bit while it is busy.  Vector bits are not modelled: a      *)
(* chunk is its bit count and its byte range in the kernel buffers.        *)
(*                                                                         *)
(* num_bits is a u32 and num_bytes = (num_bits + 7) / 8 is computed in     *)
(* u32 arithmetic; Width is the register width of the model (32 in the    *)
(* code), small enough for TLC while the wrap at 2^Width - 7 is kept.      *)
(***************************************************************************)
EXTENDS Integers, Sequences, FiniteSets

CONSTANTS
  Width,         \* width of u32 in the model
  Lens,          \* xvc_obj.length values user space passes
  Opcodes,       \* xvc_obj.opcode values user space passes
  PollLimit,     \* int count = 100 in xil_xvc_shift_bits
  MaxIoctls,     \* ioctls issued in one behaviour
  HwSlow,        \* TRUE: a shift may outlast PollLimit polls
  Faults         \* TRUE: copy_from_user / copy_to_user may fault

ASSUME Width \in Nat /\ Lens \subseteq 0..(2^Width - 1)
ASSUME PollLimit \in Nat \ {0} /\ MaxIoctls \in Nat
ASSUME HwSlow \in BOOLEAN /\ Faults \in BOOLEAN

U32(x) == x % (2^Width)

ETIMEDOUT == -110
ENOMEM == -12
EFAULT == -14

(* Outcomes of copy_from_user and copy_to_user. *)
CopyOk == IF Faults THEN BOOLEAN ELSE {TRUE}

VARIABLES
  dpc,        \* driver: "idle", "chunk", "poll", "tdo", "copyout"
  op, nbits,  \* xvc_obj.opcode, num_bits of the current ioctl
  numBytes,   \* num_bytes
  cb,         \* current_bit
  chunk,      \* [bits, bytes] of the chunk being shifted
  count,      \* poll budget left
  ret,        \* value the last ioctl returned
  serial,     \* ioctls issued
  lenReg,     \* LENGTH register
  bypassReg,  \* CONTROL bit 1
  busy,       \* CONTROL bit 0: shift in progress
  hwLen,      \* bits and
  hwBypass,   \*   bypass bit latched by the running shift
  owner,      \* <<ioctl, current_bit>> of the chunk that started it
  lastDone,   \* owner of the last completed shift
  clocked,    \* TCK cycles completed since the current ioctl began
  modes       \* bypass bits of the shifts completed in the current ioctl

NoOwner == <<0, -1>>

drv == <<dpc, op, nbits, numBytes, cb, chunk, count, ret, serial>>
hw  == <<lenReg, bypassReg, busy, hwLen, hwBypass, owner, lastDone, clocked, modes>>
vars == <<drv, hw>>

Init ==
  /\ dpc = "idle" /\ op = 0 /\ nbits = 0 /\ numBytes = 0 /\ cb = 0
  /\ chunk = [bits |-> 0, bytes |-> 0] /\ count = 0 /\ ret = 0 /\ serial = 0
  /\ lenReg \in {0, 1, 32} /\ bypassReg \in BOOLEAN /\ busy = FALSE
  /\ hwLen = 0 /\ hwBypass = FALSE /\ owner = NoOwner /\ lastDone = NoOwner
  /\ clocked = 0 /\ modes = {}

(***************************************************************************)
(* xil_xvc_ioctl up to the shift loop: copy_from_user of xvc_obj, the      *)
(* opcode check, num_bytes, the three kmallocs and the copies of TMS and   *)
(* TDI, CONTROL = bypass_status, and LENGTH = 32 when num_bits >= 32.      *)
(* A failing copy_from_user returns the count of bytes it did not copy     *)
(* (positive); a failing kmalloc returns -ENOMEM.                          *)
(***************************************************************************)
Return(v) ==
  /\ dpc' = "idle" /\ ret' = v

IoctlEntryBytesTruncated(o, n) ==
  /\ dpc = "idle" /\ serial < MaxIoctls
  /\ serial' = serial + 1 /\ op' = o /\ nbits' = n
  /\ numBytes' = U32(n) \div 8 /\ cb' = 0
  /\ clocked' = 0 /\ modes' = {}
  /\ UNCHANGED <<chunk, count, busy, hwLen, hwBypass, owner, lastDone>>

IoctlEntry(o, n) ==
  /\ dpc = "idle" /\ serial < MaxIoctls
  /\ serial' = serial + 1 /\ op' = o /\ nbits' = n
  /\ numBytes' = U32(n + 7) \div 8 /\ cb' = 0
  /\ clocked' = 0 /\ modes' = {}
  /\ UNCHANGED <<chunk, count, busy, hwLen, hwBypass, owner, lastDone>>

IoctlNoInitialLength(o, n) ==
  LET nb == U32(n + 7) \div 8
  IN  /\ IoctlEntry(o, n)
      /\ \E objOk \in CopyOk, allocOk \in BOOLEAN, bufOk \in CopyOk :
           LET fails == ~objOk \/ o \notin {1, 2} \/ (nb > 0 /\ ~(allocOk /\ bufOk))
               early == CASE ~objOk          -> 1       \* bytes not copied
                          [] o \notin {1, 2} -> 0       \* invalid operation type
                          [] ~allocOk        -> ENOMEM
                          [] OTHER           -> 1
           IN  IF fails
                 THEN Return(early) /\ UNCHANGED <<lenReg, bypassReg>>
                 ELSE /\ bypassReg' = (o = 2)
                      /\ UNCHANGED lenReg
                      /\ dpc' = IF 0 < n THEN "chunk" ELSE "copyout"
                      /\ UNCHANGED ret

Ioctl(o, n) ==
  LET nb == U32(n + 7) \div 8
  IN  /\ IoctlEntry(o, n)
      /\ \E objOk \in CopyOk, allocOk \in BOOLEAN, bufOk \in CopyOk :
           LET fails == ~objOk \/ o \notin {1, 2} \/ (nb > 0 /\ ~(allocOk /\ bufOk))
               early == CASE ~objOk          -> 1       \* bytes not copied
                          [] o \notin {1, 2} -> 0       \* invalid operation type
                          [] ~allocOk        -> ENOMEM
                          [] OTHER           -> 1
           IN  IF fails
                 THEN Return(early) /\ UNCHANGED <<lenReg, bypassReg>>
                 ELSE /\ bypassReg' = (o = 2)
                      /\ lenReg' = IF n >= 32 THEN 32 ELSE lenReg
                      /\ dpc' = IF 0 < n THEN "chunk" ELSE "copyout"
                      /\ UNCHANGED ret

(***************************************************************************)
(* One iteration of the shift loop up to the poll: the remainder sets      *)
(* LENGTH, memcpy of shift_num_bytes from current_bit / 8, and             *)
(* xil_xvc_shift_bits writing TMS, TDI and CONTROL | 1.                    *)
(***************************************************************************)
ChunkBits == IF nbits - cb < 32 THEN nbits - cb ELSE 32

ShiftStartControlOne ==
  LET b == ChunkBits
      len == IF nbits - cb < 32 THEN b ELSE lenReg
  IN  /\ dpc = "chunk"
      /\ chunk' = [bits |-> b, bytes |-> (b + 7) \div 8]
      /\ lenReg' = len
      /\ bypassReg' = FALSE
      /\ IF busy
           THEN UNCHANGED <<busy, hwLen, hwBypass, owner>>
           ELSE /\ busy' = TRUE /\ hwLen' = len /\ hwBypass' = FALSE
                /\ owner' = <<serial, cb>>
      /\ count' = PollLimit /\ dpc' = "poll"
      /\ UNCHANGED <<op, nbits, numBytes, cb, ret, serial, lastDone, clocked, modes>>

ShiftStart ==
  LET b == ChunkBits
      len == IF nbits - cb < 32 THEN b ELSE lenReg
  IN  /\ dpc = "chunk"
      /\ chunk' = [bits |-> b, bytes |-> (b + 7) \div 8]
      /\ lenReg' = len
      /\ IF busy
           THEN UNCHANGED <<busy, hwLen, hwBypass, owner>>
           ELSE /\ busy' = TRUE /\ hwLen' = len /\ hwBypass' = bypassReg
                /\ owner' = <<serial, cb>>
      /\ count' = PollLimit /\ dpc' = "poll"
      /\ UNCHANGED <<op, nbits, numBytes, cb, ret, serial, bypassReg,
                     lastDone, clocked, modes>>

PollNoWait ==
  /\ dpc = "poll"
  /\ dpc' = "tdo" /\ UNCHANGED <<count, ret>>
  /\ UNCHANGED <<op, nbits, numBytes, cb, chunk, serial, hw>>

(* The poll loop of xil_xvc_shift_bits: read CONTROL; bit 0 clear breaks, *)
(* otherwise count--, and count == 0 returns -ETIMEDOUT from the ioctl    *)
(* (goto cleanup) with the shift still running.  Without HwSlow the shift *)
(* ends before the budget runs out.                                        *)
Poll ==
  /\ dpc = "poll"
  /\ \/ /\ ~busy
        /\ dpc' = "tdo" /\ UNCHANGED <<count, ret>>
     \/ /\ busy /\ (HwSlow \/ count > 1)
        /\ count' = count - 1
        /\ IF count - 1 = 0 THEN Return(ETIMEDOUT) ELSE UNCHANGED <<dpc, ret>>
  /\ UNCHANGED <<op, nbits, numBytes, cb, chunk, serial, hw>>

ReadTdoLoopInclusive ==
  /\ dpc = "tdo"
  /\ cb' = cb + chunk.bits
  /\ dpc' = IF cb + chunk.bits <= nbits THEN "chunk" ELSE "copyout"
  /\ UNCHANGED <<op, nbits, numBytes, chunk, count, ret, serial, hw>>

(* Read TDO, memcpy it to tdo_buf_temp + current_bit / 8, and advance      *)
(* current_bit; the loop runs while current_bit < num_bits.               *)
ReadTdo ==
  /\ dpc = "tdo"
  /\ cb' = cb + chunk.bits
  /\ dpc' = IF cb + chunk.bits < nbits THEN "chunk" ELSE "copyout"
  /\ UNCHANGED <<op, nbits, numBytes, chunk, count, ret, serial, hw>>

(* copy_to_user of num_bytes of TDO: -EFAULT when it fails, else 0. *)
CopyOut ==
  /\ dpc = "copyout"
  /\ \E ok \in CopyOk : Return(IF ok THEN 0 ELSE EFAULT)
  /\ UNCHANGED <<op, nbits, numBytes, cb, chunk, count, serial, hw>>

(* The debug bridge finishes the running shift and clears bit 0. *)
HwDone ==
  /\ busy
  /\ busy' = FALSE /\ lastDone' = owner
  /\ clocked' = clocked + hwLen /\ modes' = modes \cup {hwBypass}
  /\ UNCHANGED <<drv, lenReg, bypassReg, hwLen, hwBypass, owner>>

DriverStep == ShiftStart \/ Poll \/ ReadTdo \/ CopyOut

Next ==
  \/ \E o \in Opcodes, n \in Lens : Ioctl(o, n)
  \/ DriverStep
  \/ HwDone

(* The ioctl runs in the caller's thread without sleeping once it has its *)
(* buffers, and the bridge finishes a shift it has started.  Callers are  *)
(* not fair: no ioctl need ever come.                                      *)
Fairness == WF_vars(DriverStep) /\ WF_vars(HwDone)

Spec == Init /\ [][Next]_vars /\ Fairness

(***************************************************************************)
(* Properties.                                                             *)
(***************************************************************************)
Valid == op \in {1, 2}
Finished == dpc = "idle" /\ serial > 0

(* An ioctl the user server takes for a success (return value >= 0) of a  *)
(* shift or bypass operation has clocked exactly num_bits TCK cycles:     *)
(* LENGTH is persistent across chunks and ioctls, and the driver writes   *)
(* it only for the first full word and the remainder.                     *)
ClockedExact == Finished /\ Valid /\ ret >= 0 => clocked = nbits

(* Every shift of a successful ioctl ran with the bypass bit the opcode    *)
(* selects: xil_xvc_shift_bits sets bit 0 by read-modify-write of CONTROL. *)
ShiftMode == Finished /\ Valid /\ ret = 0 => modes \subseteq {op = 2}

(* The bytes each chunk copies from the TMS and TDI buffers and into the   *)
(* TDO buffer lie inside the num_bytes that were allocated.                *)
InBounds == dpc \in {"poll", "tdo"} => cb \div 8 + chunk.bytes <= numBytes

(* The TDO word the driver reads is the result of the shift this chunk     *)
(* started, not of an earlier one.                                         *)
TdoFresh == dpc = "tdo" => lastDone = <<serial, cb>>

(* Every ioctl returns. *)
IoctlReturns == dpc /= "idle" ~> dpc = "idle"
=============================================================================
