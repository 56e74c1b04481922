----------------------------- MODULE VerifyTool -----------------------------
(***************************************************************************)
(* The driver verification tool of                                          *)
(* src/zynqMP/src/user/verify_xilinx_xvc_driver.c as a user of the        *)
(* XDMA_IOCXVC ioctl modelled by JtagKernel.                                *)
(*                                                                         *)
(* main opens the character device, allocates tms/tdi/tdo buffers of      *)
(* findMaxBytes(test_lens) bytes and runs testXVC for each length of      *)
(* test_lens: fill TMS with 0xff and TDI with the pattern, zero TDO, issue *)
(* a bypass ioctl (opcode 0x02) and compare TDO with TDI bit for bit.      *)
(* Other processes (the XVC server) may issue their own ioctls on the      *)
(* same device between the tool's; the kernel serialises them.             *)
(*                                                                         *)
(* Vector bits are not modelled, as in JtagKernel: the TDO the tool reads  *)
(* back equals its TDI exactly when its ioctl returned 0 after clocking    *)
(* num_bits cycles, every one in bypass.  Otherwise tdo_buf holds the      *)
(* zeros of the memset or the chain's output, which differs from the       *)
(* pattern.                                                                 *)
(*                                                                         *)
(* The verification loop reads vb, which testXVC never initialises: its   *)
(* start value is whatever the stack holds, a choice from VbStart.         *)
(***************************************************************************)
EXTENDS JtagKernel

CONSTANTS
  TestLens,   \* test_lens without its 0 terminator
  PatLen,     \* strlen(pattern): 15 for "abcdefgHIJKLMOP"
  VbStart     \* values the uninitialised vb may start from

ASSUME TestLens \in Seq(Nat \ {0}) /\ PatLen \in Nat \ {0}
ASSUME VbStart \subseteq Nat

VARIABLES
  tpc,      \* "open", "test", "wait", "verified", "failed"
  ti,       \* test_index
  res,      \* what the tool's ioctl returned, NoRes while it runs
  fillEnd,  \* the largest fill_nbytes the TDI fill reached
  allOk     \* every ioctl of the tool so far was a full loopback

tool == <<tpc, ti, res, fillEnd, allOk>>
allVars == <<vars, tool>>

ByteAlign(bits) == (bits + 7) \div 8

(* findMaxBytes: BYTE_ALIGN of the largest length of the list. *)
MaxNBytes ==
  LET S == {TestLens[i] : i \in DOMAIN TestLens}
  IN  ByteAlign(CHOOSE m \in S \cup {0} : \A x \in S : x <= m)

(* The TDI fill loop: every pass copies MIN(pat_nbytes, cmd_nbytes) bytes  *)
(* at fill_nbytes until fill_nbytes reaches cmd_nbytes.                    *)
FillNBytesNoMin(cmdBytes) ==
  IF cmdBytes = 0 THEN 0
  ELSE ((cmdBytes + PatLen - 1) \div PatLen) * PatLen

FillNBytes(cmdBytes) ==
  LET n == IF PatLen < cmdBytes THEN PatLen ELSE cmdBytes
  IN  IF cmdBytes = 0 THEN 0 ELSE ((cmdBytes + n - 1) \div n) * n

(* The kernel's answer to the tool's ioctl loops TDI back to TDO. *)
Loopback == ret = 0 /\ clocked = nbits /\ modes \subseteq {TRUE}

NoRes == [ret |-> 0, loop |-> FALSE, done |-> FALSE]

(* The tool's ioctl returns in this step: ioctl()'s value and whether      *)
(* the TDO it copied out is the loopback of TDI.                           *)
Returned == [ret |-> ret', loop |-> Loopback', done |-> TRUE]

ToolInit ==
  /\ Init
  /\ tpc = "open" /\ ti = 1 /\ res = NoRes /\ fillEnd = 0 /\ allOk = TRUE

(* open(char_path) and the three mallocs; either failing returns from main. *)
ToolOpen ==
  /\ tpc = "open"
  /\ \E ok \in BOOLEAN :
       tpc' = IF ok /\ Len(TestLens) > 0 THEN "test"
              ELSE IF ok THEN "verified" ELSE "failed"
  /\ UNCHANGED <<ti, res, fillEnd, allOk, vars>>

(* testXVC up to the ioctl: the TDI fill, then XDMA_IOCXVC with opcode    *)
(* 0x02 and length cmd_nbits, which enters the kernel's xil_xvc_ioctl.     *)
ToolIoctl ==
  LET len == TestLens[ti]
      fill == FillNBytes(ByteAlign(len))
  IN  /\ tpc = "test"
      /\ Ioctl(2, len)
      /\ tpc' = "wait"
      /\ res' = IF dpc' = "idle" THEN Returned ELSE NoRes
      /\ fillEnd' = IF fill > fillEnd THEN fill ELSE fillEnd
      /\ UNCHANGED <<ti, allOk>>

ToolCheckNoRetCheck ==
  /\ tpc = "wait" /\ res.done
  /\ \E vb \in VbStart :
       LET pass == vb >= TestLens[ti] \/ res.loop
       IN  /\ tpc' = IF ~pass THEN "failed"
                     ELSE IF ti = Len(TestLens) THEN "verified" ELSE "test"
           /\ ti' = IF pass THEN ti + 1 ELSE ti
  /\ allOk' = (allOk /\ res.loop) /\ res' = NoRes
  /\ UNCHANGED <<fillEnd, vars>>

(* The ioctl has returned: ret < 0 fails the test; otherwise the verify    *)
(* loop runs while vb < cmd_nbits and fails on the first byte whose TDO    *)
(* differs; a passing test moves to the next length and rotatePattern.     *)
(* A failing test returns from main.                                        *)
ToolCheck ==
  /\ tpc = "wait" /\ res.done
  /\ \E vb \in VbStart :
       LET pass == res.ret >= 0 /\ (vb >= TestLens[ti] \/ res.loop)
       IN  /\ tpc' = IF ~pass THEN "failed"
                     ELSE IF ti = Len(TestLens) THEN "verified" ELSE "test"
           /\ ti' = IF pass THEN ti + 1 ELSE ti
  /\ allOk' = (allOk /\ res.loop) /\ res' = NoRes
  /\ UNCHANGED <<fillEnd, vars>>

ToolStep == ToolOpen \/ ToolIoctl \/ ToolCheck

(* The kernel's and the bridge's steps, and other processes' ioctls, leave *)
(* the tool where it is; the step in which the tool's ioctl returns hands  *)
(* its result to the tool.  No other ioctl enters while the tool's runs.   *)
KernelStep ==
  /\ Next
  /\ res' = IF tpc = "wait" /\ ~res.done /\ dpc' = "idle" THEN Returned ELSE res
  /\ UNCHANGED <<tpc, ti, fillEnd, allOk>>

ToolNext == ToolStep \/ KernelStep

ToolSpec == ToolInit /\ [][ToolNext]_allVars /\ Fairness

(***************************************************************************)
(* Properties.                                                             *)
(***************************************************************************)

(* "XVC Driver Verified Successfully!" is printed only when every test     *)
(* ioctl looped its TDI back in full: the driver returned 0, clocked       *)
(* exactly the requested bits and ran every chunk in bypass.               *)
ToolSound == tpc = "verified" => allOk

(* The TDI fill of testXVC writes inside the max_nbytes buffers that main *)
(* allocated for the longest test length.                                  *)
FillInBuffers == fillEnd <= MaxNBytes
=============================================================================
