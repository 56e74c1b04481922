---------------------------- MODULE MC_VerifyTool ----------------------------
(* The verification tool on the kernel ioctl with an 8-bit u32.             *)
EXTENDS VerifyTool

MCWidth == 8

(* test_lens = {32, 0} in main. *)
MCTestLens == <<32>>

(* The first lengths of the list commented out above test_lens, up to the *)
(* first one of more than 15 bytes.                                        *)
MCLongLens == <<1, 4, 6, 12, 24, 32, 64, 89, 144>>
=============================================================================
