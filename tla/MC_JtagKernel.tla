---------------------------- MODULE MC_JtagKernel ----------------------------
(* The kernel ioctl with an 8-bit u32: the wrap of num_bits + 7 happens at *)
(* 249..255 as it does at 2^32 - 7..2^32 - 1.                              *)
EXTENDS JtagKernel

MCWidth == 8
=============================================================================
