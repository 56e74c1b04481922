\* An egress DMA error followed by the re-arm in hsdp_poll_fast_packet's error branch.
CONSTANTS
  N = 4
  Words = {4}
  Workloads <- ErrorWorkloads
  MaxOpens = 1
  IngressErrors = FALSE
  EgressErrors = TRUE
SPECIFICATION Spec
INVARIANT NoStaleFetch
