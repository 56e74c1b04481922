\* idpc packets of 300 words (1200 bytes) into 1040-byte packet slots.
CONSTANTS
  N = 4
  Words = {300}
  Workloads <- OverflowWorkloads
  MaxOpens = 1
  IngressErrors = FALSE
  EgressErrors = FALSE
SPECIFICATION Spec
INVARIANT IngressOrder
