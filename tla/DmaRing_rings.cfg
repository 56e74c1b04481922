\* Each behaviour is an ingress session (five idpc packets, one oversized
\* and refused, ingress DMA errors) or an egress session (six device packets,
\* egress DMA errors, stores in flight), with one reset by a reconnect.
CONSTANTS
  N = 4
  Words = {4, 1032}
  Workloads <- RingsWorkloads
  MaxOpens = 2
  IngressErrors = TRUE
  EgressErrors = TRUE
SPECIFICATION Spec
INVARIANT TypeOK IngressOrder EgressOrder
PROPERTY IngressLive
