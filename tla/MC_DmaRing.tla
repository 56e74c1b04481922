----------------------------- MODULE MC_DmaRing -----------------------------
(***************************************************************************)
(* Workloads of DmaRing for TLC.                                           *)
(***************************************************************************)
EXTENDS DmaRing

(* A session that only sends through idpc, or only receives through edpc. *)
IngressOnly(k) == [send |-> k, recv |-> 0]
EgressOnly(k) == [send |-> 0, recv |-> k]

(* Both rings in turn: five packets lap the four ingress descriptors and   *)
(* six device packets lap the four egress descriptors.                     *)
RingsWorkloads == {IngressOnly(5), EgressOnly(6)}

(* Four device packets fill the egress ring, a fifth reuses a descriptor.  *)
CopyRaceWorkloads == {EgressOnly(5)}
ErrorWorkloads == {EgressOnly(6)}
OverflowWorkloads == {IngressOnly(5)}
=============================================================================
