------------------------------ MODULE DmaRing ------------------------------
(***************************************************************************)
(* The HSDP descriptor rings of src/dpc/src/hsdp.c driven by the DPC        *)
(* binding (src/dpc/src/xvc_dpc.c), with the AXI DMA as a second process.  *)
(*                                                                         *)
(* Both rings have HSDP_COUNT = N descriptors.  For each descriptor the     *)
(* model keeps its STS field ("zero", "done" or "err"); BUFF always names  *)
(* the packet slot of the same index and CNTL the packet size, so they are *)
(* not separate variables.  Packet memory is one array of 2N slots of      *)
(* 0x410 bytes, ingress slots 0..N-1 followed by egress slots N..2N-1, as  *)
(* hsdp_setup carves them; a slot holds a packet number, 0 for nothing and *)
(* Garbage for bytes that belong to no packet.                             *)
(*                                                                         *)
(* The DMA's view of descriptors: a TAIL store hands descriptors to the    *)
(* DMA up to the one it names; the DMA completes them in ring order.  The  *)
(* model numbers descriptors absolutely (tail and done counters) and takes *)
(* the ring index modulo N.  A CPU store to a descriptor that no barrier   *)
(* (dsb) has ordered yet may still be in flight when the DMA fetches it:   *)
(* epend holds the egress descriptors whose STS = 0 store is in flight:   *)
(* ests is what memory (and the DMA) holds, the CPU reads its own store.   *)
(***************************************************************************)
EXTENDS Integers, Sequences, FiniteSets

CONSTANTS
  N,               \* descriptors per ring (MAX_EGRESS_PACKETS)
  Words,           \* packet sizes (in 32-bit words) the client sends with idpc:
  Workloads,       \* [send, recv]: packets the client sends through idpc
                   \* and packets the device produces, in one run
  MaxOpens,        \* times open_port re-runs hsdp_setup_dma
  IngressErrors,   \* the DMA may complete an ingress descriptor with an error
  EgressErrors     \* the DMA may complete an egress descriptor with an error

ASSUME N \in Nat \ {0} /\ Words \subseteq Nat /\ Workloads \subseteq [send : Nat, recv : Nat]
ASSUME IngressErrors \in BOOLEAN /\ EgressErrors \in BOOLEAN

DescSize == 64             \* DMA_DESC_SIZE
SlotSize == 1040           \* DMA_PACKET_BUFF_SIZE_DEFAULT (0x410)
MAX_PACKET_SIZE == 1032    \* hsdp_lib.h
Garbage == -1
Slots == 0..(2 * N - 1)
MaxSend == CHOOSE m \in {w.send : w \in Workloads} : \A w \in Workloads : w.send <= m

VARIABLES
  ilast, elast,        \* hsdp->idesc.last, hsdp->edesc.last
  ists, ests,          \* STS of each ingress / egress descriptor
  epend,               \* egress descriptors with an STS = 0 store in flight
  mem,                 \* packet slots
  itail, etail,        \* absolute number of the descriptor TAIL names
  idone, edone,        \* descriptors the DMA has completed
  ehalt,               \* the egress channel halted
  staleFetch,          \* the DMA fetched a descriptor with a store in flight
  isent, ilost, idev,  \* packets sent, lost, and received by the device
  eprod, rcvd,         \* packets produced by the device, returned by edpc
  held, got,           \* packet handed to the caller, packets it copied
  opens,               \* hsdp_setup_dma runs
  work                 \* the workload of this behaviour

cpu == <<ilast, elast, ists, ests, epend, mem>>
hw  == <<itail, etail, idone, edone, ehalt, staleFetch>>
hist == <<isent, ilost, idev, eprod, rcvd, held, got, opens, work>>
vars == <<cpu, hw, hist>>

(* HSDP_NEXT: the slot after last, wrapping without a modulo. *)
HSDP_NEXT(last) == IF (last + 1) * DescSize < N * DescSize THEN last + 1 ELSE 0

(* A TAIL store naming ring index t: the absolute number of the first      *)
(* descriptor at index t not before the current tail.                      *)
TailAt(tail, t) == tail + ((t - tail) % N)

(* Mutant: the egress loop counts edesc.last one step too far. *)
SetupDmaLastPastEnd ==
  /\ ilast' = -1 /\ elast' = N
  /\ ists' = [i \in 0..N-1 |-> "done"] /\ ests' = [i \in 0..N-1 |-> "zero"]
  /\ epend' = {}
  /\ itail' = -1 /\ idone' = 0 /\ etail' = N - 1 /\ edone' = 0 /\ ehalt' = FALSE

(* hsdp_setup_dma: reset, ingress descriptors marked done, egress          *)
(* descriptors zeroed and all handed to the DMA by TAIL = desc(count-1).   *)
SetupDma ==
  /\ ilast' = -1 /\ elast' = N - 1
  /\ ists' = [i \in 0..N-1 |-> "done"] /\ ests' = [i \in 0..N-1 |-> "zero"]
  /\ epend' = {}
  /\ itail' = -1 /\ idone' = 0 /\ etail' = N - 1 /\ edone' = 0 /\ ehalt' = FALSE

Init ==
  /\ ilast = -1 /\ elast = N - 1
  /\ ists = [i \in 0..N-1 |-> "done"] /\ ests = [i \in 0..N-1 |-> "zero"]
  /\ epend = {} /\ mem = [s \in Slots |-> 0]
  /\ itail = -1 /\ idone = 0 /\ etail = N - 1 /\ edone = 0 /\ ehalt = FALSE
  /\ staleFetch = FALSE
  /\ isent = 0 /\ ilost = 0 /\ idev = << >>
  /\ eprod = 0 /\ rcvd = << >> /\ held = << >> /\ got = << >> /\ opens = 1
  /\ work \in Workloads

(* memcpy(INGRESS_PACKET(ii), buf, size): the packet starts in slot ii and *)
(* runs on into the following slots when it is longer than one slot.       *)
Copied(m, ii, id, w) ==
  LET last == (ii + (4 * w + SlotSize - 1) \div SlotSize - 1)
  IN  [s \in Slots |-> CASE s = ii -> id
                         [] ii < s /\ s <= last -> Garbage
                         [] OTHER -> m[s]]

(***************************************************************************)
(* idpc: refuse num_words >= MAX_PACKET_SIZE, else hsdp_send_packet.       *)
(***************************************************************************)
IdpcTooBig(w) ==
  /\ isent < work.send /\ w >= MAX_PACKET_SIZE
  /\ isent' = isent + 1 /\ ilost' = ilost + 1
  /\ UNCHANGED <<cpu, hw, idev, eprod, rcvd, held, got, opens, work>>

(* Mutants: the STS poll dropped; the TAIL store dropped. *)
SendPacketNoPoll(w) ==
  LET ii == HSDP_NEXT(ilast) IN
  /\ mem' = Copied(mem, ii, isent + 1, w)
  /\ ists' = [ists EXCEPT ![ii] = "zero"]
  /\ itail' = TailAt(itail, ii)
  /\ ilast' = ii

SendPacketNoTail(w) ==
  LET ii == HSDP_NEXT(ilast) IN
  /\ ists[ii] \in {"done", "err"}
  /\ mem' = Copied(mem, ii, isent + 1, w)
  /\ ists' = [ists EXCEPT ![ii] = "zero"]
  /\ itail' = itail
  /\ ilast' = ii

(* hsdp_send_packet: the descriptor after last has completed (done or      *)
(* error): copy the packet in, BUFF, CNTL, STS = 0, dsb, TAIL, last = ii.  *)
hsdp_send_packet(w) ==
  LET ii == HSDP_NEXT(ilast) IN
  /\ ists[ii] \in {"done", "err"}
  /\ mem' = Copied(mem, ii, isent + 1, w)
  /\ ists' = [ists EXCEPT ![ii] = "zero"]
  /\ itail' = TailAt(itail, ii)
  /\ ilast' = ii

Idpc(w) ==
  /\ isent < work.send /\ w < MAX_PACKET_SIZE
  /\ hsdp_send_packet(w)
  /\ isent' = isent + 1
  /\ UNCHANGED <<elast, ests, epend, etail, idone, edone, ehalt, staleFetch>>
  /\ UNCHANGED <<ilost, idev, eprod, rcvd, held, got, opens, work>>

(* The descriptor did not complete within max_polls reads of STS: return   *)
(* -1, and idpc reports "Ingress of DPC packet failed".                    *)
IdpcTimeout(w) ==
  /\ isent < work.send /\ w < MAX_PACKET_SIZE
  /\ ists[HSDP_NEXT(ilast)] = "zero"
  /\ isent' = isent + 1 /\ ilost' = ilost + 1
  /\ UNCHANGED <<cpu, hw, idev, eprod, rcvd, held, got, opens, work>>

(***************************************************************************)
(* The AXI DMA.  Ingress: transmit the packet of the next descriptor the   *)
(* TAIL covers and write its STS done, or error bits.                      *)
(***************************************************************************)
HwIngress ==
  LET i == idone % N IN
  /\ idone <= itail
  /\ \/ /\ idev' = Append(idev, mem[i])
        /\ ists' = [ists EXCEPT ![i] = "done"]
        /\ UNCHANGED ilost
     \/ /\ IngressErrors
        /\ ists' = [ists EXCEPT ![i] = "err"]
        /\ ilost' = ilost + 1 /\ UNCHANGED idev
  /\ idone' = idone + 1
  /\ UNCHANGED <<ilast, elast, ests, epend, mem, itail, etail, edone, ehalt, staleFetch>>
  /\ UNCHANGED <<isent, eprod, rcvd, held, got, opens, work>>

(* Egress: the device's next packet goes to the next covered descriptor.   *)
(* A descriptor fetched with a non-zero STS was not re-armed: the DMA may  *)
(* halt on it, or go on and overwrite the STS.                             *)
HwEgress ==
  LET e == edone % N IN
  /\ ~ehalt /\ edone <= etail /\ eprod < work.recv
  /\ staleFetch' = (staleFetch \/ ests[e] /= "zero")
  /\ \/ /\ ests[e] /= "zero"
        /\ ehalt' = TRUE
        /\ UNCHANGED <<ests, mem, eprod, edone>>
     \/ /\ ests' = [ests EXCEPT ![e] = "done"]
        /\ mem' = [mem EXCEPT ![N + e] = eprod + 1]
        /\ eprod' = eprod + 1 /\ edone' = edone + 1 /\ UNCHANGED ehalt
     \/ /\ EgressErrors
        /\ ests' = [ests EXCEPT ![e] = "err"]
        /\ mem' = [mem EXCEPT ![N + e] = Garbage]
        /\ eprod' = eprod + 1 /\ edone' = edone + 1 /\ UNCHANGED ehalt
  /\ UNCHANGED <<ilast, elast, ists, epend, itail, etail, idone>>
  /\ UNCHANGED <<isent, ilost, idev, rcvd, held, got, opens, work>>

(* A store in flight reaches memory. *)
StoreDrains(i) ==
  /\ i \in epend
  /\ ests' = [ests EXCEPT ![i] = "zero"] /\ epend' = epend \ {i}
  /\ UNCHANGED <<ilast, elast, ists, mem, hw, hist>>

(***************************************************************************)
(* edpc: hsdp_receive_fast_packet polls once (max_polls = 1), i.e. one     *)
(* hsdp_poll_fast_packet on the descriptor after edesc.last, as the CPU    *)
(* sees its STS.  The DPC engine copies the returned packet before its     *)
(* next call (CallerCopy).                                                 *)
(***************************************************************************)
CpuSts(i) == IF i \in epend THEN "zero" ELSE ests[i]

(* Error: STS = 0, TAIL, BUFF, last = ie, no barrier before the TAIL.     *)
EdpcError ==
  LET ie == HSDP_NEXT(elast) IN
  /\ held = << >> /\ CpuSts(ie) = "err"
  /\ epend' = epend \cup {ie}
  /\ etail' = TailAt(etail, ie) /\ elast' = ie
  /\ UNCHANGED <<ilast, ists, ests, mem, itail, idone, edone, ehalt, staleFetch, hist>>

(* Mutant: the re-arm leaves STS as the DMA wrote it. *)
EdpcDoneNoStsReset ==
  LET ie == HSDP_NEXT(elast) IN
  /\ held = << >> /\ CpuSts(ie) = "done"
  /\ held' = [slot |-> N + ie, id |-> mem[N + ie]]
  /\ rcvd' = Append(rcvd, mem[N + ie])
  /\ ests' = [i \in 0..N-1 |-> IF i \in epend THEN "zero" ELSE ests[i]]
  /\ epend' = {}
  /\ etail' = TailAt(etail, ie) /\ elast' = ie
  /\ UNCHANGED <<ilast, ists, mem, itail, idone, edone, ehalt, staleFetch>>
  /\ UNCHANGED <<isent, ilost, idev, eprod, got, opens, work>>

(* Done: hand out the packet buffer, BUFF, STS = 0, dsb, TAIL, last = ie.  *)
EdpcDone ==
  LET ie == HSDP_NEXT(elast) IN
  /\ held = << >> /\ CpuSts(ie) = "done"
  /\ held' = [slot |-> N + ie, id |-> mem[N + ie]]
  /\ rcvd' = Append(rcvd, mem[N + ie])
  /\ ests' = [i \in 0..N-1 |-> IF i = ie \/ i \in epend THEN "zero" ELSE ests[i]]
  /\ epend' = {}
  /\ etail' = TailAt(etail, ie) /\ elast' = ie
  /\ UNCHANGED <<ilast, ists, mem, itail, idone, edone, ehalt, staleFetch>>
  /\ UNCHANGED <<isent, ilost, idev, eprod, got, opens, work>>

(* Neither: word_count = 0 and edpc returns with nothing. *)
EdpcEmpty ==
  /\ held = << >> /\ CpuSts(HSDP_NEXT(elast)) = "zero"
  /\ UNCHANGED vars

(* edpc: hsdp_receive_fast_packet, then the packet buffer and its word  *)
(* count handed to the engine when the count is not 0.                    *)
Edpc == EdpcError \/ EdpcDone \/ EdpcEmpty

CallerCopy ==
  /\ held /= << >>
  /\ got' = Append(got, mem[held.slot]) /\ held' = << >>
  /\ UNCHANGED <<cpu, hw, isent, ilost, idev, eprod, rcvd, opens, work>>

(* close_port then open_port of the next connection: hsdp_setup_dma again. *)
(* Ingress packets the DMA had not completed are lost with the reset.      *)
Reopen ==
  /\ opens < MaxOpens /\ held = << >>
  /\ SetupDma
  /\ ilost' = ilost + (IF itail >= idone THEN itail - idone + 1 ELSE 0)
  /\ opens' = opens + 1
  /\ UNCHANGED <<mem, staleFetch, isent, idev, eprod, rcvd, held, got, work>>

Next ==
  \/ \E w \in Words : IdpcTooBig(w) \/ Idpc(w) \/ IdpcTimeout(w)
  \/ Edpc \/ CallerCopy \/ Reopen
  \/ HwIngress \/ HwEgress \/ \E i \in 0..N-1 : StoreDrains(i)

(* The DMA keeps working through the descriptors the TAIL covers. *)
Fairness == WF_vars(HwIngress) /\ WF_vars(HwEgress)

Spec == Init /\ [][Next]_vars /\ Fairness

(***************************************************************************)
(* Properties.                                                             *)
(***************************************************************************)
Sts == {"zero", "done", "err"}
TypeOK ==
  /\ ilast \in -1..N-1 /\ elast \in -1..N-1
  /\ ists \in [0..N-1 -> Sts] /\ ests \in [0..N-1 -> Sts]
  /\ epend \subseteq 0..N-1 /\ mem \in [Slots -> Int]
  /\ itail \in Int /\ etail \in Int /\ idone \in Nat /\ edone \in Nat
  /\ held = << >> \/ held \in [slot : Slots, id : Int]

Increasing(s, hi) ==
  \A k \in 1..Len(s) : s[k] \in 1..hi /\ (k > 1 => s[k-1] < s[k])

(* hsdp_send_packet only reuses a descriptor the DMA has completed and     *)
(* hands descriptors over in ring order: the device receives the packets   *)
(* the client sent through idpc, intact, in order and each at most once.   *)
IngressOrder == Increasing(idev, isent)

(* Every packet idpc accepts is eventually transmitted, or lost by a DMA   *)
(* error, a refused or timed-out send, or a reset: the TAIL store after    *)
(* each send hands the descriptor to the DMA.                              *)
IngressLive ==
  \A k \in 1..MaxSend : (isent >= k) ~> (Len(idev) + ilost >= k)

(* hsdp_poll_fast_packet returns only packets the DMA completed since the  *)
(* descriptor was re-armed: edpc returns the device's packets in order,    *)
(* each at most once, never the bytes of a failed transfer.                *)
EgressOrder == Increasing(rcvd, eprod)

(* spec.md section 5: a barrier separates the descriptor stores from the   *)
(* TAIL store, so the DMA never fetches a descriptor whose re-arming has   *)
(* not reached memory.                                                     *)
NoStaleFetch == ~staleFetch

(* The buffer edpc hands to the DPC engine still holds the packet it       *)
(* returned when the engine copies it.                                     *)
CopyIntact == held /= << >> => mem[held.slot] = held.id
=============================================================================
