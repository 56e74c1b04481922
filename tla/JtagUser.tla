------------------------------ MODULE JtagUser ------------------------------
(***************************************************************************)
(* The XVC 1.0 user-space servers: handle_data and the select() loop of    *)
(* src/XAPP1251/src/xvcServer.c and src/zynqMP/src/user/xvcServer.c.       *)
(*                                                                         *)
(* build is the server binary, one of Builds, fixed for a behaviour:       *)
(*   "xapp1251"     32-bit words while 4 bytes are left, then the tail;    *)
(*   "zynqmp_uio"   the zynqMP build without USE_IOCTL;                    *)
(*   "zynqmp_ioctl" the zynqMP build with USE_IOCTL: one ioctl per shift,  *)
(*                  whose chunking is the kernel's (module JtagKernel).    *)
(* The JTAG register block is written and polled by the single server      *)
(* thread with nothing else running, so one loop iteration (write LENGTH,  *)
(* TMS, TDI, CTRL = 1, spin until CTRL clears, read TDO) is one step.      *)
(* Vector bits are not modelled: a chunk is its bit count and the byte     *)
(* range of the buffers it reads and of result it writes.                  *)
(***************************************************************************)
EXTENDS Integers, Sequences, FiniteSets

CONSTANTS
  Builds,     \* builds checked: "xapp1251", "zynqmp_uio", "zynqmp_ioctl"
  Clients,    \* XVC clients (model values)
  Lens,       \* shift lengths a client sends: the int len read off the socket
  IntWidth,   \* the width of int and u32 in the model
  MaxCmds     \* commands each client sends

ASSUME Builds \subseteq {"xapp1251", "zynqmp_uio", "zynqmp_ioctl"}
ASSUME MaxCmds \in Nat /\ IntWidth \in Nat \ {0}
ASSUME \A l \in Lens : -(2^(IntWidth - 1)) <= l /\ l + 7 < 2^(IntWidth - 1)

BufferSize == 2048          \* unsigned char buffer[2048] (bufferSize)
NoClient == "none"

Cmds == {[kind |-> k, len |-> 0] : k \in {"getinfo", "settck", "bad"}}
        \cup {[kind |-> "shift", len |-> l] : l \in Lens}

(* C's / truncates toward zero. *)
CDiv(x, y) == IF x >= 0 THEN x \div y ELSE -((-x) \div y)

(* int nr_bytes = (len + 7) / 8 *)
NrBytes(len) == CDiv(len + 7, 8)

(* nr_bytes * 2 > sizeof(buffer): the int product is converted to size_t, *)
(* so a negative one compares as a huge value.                             *)
SizeExceeded(n) == n * 2 < 0 \/ n * 2 > BufferSize

(* xvc_ioc.length = len: the int stored in a u32. *)
U32(x) == x % (2^IntWidth)

VARIABLES
  build,      \* the server binary running
  conn,       \* clients whose fd is in the select set
  gone,       \* clients that closed their end
  inbox,      \* commands sent and not yet read, per client
  sentN,      \* commands sent, per client
  answered,   \* replies written, per client
  pc,         \* "select", "read" (sread of the next command), "chunk", "write"
  cur,        \* the client handle_data is serving
  req,        \* len of the shift being served
  bytesLeft, bitsLeft, byteIndex,
  spans,      \* <<first byte, bytes>> of each chunk of this shift
  tck         \* TCK cycles clocked for this shift

env    == <<conn, gone, inbox, sentN>>
server == <<answered, pc, cur>>
shift  == <<req, bytesLeft, bitsLeft, byteIndex, spans, tck>>
vars   == <<build, env, server, shift>>

Init ==
  /\ build \in Builds
  /\ conn = {} /\ gone = {}
  /\ inbox = [c \in Clients |-> << >>] /\ sentN = [c \in Clients |-> 0]
  /\ answered = [c \in Clients |-> 0]
  /\ pc = "select" /\ cur = NoClient
  /\ req = 0 /\ bytesLeft = 0 /\ bitsLeft = 0 /\ byteIndex = 0
  /\ spans = << >> /\ tck = 0

(***************************************************************************)
(* The client side.                                                        *)
(***************************************************************************)
ClientSend(c, m) ==
  /\ c \in conn /\ c \notin gone /\ sentN[c] < MaxCmds
  /\ inbox' = [inbox EXCEPT ![c] = Append(@, m)]
  /\ sentN' = [sentN EXCEPT ![c] = @ + 1]
  /\ UNCHANGED <<build, conn, gone, server, shift>>

ClientClose(c) ==
  /\ c \in conn /\ c \notin gone
  /\ gone' = gone \cup {c}
  /\ UNCHANGED <<build, conn, inbox, sentN, server, shift>>

(***************************************************************************)
(* main: select() and the loop over the ready descriptors.                 *)
(***************************************************************************)
Accept(c) ==
  /\ pc = "select" /\ c \notin conn /\ c \notin gone
  /\ conn' = conn \cup {c}
  /\ UNCHANGED <<build, gone, inbox, sentN, server, shift>>

(* A readable client fd: handle_data(fd, ...). *)
Serve(c) ==
  /\ pc = "select" /\ c \in conn
  /\ inbox[c] /= << >> \/ c \in gone
  /\ pc' = "read" /\ cur' = c
  /\ UNCHANGED <<build, env, answered, shift>>

(* handle_data returned non-zero: close(fd); FD_CLR(fd, &conn).  The      *)
(* client does not come back (gone).                                       *)
CloseCur ==
  /\ conn' = conn \ {cur} /\ gone' = gone \cup {cur}
  /\ pc' = "select" /\ cur' = NoClient

(***************************************************************************)
(* handle_data: sread(fd, cmd, 2) and the branch on the command.           *)
(***************************************************************************)
Next1 == Head(inbox[cur])
Consume == inbox' = [inbox EXCEPT ![cur] = Tail(@)]

(* sread returns 0: the peer closed. *)
ReadClosed ==
  /\ pc = "read" /\ inbox[cur] = << >> /\ cur \in gone
  /\ CloseCur
  /\ UNCHANGED <<build, inbox, sentN, answered, shift>>

(* getinfo: and settck: write their reply and break out of the do-while:  *)
(* handle_data returns 0 and the fd stays in the select set.               *)
ReadReplyOnly ==
  /\ pc = "read" /\ inbox[cur] /= << >> /\ Next1.kind \in {"getinfo", "settck"}
  /\ Consume
  /\ answered' = [answered EXCEPT ![cur] = @ + 1]
  /\ pc' = "select" /\ cur' = NoClient
  /\ UNCHANGED <<build, conn, gone, sentN, shift>>

(* "invalid cmd": return 1. *)
ReadBad ==
  /\ pc = "read" /\ inbox[cur] /= << >> /\ Next1.kind = "bad"
  /\ Consume /\ CloseCur
  /\ UNCHANGED <<build, sentN, answered, shift>>

(* shift: length, "buffer size exceeded" check, sread of TMS and TDI,      *)
(* memset(result, 0, nr_bytes) and the loop variables.                     *)
ReadShiftTooBig ==
  /\ pc = "read" /\ inbox[cur] /= << >> /\ Next1.kind = "shift"
  /\ SizeExceeded(NrBytes(Next1.len))
  /\ Consume /\ CloseCur
  /\ UNCHANGED <<build, sentN, answered, shift>>

ReadShiftNoSizeCheck ==
  /\ pc = "read" /\ inbox[cur] /= << >> /\ Next1.kind = "shift"
  /\ Consume
  /\ req' = Next1.len
  /\ bytesLeft' = NrBytes(Next1.len) /\ bitsLeft' = Next1.len /\ byteIndex' = 0
  /\ spans' = << >> /\ tck' = 0
  /\ pc' = IF NrBytes(Next1.len) > 0 \/ build = "zynqmp_ioctl" THEN "chunk" ELSE "write"
  /\ UNCHANGED <<build, conn, gone, sentN, answered, cur>>

ReadShift ==
  /\ pc = "read" /\ inbox[cur] /= << >> /\ Next1.kind = "shift"
  /\ ~SizeExceeded(NrBytes(Next1.len))
  /\ Consume
  /\ req' = Next1.len
  /\ bytesLeft' = NrBytes(Next1.len) /\ bitsLeft' = Next1.len /\ byteIndex' = 0
  /\ spans' = << >> /\ tck' = 0
  /\ pc' = IF NrBytes(Next1.len) > 0 \/ build = "zynqmp_ioctl" THEN "chunk" ELSE "write"
  /\ UNCHANGED <<build, conn, gone, sentN, answered, cur>>

(***************************************************************************)
(* The shift loop, one iteration per step.                                 *)
(***************************************************************************)
Chunk(bits, nbytes) ==
  /\ spans' = Append(spans, <<byteIndex, nbytes>>)
  /\ tck' = tck + bits

(* XAPP1251: at least 4 bytes left: LENGTH = 32 and a full word. *)
XappWord ==
  /\ build = "xapp1251" /\ pc = "chunk" /\ bytesLeft >= 4
  /\ Chunk(32, 4)
  /\ bytesLeft' = bytesLeft - 4 /\ bitsLeft' = bitsLeft - 32 /\ byteIndex' = byteIndex + 4
  /\ pc' = IF bytesLeft - 4 > 0 THEN "chunk" ELSE "write"
  /\ UNCHANGED <<build, env, answered, cur, req>>

XappTailWholeWord ==
  /\ build = "xapp1251" /\ pc = "chunk" /\ bytesLeft < 4
  /\ Chunk(bitsLeft, 4)
  /\ pc' = "write"
  /\ UNCHANGED <<build, env, answered, cur, req, bytesLeft, bitsLeft, byteIndex>>

(* XAPP1251: fewer than 4 bytes: LENGTH = bitsLeft, copy bytesLeft, break. *)
XappTail ==
  /\ build = "xapp1251" /\ pc = "chunk" /\ bytesLeft < 4
  /\ Chunk(bitsLeft, bytesLeft)
  /\ pc' = "write"
  /\ UNCHANGED <<build, env, answered, cur, req, bytesLeft, bitsLeft, byteIndex>>

(* Mutant of UioChunk: the if (bytesLeft < 4) is dropped. *)
UioChunkAlways32 ==
  /\ build = "zynqmp_uio" /\ pc = "chunk"
  /\ Chunk(32, 4)
  /\ bytesLeft' = bytesLeft - 4 /\ bitsLeft' = bitsLeft - 32
  /\ byteIndex' = byteIndex + 4
  /\ pc' = IF bytesLeft - 4 > 0 THEN "chunk" ELSE "write"
  /\ UNCHANGED <<build, env, answered, cur, req>>

(* zynqMP without USE_IOCTL: shift_num_bits is 32 unless fewer than 4     *)
(* bytes are left, shift_num_bytes = (shift_num_bits + 7) / 8.             *)
UioChunk ==
  LET nbits  == IF bytesLeft < 4 THEN bitsLeft ELSE 32
      nbytes == (nbits + 7) \div 8
  IN  /\ build = "zynqmp_uio" /\ pc = "chunk"
      /\ Chunk(nbits, nbytes)
      /\ bytesLeft' = bytesLeft - nbytes /\ bitsLeft' = bitsLeft - nbits
      /\ byteIndex' = byteIndex + nbytes
      /\ pc' = IF bytesLeft - nbytes > 0 THEN "chunk" ELSE "write"
      /\ UNCHANGED <<build, env, answered, cur, req>>

(* zynqMP with USE_IOCTL: one XDMA_IOCXVC ioctl with length = len, even   *)
(* for nr_bytes = 0.  When it returns >= 0 the driver has clocked         *)
(* num_bits = (u32) len cycles over the nr_bytes of TMS and TDI           *)
(* (JtagKernel checks how); when it fails handle_data returns errno and    *)
(* the fd is closed.                                                        *)
IoctlShift ==
  /\ build = "zynqmp_ioctl" /\ pc = "chunk"
  /\ spans' = IF NrBytes(req) > 0 THEN << <<0, NrBytes(req)>> >> ELSE << >>
  /\ tck' = U32(req)
  /\ pc' = "write"
  /\ UNCHANGED <<build, env, answered, cur, req, bytesLeft, bitsLeft, byteIndex>>

IoctlFail ==
  /\ build = "zynqmp_ioctl" /\ pc = "chunk"
  /\ CloseCur
  /\ UNCHANGED <<build, inbox, sentN, answered, shift>>

(* write(fd, result, nr_bytes), and the do-while reads the next command    *)
(* from the same fd.                                                       *)
ShiftWrite ==
  /\ pc = "write"
  /\ answered' = [answered EXCEPT ![cur] = @ + 1]
  /\ pc' = "read"
  /\ UNCHANGED <<build, env, cur, shift>>

ServerStep ==
  \/ ReadClosed \/ ReadReplyOnly \/ ReadBad \/ ReadShiftTooBig \/ ReadShift
  \/ XappWord \/ XappTail \/ UioChunk \/ IoctlShift \/ IoctlFail \/ ShiftWrite

Next ==
  \/ ServerStep
  \/ \E c \in Clients : Accept(c) \/ Serve(c) \/ ClientClose(c)
                        \/ \E m \in Cmds : ClientSend(c, m)

(* The server thread runs whenever it can; the for loop after select()     *)
(* visits every ready fd, so a client that is ready whenever the server is *)
(* back in select() is served (strong fairness).  Clients are not fair.    *)
Fairness == WF_vars(ServerStep) /\ \A c \in Clients : SF_vars(Serve(c))

Spec == Init /\ [][Next]_vars /\ Fairness

(***************************************************************************)
(* Properties.                                                             *)
(***************************************************************************)
(* Every variable holds a value of its type; the loop indices stay inside  *)
(* the halves of buffer[2048] that the size check admits.                   *)
TypeOK ==
  /\ conn \subseteq Clients /\ gone \subseteq Clients
  /\ inbox \in [Clients -> Seq(Cmds)] /\ answered \in [Clients -> Nat]
  /\ pc \in {"select", "read", "chunk", "write"} /\ cur \in Clients \cup {NoClient}
  /\ bytesLeft \in 0..(BufferSize \div 2) /\ byteIndex \in 0..(BufferSize \div 2)
  /\ spans \in Seq(Nat \X Nat) /\ tck \in Int

(* The byte ranges chunks start..start+bytes-1, in order, cover 0..n-1     *)
(* exactly once.                                                           *)
RECURSIVE Tiles(_, _, _)
Tiles(s, from, n) ==
  IF s = << >> THEN from = n
  ELSE /\ s[1][1] = from /\ s[1][2] > 0
       /\ Tiles(Tail(s), from + s[1][2], n)

(* The shift loop reads the TMS and TDI vectors and writes result in       *)
(* consecutive chunks that cover the nr_bytes of the vector exactly: no    *)
(* byte is skipped, read twice or read past the vector.                    *)
ChunksTile == pc = "write" => Tiles(spans, 0, NrBytes(req))

(* XVC 1.0 shift: clocks exactly num bits TCK cycles: when handle_data     *)
(* writes the TDO reply the chunks have clocked len cycles in all.         *)
ClockedExact == pc = "write" => tck = req

(* Every command of a client is answered unless its connection is closed,  *)
(* whatever the other clients do.                                          *)
AllServed ==
  \A c \in Clients : \A k \in 1..MaxCmds :
    (sentN[c] >= k) ~> (answered[c] >= k \/ c \notin conn)

(* A shift never clocks more TCK cycles than the TMS and TDI vectors       *)
(* handle_data read hold (8 * nr_bytes bits): the size check and the       *)
(* nr_bytes computation from the signed len must bound every loop and the  *)
(* length handed to the driver's ioctl.                                    *)
ClockedInVector == pc = "write" => tck <= 8 * NrBytes(req)
=============================================================================
