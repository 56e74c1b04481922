----------------------------- MODULE MemServer -----------------------------
(***************************************************************************)
(* The memory binding of src/mem/versal/src/xvc_mem.c served by the accept *)
(* loop of xvcserver_start (src/mem/versal/src/xvcserver.c).               *)
(*                                                                         *)
(* The loop serves one connection at a time: accept, getpeername, a fresh  *)
(* XvcClient, open_port (open /dev/mem and mmap the debug hub window),     *)
(* read_packet, close_port (munmap), closesocket.  Within read_packet only *)
(* the calls that reach the binding are kept: mrd: and mwr: requests, the  *)
(* handler being skipped while an error is pending, and error: clearing    *)
(* it.  The decoding and the replies are XvcProtocol's.                    *)
(*                                                                         *)
(* size_t is W bits wide: every address sum is taken modulo 2^W, so the    *)
(* window check wraps where the 64-bit one does.  The hub window is scaled *)
(* down with it.  The handlers access the window one 32-bit word at a time *)
(* (ENABLE_SINGLE_WORD_RW); the model records the byte offsets relative   *)
(* to hub.buf that each access touches.                                   *)
(***************************************************************************)
EXTENDS Integers, FiniteSets

CONSTANTS
  W,           \* width of size_t in the model
  HubAddr,     \* xvc_mem.hub.addr (DEFAULT_HUB_ADDR or --addr)
  HubSize,     \* xvc_mem.hub.size (DEFAULT_HUB_SIZE)
  Addrs,       \* addresses a client sends in mrd:/mwr:
  Sizes,       \* num_bytes a client sends in mrd:/mwr:
  MaxConns,    \* connections accepted
  MaxReqs,     \* requests per connection
  MwrMax,      \* the largest mwr: payload a buf_max-byte request holds
  BufAddr,     \* the address of c->buf, in the W-bit address space
  Failures     \* TRUE: accept, getpeername, open and mmap may fail

U(x) == x % (2 ^ W)

ASSUME /\ Addrs \subseteq 0..(2 ^ W - 1) /\ Sizes \subseteq 0..(2 ^ W - 1)
       /\ HubAddr + HubSize < 2 ^ W /\ Failures \in BOOLEAN
       /\ BufAddr + MwrMax < 2 ^ W

(* Outcomes of a system call: it succeeds, or, when Failures holds, fails. *)
Outcomes == IF Failures THEN BOOLEAN ELSE {TRUE}

VARIABLES
  srv,      \* "accepting", "serving", "stopped" (loop left),
            \* "exited" (exit() or a failed assert)
  conns,    \* connections accepted so far
  fds,      \* accepted sockets not closed
  mapped,   \* the hub window is mmapped
  pending,  \* c->pending_error[0] != 0
  reqs,     \* mrd:/mwr: requests of this connection
  stray     \* hub.buf offsets outside 0..HubSize-1 some access touched

vars == <<srv, conns, fds, mapped, pending, reqs, stray>>

Init ==
  /\ srv = "accepting" /\ conns = 0 /\ fds = 0
  /\ mapped = FALSE /\ pending = FALSE /\ reqs = 0 /\ stray = {}

(***************************************************************************)
(* The accept loop.                                                        *)
(***************************************************************************)

(* accept() < 0 ends the while loop: closesocket(sock), return.           *)
AcceptFails ==
  /\ srv = "accepting" /\ Failures
  /\ srv' = "stopped"
  /\ UNCHANGED <<conns, fds, mapped, pending, reqs, stray>>

(* open_port: open("/dev/mem") and mmap of the hub window; either        *)
(* failing calls exit().  hub.buf is then the new mapping.                  *)
OpenPort(ok) ==
  IF ok THEN srv' = "serving" /\ mapped' = TRUE
        ELSE srv' = "exited" /\ UNCHANGED mapped

(* close_port: munmap(hub.buf). *)
ClosePort == mapped' = FALSE

(* accept() returns fd.  A failing getpeername continues the loop with fd *)
(* still open; otherwise memset(c, 0) and open_port.                       *)
Accept ==
  /\ srv = "accepting" /\ conns < MaxConns
  /\ conns' = conns + 1 /\ fds' = fds + 1
  /\ \E peerOk, openOk, mmapOk \in Outcomes :
       IF peerOk THEN OpenPort(openOk /\ mmapOk) /\ pending' = FALSE /\ reqs' = 0
                 ELSE UNCHANGED <<srv, mapped, pending, reqs>>
  /\ UNCHANGED stray

(* read_packet returns (peer closed, protocol error, recv or send error):  *)
(* close_port, then closesocket(fd) and free(c->buf).                      *)
Disconnect ==
  /\ srv = "serving"
  /\ ClosePort
  /\ srv' = "accepting" /\ fds' = fds - 1
  /\ UNCHANGED <<conns, pending, reqs, stray>>

(***************************************************************************)
(* The handlers.                                                           *)
(***************************************************************************)

(* addr < hub.addr || addr + num_bytes > hub.addr + hub.size, in size_t.   *)
Rejected(addr, n) == addr < HubAddr \/ U(addr + n) > U(HubAddr + HubSize)

(* The single-word loop: for (i = 0; i < num_bytes; i += 4) it accesses   *)
(* the 32-bit word at hub.buf + (addr - hub.addr + i).                     *)
Touched(addr, n) ==
  { U(addr - HubAddr + 4 * k) + b : k \in 0..((n + 3) \div 4 - 1), b \in 0..3 }

(* mrd and mwr have the same window check and the same loop; they differ *)
(* only in the direction of the copy.  A rejected request sets the error   *)
(* (xvcserver_set_error) and returns; read_packet skips the handler while *)
(* an error is pending.                                                    *)
Handler(addr, n) ==
  IF pending THEN UNCHANGED <<pending, stray>>
  ELSE IF Rejected(addr, n)
       THEN pending' = TRUE /\ UNCHANGED stray
       ELSE /\ stray' = stray \cup { o \in Touched(addr, n) : o >= HubSize }
            /\ UNCHANGED pending

(* One mrd:/mwr: request of the connection reaching its handler call.     *)
Request(call) ==
  /\ srv = "serving" /\ reqs < MaxReqs
  /\ call
  /\ reqs' = reqs + 1
  /\ UNCHANGED <<conns, fds, mapped>>

Mrd(addr, n) == Request(Handler(addr, n) /\ UNCHANGED srv)

(* mwr: tests cend < p + num_bytes, with p the payload's address in       *)
(* c->buf.  When the sum stays below 2^W and the payload is not all in     *)
(* the buffer, read_packet waits for it, and a payload that cannot fit in  *)
(* buf_max fails assert(p + num_bytes - cbuf <= c->buf_max): the process   *)
(* aborts.  When the sum wraps the test is false: the handler runs, and    *)
(* p += num_bytes leaves the decode cursor below the request, so what      *)
(* read_packet decodes next is undefined; a crash is one outcome, further  *)
(* requests (any of the model's) and a disconnect are the others.          *)
PayloadWraps(p, n) == p + n >= 2 ^ W

Mwr(addr, n) ==
  \E p \in BufAddr..(BufAddr + MwrMax) :
    Request(CASE PayloadWraps(p, n) ->
                   Handler(addr, n) /\ srv' \in {srv, "exited"}
              [] n > MwrMax ->
                   srv' = "exited" /\ UNCHANGED <<pending, stray>>
              [] OTHER ->
                   Handler(addr, n) /\ UNCHANGED srv)

(* error: clears the pending error. *)
ErrorVerb ==
  /\ srv = "serving" /\ pending
  /\ pending' = FALSE
  /\ UNCHANGED <<srv, conns, fds, mapped, reqs, stray>>

Next ==
  \/ AcceptFails \/ Accept \/ Disconnect \/ ErrorVerb
  \/ \E a \in Addrs, n \in Sizes : Mrd(a, n) \/ Mwr(a, n)

Spec == Init /\ [][Next]_vars

(***************************************************************************)
(* Properties.                                                             *)
(***************************************************************************)

(* The hub window check is meant to keep every access of mrd and mwr      *)
(* inside the mmapped window of hub.size bytes: no request a client can    *)
(* send makes the handlers touch memory outside it.                        *)
AccessInWindow == stray = {}

(* xvcserver_start serves one connection at a time and closes its socket  *)
(* when read_packet returns or open_port fails: outside a connection no    *)
(* accepted socket is left open while the process runs.                   *)
SocketsClosed == srv /= "exited" => fds <= IF srv = "serving" THEN 1 ELSE 0
=============================================================================
