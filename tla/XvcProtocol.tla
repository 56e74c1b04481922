---------------------------- MODULE XvcProtocol ----------------------------
(***************************************************************************)
(* The XVC protocol engine of src/mem/versal/src/xvcserver.c: the accept   *)
(* loop of xvcserver_start and the buffered decoder read_packet, with the  *)
(* client on the other end of the TCP stream.                              *)
(*                                                                         *)
(* The client's byte stream is the concatenation of the requests in sent;  *)
(* recvd counts the bytes recv() has placed in c->buf so far.  c->buf      *)
(* starts at request cons + 1 (the requests before it were consumed by     *)
(* consume_packet) and the decode cursor cbuf at request dec + 1, so       *)
(* c->buf_len = recvd - Off(sent, cons + 1).  replies holds the reply item *)
(* of each decoded request; the first sentCount of them have gone out in   *)
(* send() calls and the rest are in reply_buf.  pc is where the single     *)
(* server thread is: "decode" in the for (;;) loop after read_more,        *)
(* "reply" at the flush/send after the loop, "recv" at the recv() call,    *)
(* "accept" in the accept loop between connections, "aborted" after a      *)
(* failed assert().                                                        *)
(***************************************************************************)
EXTENDS XvcWire

CONSTANTS
  MaxConns,   \* connections the server accepts in a behaviour
  MaxVerbs,   \* requests a client sends on one connection
  Requests,   \* the requests a client may send
  PeerResets  \* whether a client may reset the connection (RST)

ASSUME Requests \subseteq Verbs /\ MaxConns \in Nat /\ MaxVerbs \in Nat
ASSUME PeerResets \in BOOLEAN

VARIABLES
  sent, cliClosed, reset,             \* the client: requests written, shutdown, RST
  recvd, cons, dec, fill, pc,         \* read_packet's buffer and cursors
  replies, sentCount,                 \* reply items computed / sent
  pending_error, locked,              \* XvcClient fields
  enable_locking, enable_status,
  effects,                            \* requests whose handler was called
  conns                               \* connections accepted

client  == <<sent, cliClosed, reset>>
engine  == <<recvd, cons, dec, fill, pc>>
session == <<pending_error, locked, enable_locking, enable_status>>
vars == <<client, engine, replies, sentCount, session, effects, conns>>

Open == pc \in {"decode", "reply", "recv"}

(* The request at the decode cursor, and what of it has arrived.           *)
cur == sent[dec + 1]
HeaderIn == dec < Len(sent) /\ Off(sent, dec + 1) + HdrLen(cur.kind) <= recvd
Complete == dec < Len(sent) /\ End(sent, dec + 1) <= recvd

BufLen == recvd - Off(sent, cons + 1)
Unsent == SubSeq(replies, sentCount + 1, Len(replies))

Pending == pending_error /= NoError
StatusByte(e) == IF e /= NoError THEN 1 ELSE 0

Init ==
  /\ sent = << >> /\ cliClosed = FALSE /\ reset = FALSE
  /\ recvd = 0 /\ cons = 0 /\ dec = 0 /\ fill = FALSE /\ pc = "accept"
  /\ replies = << >> /\ sentCount = 0
  /\ pending_error = NoError /\ locked = FALSE
  /\ enable_locking = FALSE /\ enable_status = FALSE
  /\ effects = << >> /\ conns = 0

(* read_packet returns (goto error, or recv() gave 0 or -1); the accept    *)
(* loop then calls close_port and closes the socket.                       *)
Terminate ==
  /\ pc' = "accept"
  /\ UNCHANGED <<client, recvd, cons, dec, fill, replies, sentCount, session, effects, conns>>

(***************************************************************************)
(* Server: xvcserver_start's accept loop.                                  *)
(***************************************************************************)
Accept ==
  /\ pc = "accept" /\ conns < MaxConns
  /\ conns' = conns + 1
  /\ sent' = << >> /\ cliClosed' = FALSE /\ reset' = FALSE
  /\ recvd' = 0 /\ cons' = 0 /\ dec' = 0 /\ fill' = FALSE /\ pc' = "decode"
  /\ replies' = << >> /\ sentCount' = 0
  /\ pending_error' = NoError /\ locked' = FALSE
  /\ enable_locking' = FALSE /\ enable_status' = FALSE
  /\ effects' = << >>

(***************************************************************************)
(* Server: one pass of read_packet's for (;;) loop.                        *)
(***************************************************************************)
Ready(k) ==
  /\ pc = "decode" /\ Complete /\ cur.kind = k /\ ~Unknown(k)

Decoded(item) ==
  /\ dec' = dec + 1
  /\ replies' = Append(replies, item)

(* Mutants of DecodeFill: the cursor steps over the partial request, or  *)
(* the loop's exit skips the send of what was decoded.                    *)
DecodeFillSkip ==
  /\ pc = "decode" /\ ~Complete /\ ~(HeaderIn /\ Unknown(cur.kind))
  /\ fill' = TRUE /\ pc' = "reply" /\ dec' = dec + 1
  /\ UNCHANGED <<client, recvd, cons, replies, sentCount, session, effects, conns>>

DecodeFillNoReply ==
  /\ pc = "decode" /\ ~Complete /\ ~(HeaderIn /\ Unknown(cur.kind))
  /\ fill' = TRUE /\ pc' = "recv"
  /\ UNCHANGED <<client, recvd, cons, dec, replies, sentCount, session, effects, conns>>

(* Mutant of DecodeFill: configure:'s assert measures the request        *)
(* against c->buf_len, the bytes buffered, instead of c->buf_max.          *)
DecodeFillAssertBufLen ==
  /\ pc = "decode" /\ ~Complete /\ ~(HeaderIn /\ Unknown(cur.kind))
  /\ LET cfgAssert == /\ HeaderIn /\ cur.kind = "configure"
                      /\ Off(sent, dec + 1) + HdrLen("configure")
                           + UlebLen(CfgTextLen(cur.cfg)) <= recvd
                      /\ ReqLen(cur) >= BufLen
     IN  /\ fill' = TRUE
         /\ pc' = IF cfgAssert THEN "aborted" ELSE "reply"
  /\ UNCHANGED <<client, recvd, cons, dec, replies, sentCount, session, effects, conns>>

(* The request is not all in c->buf: fill = 1, leave the loop.  A          *)
(* configure: whose ULEB128 length is in but whose text is not trips       *)
(* assert(pktend - cbuf < c->buf_max) when the request is buf_max long.    *)
DecodeFill ==
  /\ pc = "decode" /\ ~Complete /\ ~(HeaderIn /\ Unknown(cur.kind))
  /\ LET cfgAssert == /\ HeaderIn /\ cur.kind = "configure"
                      /\ Off(sent, dec + 1) + HdrLen("configure")
                           + UlebLen(CfgTextLen(cur.cfg)) <= recvd
                      /\ ReqLen(cur) >= BufMax
     IN  /\ fill' = TRUE
         /\ pc' = IF cfgAssert THEN "aborted" ELSE "reply"
  /\ UNCHANGED <<client, recvd, cons, dec, replies, sentCount, session, effects, conns>>

(* A verb the engine does not know, or whose handler is NULL: goto error. *)
DecodeUnknown ==
  /\ pc = "decode" /\ HeaderIn /\ Unknown(cur.kind)
  /\ Terminate

DecodeGetinfo ==
  /\ Ready("getinfo")
  /\ Decoded(Item("getinfo", NoStatus, FALSE, NoError, GetinfoLen))
  /\ UNCHANGED <<client, recvd, cons, fill, pc, sentCount, session, effects, conns>>

DecodeCapabilities ==
  /\ Ready("capabilities")
  /\ Decoded(Item("capabilities", NoStatus, FALSE, NoError, CapabilitiesLen))
  /\ UNCHANGED <<client, recvd, cons, fill, pc, sentCount, session, effects, conns>>

(* The while loop over the comma separated fields: it stops at the end of *)
(* the text or as soon as an error is pending.                             *)
RECURSIVE ConfigLoop(_, _, _, _)
ConfigLoop(cfg, err, enL, enS) ==
  IF cfg = << >> \/ err /= NoError THEN [pend |-> err, enL |-> enL, enS |-> enS]
  ELSE LET x == Head(cfg)
           enable == CASE x.op = "+" -> 1 [] x.op = "-" -> 0 [] OTHER -> -1
           config == IF x.op = "none" THEN "truncated" ELSE x.key
           configLen == IF x.op = "none" THEN KeyLen(x.key) - 1 ELSE KeyLen(x.key)
       IN  IF config = "locking" /\ CanLock
           THEN IF enable < 0 THEN ConfigLoop(Tail(cfg), ErrCfgLocking, enL, enS)
                ELSE ConfigLoop(Tail(cfg), err, enable = 1, enS)
           ELSE IF config = "status"
           THEN IF enable < 0 THEN ConfigLoop(Tail(cfg), ErrCfgStatus, enL, enS)
                ELSE ConfigLoop(Tail(cfg), err, enL, enable = 1)
           ELSE ConfigLoop(Tail(cfg), ErrCfgUnexpected(configLen), enL, enS)

DecodeConfigure ==
  /\ Ready("configure")
  /\ LET r == ConfigLoop(cur.cfg, pending_error, enable_locking, enable_status)
     IN  /\ pending_error' = r.pend
         /\ enable_locking' = r.enL
         /\ enable_status' = r.enS
         /\ Decoded(Item("configure", StatusByte(r.pend), FALSE, NoError, 1))
  /\ UNCHANGED <<client, recvd, cons, fill, pc, sentCount, locked, effects, conns>>

DecodeError ==
  /\ Ready("error")
  /\ pending_error' = NoError
  /\ Decoded(Item("error", NoStatus, FALSE, pending_error, ErrorReplyLen(pending_error)))
  /\ UNCHANGED <<client, recvd, cons, fill, pc, sentCount, locked, enable_locking,
                 enable_status, effects, conns>>
(* lock: waits for the replies of the verbs before it to be sent:         *)
(* "if (reply_len > 0) break;" leaves the loop with fill = 0.              *)
LockBreak ==
  /\ Ready("lock") /\ ReplyLen(Unsent) > 0
  /\ pc' = "reply"
  /\ UNCHANGED <<client, recvd, cons, dec, fill, replies, sentCount, session, effects, conns>>

(* Mutant of LockVerb: c->locked follows the request even when the       *)
(* handler reported an error.                                             *)
LockVerbIgnoreFail(want) ==
  LET v == cur
      call == ~Pending /\ enable_locking /\ locked /= want
      e == CASE Pending -> pending_error
             [] ~enable_locking -> ErrLockingDisabled
             [] locked = want -> IF want THEN ErrAlreadyLocked ELSE ErrAlreadyUnlocked
             [] v.fails -> ErrHandler(v)
             [] OTHER -> NoError
  IN  /\ pending_error' = e
      /\ locked' = IF call THEN want ELSE locked
      /\ effects' = IF call THEN Append(effects, dec + 1) ELSE effects
      /\ Decoded(Item(v.kind, StatusByte(e), FALSE, NoError, 1))
      /\ UNCHANGED <<client, recvd, cons, fill, pc, sentCount, enable_locking, enable_status, conns>>

(* lock: and unlock:, refused when locking is off or the lock is already  *)
(* in the requested state; otherwise the handler runs and may fail.       *)
LockVerb(want) ==
  LET v == cur
      call == ~Pending /\ enable_locking /\ locked /= want
      e == CASE Pending -> pending_error
             [] ~enable_locking -> ErrLockingDisabled
             [] locked = want -> IF want THEN ErrAlreadyLocked ELSE ErrAlreadyUnlocked
             [] v.fails -> ErrHandler(v)
             [] OTHER -> NoError
  IN  /\ pending_error' = e
      /\ locked' = IF call /\ e = NoError THEN want ELSE locked
      /\ effects' = IF call THEN Append(effects, dec + 1) ELSE effects
      /\ Decoded(Item(v.kind, StatusByte(e), FALSE, NoError, 1))
      /\ UNCHANGED <<client, recvd, cons, fill, pc, sentCount, enable_locking, enable_status, conns>>

DecodeLock ==
  /\ Ready("lock") /\ ReplyLen(Unsent) = 0
  /\ LockVerb(TRUE)

DecodeUnlock ==
  /\ Ready("unlock")
  /\ LockVerb(FALSE)

(* Mutant of HandlerVerb: the output is zeroed only when this verb's own  *)
(* handler call failed, not when an earlier error is pending.             *)
HandlerVerbOwnFailOnly(statusAlways, zeroable) ==
  LET v == cur
      e == IF ~Pending /\ v.fails THEN ErrHandler(v) ELSE pending_error
      st == IF statusAlways \/ enable_status THEN StatusByte(e) ELSE NoStatus
  IN  /\ pending_error' = e
      /\ effects' = IF Pending THEN effects ELSE Append(effects, dec + 1)
      /\ Decoded(Item(v.kind, st, zeroable /\ ~Pending /\ v.fails, NoError, DataLen(v) + StatusLen(st)))
      /\ UNCHANGED <<client, recvd, cons, fill, pc, sentCount, locked, enable_locking,
                     enable_status, conns>>

(* The verbs that call a scan or memory handler unless an error is        *)
(* pending, zero their data when an error is pending afterwards (settck:  *)
(* echoes the requested period instead) and reply with a status byte,     *)
(* always or only when status is enabled.                                 *)
HandlerVerb(statusAlways, zeroable) ==
  LET v == cur
      e == IF ~Pending /\ v.fails THEN ErrHandler(v) ELSE pending_error
      st == IF statusAlways \/ enable_status THEN StatusByte(e) ELSE NoStatus
  IN  /\ pending_error' = e
      /\ effects' = IF Pending THEN effects ELSE Append(effects, dec + 1)
      /\ Decoded(Item(v.kind, st, zeroable /\ e /= NoError, NoError, DataLen(v) + StatusLen(st)))
      /\ UNCHANGED <<client, recvd, cons, fill, pc, sentCount, locked, enable_locking,
                     enable_status, conns>>

DecodeShift == Ready("shift") /\ HandlerVerb(FALSE, TRUE)

DecodeSettck == Ready("settck") /\ HandlerVerb(FALSE, TRUE)

DecodeRegShift == (Ready("irshift") \/ Ready("drshift")) /\ HandlerVerb(TRUE, TRUE)

DecodeState == Ready("state") /\ HandlerVerb(TRUE, FALSE)

DecodeMrd == Ready("mrd") /\ HandlerVerb(TRUE, TRUE)

DecodeMwr == Ready("mwr") /\ HandlerVerb(TRUE, FALSE)

Decode ==
  \/ DecodeFill \/ DecodeUnknown \/ DecodeGetinfo \/ DecodeCapabilities
  \/ DecodeConfigure \/ DecodeError \/ LockBreak \/ DecodeLock \/ DecodeUnlock
  \/ DecodeShift \/ DecodeSettck \/ DecodeRegShift \/ DecodeState
  \/ DecodeMrd \/ DecodeMwr

(***************************************************************************)
(* Server: after the loop.  When requests were decoded, flush (if the     *)
(* binding has it) and send reply_buf, consume the decoded bytes and go   *)
(* back to read_more while complete input may remain; otherwise recv().   *)
(***************************************************************************)
ReplyNone ==
  /\ pc = "reply" /\ dec = cons
  /\ pc' = "recv"
  /\ UNCHANGED <<client, recvd, cons, dec, fill, replies, sentCount, session, effects, conns>>

(* Mutant of ReplySend: no goto read_more after the send. *)
ReplySendNoReadMore ==
  /\ pc = "reply" /\ dec > cons /\ ~reset
  /\ sentCount' = Len(replies) /\ cons' = dec /\ pc' = "recv"
  /\ UNCHANGED <<client, recvd, dec, fill, replies, session, effects, conns>>

ReplySend ==
  /\ pc = "reply" /\ dec > cons /\ ~reset
  /\ sentCount' = Len(replies)
  /\ cons' = dec
  /\ IF recvd > Off(sent, dec + 1) /\ ~fill
     THEN pc' = "decode" /\ fill' = FALSE
     ELSE pc' = "recv" /\ UNCHANGED fill
  /\ UNCHANGED <<client, recvd, dec, replies, session, effects, conns>>

(* flush() < 0 or send() < 0: goto error, dropping reply_buf. *)
ReplyFail ==
  /\ pc = "reply" /\ dec > cons
  /\ Terminate

(* send() on a connection the peer has reset raises SIGPIPE.  Nothing in *)
(* the program ignores it and send_packet passes no MSG_NOSIGNAL, so the  *)
(* default action terminates the server process.                          *)
ReplySigpipe ==
  /\ pc = "reply" /\ dec > cons /\ reset
  /\ pc' = "aborted"
  /\ UNCHANGED <<client, recvd, cons, dec, fill, replies, sentCount, session, effects, conns>>

Reply == ReplyNone \/ ReplySend \/ ReplySigpipe

(***************************************************************************)
(* Server: recv(c->fd, c->buf + c->buf_len, c->buf_max - c->buf_len).     *)
(***************************************************************************)
RecvData ==
  /\ pc = "recv"
  /\ \E k \in 1..(BufMax - BufLen) :
       /\ recvd + k <= StreamLen(sent)
       /\ recvd' = recvd + k
  /\ pc' = "decode" /\ fill' = FALSE
  /\ UNCHANGED <<client, cons, dec, replies, sentCount, session, effects, conns>>

(* recv() returns 0: the client shut the stream down and all of it was    *)
(* read, or there is no room left in c->buf.                              *)
RecvZero ==
  /\ pc = "recv"
  /\ (recvd = StreamLen(sent) /\ cliClosed) \/ BufLen = BufMax
  /\ Terminate

(* recv() returns -1 (connection reset). *)
RecvError ==
  /\ pc = "recv"
  /\ Terminate

Recv == RecvData \/ RecvZero

(***************************************************************************)
(* The client writes whole requests that fit buf_max, then may shut down. *)
(***************************************************************************)
ClientSend(v) ==
  /\ Open /\ ~cliClosed /\ Len(sent) < MaxVerbs /\ ReqLen(v) <= BufMax
  /\ sent' = Append(sent, v)
  /\ UNCHANGED <<cliClosed, reset, engine, replies, sentCount, session, effects, conns>>

ClientClose ==
  /\ Open /\ ~cliClosed
  /\ cliClosed' = TRUE
  /\ UNCHANGED <<sent, reset, engine, replies, sentCount, session, effects, conns>>

(* After its close the client's stack resets the connection: at once if  *)
(* replies were left unread or SO_LINGER is 0, else in answer to the next *)
(* data that reaches it.  Only send() observes the reset (recv() may      *)
(* still return queued bytes, or fail as RecvError does at any time), so   *)
(* the reset is taken in the state where a reply is due: an earlier reset  *)
(* leads to the same steps.                                                *)
ClientReset ==
  /\ PeerResets /\ pc = "reply" /\ dec > cons /\ cliClosed /\ ~reset
  /\ reset' = TRUE
  /\ UNCHANGED <<sent, cliClosed, engine, replies, sentCount, session, effects, conns>>

(* All connections of the behaviour have been served, or the process has *)
(* ended.                                                                  *)
Done ==
  /\ (pc = "accept" /\ conns = MaxConns) \/ pc = "aborted"
  /\ UNCHANGED vars

Next ==
  \/ Accept \/ Decode \/ Reply \/ ReplyFail \/ Recv \/ RecvError
  \/ (\E v \in Requests : ClientSend(v)) \/ ClientClose \/ ClientReset \/ Done

Fairness == WF_vars(Decode) /\ WF_vars(Reply) /\ WF_vars(Recv)

Spec == Init /\ [][Next]_vars /\ Fairness
(***************************************************************************)
(* Properties.                                                             *)
(***************************************************************************)
TypeOK ==
  /\ sent \in Seq(Requests) /\ Len(sent) <= MaxVerbs /\ cliClosed \in BOOLEAN
  /\ reset \in BOOLEAN /\ (reset => cliClosed)
  /\ recvd \in 0..StreamLen(sent) /\ cons \in 0..dec /\ dec \in 0..Len(sent)
  /\ fill \in BOOLEAN /\ pc \in {"accept", "decode", "reply", "recv", "aborted"}
  /\ Len(replies) = dec /\ sentCount \in 0..Len(replies)
  /\ locked \in BOOLEAN /\ enable_locking \in BOOLEAN /\ enable_status \in BOOLEAN
  /\ effects \in Seq(1..dec) /\ conns \in 0..MaxConns

(* The engine implements the session semantics of XvcSession: whatever    *)
(* way recv() splits the stream and whichever requests read_packet        *)
(* batches into one send(), each request is served in order with the      *)
(* effect and reply its verb defines for the session state of its turn,   *)
(* and replies go out in order.                                           *)
ABS == INSTANCE XvcSession
         WITH reqs <- sent, served <- dec, results <- replies, delivered <- sentCount,
              sess <- [pend |-> pending_error, locked |-> locked,
                       enLock |-> enable_locking, enStatus |-> enable_status],
              open <- Open
Refines == ABS!Spec

(* The replies decoded from one read, which read_packet accumulates in    *)
(* reply_buf before a single send(), fit reply_buf.  getinfo:, mrd: data  *)
(* and the other handler outputs are written without a bound check.       *)
ReplyFitsBuffer == ReplyLen(Unsent) <= ReplyCap

(* No assert() in read_packet fails for a request of at most buf_max      *)
(* bytes, however recv() splits it (spec: fragmented reads produce the    *)
(* same replies as the unsplit request).                                  *)
NoAbort == pc /= "aborted"

(* Every request a client sends is eventually answered (its reply leaves  *)
(* in a send()) or its connection ends: read_packet never sits in recv()  *)
(* while a complete request is in c->buf, including after lock: broke the *)
(* loop to flush the replies before it.                                   *)
RepliesSent ==
  \A i \in 1..MaxVerbs : (Open /\ Len(sent) >= i) ~> (sentCount >= i \/ ~Open)

(* The scan-chain lock that lock: took through the handler's lock()       *)
(* callback is released through unlock() before the connection ends:      *)
(* xvcserver.h promises the lock lasts until the next unlock() callback,  *)
(* and after the accept loop's close_port the next XvcClient starts with  *)
(* locked = 0, so no later unlock: can release it.                        *)
LockReleasedOnClose == [][(Open /\ locked) => Open']_vars

=============================================================================
