------------------------------ MODULE XvcWire ------------------------------
(***************************************************************************)
(* The XVC 1.1 wire format as the protocol engine of                       *)
(* src/mem/versal/src/xvcserver.c reads and writes it.                     *)
(*                                                                         *)
(* A request is abstracted to a record: its verb, one size argument (bit   *)
(* count of shift:/irshift:/drshift:, num_bytes of mrd:/mwr:, timeout of   *)
(* lock:), the settings of a configure: payload, and whether the binding's *)
(* handler reports an error when it is called (for mrd:/mwr: of the memory *)
(* binding: the address is outside the hub window).  Bytes themselves are  *)
(* not modelled, only how many of them each request and reply occupies:    *)
(* that is what the engine's buffering, fragmentation and buffer limits    *)
(* depend on.                                                              *)
(***************************************************************************)
EXTENDS Integers, Sequences, FiniteSets

CONSTANTS
  BufMax,     \* max_packet_len: c->buf_max and the size of reply_buf
  Handlers    \* the optional slots of the XvcServerHandlers table that are set

OptionalHandlers == {"flush", "lock", "unlock", "register_shift", "state", "mrd", "mwr"}

ASSUME BufMax \in Nat \ {0}
ASSUME Handlers \subseteq OptionalHandlers

Kinds == {"getinfo", "capabilities", "configure", "error", "lock", "unlock",
          "shift", "settck", "irshift", "drshift", "state", "mrd", "mwr", "bogus"}

(* One key of a configure: payload: the key text and its suffix, "none"    *)
(* meaning a bare key such as "status".                                    *)
Settings == [key : {"locking", "status", "trace"}, op : {"+", "-", "=", "none"}]

Verbs == [kind : Kinds, n : Nat, cfg : Seq(Settings), fails : BOOLEAN]

(* Bytes of the ULEB128 encoding of v (reply_uleb128: one byte per 7 bits). *)
UlebLen(v) ==
  LET len[x \in Nat] == IF x < 128 THEN 1 ELSE 1 + len[x \div 128]
  IN  len[v]

Bytes(bits) == (bits + 7) \div 8

KeyLen(k) == CASE k = "locking" -> 7 [] k = "status" -> 6 [] k = "trace" -> 5

SuffixLen(op) == CASE op \in {"+", "-"} -> 1 [] op = "=" -> 2 [] op = "none" -> 0

(* Length of the comma separated configure: text. *)
CfgTextLen(cfg) ==
  IF cfg = << >> THEN 0
  ELSE LET parts[i \in 0..Len(cfg)] ==
             IF i = 0 THEN 0
             ELSE parts[i-1] + KeyLen(cfg[i].key) + SuffixLen(cfg[i].op)
       IN  parts[Len(cfg)] + Len(cfg) - 1

(* Length of the verb token up to and including ':'.                       *)
HdrLen(k) ==
  CASE k = "getinfo" -> 8 [] k = "capabilities" -> 13 [] k = "configure" -> 10
    [] k = "error" -> 6 [] k = "lock" -> 5 [] k = "unlock" -> 7
    [] k = "shift" -> 6 [] k = "settck" -> 7 [] k \in {"irshift", "drshift"} -> 8
    [] k = "state" -> 6 [] k \in {"mrd", "mwr"} -> 4 [] k = "bogus" -> 6

(* mrd:/mwr: carry the hub address 0xA4000100, five ULEB128 bytes;         *)
(* irshift:/drshift: and state: carry flags and end state of one byte each; *)
(* irshift:/drshift: use flags 4 (TDI from the buffer, TDO requested).     *)
AddrUlebLen == 5

ReqLen(v) ==
  HdrLen(v.kind) +
  CASE v.kind = "configure" -> UlebLen(CfgTextLen(v.cfg)) + CfgTextLen(v.cfg)
    [] v.kind = "lock" -> UlebLen(v.n)
    [] v.kind = "shift" -> 4 + 2 * Bytes(v.n)
    [] v.kind = "settck" -> 4
    [] v.kind \in {"irshift", "drshift"} -> 2 + UlebLen(v.n) + Bytes(v.n)
    [] v.kind = "state" -> 2 + UlebLen(v.n)
    [] v.kind = "mrd" -> 1 + AddrUlebLen + UlebLen(v.n)
    [] v.kind = "mwr" -> 1 + AddrUlebLen + UlebLen(v.n) + v.n
    [] OTHER -> 0

(* Offset of request i (1-based) in the byte stream of requests s, and the *)
(* offset just past it.                                                    *)
Off(s, i) ==
  LET off[j \in 1..Len(s) + 1] == IF j = 1 THEN 0 ELSE off[j-1] + ReqLen(s[j-1])
  IN  off[i]
End(s, i) == Off(s, i) + ReqLen(s[i])
StreamLen(s) == Off(s, Len(s) + 1)

(* A verb whose handler slot is NULL is not recognised and is a protocol   *)
(* error, like a verb the engine does not know.                            *)
Gate(k) == CASE k \in {"irshift", "drshift"} -> "register_shift"
             [] k \in {"state", "mrd", "mwr"} -> k
             [] OTHER -> "none"
Unknown(k) == k = "bogus" \/ (Gate(k) /= "none" /\ Gate(k) \notin Handlers)

CanLock == {"lock", "unlock"} \subseteq Handlers

(***************************************************************************)
(* pending_error, abstracted to which message is pending and its length.   *)
(***************************************************************************)
NoError == [id |-> "none", len |-> 0]

Digits(x) == LET d[y \in Nat] == IF y < 10 THEN 1 ELSE 1 + d[y \div 10] IN d[x]

ErrLockingDisabled == [id |-> "locking is disabled", len |-> 19]
ErrAlreadyLocked   == [id |-> "already locked", len |-> 14]
ErrAlreadyUnlocked == [id |-> "already unlocked", len |-> 16]
ErrCfgLocking      == [id |-> "locking requires boolean", len |-> 47]
ErrCfgStatus       == [id |-> "status requires boolean", len |-> 46]
ErrCfgUnexpected(keylen) == [id |-> "unexpected configuration", len |-> 26 + keylen]
(* The memory binding's "Invalid arguments addr 0x%08lX num_bytes %lu\n";  *)
(* other handlers report "TIMEOUT" as the handler table comment asks.      *)
ErrHandler(v) ==
  IF v.kind \in {"mrd", "mwr"}
  THEN [id |-> "invalid arguments", len |-> 45 + Digits(v.n)]
  ELSE [id |-> "TIMEOUT", len |-> 7]

(***************************************************************************)
(* Replies.  One item per decoded verb; st is the status byte (0 or 1) or  *)
(* NoStatus, zero tells that the data part was zero filled (or, for        *)
(* settck:, the period echoed) because an error was pending, txt is the    *)
(* text an error: reply carries.                                           *)
(***************************************************************************)
NoStatus == 2

Item(k, st, zero, txt, len) == [kind |-> k, st |-> st, zero |-> zero, txt |-> txt, len |-> len]

StatusLen(st) == IF st = NoStatus THEN 0 ELSE 1

(* "xvcServer_v1.1:<buf_max>\n" *)
GetinfoLen == 15 + Digits(BufMax) + 1

(* "locking," iff lock and unlock, "state-aware," iff register_shift and   *)
(* state, then "memory,idcode=2315268243," (XVC_MEM build) and "status".   *)
CapTextLen ==
  (IF CanLock THEN 8 ELSE 0)
  + (IF {"register_shift", "state"} \subseteq Handlers THEN 12 ELSE 0)
  + 7 + 18 + 6
CapabilitiesLen == UlebLen(CapTextLen) + CapTextLen

(* error: clamps the text so that it and its length prefix fit buf_max.    *)
ErrorTextLen(e) ==
  IF e.len > BufMax - (e.len + 127) \div 128
  THEN BufMax - (e.len + 127) \div 128 ELSE e.len
ErrorReplyLen(e) == UlebLen(ErrorTextLen(e)) + ErrorTextLen(e)

(* Data bytes of the reply of verb v, without its status byte.             *)
DataLen(v) ==
  CASE v.kind = "shift" -> Bytes(v.n)
    [] v.kind = "settck" -> 4
    [] v.kind \in {"irshift", "drshift"} -> Bytes(v.n)
    [] v.kind = "mrd" -> v.n
    [] OTHER -> 0

(* reply_buf_size(max_packet_len): reply_buf is grown by doubling to the *)
(* first power of two not below max_packet_len.                          *)
ReplyCap ==
  LET grow[m \in Nat] == IF m >= BufMax THEN m ELSE grow[2 * m]
  IN  grow[1]

ReplyLen(items) ==
  LET sum[j \in 0..Len(items)] == IF j = 0 THEN 0 ELSE sum[j-1] + items[j].len
  IN  sum[Len(items)]
=============================================================================
