----------------------------- MODULE XvcSession -----------------------------
(***************************************************************************)
(* What one XVC server promises its clients, connection by connection      *)
(* (spec.md, "XVC protocol engine"): requests are served one at a time in  *)
(* the order they were sent, each verb has the effect and the reply of its *)
(* definition given the session state (pending error, locked, the locking  *)
(* and status options), replies reach the client in order, and a          *)
(* connection may end at any moment.  How bytes are buffered, split into   *)
(* recv() chunks and batched into send() calls does not appear here: the   *)
(* implementation XvcProtocol is checked to be a refinement of this        *)
(* module.                                                                 *)
(***************************************************************************)
EXTENDS XvcWire

CONSTANTS
  MaxConns,   \* connections the server accepts in a behaviour
  Requests    \* the requests a client may send

ASSUME Requests \subseteq Verbs

VARIABLES
  reqs,       \* requests the client sent on the current connection
  served,     \* how many of them the server has carried out
  results,    \* the reply item of each served request
  delivered,  \* how many reply items the client has received
  effects,    \* served requests that reached the binding's handlers
  sess,       \* the per-connection session state
  open,       \* a connection is established
  conns       \* connections accepted so far

vars == <<reqs, served, results, delivered, effects, sess, open, conns>>

FreshSession == [pend |-> NoError, locked |-> FALSE, enLock |-> FALSE, enStatus |-> FALSE]

Init ==
  /\ reqs = << >> /\ served = 0 /\ results = << >> /\ delivered = 0
  /\ effects = << >> /\ sess = FreshSession /\ open = FALSE /\ conns = 0

(* configure: applies its settings in order until one fails; nothing is    *)
(* applied when an error is already pending.                               *)
ApplySetting(s, x) ==
  LET key == IF x.op = "none" THEN "cut" ELSE x.key
      en  == CASE x.op = "+" -> 1 [] x.op = "-" -> 0 [] OTHER -> -1
  IN  IF s.pend /= NoError THEN s
      ELSE CASE key = "locking" /\ CanLock ->
                  IF en < 0 THEN [s EXCEPT !.pend = ErrCfgLocking]
                  ELSE [s EXCEPT !.enLock = (en = 1)]
             [] key = "status" ->
                  IF en < 0 THEN [s EXCEPT !.pend = ErrCfgStatus]
                  ELSE [s EXCEPT !.enStatus = (en = 1)]
             [] OTHER ->
                  [s EXCEPT !.pend = ErrCfgUnexpected(KeyLen(x.key) - (IF x.op = "none" THEN 1 ELSE 0))]

Configured(s, cfg) ==
  LET st[i \in 0..Len(cfg)] == IF i = 0 THEN s ELSE ApplySetting(st[i-1], cfg[i])
  IN  st[Len(cfg)]

(* lock: and unlock: refuse when locking is off or the lock is already in  *)
(* the requested state; otherwise the handler runs and may fail.           *)
LockOutcome(s, v, want) ==
  CASE ~s.enLock           -> [s EXCEPT !.pend = ErrLockingDisabled]
    [] s.locked = want     -> [s EXCEPT !.pend = IF want THEN ErrAlreadyLocked ELSE ErrAlreadyUnlocked]
    [] v.fails             -> [s EXCEPT !.pend = ErrHandler(v)]
    [] OTHER               -> [s EXCEPT !.locked = want]

CallsHandler(s, v) ==
  /\ s.pend = NoError
  /\ v.kind \in {"shift", "settck", "irshift", "drshift", "state", "mrd", "mwr"}
     \/ (v.kind \in {"lock", "unlock"} /\ s.enLock /\ s.locked /= (v.kind = "lock"))

(* Session state after serving v in state s. *)
After(s, v) ==
  CASE s.pend /= NoError /\ v.kind /= "error" -> s
    [] v.kind = "configure" -> Configured(s, v.cfg)
    [] v.kind = "error"     -> [s EXCEPT !.pend = NoError]
    [] v.kind = "lock"      -> LockOutcome(s, v, TRUE)
    [] v.kind = "unlock"    -> LockOutcome(s, v, FALSE)
    [] v.fails /\ CallsHandler(s, v) -> [s EXCEPT !.pend = ErrHandler(v)]
    [] OTHER -> s

(* Reply item of v: a status byte for the status-carrying verbs (only when *)
(* status is enabled for shift: and settck:), zeroed data when an error is *)
(* pending after the verb.                                                 *)
Result(s, v) ==
  LET t  == After(s, v)
      st == IF v.kind \in {"configure", "lock", "unlock", "irshift", "drshift", "state", "mrd", "mwr"}
               \/ (v.kind \in {"shift", "settck"} /\ t.enStatus)
            THEN IF t.pend /= NoError THEN 1 ELSE 0 ELSE NoStatus
      zero == v.kind \in {"shift", "settck", "irshift", "drshift", "mrd"} /\ t.pend /= NoError
  IN  CASE v.kind = "getinfo" -> Item("getinfo", NoStatus, FALSE, NoError, GetinfoLen)
        [] v.kind = "capabilities" -> Item("capabilities", NoStatus, FALSE, NoError, CapabilitiesLen)
        [] v.kind = "error" -> Item("error", NoStatus, FALSE, s.pend, ErrorReplyLen(s.pend))
        [] OTHER -> Item(v.kind, st, zero, NoError, DataLen(v) + StatusLen(st))

Accept ==
  /\ ~open /\ conns < MaxConns
  /\ open' = TRUE /\ conns' = conns + 1
  /\ reqs' = << >> /\ served' = 0 /\ results' = << >> /\ delivered' = 0
  /\ effects' = << >> /\ sess' = FreshSession

Send(v) ==
  /\ open /\ reqs' = Append(reqs, v)
  /\ UNCHANGED <<served, results, delivered, effects, sess, open, conns>>

Serve ==
  /\ open /\ served < Len(reqs)
  /\ LET v == reqs[served + 1]
     IN  /\ ~Unknown(v.kind)
         /\ served' = served + 1
         /\ results' = Append(results, Result(sess, v))
         /\ sess' = After(sess, v)
         /\ effects' = IF CallsHandler(sess, v) THEN Append(effects, served + 1) ELSE effects
  /\ UNCHANGED <<reqs, delivered, open, conns>>

Deliver ==
  /\ open /\ delivered < Len(results)
  /\ delivered' \in delivered + 1 .. Len(results)
  /\ UNCHANGED <<reqs, served, results, effects, sess, open, conns>>

Close ==
  /\ open /\ open' = FALSE
  /\ UNCHANGED <<reqs, served, results, delivered, effects, sess, conns>>

Next == (\E v \in Requests : Send(v)) \/ Serve \/ Deliver \/ Close \/ Accept

Spec == Init /\ [][Next]_vars
=============================================================================
