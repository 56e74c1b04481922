--------------------------- MODULE MC_XvcProtocol ---------------------------
(***************************************************************************)
(* Instances of XvcProtocol for TLC.                                       *)
(***************************************************************************)
EXTENDS XvcProtocol

V(k, n, cfg, fails) == [kind |-> k, n |-> n, cfg |-> cfg, fails |-> fails]

(* The memory binding of xvc_mem.c: only mrd and mwr are set among the    *)
(* optional handlers, and only they can fail (address outside the hub).   *)
MemHandlers == {"mrd", "mwr"}
MemRequests ==
  { V("getinfo", 0, << >>, FALSE),
    V("configure", 0, << [key |-> "status", op |-> "+"] >>, FALSE),
    V("error", 0, << >>, FALSE),
    V("shift", 8, << >>, FALSE),
    V("mrd", 4, << >>, FALSE),
    V("mrd", 4, << >>, TRUE),
    V("state", 0, << >>, FALSE) }

(* A binding that sets every optional handler, each of which may report  *)
(* an error: the paths of the engine the memory binding does not reach    *)
(* (locking, state-aware verbs, flush).                                   *)
FullHandlers == OptionalHandlers
FullRequests ==
  { V("capabilities", 0, << >>, FALSE),
    V("configure", 0, << [key |-> "locking", op |-> "+"] >>, FALSE),
    V("configure", 0, << [key |-> "status", op |-> "none"], [key |-> "locking", op |-> "-"] >>, FALSE),
    V("lock", 0, << >>, FALSE),
    V("lock", 0, << >>, TRUE),
    V("unlock", 0, << >>, FALSE),
    V("settck", 0, << >>, FALSE),
    V("irshift", 8, << >>, FALSE),
    V("state", 0, << >>, FALSE),
    V("mwr", 2, << >>, TRUE) }

(* A client that pipelines getinfo: requests. *)
GetinfoRequests == { V("getinfo", 0, << >>, FALSE) }

(* A configure: request exactly buf_max = 24 bytes long:                  *)
(* "configure:" 0x0D "status+,trace".                                     *)
MaxConfigure == V("configure", 0, << [key |-> "status", op |-> "+"], [key |-> "trace", op |-> "none"] >>, FALSE)
MaxConfigureRequests == { MaxConfigure }

(* A client that enables locking, takes the lock and disables locking.   *)
LockingRequests ==
  { V("configure", 0, << [key |-> "locking", op |-> "+"] >>, FALSE),
    V("configure", 0, << [key |-> "locking", op |-> "-"] >>, FALSE),
    V("lock", 0, << >>, FALSE),
    V("unlock", 0, << >>, FALSE) }
=============================================================================
