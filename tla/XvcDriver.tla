------------------------------ MODULE XvcDriver ------------------------------
(***************************************************************************)
(* Life cycle of the zynqMP XVC kernel module,                             *)
(* src/zynqMP/src/driver/xvc_driver_base.c, with CONFIG_COUNT = 1 and      *)
(* GET_DB_BY_RES (the build without xvc_user_config.h):                    *)
(*   module init and exit, probe and remove of the platform driver (the    *)
(*   driver core calls them on register, bind, unbind and unregister), and *)
(*   open, close and XDMA_IOCXVC ioctl of the character device.            *)
(*                                                                         *)
(* The kernel objects (char device region, class, device node, cdev) live  *)
(* outside the module; the module statics xvc_dev_class, db_ptrs and       *)
(* xvc_char_ioc_dev.owner are reset when the module is loaded.  A call     *)
(* that may fail is an input: Can(p) is {TRUE} unless p is in FaultPoints. *)
(***************************************************************************)
EXTENDS Integers, FiniteSets

CONSTANTS
  FaultPoints,   \* subset of {"region", "register", "class", "cdev",
                 \*            "device", "ioremap"}
  MaxLoads,      \* insmod attempts
  MaxProbes,     \* probe calls
  MaxOpens,      \* files open on the device node at once
  MaxIoctls      \* ioctls issued

Can(p) == IF p \in FaultPoints THEN BOOLEAN ELSE {TRUE}

VARIABLES
  module,      \* "unloaded" or "loaded"
  loads,       \* insmod attempts so far
  region,      \* the char device region is allocated
  heldRegion,  \* this load allocated the region
  unregs,      \* unregister_chrdev_region calls of this load on it
  cls,         \* static xvc_dev_class: "null", "ok" or "err" (ERR_PTR)
  classLive,   \* the class object exists
  cdevOwner,   \* xvc_char_ioc_dev.owner set by cdev_init
  cdevAdded,   \* the cdev is in the char device map
  cdevInits, cdevDels,  \* cdev_init and cdev_del calls of this load
  devNode,     \* the device node /dev/xilinx_xvc_driver exists
  dbPtr,       \* db_ptrs[0]: "null", "ok" (mapped) or "err" (ERR_PTR)
  registered,  \* the platform driver is registered
  bound,       \* the last probe returned 0 and no remove followed
  probes, opens, ioctls,
  ioctlPtr     \* db_ptrs[0] as the last ioctl found it

kernel  == <<region, classLive, cdevAdded, devNode>>
statics == <<cls, cdevOwner, dbPtr>>
counts  == <<loads, heldRegion, unregs, cdevInits, cdevDels, probes, opens, ioctls, ioctlPtr>>
vars    == <<module, registered, bound, kernel, statics, counts>>

Init ==
  /\ module = "unloaded" /\ loads = 0 /\ registered = FALSE /\ bound = FALSE
  /\ region = FALSE /\ heldRegion = FALSE /\ unregs = 0
  /\ cls = "null" /\ classLive = FALSE /\ cdevOwner = FALSE /\ cdevAdded = FALSE
  /\ cdevInits = 0 /\ cdevDels = 0 /\ devNode = FALSE /\ dbPtr = "null"
  /\ probes = 0 /\ opens = 0 /\ ioctls = 0 /\ ioctlPtr = "null"

(***************************************************************************)
(* xil_xvc_cleanup as a function of the state it starts from: when the     *)
(* class pointer is not an ERR_PTR, class_destroy (a no-op on NULL), the   *)
(* pointer set to NULL, cdev_del when the owner is set, and                *)
(* unregister_chrdev_region, which frees the region only when this load   *)
(* allocated it (held).  It leaves ERR_PTR class pointers alone.           *)
(***************************************************************************)
CleanupFromKeepRegion(held, c, own, reg, un, dels, added, live) ==
  IF c = "err"
    THEN [cls |-> c, region |-> reg, unregs |-> un, cdevDels |-> dels,
          cdevAdded |-> added, classLive |-> live]
    ELSE [cls |-> "null", region |-> reg, unregs |-> un,
          cdevDels |-> IF own THEN dels + 1 ELSE dels,
          cdevAdded |-> IF own THEN FALSE ELSE added,
          classLive |-> IF c = "ok" THEN FALSE ELSE live]

CleanupFrom(held, c, own, reg, un, dels, added, live) ==
  IF c = "err"
    THEN [cls |-> c, region |-> reg, unregs |-> un, cdevDels |-> dels,
          cdevAdded |-> added, classLive |-> live]
    ELSE [cls |-> "null",
          region |-> IF held THEN FALSE ELSE reg,
          unregs |-> IF held THEN un + 1 ELSE un,
          cdevDels |-> IF own THEN dels + 1 ELSE dels,
          cdevAdded |-> IF own THEN FALSE ELSE added,
          classLive |-> IF c = "ok" THEN FALSE ELSE live]

(* Install the result r of a cleanup, or of no cleanup, in the state. *)
Apply(r) ==
  /\ cls' = r.cls /\ region' = r.region /\ unregs' = r.unregs
  /\ cdevDels' = r.cdevDels /\ cdevAdded' = r.cdevAdded /\ classLive' = r.classLive

Cleanup == Apply(CleanupFrom(heldRegion, cls, cdevOwner, region, unregs, cdevDels, cdevAdded, classLive))

NoCleanup ==
  [cls |-> cls, region |-> region, unregs |-> unregs, cdevDels |-> cdevDels,
   cdevAdded |-> cdevAdded, classLive |-> classLive]

(***************************************************************************)
(* xil_xvc_init: alloc_chrdev_region (on failure xil_xvc_cleanup and the   *)
(* error), memset of db_ptrs, and platform_driver_register, whose error is *)
(* returned as it is.  Loading sets the statics to their initial values.   *)
(***************************************************************************)
ModuleInit ==
  /\ module = "unloaded" /\ loads < MaxLoads
  /\ loads' = loads + 1
  /\ cdevOwner' = FALSE /\ dbPtr' = "null"
  /\ cdevInits' = 0 /\ cdevDels' = 0
  /\ \E regionOk \in Can("region"), registerOk \in Can("register") :
       IF ~regionOk
         THEN /\ heldRegion' = FALSE
              /\ Apply(CleanupFrom(FALSE, "null", FALSE, region, 0, 0, cdevAdded, classLive))
              /\ UNCHANGED <<module, registered>>
         ELSE /\ heldRegion' = TRUE /\ region' = TRUE /\ unregs' = 0
              /\ cls' = "null" /\ UNCHANGED <<cdevAdded, classLive>>
              /\ registered' = registerOk
              /\ module' = IF registerOk THEN "loaded" ELSE "unloaded"
  /\ UNCHANGED <<bound, devNode, probes, opens, ioctls, ioctlPtr>>

(***************************************************************************)
(* probe: class_create and cdev_add when the class pointer is NULL (each   *)
(* failure runs xil_xvc_cleanup), then for a NULL db_ptrs[0]               *)
(* device_create (on failure xil_xvc_cleanup and "return status", which    *)
(* is 0 after cdev_add and uninitialized when the class already existed), *)
(* and devm_ioremap_resource (-ENOMEM on failure, the ERR_PTR kept).       *)
(* device_create fails on an ERR_PTR class and on a name already in use.   *)
(***************************************************************************)
Probe ==
  /\ module = "loaded" /\ registered /\ ~bound /\ probes < MaxProbes
  /\ probes' = probes + 1
  /\ \E classOk \in Can("class"), addOk \in Can("cdev"), devOk \in Can("device"),
        mapOk \in Can("ioremap"), junk \in {0, -1} :
       LET create  == cls = "null"
           cls1    == IF create THEN IF classOk THEN "ok" ELSE "err" ELSE cls
           failA   == create /\ ~(classOk /\ addOk)
           own1    == cdevOwner \/ (create /\ classOk)
           added1  == cdevAdded \/ (create /\ classOk /\ addOk)
           live1   == classLive \/ (create /\ classOk)
           status  == IF create THEN 0 ELSE junk
           needDev == ~failA /\ dbPtr = "null"
           devFail == needDev /\ (~devOk \/ cls1 /= "ok" \/ devNode)
           made    == needDev /\ ~devFail
           ret     == CASE failA          -> -1
                        [] devFail        -> status
                        [] made /\ ~mapOk -> -1
                        [] OTHER          -> 0
       IN  /\ Apply(IF failA \/ devFail
                      THEN CleanupFrom(heldRegion, cls1, own1, region, unregs,
                                       cdevDels, added1, live1)
                      ELSE [NoCleanup EXCEPT !.cls = cls1, !.cdevAdded = added1,
                                             !.classLive = live1])
           /\ cdevOwner' = own1
           /\ cdevInits' = IF create /\ classOk THEN cdevInits + 1 ELSE cdevInits
           /\ devNode' = (devNode \/ made)
           /\ dbPtr' = IF made THEN IF mapOk THEN "ok" ELSE "err" ELSE dbPtr
           /\ bound' = (ret = 0)
  /\ UNCHANGED <<module, registered, loads, heldRegion, opens, ioctls, ioctlPtr>>

(***************************************************************************)
(* remove (driver core unbind): for a non-NULL db_ptrs[0], set it to NULL  *)
(* and device_destroy.  Files already open keep their cdev.               *)
(***************************************************************************)
RemoveKeepsPtr ==
  /\ module = "loaded" /\ bound
  /\ bound' = FALSE
  /\ devNode' = IF dbPtr /= "null" THEN FALSE ELSE devNode
  /\ UNCHANGED <<module, registered, region, classLive, cdevAdded, cls, cdevOwner,
                 dbPtr, counts>>

RemoveWithCleanup ==
  /\ module = "loaded" /\ bound
  /\ bound' = FALSE
  /\ dbPtr' = "null"
  /\ devNode' = IF dbPtr /= "null" THEN FALSE ELSE devNode
  /\ Cleanup
  /\ UNCHANGED <<module, registered, loads, heldRegion, cdevOwner, cdevInits,
                 probes, opens, ioctls, ioctlPtr>>

Remove ==
  /\ module = "loaded" /\ bound
  /\ bound' = FALSE
  /\ dbPtr' = "null"
  /\ devNode' = IF dbPtr /= "null" THEN FALSE ELSE devNode
  /\ UNCHANGED <<module, registered, region, classLive, cdevAdded, cls, cdevOwner,
                 counts>>

Exit ==
  /\ module = "loaded" /\ opens = 0
  /\ module' = "unloaded" /\ registered' = FALSE /\ bound' = FALSE
  /\ dbPtr' = IF bound THEN "null" ELSE dbPtr
  /\ devNode' = IF bound /\ dbPtr /= "null" THEN FALSE ELSE devNode
  /\ Cleanup
  /\ UNCHANGED <<loads, heldRegion, cdevOwner, cdevInits, probes, opens, ioctls, ioctlPtr>>

(***************************************************************************)
(* The character device: open finds the cdev through the device node,     *)
(* close drops the file, and char_ctrl_ioctl passes db_ptrs[0] to          *)
(* xil_xvc_ioctl under the inode spinlock.                                 *)
(***************************************************************************)
Open ==
  /\ module = "loaded" /\ devNode /\ cdevAdded /\ opens < MaxOpens
  /\ opens' = opens + 1
  /\ UNCHANGED <<module, registered, bound, kernel, statics, loads, heldRegion,
                 unregs, cdevInits, cdevDels, probes, ioctls, ioctlPtr>>

Close ==
  /\ opens > 0
  /\ opens' = opens - 1
  /\ UNCHANGED <<module, registered, bound, kernel, statics, loads, heldRegion,
                 unregs, cdevInits, cdevDels, probes, ioctls, ioctlPtr>>

CharCtrlIoctl ==
  /\ opens > 0 /\ ioctls < MaxIoctls
  /\ ioctls' = ioctls + 1 /\ ioctlPtr' = dbPtr
  /\ UNCHANGED <<module, registered, bound, kernel, statics, loads, heldRegion,
                 unregs, cdevInits, cdevDels, probes, opens>>

Next ==
  \/ ModuleInit \/ Probe \/ Remove \/ Exit
  \/ Open \/ Close \/ CharCtrlIoctl

Spec == Init /\ [][Next]_vars

(***************************************************************************)
(* Properties.                                                             *)
(***************************************************************************)
(* Every variable holds a value of its type, and the driver is bound only  *)
(* while it is registered, and registered only while the module is loaded. *)
TypeOK ==
  /\ module \in {"unloaded", "loaded"}
  /\ cls \in {"null", "ok", "err"} /\ dbPtr \in {"null", "ok", "err"}
  /\ {region, classLive, cdevOwner, cdevAdded, devNode, registered, bound} \subseteq BOOLEAN
  /\ opens \in 0..MaxOpens /\ ioctls \in 0..MaxIoctls
  /\ bound => registered
  /\ registered => module = "loaded"

(* A probe that returns 0 leaves a working device behind: the class, the  *)
(* device node, the cdev and a mapped debug bridge.                        *)
ProbeHonest == bound => classLive /\ devNode /\ cdevAdded /\ dbPtr = "ok"

(* xil_xvc_cleanup runs its teardown once per setup: no cdev_del without a *)
(* cdev_init before it, and the region this load allocated is unregistered *)
(* at most once.                                                           *)
CleanupOnce == cdevDels <= cdevInits /\ unregs <= 1

(* Once the module is unloaded (or failed to load) nothing it created is  *)
(* left in the kernel: no char device region, class, device node or cdev. *)
NoLeak == module = "unloaded" => ~region /\ ~classLive /\ ~devNode /\ ~cdevAdded

(* An XDMA_IOCXVC ioctl never runs with a NULL or ERR_PTR debug bridge    *)
(* pointer: xil_xvc_ioctl writes the JTAG registers through it.           *)
DbValid == [][ioctls' /= ioctls => dbPtr = "ok"]_vars
=============================================================================
