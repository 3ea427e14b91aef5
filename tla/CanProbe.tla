------------------------------ MODULE CanProbe ------------------------------
(***************************************************************************)
(* What pcisimple_probe and pcisimple_remove acquire and give back, with   *)
(* the module's load and unload and the files opened on the device.  An    *)
(* interrupt may come whenever request_irq has succeeded and free_irq has  *)
(* not been called; irq_handler then goes through the global pointer       *)
(* "device" to the mapped registers.                                       *)
(***************************************************************************)
EXTENDS Naturals

CONSTANTS
  Cards,      \* the cards on the PCI bus
  MayFail,    \* the steps of pcisimple_probe that may fail
  MaxProbes   \* bound: calls of pcisimple_probe

Steps == {"kmalloc", "revision", "enable", "regions", "iomap", "irq",
          "chrdev", "cdev"}

ASSUME ProbeAssumption == MayFail \subseteq Steps /\ MaxProbes \in Nat

VARIABLES
  module,   \* the module: absent, loading, live or unloading
  step,     \* step[c]: the step of probe or remove at work on card c
  ret,      \* ret[c]: is "result" 0?
  device,   \* the global pointer: the number of a block; 0 is NULL
  owned,    \* what is acquired: pairs of a step and an owner
  files,    \* the private_data of the open files
  probes    \* the number of probe calls, which numbers the blocks

probeVars == <<module, step, ret, device, owned, files, probes>>

(* The step after one that succeeded.                                      *)
After == [revision |-> "enable", enable |-> "regions", regions |-> "iomap",
          iomap |-> "irq", irq |-> "chrdev", chrdev |-> "cdev", cdev |-> "bound"]

(* A defect: a failed register_chrdev_region forgets the interrupt.        *)
UnwindShort ==
  [enable |-> "u_kmalloc", regions |-> "u_enable", iomap |-> "u_regions",
   irq |-> "u_iomap", chrdev |-> "u_iomap", cdev |-> "u_last"]

(* The label a failed step jumps to.                                       *)
Unwind == [enable |-> "u_kmalloc", regions |-> "u_enable", iomap |-> "u_regions",
           irq |-> "u_iomap", chrdev |-> "u_irq", cdev |-> "u_last"]

(* A defect: the registers unmapped before the interrupt is freed.         *)
DownSwapped ==
  [u_cdev    |-> <<"cdev", "u_chrdev">>,   u_chrdev  |-> <<"chrdev", "u_iomap">>,
   u_irq     |-> <<"irq", "u_regions">>,   u_iomap   |-> <<"iomap", "u_irq">>,
   u_regions |-> <<"regions", "u_enable">>, u_enable  |-> <<"enable", "u_kmalloc">>,
   u_kmalloc |-> <<"kmalloc", "return">>,  u_last    |-> <<"chrdev", "return">>]

(* What each label of the unwinding gives back, and where it falls to;     *)
(* pcisimple_remove starts at u_cdev, err_cdev_add is u_last.              *)
Down ==
  [u_cdev    |-> <<"cdev", "u_chrdev">>,   u_chrdev  |-> <<"chrdev", "u_irq">>,
   u_irq     |-> <<"irq", "u_iomap">>,     u_iomap   |-> <<"iomap", "u_regions">>,
   u_regions |-> <<"regions", "u_enable">>, u_enable  |-> <<"enable", "u_kmalloc">>,
   u_kmalloc |-> <<"kmalloc", "return">>,  u_last    |-> <<"chrdev", "return">>]

(* What step s acquires for card c: the block "device" points to, its      *)
(* mapping and its cdev, the one major number, or something of the card.   *)
Item(c, s) ==
  CASE s \in {"kmalloc", "iomap", "cdev"} -> <<s, device>>
    [] s = "chrdev"                       -> <<s, "major">>
    [] OTHER                              -> <<s, c>>

Resting == {"absent", "offered", "bound", "refused"}

(* insmod: the PCI core offers every card to the driver, one at a time.    *)
Load ==
  /\ module = "absent" /\ module' = "loading"
  /\ step' = [c \in Cards |-> "offered"]
  /\ UNCHANGED <<ret, device, owned, files, probes>>

Loaded ==
  /\ module = "loading" /\ \A c \in Cards : step[c] \in {"bound", "refused"}
  /\ module' = "live"
  /\ UNCHANGED <<step, ret, device, owned, files, probes>>

(* pcisimple_probe starts: kmalloc and memset.                             *)
Probe(c) ==
  /\ module = "loading" /\ step[c] = "offered" /\ probes < MaxProbes
  /\ \A d \in Cards : step[d] \in Resting
  /\ probes' = probes + 1
  /\ ret' = [ret EXCEPT ![c] = TRUE]
  /\ \/ /\ device' = probes + 1
        /\ owned' = owned \cup {<<"kmalloc", device'>>}
        /\ step' = [step EXCEPT ![c] = "revision"]
     \/ /\ "kmalloc" \in MayFail
        /\ device' = 0 /\ UNCHANGED owned
        /\ step' = [step EXCEPT ![c] = "refused"]
  /\ UNCHANGED <<module, files>>

(* The revision is that of the CAN card, or the call returns -ENODEV.      *)
Revision(c) ==
  /\ step[c] = "revision"
  /\ \/ step' = [step EXCEPT ![c] = After["revision"]]
     \/ "revision" \in MayFail /\ step' = [step EXCEPT ![c] = "refused"]
  /\ UNCHANGED <<module, ret, device, owned, files, probes>>

(* A step from pci_enable_device on succeeds.  One major number exists.    *)
Acquire(c) ==
  /\ step[c] \in DOMAIN Unwind
  /\ Item(c, step[c]) \notin owned
  /\ owned' = owned \cup {Item(c, step[c])}
  /\ step' = [step EXCEPT ![c] = After[step[c]]]
  /\ UNCHANGED <<module, ret, device, files, probes>>

(* A defect: "result" is not set when request_irq fails.                   *)
FailSilent(c) ==
  /\ step[c] \in DOMAIN Unwind
  /\ step[c] \in MayFail \/ Item(c, step[c]) \in owned
  /\ ret' = [ret EXCEPT ![c] = (step[c] \in {"iomap", "irq"})]
  /\ step' = [step EXCEPT ![c] = Unwind[step[c]]]
  /\ UNCHANGED <<module, device, owned, files, probes>>

(* It fails; pci_iomap returns no error code, and "result" is still 0.     *)
Fail(c) ==
  /\ step[c] \in DOMAIN Unwind
  /\ step[c] \in MayFail \/ Item(c, step[c]) \in owned
  /\ ret' = [ret EXCEPT ![c] = (step[c] = "iomap")]
  /\ step' = [step EXCEPT ![c] = Unwind[step[c]]]
  /\ UNCHANGED <<module, device, owned, files, probes>>

(* A label of the unwinding; the last one ends the call.  A probe that     *)
(* returns 0 has bound the card.                                           *)
GiveBack(c) ==
  /\ step[c] \in DOMAIN Down
  /\ owned' = owned \ {Item(c, Down[step[c]][1])}
  /\ step' = [step EXCEPT ![c] =
       IF Down[step[c]][2] # "return" THEN Down[step[c]][2]
       ELSE IF module = "unloading" THEN "absent"
       ELSE IF ret[c] THEN "bound" ELSE "refused"]
  /\ UNCHANGED <<module, ret, device, files, probes>>

(* open on the device, and its last close; fops.owner keeps the module     *)
(* loaded while a file is open.                                            *)
OpenFile ==
  /\ module \in {"loading", "live"}
  /\ \E b \in 1 .. probes : <<"cdev", b>> \in owned
  /\ files = {} /\ files' = {device}
  /\ UNCHANGED <<module, step, ret, device, owned, probes>>

CloseFile ==
  /\ files # {} /\ files' = {}
  /\ UNCHANGED <<module, step, ret, device, owned, probes>>

(* A defect: device_fops without its owner.                                *)
UnloadOpen ==
  /\ module = "live" /\ module' = "unloading"
  /\ UNCHANGED <<step, ret, device, owned, files, probes>>

(* rmmod: pcisimple_remove is called for every bound card.                 *)
Unload ==
  /\ module = "live" /\ files = {}
  /\ module' = "unloading"
  /\ UNCHANGED <<step, ret, device, owned, files, probes>>

Remove(c) ==
  /\ module = "unloading" /\ step[c] = "bound"
  /\ \A d \in Cards : step[d] \in Resting
  /\ step' = [step EXCEPT ![c] = "u_cdev"]
  /\ UNCHANGED <<module, ret, device, owned, files, probes>>

Unloaded ==
  /\ module = "unloading" /\ \A c \in Cards : step[c] \in {"refused", "absent"}
  /\ module' = "absent" /\ step' = [c \in Cards |-> "absent"]
  /\ UNCHANGED <<ret, device, owned, files, probes>>

ProbeInit ==
  /\ module = "absent" /\ step = [c \in Cards |-> "absent"]
  /\ ret = [c \in Cards |-> FALSE]
  /\ device = 0 /\ owned = {} /\ files = {} /\ probes = 0

ProbeNext ==
  \/ Load \/ Loaded \/ Unload \/ Unloaded \/ OpenFile \/ CloseFile
  \/ \E c \in Cards : \/ Probe(c) \/ Revision(c) \/ Acquire(c) \/ Fail(c)
                      \/ GiveBack(c) \/ Remove(c)

ProbeSpec == ProbeInit /\ [][ProbeNext]_probeVars

-----------------------------------------------------------------------------
(* Whenever an interrupt may come, irq_handler finds, through the global   *)
(* pointer, a block that is allocated and whose registers are mapped, and  *)
(* the module in memory.                                                   *)
HandlerSafe ==
  (\E c \in Cards : <<"irq", c>> \in owned) =>
    {<<"kmalloc", device>>, <<"iomap", device>>} \subseteq owned /\ module # "absent"

(* The files that are open use a block that is allocated and mapped, and   *)
(* only a complete device can be opened.                                   *)
FilesSafe ==
  /\ \A b \in files : {<<"kmalloc", b>>, <<"iomap", b>>} \subseteq owned
  /\ \A b \in 1 .. probes :
       <<"cdev", b>> \in owned => {<<"kmalloc", b>>, <<"iomap", b>>} \subseteq owned

(* Once every probe has failed or been undone by rmmod, nothing stays      *)
(* acquired, at whatever step they failed.                                 *)
NoLeak ==
  (\A c \in Cards : step[c] \in {"absent", "refused"}) => owned = {}

(* A card whose probe returned 0 is ready for use: "return 0 means         *)
(* success" (can_pci.c:277).                                               *)
BoundComplete ==
  \A c \in Cards : step[c] = "bound" =>
    \A s \in Steps \ {"revision"} : Item(c, s) \in owned

=============================================================================
