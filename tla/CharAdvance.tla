------------------------------ MODULE CharAdvance ------------------------------
(***************************************************************************)
(* 01_Character_Driver/02_Advance_Param_Passing/main.c: insmod registers  *)
(* DVC_MAX_COUNT character devices one after the other, and unwinds when a *)
(* call fails.  The file operations are stubs; an open file keeps a        *)
(* reference to the module (owner = THIS_MODULE).                          *)
(*                                                                         *)
(* The format that device_create is given, "drv_dvc", has no conversion    *)
(* for the number behind it, so that all devices have one name and the     *)
(* second device_create fails.  insmod never succeeds; dev_driver_clean,   *)
(* which only rmmod calls, never runs and has no action.                   *)
(***************************************************************************)
EXTENDS Integers

CONSTANT DVC_MAX_COUNT

ASSUME DeviceAssumption == DVC_MAX_COUNT \in Nat /\ DVC_MAX_COUNT > 1

VARIABLES
  driver,   \* the call insmod is about to make
  itr,      \* the loop counter
  held,     \* what is registered with the kernel
  files     \* the devices that are open

char_vars == <<driver, itr, held, files>>

Region    == <<"region", 0>>
Class     == <<"class", 0>>
Cdev(n)   == <<"cdev", n>>
Device(n) == <<"device", n>>
Minors    == 0 .. DVC_MAX_COUNT - 1

InitCalls   == {"alloc_chrdev_region", "class_create", "cdev_add", "device_create"}
UnwindCalls == {"cdev_deinit", "cdev_deinit_cdev", "class_deinit", "unregister_chrdev"}

CharTypeOK ==
  /\ driver \in {"loaded", "failed"} \cup InitCalls \cup UnwindCalls
  /\ itr \in -1 .. DVC_MAX_COUNT
  /\ held \subseteq {Region, Class} \cup ({"cdev", "device"} \X Minors)
  /\ files \subseteq Minors

CharInit == driver = "alloc_chrdev_region" /\ itr = 0 /\ held = {} /\ files = {}

-----------------------------------------------------------------------------

\* A call that registers obj, or fails and goes to a label of the unwinding.
Acquire(call, obj, next, failed) ==
  /\ driver = call
  /\ \/ held' = held \cup {obj} /\ driver' = next
     \/ driver' = failed /\ UNCHANGED held
  /\ UNCHANGED files

GiveBack(call, obj, next) ==
  /\ driver = call
  /\ held' = held \ {obj} /\ driver' = next
  /\ UNCHANGED files

\* The class has a device of the name that all of them get: device_create fails
\* with -EEXIST.
NameTaken == \E n \in Minors : Device(n) \in held

dev_driver_init ==
  \/ Acquire("alloc_chrdev_region", Region, "class_create", "failed") /\ UNCHANGED itr
  \/ Acquire("class_create", Class, "cdev_add", "unregister_chrdev") /\ UNCHANGED itr
  \/ Acquire("cdev_add", Cdev(itr), "device_create", "class_deinit") /\ UNCHANGED itr
  \/ /\ Acquire("device_create", Device(itr),
                IF itr + 1 < DVC_MAX_COUNT THEN "cdev_add" ELSE "loaded", "cdev_deinit")
     /\ NameTaken => driver' = "cdev_deinit"
     /\ itr' = IF driver' = "cdev_deinit" THEN itr ELSE itr + 1

\* Mutant: the loop ends at 1.
CdevDeinitNotFirst ==
  \/ GiveBack("cdev_deinit", Device(itr), "cdev_deinit_cdev") /\ UNCHANGED itr
  \/ /\ GiveBack("cdev_deinit_cdev", Cdev(itr), IF itr > 1 THEN "cdev_deinit" ELSE "class_deinit")
     /\ itr' = itr - 1

\* Mutant: itr >= -1.
CdevDeinitPastFirst ==
  \/ GiveBack("cdev_deinit", Device(itr), "cdev_deinit_cdev") /\ UNCHANGED itr
  \/ /\ GiveBack("cdev_deinit_cdev", Cdev(itr), IF itr >= 0 THEN "cdev_deinit" ELSE "class_deinit")
     /\ itr' = itr - 1

\* From the device that failed back to the first; device_destroy of one that
\* was not created does nothing.
CdevDeinit ==
  \/ GiveBack("cdev_deinit", Device(itr), "cdev_deinit_cdev") /\ UNCHANGED itr
  \/ /\ GiveBack("cdev_deinit_cdev", Cdev(itr), IF itr > 0 THEN "cdev_deinit" ELSE "class_deinit")
     /\ itr' = itr - 1

ClassDeinit ==
  \/ GiveBack("class_deinit", Class, "unregister_chrdev") /\ UNCHANGED itr
  \/ GiveBack("unregister_chrdev", Region, "failed") /\ UNCHANGED itr

\* A device can be opened once cdev_add has returned, while insmod still runs.
Open(n) ==
  /\ Cdev(n) \in held /\ driver # "failed"
  /\ files' = files \cup {n}
  /\ UNCHANGED <<driver, itr, held>>

Release(n) ==
  /\ n \in files /\ driver # "failed"
  /\ files' = files \ {n}
  /\ UNCHANGED <<driver, itr, held>>

CharNext ==
  \/ dev_driver_init \/ CdevDeinit \/ ClassDeinit
  \/ \E n \in Minors : Open(n) \/ Release(n)

-----------------------------------------------------------------------------
(* Properties *)

\* insmod of several devices never succeeds, and what it leaves in the kernel is
\* nothing, or the first device when the second cdev_add failed, as class_deinit
\* does not go back over the loop.  (itr has stayed where it was.)
CharLeftBehind ==
  /\ driver # "loaded"
  /\ driver = "failed" => itr <= 1 /\ held = {"cdev", "device"} \X (0 .. itr - 1)
=============================================================================
