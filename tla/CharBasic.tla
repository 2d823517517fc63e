------------------------------ MODULE CharBasic ------------------------------
(***************************************************************************)
(* 01_Character_Driver/01_Basic/main.c: a character device of              *)
(* MAX_KERNEL_BUFFER bytes with read, write and llseek, and its            *)
(* registration in four steps that may fail, with their unwinding.         *)
(*                                                                         *)
(* A process that reads or writes works on a copy of f_pos, which read(2)  *)
(* and write(2) make before dev_read or dev_write and store after it;      *)
(* nothing locks f_pos of a character device, so that calls of several     *)
(* processes on one open file overlap.  An open takes a reference to the   *)
(* module (owner = THIS_MODULE), which keeps rmmod out but not the end of  *)
(* an insmod that fails.                                                   *)
(*                                                                         *)
(* Left out: the bytes themselves, log messages, pread and pwrite, flush   *)
(* (which does nothing), the width of loff_t (the kernel checks position   *)
(* and count against it before it calls the driver).                       *)
(***************************************************************************)
EXTENDS Integers, FiniteSets

CONSTANTS
  MAX_KERNEL_BUFFER,
  Files,        \* struct files: what one open(2) makes
  Processes,
  MaxCount,     \* bound: the largest count of a read or write
  MaxOffset     \* bound: the largest offset of an lseek, in either direction

ASSUME BufferAssumption == MAX_KERNEL_BUFFER \in Nat
ASSUME BoundsAssumption == MaxCount \in Nat /\ MaxOffset \in Nat
ASSUME FilesAssumption == IsFiniteSet(Files)

VARIABLES
  module,       \* the call insmod or rmmod is about to make, or the state between them
  registered,   \* what the module has registered with the kernel
  opened,       \* the open files
  refs,         \* the files that hold a reference to the module
  f_pos,        \* position of every file
  call,         \* the call every process is in
  moved,        \* history: where the last lseek went plus the bytes transferred since,
                \* as long as no two calls have overlapped
  overlapped,   \* history: files on which two calls overlapped since they were opened
  early         \* history: files opened before insmod had returned

driver == <<module, registered>>
files  == <<opened, refs>>
vars == <<driver, files, f_pos, call, moved, overlapped, early>>

InsmodCalls == {"alloc_chrdev_region", "class_create", "cdev_add", "device_create"}
UnwindCalls == {"cdev_deinit", "class_deinit", "unregister_chrdev"}
RmmodCalls  == {"device_destroy", "cdev_del", "class_destroy", "unregister_chrdev_region"}

None == [op |-> "none"]
Calls ==
  {None}
    \cup [op : {"transfer", "done", "seek"}, file : Files, pos : Nat, count : Nat]

TypeOK ==
  /\ module \in {"unloaded", "live", "oops"} \cup InsmodCalls \cup UnwindCalls \cup RmmodCalls
  /\ registered \subseteq {"region", "class", "cdev", "device"}
  /\ opened \subseteq Files
  /\ refs \subseteq Files
  /\ f_pos \in [Files -> Nat]
  /\ call \in [Processes -> Calls]
  /\ moved \in [Files -> Nat]
  /\ overlapped \subseteq Files /\ early \subseteq Files

Init ==
  /\ module = "unloaded" /\ registered = {}
  /\ opened = {} /\ refs = {}
  /\ f_pos = [f \in Files |-> 0]
  /\ call = [p \in Processes |-> None]
  /\ moved = [f \in Files |-> 0]
  /\ overlapped = {} /\ early = {}

-----------------------------------------------------------------------------
(* dev_driver_init and dev_driver_clean *)

\* A call that registers res, or fails and goes to a label of the unwinding.
Register(at, res, next, failed) ==
  /\ module = at
  /\ \/ registered' = registered \cup {res} /\ module' = next
     \/ module' = failed /\ UNCHANGED registered
  /\ UNCHANGED <<files, f_pos, call, moved, overlapped, early>>

Unregister(at, res, next) ==
  /\ module = at
  /\ registered' = registered \ {res}
  /\ module' = next
  /\ UNCHANGED <<files, f_pos, call, moved, overlapped, early>>

\* An insmod that finds files of a module that is gone is left out: their next
\* use crashes (UseStale).
StartInsmod ==
  /\ module = "unloaded" /\ opened = {}
  /\ module' = "alloc_chrdev_region"
  /\ UNCHANGED <<registered, files, f_pos, call, moved, overlapped, early>>

Insmod ==
  \/ Register("alloc_chrdev_region", "region", "class_create", "unloaded")
  \/ Register("class_create", "class", "cdev_add", "unregister_chrdev")
  \/ Register("cdev_add", "cdev", "device_create", "class_deinit")
  \/ Register("device_create", "device", "live", "cdev_deinit")

\* Mutant: break in the place of the fall through class_deinit.
UnwindSkipsClass ==
  \/ Unregister("cdev_deinit", "cdev", "unregister_chrdev")
  \/ Unregister("class_deinit", "class", "unregister_chrdev")
  \/ Unregister("unregister_chrdev", "region", "unloaded")

Unwind ==
  \/ Unregister("cdev_deinit", "cdev", "class_deinit")
  \/ Unregister("class_deinit", "class", "unregister_chrdev")
  \/ Unregister("unregister_chrdev", "region", "unloaded")

\* rmmod is refused while there are references to the module.
StartRmmod ==
  /\ module = "live" /\ refs = {}
  /\ module' = "device_destroy"
  /\ UNCHANGED <<registered, files, f_pos, call, moved, overlapped, early>>

Rmmod ==
  \/ Unregister("device_destroy", "device", "cdev_del")
  \/ Unregister("cdev_del", "cdev", "class_destroy")
  \/ Unregister("class_destroy", "class", "unregister_chrdev_region")
  \/ Unregister("unregister_chrdev_region", "region", "unloaded")

-----------------------------------------------------------------------------
(* open and close *)

\* The module is loaded or being loaded, and its code is there.
Loaded == module \in {"live"} \cup InsmodCalls \cup UnwindCalls

\* Mutant: no owner in cdev and dvc_fops.
OpenWithoutOwner(f) ==
  /\ f \notin opened /\ "cdev" \in registered /\ Loaded
  /\ opened' = opened \cup {f}
  /\ early' = IF module = "live" THEN early ELSE early \cup {f}
  /\ UNCHANGED <<driver, refs, f_pos, call, moved, overlapped>>

\* An open is possible as soon as there is a cdev, and no longer once rmmod runs.
Open(f) ==
  /\ f \notin opened /\ "cdev" \in registered /\ Loaded
  /\ opened' = opened \cup {f}
  /\ refs' = refs \cup {f}
  /\ early' = IF module = "live" THEN early ELSE early \cup {f}
  /\ UNCHANGED <<driver, f_pos, call, moved, overlapped>>

Users(f) == {p \in Processes : call[p] # None /\ call[p].file = f}

\* The last close; a call in progress keeps its file.
Release(f) ==
  /\ f \in opened /\ Loaded /\ Users(f) = {}
  /\ opened' = opened \ {f}
  /\ refs' = refs \ {f}
  /\ f_pos' = [f_pos EXCEPT ![f] = 0]
  /\ moved' = [moved EXCEPT ![f] = 0]
  /\ overlapped' = overlapped \ {f}
  /\ early' = early \ {f}
  /\ UNCHANGED <<driver, call>>

\* A call or close on a file whose module is gone.
UseStale ==
  /\ module = "unloaded" /\ opened # {}
  /\ module' = "oops"
  /\ UNCHANGED <<registered, files, f_pos, call, moved, overlapped, early>>

-----------------------------------------------------------------------------
(* dev_read, dev_write, dev_lseek *)

\* Process p enters the driver with call c.
Enter(p, c) ==
  /\ call[p] = None /\ c.file \in opened /\ Loaded
  /\ call' = [call EXCEPT ![p] = c]
  /\ IF Users(c.file) = {}
       THEN UNCHANGED <<overlapped, moved>>
       ELSE /\ overlapped' = overlapped \cup {c.file}
            /\ moved' = [moved EXCEPT ![c.file] = 0]
  /\ UNCHANGED <<driver, files, f_pos, early>>

\* dev_read and dev_write differ only in the direction of the copy.
BeginTransfer(p) ==
  \E f \in Files, n \in 0 .. MaxCount :
    Enter(p, [op |-> "transfer", file |-> f, pos |-> f_pos[f], count |-> n])

\* Mutant: the clamp at the end of the buffer is missing.
TransferBytesUnclamped(pos, count) == pos + count

\* read_bytes and write_bytes: what the call asks copy_to_user or
\* copy_from_user for; 0 or less is an error.
TransferBytes(pos, count) ==
  IF pos + count > MAX_KERNEL_BUFFER THEN MAX_KERNEL_BUFFER - pos ELSE pos + count

\* -ENOMEM; read(2) or write(2) does not store the position.
TransferFails(p) ==
  /\ call[p].op = "transfer" /\ Loaded
  /\ TransferBytes(call[p].pos, call[p].count) <= 0
  /\ call' = [call EXCEPT ![p] = None]
  /\ UNCHANGED <<driver, files, f_pos, moved, overlapped, early>>

\* Mutant: the bytes that were not copied are not subtracted.
TransferIgnoresFault(p) ==
  /\ call[p].op = "transfer" /\ Loaded
  /\ LET n == TransferBytes(call[p].pos, call[p].count)
     IN \E copied \in 1 .. n :
          call' = [call EXCEPT ![p] = [op |-> "done", file |-> @.file,
                                       pos |-> @.pos + n, count |-> copied]]
  /\ UNCHANGED <<driver, files, f_pos, moved, overlapped, early>>

\* The copy, which may fault half-way; the position moves by what was copied.
Transfer(p) ==
  /\ call[p].op = "transfer" /\ Loaded
  /\ LET n == TransferBytes(call[p].pos, call[p].count)
     IN n > 0 /\ \E copied \in 0 .. n :
          call' = [call EXCEPT ![p] = [op |-> "done", file |-> @.file,
                                       pos |-> @.pos + copied, count |-> copied]]
  /\ UNCHANGED <<driver, files, f_pos, moved, overlapped, early>>

\* read(2) or write(2) stores the position and returns count.
StorePosition(p) ==
  /\ call[p].op = "done" /\ Loaded
  /\ LET f == call[p].file
     IN /\ f_pos' = [f_pos EXCEPT ![f] = call[p].pos]
        /\ moved' = IF f \in overlapped THEN moved
                    ELSE [moved EXCEPT ![f] = @ + call[p].count]
  /\ call' = [call EXCEPT ![p] = None]
  /\ UNCHANGED <<driver, files, overlapped, early>>

\* Where dev_lseek goes; "cur" is relative to f_pos, "end" to the end of the buffer.
Target(f, whence, offset) ==
  offset + (CASE whence = "set" -> 0
              [] whence = "cur" -> f_pos[f]
              [] whence = "end" -> MAX_KERNEL_BUFFER)

\* Mutant: dev_lseek does not refuse a negative target.
MaySeekNegative(pos) == pos <= MAX_KERNEL_BUFFER

\* Any other target is -EINVAL, and nothing changes.
MaySeek(pos) == pos >= 0 /\ pos <= MAX_KERNEL_BUFFER

BeginSeek(p) ==
  \E f \in Files, whence \in {"set", "cur", "end"}, offset \in -MaxOffset .. MaxOffset :
    /\ MaySeek(Target(f, whence, offset))
    /\ Enter(p, [op |-> "seek", file |-> f, pos |-> Target(f, whence, offset), count |-> 0])

Seek(p) ==
  /\ call[p].op = "seek" /\ Loaded
  /\ LET f == call[p].file
     IN /\ f_pos' = [f_pos EXCEPT ![f] = call[p].pos]
        /\ moved' = IF f \in overlapped THEN moved
                    ELSE [moved EXCEPT ![f] = call[p].pos]
  /\ call' = [call EXCEPT ![p] = None]
  /\ UNCHANGED <<driver, files, overlapped, early>>

-----------------------------------------------------------------------------

Next ==
  \/ StartInsmod \/ Insmod \/ Unwind
  \/ StartRmmod \/ Rmmod
  \/ \E f \in Files : Open(f) \/ Release(f)
  \/ UseStale
  \/ \E p \in Processes :
       \/ BeginTransfer(p) \/ TransferFails(p) \/ Transfer(p) \/ StorePosition(p)
       \/ BeginSeek(p) \/ Seek(p)

Spec == Init /\ [][Next]_vars

-----------------------------------------------------------------------------
(* Properties *)

\* However reads, writes and seeks overlap, the position stays within twice the
\* buffer.  (It may pass the end: a transfer that begins inside is as long as
\* position plus count, not as count.)
PositionBounded == \A f \in Files : f_pos[f] <= 2 * MAX_KERNEL_BUFFER

\* The position is where the last lseek went plus the bytes transferred since,
\* also when a copy faults half-way, unless two calls on the open file overlapped.
PositionIsSum == \A f \in Files : f \notin overlapped => f_pos[f] = moved[f]

\* Nothing is registered before an insmod or after it failed or rmmod ended,
\* everything while the module is live, and nothing goes while something that
\* was made from it is still there.
Unwound ==
  /\ module \in {"unloaded", "oops"} => registered = {}
  /\ module = "live" => registered = {"region", "class", "cdev", "device"}
  /\ "device" \in registered => "cdev" \in registered
  /\ "cdev" \in registered => "class" \in registered
  /\ "class" \in registered => "region" \in registered

\* No file outlives the code of the module, unless it was opened between the
\* cdev_add and the failing device_create of an insmod.
OpenKeepsModule == module \in {"unloaded", "oops"} => opened \subseteq early

\* The comment of dev_read and dev_write on the clamp: what would go past the
\* size of the buffer is cut at its end.
EndsInBuffer ==
  \A p \in Processes :
    call[p].op = "transfer" =>
      LET n == TransferBytes(call[p].pos, call[p].count)
      IN n > 0 => call[p].pos + n <= MAX_KERNEL_BUFFER
=============================================================================
