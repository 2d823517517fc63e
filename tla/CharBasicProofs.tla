--------------------------- MODULE CharBasicProofs ---------------------------
(***************************************************************************)
(* The character device of 01_Basic for every size of the buffer and any   *)
(* number of files and processes: positions, what they are the sum of,     *)
(* registration, and the files that outlive the module.                    *)
(***************************************************************************)
EXTENDS CharBasic, TLAPS

\* What is registered depends on the next call of insmod or rmmod only.
RegisteredIs ==
  /\ "region" \in registered <=> module \notin {"unloaded", "oops", "alloc_chrdev_region"}
  /\ "class" \in registered <=>
       module \in {"cdev_add", "device_create", "live", "cdev_deinit", "class_deinit",
                   "device_destroy", "cdev_del", "class_destroy"}
  /\ "cdev" \in registered <=>
       module \in {"device_create", "live", "cdev_deinit", "device_destroy", "cdev_del"}
  /\ "device" \in registered <=> module \in {"live", "device_destroy"}

\* Every open file holds its reference, and was opened early unless the module
\* is live.
OpenHolds == opened \subseteq refs /\ (module # "live" => opened \subseteq early)

\* Where a call may leave the position.
CallBounded ==
  \A p \in Processes :
    /\ call[p].op = "seek" => call[p].pos <= MAX_KERNEL_BUFFER
    /\ call[p].op = "done" => call[p].pos <= 2 * MAX_KERNEL_BUFFER

\* A file without overlapping calls has one user at most, whose copy of the
\* position is still right.
SingleUser ==
  \A p \in Processes :
    call[p] # None /\ call[p].file \notin overlapped =>
      /\ \A q \in Processes : call[q] # None /\ call[q].file = call[p].file => q = p
      /\ call[p].op = "transfer" => call[p].pos = f_pos[call[p].file]
      /\ call[p].op = "done" => call[p].pos = f_pos[call[p].file] + call[p].count

IInv == /\ TypeOK /\ RegisteredIs /\ OpenHolds /\ CallBounded /\ PositionBounded
        /\ SingleUser /\ PositionIsSum

USE BufferAssumption, BoundsAssumption

-----------------------------------------------------------------------------

\* A process in a call is in one of the three kinds.
LEMMA CallKinds ==
  ASSUME TypeOK, NEW p \in Processes, call[p] # None
  PROVE  /\ call[p].op \in {"transfer", "done", "seek"}
         /\ call[p].file \in Files /\ call[p].pos \in Nat /\ call[p].count \in Nat
         /\ call[p] = [op |-> call[p].op, file |-> call[p].file,
                       pos |-> call[p].pos, count |-> call[p].count]
<1>1. call[p] \in Calls
  BY DEF TypeOK
<1> QED
  BY <1>1 DEF Calls

\* Only a process outside has the op of None.
LEMMA NoneKind ==
  ASSUME NEW p, call[p] = None
  PROVE  call[p].op \notin {"transfer", "done", "seek"}
BY DEF None

LEMMA InitInvariant == Init => IInv
BY DEF Init, IInv, TypeOK, RegisteredIs, OpenHolds, CallBounded, PositionBounded,
       SingleUser, PositionIsSum, Calls, None, InsmodCalls, UnwindCalls, RmmodCalls

\* insmod and rmmod touch nothing of the files.
LEMMA ModuleStepInvariant ==
  ASSUME IInv, StartInsmod \/ Insmod \/ Unwind \/ StartRmmod \/ Rmmod \/ UseStale
  PROVE  IInv'
<1> USE DEF StartInsmod, Insmod, Unwind, StartRmmod, Rmmod, UseStale, Register, Unregister
<1>1. UNCHANGED <<opened, refs, f_pos, call, moved, overlapped, early>>
  BY DEF files
<1>2. TypeOK'
  BY <1>1 DEF IInv, TypeOK, InsmodCalls, UnwindCalls, RmmodCalls
<1>3. RegisteredIs'
  BY DEF IInv, RegisteredIs
<1>4. OpenHolds'
  BY <1>1 DEF IInv, OpenHolds
<1>5. CallBounded' /\ PositionBounded' /\ SingleUser' /\ PositionIsSum'
  BY <1>1 DEF IInv, CallBounded, PositionBounded, SingleUser, PositionIsSum
<1> QED
  BY <1>2, <1>3, <1>4, <1>5 DEF IInv

LEMMA OpenInvariant ==
  ASSUME IInv, NEW f \in Files, Open(f)
  PROVE  IInv'
<1>1. UNCHANGED <<module, registered, f_pos, call, moved, overlapped>>
  BY DEF Open, driver
<1>2. TypeOK'
  BY <1>1 DEF IInv, TypeOK, Open
<1>3. OpenHolds'
  BY <1>1 DEF IInv, OpenHolds, Open
<1> QED
  BY <1>1, <1>2, <1>3 DEF IInv, RegisteredIs, CallBounded, PositionBounded, SingleUser,
     PositionIsSum

LEMMA ReleaseInvariant ==
  ASSUME IInv, NEW f \in Files, Release(f)
  PROVE  IInv'
<1>1. UNCHANGED <<module, registered, call>> /\ \A p \in Processes : call[p] # None => call[p].file # f
  BY DEF Release, driver, Users
<1>2. TypeOK'
  BY <1>1 DEF IInv, TypeOK, Release
<1>3. RegisteredIs' /\ OpenHolds' /\ CallBounded'
  BY <1>1 DEF IInv, RegisteredIs, OpenHolds, CallBounded, Release
<1>4. PositionBounded' /\ PositionIsSum'
  BY DEF IInv, TypeOK, PositionBounded, PositionIsSum, Release
<1>5. SingleUser'
  <2> SUFFICES ASSUME NEW p \in Processes, call[p] # None, call[p].file \notin overlapped'
               PROVE  /\ \A q \in Processes : call[q] # None /\ call[q].file = call[p].file => q = p
                      /\ call[p].op = "transfer" => call[p].pos = f_pos'[call[p].file]
                      /\ call[p].op = "done" =>
                           call[p].pos = f_pos'[call[p].file] + call[p].count
    BY <1>1 DEF SingleUser
  <2>1. call[p].file \in Files /\ call[p].file # f
    BY <1>1, CallKinds DEF IInv
  <2>2. f_pos'[call[p].file] = f_pos[call[p].file] /\ call[p].file \notin overlapped
    BY <2>1 DEF IInv, TypeOK, Release
  <2> QED
    BY <2>2 DEF IInv, SingleUser
<1> QED
  BY <1>2, <1>3, <1>4, <1>5 DEF IInv

\* A call c begins; if it is the first on its file, it has the right position.
LEMMA EnterInvariant ==
  ASSUME IInv, NEW p \in Processes,
         NEW f \in Files, NEW op \in {"transfer", "seek"}, NEW pos \in Nat, NEW count \in Nat,
         op = "transfer" => pos = f_pos[f],
         op = "seek" => pos <= MAX_KERNEL_BUFFER,
         Enter(p, [op |-> op, file |-> f, pos |-> pos, count |-> count])
  PROVE  IInv'
<1> DEFINE c == [op |-> op, file |-> f, pos |-> pos, count |-> count]
<1>1. /\ call[p] = None
      /\ call' = [call EXCEPT ![p] = c]
      /\ UNCHANGED <<module, registered, opened, refs, f_pos, early>>
      /\ IF Users(f) = {} THEN UNCHANGED <<overlapped, moved>>
         ELSE overlapped' = overlapped \cup {f} /\ moved' = [moved EXCEPT ![f] = 0]
  BY DEF Enter, driver, files
<1>2. c \in Calls /\ c # None
  BY DEF Calls, None
<1>3. \A q \in Processes : call'[q] = IF q = p THEN c ELSE call[q]
  BY <1>1 DEF IInv, TypeOK
<1>4. TypeOK'
  BY <1>1, <1>2 DEF IInv, TypeOK
<1>5. RegisteredIs' /\ OpenHolds' /\ PositionBounded'
  BY <1>1 DEF IInv, RegisteredIs, OpenHolds, PositionBounded
<1>6. CallBounded'
  BY <1>3 DEF IInv, CallBounded
<1>7. PositionIsSum'
  BY <1>1 DEF IInv, TypeOK, PositionIsSum
<1>8. SingleUser'
  <2> SUFFICES ASSUME NEW q \in Processes, call'[q] # None, call'[q].file \notin overlapped'
               PROVE  /\ \A r \in Processes :
                           call'[r] # None /\ call'[r].file = call'[q].file => r = q
                      /\ call'[q].op = "transfer" => call'[q].pos = f_pos[call'[q].file]
                      /\ call'[q].op = "done" =>
                           call'[q].pos = f_pos[call'[q].file] + call'[q].count
    BY <1>1 DEF SingleUser
  <2>1. CASE Users(f) = {}
    <3>1. \A r \in Processes : call[r] # None => call[r].file # f
      BY <2>1 DEF Users
    <3>2. CASE q = p
      BY <3>1, <3>2, <1>3
    <3>3. CASE q # p
      BY <3>1, <3>3, <1>1, <1>3, <2>1 DEF IInv, SingleUser
    <3> QED
      BY <3>2, <3>3
  <2>2. CASE Users(f) # {}
    <3>1. overlapped' = overlapped \cup {f}
      BY <1>1, <2>2
    <3>2. q # p /\ call[q].file # f
      BY <3>1, <1>3
    <3> QED
      BY <3>1, <3>2, <1>3 DEF IInv, SingleUser
  <2> QED
    BY <2>1, <2>2
<1> QED
  BY <1>4, <1>5, <1>6, <1>7, <1>8 DEF IInv

LEMMA BeginInvariant ==
  ASSUME IInv, NEW p \in Processes, BeginTransfer(p) \/ BeginSeek(p)
  PROVE  IInv'
<1>1. CASE BeginTransfer(p)
  <2> PICK f \in Files, n \in 0 .. MaxCount :
         Enter(p, [op |-> "transfer", file |-> f, pos |-> f_pos[f], count |-> n])
    BY <1>1 DEF BeginTransfer
  <2> f_pos[f] \in Nat
    BY DEF IInv, TypeOK
  <2> QED
    BY EnterInvariant
<1>2. CASE BeginSeek(p)
  <2> PICK f \in Files, whence \in {"set", "cur", "end"}, offset \in -MaxOffset .. MaxOffset :
         /\ MaySeek(Target(f, whence, offset))
         /\ Enter(p, [op |-> "seek", file |-> f, pos |-> Target(f, whence, offset), count |-> 0])
    BY <1>2 DEF BeginSeek
  <2>1. Target(f, whence, offset) \in Int
    BY DEF Target, IInv, TypeOK
  <2>2. Target(f, whence, offset) \in Nat /\ Target(f, whence, offset) <= MAX_KERNEL_BUFFER
    BY <2>1 DEF MaySeek
  <2> HIDE DEF Target
  <2> QED
    BY <2>2, EnterInvariant
<1> QED
  BY <1>1, <1>2

LEMMA TransferInvariant ==
  ASSUME IInv, NEW p \in Processes, Transfer(p) \/ TransferFails(p)
  PROVE  IInv'
<1>1. /\ call[p].op = "transfer"
      /\ UNCHANGED <<module, registered, opened, refs, f_pos, moved, overlapped, early>>
  BY DEF Transfer, TransferFails, driver, files
<1>2. call[p] # None
  BY <1>1, NoneKind
<1>3. PICK c : /\ call' = [call EXCEPT ![p] = c]
               /\ \/ c = None
                  \/ \E copied \in Nat :
                       /\ c = [op |-> "done", file |-> call[p].file,
                               pos |-> call[p].pos + copied, count |-> copied]
                       /\ call[p].pos + copied <= 2 * MAX_KERNEL_BUFFER
  <2>1. CASE TransferFails(p)
    BY <2>1 DEF TransferFails
  <2>2. CASE Transfer(p)
    <3> DEFINE n == TransferBytes(call[p].pos, call[p].count)
    <3>1. PICK copied \in 0 .. n :
            /\ n > 0
            /\ call' = [call EXCEPT ![p] = [op |-> "done", file |-> call[p].file,
                                            pos |-> call[p].pos + copied, count |-> copied]]
      BY <2>2 DEF Transfer, IInv, TypeOK
    <3>2. call[p].pos \in Nat /\ call[p].count \in Nat
      BY <1>2, CallKinds DEF IInv
    <3>3. n \in Int /\ n <= MAX_KERNEL_BUFFER /\ call[p].pos <= MAX_KERNEL_BUFFER
      BY <3>1, <3>2 DEF TransferBytes
    <3> HIDE DEF n
    <3>4. copied \in Nat /\ call[p].pos + copied <= 2 * MAX_KERNEL_BUFFER
      BY <3>2, <3>3
    <3> QED
      BY <3>1, <3>4
  <2> QED
    BY <2>1, <2>2
<1>4. \A q \in Processes : call'[q] = IF q = p THEN c ELSE call[q]
  BY <1>3 DEF IInv, TypeOK
<1>5. call[p].file \in Files /\ call[p].pos \in Nat
  BY <1>2, CallKinds DEF IInv
<1>6. TypeOK'
  <2>1. c \in Calls
    BY <1>3, <1>5 DEF Calls
  <2> QED
    BY <1>1, <1>3, <2>1 DEF IInv, TypeOK
<1>7. RegisteredIs' /\ OpenHolds' /\ PositionBounded' /\ PositionIsSum'
  BY <1>1 DEF IInv, RegisteredIs, OpenHolds, PositionBounded, PositionIsSum
<1>8. CallBounded'
  BY <1>3, <1>4 DEF IInv, CallBounded, None
<1>9. SingleUser'
  <2>1. c # None => c.file = call[p].file
    BY <1>3
  <2>2. \A q \in Processes :
          call'[q] # None => call[q] # None /\ call'[q].file = call[q].file
    BY <1>2, <1>4, <2>1
  <2>3. c # None /\ call[p].file \notin overlapped =>
          c.op = "done" /\ c.pos = f_pos[c.file] + c.count
    BY <1>1, <1>2, <1>3 DEF IInv, SingleUser
  <2> QED
    BY <1>1, <1>4, <2>1, <2>2, <2>3 DEF IInv, SingleUser
<1> QED
  BY <1>6, <1>7, <1>8, <1>9 DEF IInv

\* A call ends and stores its position.
LEMMA StoreInvariant ==
  ASSUME IInv, NEW p \in Processes, StorePosition(p) \/ Seek(p)
  PROVE  IInv'
<1> DEFINE f == call[p].file
<1>1. /\ call[p].op \in {"done", "seek"}
      /\ f_pos' = [f_pos EXCEPT ![f] = call[p].pos]
      /\ moved' = IF f \in overlapped THEN moved
                  ELSE [moved EXCEPT ![f] = IF call[p].op = "seek" THEN call[p].pos
                                            ELSE moved[f] + call[p].count]
      /\ call' = [call EXCEPT ![p] = None]
      /\ UNCHANGED <<module, registered, opened, refs, overlapped, early>>
  <2>1. CASE StorePosition(p)
    BY <2>1 DEF StorePosition, driver, files
  <2>2. CASE Seek(p)
    BY <2>2 DEF Seek, driver, files
  <2> QED
    BY <2>1, <2>2
<1>2. call[p] # None
  BY <1>1, NoneKind
<1>3. f \in Files /\ call[p].pos \in Nat /\ call[p].count \in Nat
  BY <1>2, CallKinds DEF IInv
<1>4. call[p].pos <= 2 * MAX_KERNEL_BUFFER
  BY <1>1, <1>3 DEF IInv, CallBounded
<1>5. \A q \in Processes : call'[q] = IF q = p THEN None ELSE call[q]
  BY <1>1 DEF IInv, TypeOK
<1> HIDE DEF f
<1>6. \A g \in Files : f_pos'[g] = IF g = f THEN call[p].pos ELSE f_pos[g]
  BY <1>1 DEF IInv, TypeOK
<1>7. TypeOK'
  <2>1. None \in Calls
    BY DEF Calls
  <2>2. moved[f] \in Nat
    BY <1>3 DEF IInv, TypeOK
  <2>3. moved' \in [Files -> Nat]
    BY <1>1, <1>3, <2>2 DEF IInv, TypeOK
  <2> QED
    BY <1>1, <1>3, <2>1, <2>3 DEF IInv, TypeOK
<1>8. RegisteredIs' /\ OpenHolds'
  BY <1>1 DEF IInv, RegisteredIs, OpenHolds
<1>9. CallBounded'
  BY <1>5 DEF IInv, CallBounded, None
<1>10. PositionBounded'
  BY <1>4, <1>6 DEF IInv, PositionBounded
<1>11. PositionIsSum'
  <2> SUFFICES ASSUME NEW g \in Files, g \notin overlapped
               PROVE  f_pos'[g] = moved'[g]
    BY <1>1 DEF PositionIsSum
  <2>1. f_pos[g] = moved[g] /\ moved \in [Files -> Nat]
    BY DEF IInv, TypeOK, PositionIsSum
  <2>2. CASE g # f
    BY <2>1, <2>2, <1>1, <1>6
  <2>3. CASE g = f /\ call[p].op = "seek"
    BY <2>1, <2>3, <1>1, <1>6
  <2>4. CASE g = f /\ call[p].op = "done"
    <3>1. call[p].pos = f_pos[f] + call[p].count
      BY <2>4, <1>2 DEF IInv, SingleUser, f
    <3> QED
      BY <3>1, <2>1, <2>4, <1>1, <1>6
  <2> QED
    BY <2>2, <2>3, <2>4, <1>1
<1>12. SingleUser'
  <2> SUFFICES ASSUME NEW q \in Processes, call'[q] # None, call'[q].file \notin overlapped
               PROVE  /\ \A r \in Processes :
                           call'[r] # None /\ call'[r].file = call'[q].file => r = q
                      /\ call'[q].op = "transfer" => call'[q].pos = f_pos'[call'[q].file]
                      /\ call'[q].op = "done" =>
                           call'[q].pos = f_pos'[call'[q].file] + call'[q].count
    BY <1>1 DEF SingleUser
  <2>1. q # p /\ call'[q] = call[q]
    BY <1>5
  <2>2. call[q].file \in Files
    BY <2>1, CallKinds DEF IInv
  <2>3. call[q].file # f
    BY <2>1, <1>2 DEF IInv, SingleUser, f
  <2>4. f_pos'[call[q].file] = f_pos[call[q].file]
    BY <2>2, <2>3, <1>6
  <2> QED
    BY <2>1, <2>4, <1>5 DEF IInv, SingleUser
<1> QED
  BY <1>7, <1>8, <1>9, <1>10, <1>11, <1>12 DEF IInv

LEMMA StutterInvariant == IInv /\ UNCHANGED vars => IInv'
BY DEF vars, driver, files, IInv, TypeOK, RegisteredIs, OpenHolds, CallBounded,
       PositionBounded, SingleUser, PositionIsSum

-----------------------------------------------------------------------------

\* The inductive invariant holds in every state of dev_driver_init, the file
\* operations and dev_driver_clean.
THEOREM Invariance == Spec => []IInv
<1>1. ASSUME IInv, [Next]_vars
      PROVE  IInv'
  <2>1. CASE StartInsmod \/ Insmod \/ Unwind \/ StartRmmod \/ Rmmod \/ UseStale
    BY <1>1, <2>1, ModuleStepInvariant
  <2>2. CASE \E f \in Files : Open(f) \/ Release(f)
    BY <1>1, <2>2, OpenInvariant, ReleaseInvariant
  <2>3. CASE \E p \in Processes : BeginTransfer(p) \/ BeginSeek(p)
    BY <1>1, <2>3, BeginInvariant
  <2>4. CASE \E p \in Processes : Transfer(p) \/ TransferFails(p)
    BY <1>1, <2>4, TransferInvariant
  <2>5. CASE \E p \in Processes : StorePosition(p) \/ Seek(p)
    BY <1>1, <2>5, StoreInvariant
  <2>6. CASE UNCHANGED vars
    BY <1>1, <2>6, StutterInvariant
  <2> QED
    BY <1>1, <2>1, <2>2, <2>3, <2>4, <2>5, <2>6 DEF Next
<1> QED
  BY InitInvariant, <1>1, PTL DEF Spec

\* Positions and all else keep their type: in particular dev_lseek lets no
\* position become negative.
THEOREM TypeCorrect == Spec => []TypeOK
<1>1. IInv => TypeOK
  BY DEF IInv
<1> QED
  BY Invariance, <1>1, PTL

\* dev_lseek, dev_read and dev_write keep every position within twice the
\* buffer, whatever calls overlap.
THEOREM PositionsBounded == Spec => []PositionBounded
<1>1. IInv => PositionBounded
  BY DEF IInv
<1> QED
  BY Invariance, <1>1, PTL

\* Without overlapping calls the position is the sum of what was transferred.
THEOREM PositionsAreSums == Spec => []PositionIsSum
<1>1. IInv => PositionIsSum
  BY DEF IInv
<1> QED
  BY Invariance, <1>1, PTL

\* The goto labels of dev_driver_init and dev_driver_clean undo what was done,
\* in its reverse order.
THEOREM RegistrationUnwound == Spec => []Unwound
<1>1. IInv => Unwound
  BY DEF IInv, TypeOK, RegisteredIs, Unwound
<1> QED
  BY Invariance, <1>1, PTL

\* No file outlives the module but one opened before its insmod failed.
THEOREM ModuleKept == Spec => []OpenKeepsModule
<1>1. IInv => OpenKeepsModule
  BY DEF IInv, OpenHolds, OpenKeepsModule
<1> QED
  BY Invariance, <1>1, PTL
=============================================================================
