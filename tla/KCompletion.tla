----------------------------- MODULE KCompletion -----------------------------
(***************************************************************************)
(* The kernel's struct completion, as completion_demo.c and irq_demo.c use *)
(* it.  It is not part of the repository; what the exercises call "what    *)
(* done equals after the first complete()" is all there is to it: a        *)
(* counter of permissions to pass, UINT_MAX meaning that everyone may.     *)
(*                                                                         *)
(* A wait is one step, enabled while done # 0: a task that is woken and    *)
(* finds that a newcomer was faster goes back to sleep, and complete()     *)
(* wakes a sleeper for every permission, so that none is lost.             *)
(***************************************************************************)
EXTENDS Naturals

CONSTANT UINT_MAX

ASSUME UIntAssumption == UINT_MAX \in Nat /\ UINT_MAX > 1

Dones == 0 .. UINT_MAX

\* complete(&x): one more task may pass.
Complete(done) == IF done = UINT_MAX THEN done ELSE done + 1

\* complete_all(&x): every task may pass, now and later.
CompleteAll(done) == UINT_MAX

\* wait_for_completion(&x) by a task that may pass.
MayPass(done) == done # 0
Pass(done) == IF done = UINT_MAX THEN done ELSE done - 1
=============================================================================
