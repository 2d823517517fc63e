------------------------------ MODULE MCPrograms ------------------------------
(***************************************************************************)
(* The small programs of the repository for TLC.  They share nothing with  *)
(* each other, so that running two of them side by side shows no more than *)
(* running each alone: a behaviour is one of one program.                  *)
(***************************************************************************)
EXTENDS MutexCounter, CharAdvance, PlatformProbe, VmallocCheck, ExceptionVectors, TLC

CONSTANTS d1, d2, r1, r2

VARIABLE program

vars == <<program, mutex_vars, char_vars, probe_vars, vmalloc_vars, vector_vars>>

\* The nodes share a region, which that of d2 names twice.
MCControl == d1 :> r1 @@ d2 :> r2
MCData    == d1 :> r2 @@ d2 :> r2

Programs == {"mutex_driver", "race", "char_advance", "platform_driver", "vmalloc_lab", "bare_metal"}

Init ==
  /\ program \in Programs
  /\ MutexInit /\ CharInit /\ ProbeInit /\ VmallocInit /\ VectorInit
  /\ program # "bare_metal" => image = "02_Abort"

Next ==
  \/ /\ program = "mutex_driver" /\ KernelNext
     /\ UNCHANGED <<program, char_vars, probe_vars, vmalloc_vars, vector_vars>>
  \/ /\ program = "race" /\ RaceNext
     /\ UNCHANGED <<program, char_vars, probe_vars, vmalloc_vars, vector_vars>>
  \/ /\ program = "char_advance" /\ CharNext
     /\ UNCHANGED <<program, mutex_vars, probe_vars, vmalloc_vars, vector_vars>>
  \/ /\ program = "platform_driver" /\ ProbeNext
     /\ UNCHANGED <<program, mutex_vars, char_vars, vmalloc_vars, vector_vars>>
  \/ /\ program = "vmalloc_lab" /\ VmallocNext
     /\ UNCHANGED <<program, mutex_vars, char_vars, probe_vars, vector_vars>>
  \/ /\ program = "bare_metal" /\ VectorNext
     /\ UNCHANGED <<program, mutex_vars, char_vars, probe_vars, vmalloc_vars>>

Spec == Init /\ [][Next]_vars
FairSpec == Spec /\ KernelFairness

\* The types of all variables of the programs.
TypeOK == MutexTypeOK /\ CharTypeOK /\ ProbeTypeOK /\ VmallocTypeOK /\ VectorTypeOK

\* What a module leaves in the kernel: after rmmod, and after an insmod that
\* failed, nothing but what class_deinit of 02_Advance forgets.
LeftBehind == CharLeftBehind /\ VmallocLeftBehind
=============================================================================
