---------------------------- MODULE ExceptionVectors ----------------------------
(***************************************************************************)
(* An exception taken from main() in two images: the undefined instruction *)
(* of 03_ARM_Architecture/02_Abort (vector sync_current_spx) and an        *)
(* interrupt of 04_GIC_Interrupt (irq_current_spx).  vector.S saves a      *)
(* struct pt_regs on the stack, calls the handler, loads the registers     *)
(* back and returns.                                                       *)
(*                                                                         *)
(* A vector is a sequence of instructions, which the model executes.       *)
(* Registers have the numbers of their slots in struct pt_regs, and the    *)
(* value of a register at the exception is its number as well: the run     *)
(* follows every value wherever it goes.  Left out: floating point, what a *)
(* handler does beside using registers, the stack pointer (moved by        *)
(* PT_REGS_SIZE both ways), the vectors that nothing in main() takes.      *)
(***************************************************************************)
EXTENDS Integers, Sequences

VARIABLES
  image,     \* "02_Abort" or "04_GIC_Interrupt"
  step,      \* the instruction of the vector to execute; 0: in main()
  cpu,       \* what each register holds
  pt_regs,   \* what each slot on the stack holds
  pc, pstate \* where main() is and its PSTATE

vector_vars == <<image, step, cpu, pt_regs, pc, pstate>>

ELR_EL1  == 31
SPSR_EL1 == 32
ESR_EL1  == 33
FAR_EL1  == 34
XRegs    == 0 .. 30
Slots    == 0 .. 34
Other    == -1             \* any other value

VectorTypeOK ==
  /\ image \in {"02_Abort", "04_GIC_Interrupt"}
  /\ step \in 0 .. 100
  /\ cpu \in [Slots -> Slots \cup {Other}]
  /\ pt_regs \in [Slots -> Slots \cup {Other}]
  /\ pc \in Slots \cup {Other} /\ pstate \in Slots \cup {Other}

VectorInit ==
  /\ image \in {"02_Abort", "04_GIC_Interrupt"}
  /\ step = 0
  /\ cpu = [r \in Slots |-> IF r \in XRegs THEN r ELSE Other]
  /\ pt_regs = [s \in Slots |-> Other]
  /\ pc = ELR_EL1 /\ pstate = SPSR_EL1

-----------------------------------------------------------------------------
(* vector.S *)

Save(r, slot) == [op |-> "str", to |-> slot, from |-> r]
Restore(r, slot) == [op |-> "ldr", to |-> r, from |-> slot]
Move(to, from) == [op |-> "mov", to |-> to, from |-> from]
Call == [op |-> "bl", to |-> 30, from |-> Other]

\* A system register and its slot, by way of a scratch register.
SaveSystem == << Move(20, ELR_EL1), Save(20, 31), Move(21, SPSR_EL1), Save(21, 32),
                 Move(22, ESR_EL1), Save(22, 33), Move(23, FAR_EL1), Save(23, 34) >>

SaveGeneral == [n \in 1 .. 31 |-> Save(n - 1, n - 1)]

\* Mutant: the scratch registers are used before they are saved.
save_context_SystemFirst == SaveSystem \o SaveGeneral \o << Move(0, Other) >>

\* The last instruction gives the handler the address of the frame.
save_context == SaveGeneral \o SaveSystem \o << Move(0, Other) >>

\* 02_Abort loads ESR_EL1 from the slot of SPSR_EL1.
EsrSlot == IF image = "02_Abort" THEN 32 ELSE 33

restore_context ==
  << Restore(20, 31), Move(ELR_EL1, 20), Restore(21, 32), Move(SPSR_EL1, 21),
     Restore(22, EsrSlot), Move(ESR_EL1, 22), Restore(23, 34), Move(FAR_EL1, 23) >>
    \o [n \in 1 .. 31 |-> Restore(31 - n, 31 - n)]

Vector == save_context \o << Call >> \o restore_context
CallAt == Len(save_context) + 1

\* The CPU masks interrupts as it takes the exception: nothing comes on top of
\* it.  The return address of an undefined instruction is its own.
TakeException ==
  /\ step = 0
  /\ cpu' = [cpu EXCEPT ![ELR_EL1] = pc, ![SPSR_EL1] = pstate,
                        ![ESR_EL1] = ESR_EL1, ![FAR_EL1] = FAR_EL1]
  /\ pc' = Other /\ pstate' = Other
  /\ step' = 1
  /\ UNCHANGED <<image, pt_regs>>

Value(r) == IF r = Other THEN Other ELSE cpu[r]

Execute ==
  /\ step \in 1 .. Len(Vector)
  /\ LET ins == Vector[step] IN
     CASE ins.op = "str" -> /\ pt_regs' = [pt_regs EXCEPT ![ins.to] = cpu[ins.from]]
                            /\ UNCHANGED cpu
       [] ins.op = "ldr" -> /\ cpu' = [cpu EXCEPT ![ins.to] = pt_regs[ins.from]]
                            /\ UNCHANGED pt_regs
       [] ins.op = "mov" -> /\ cpu' = [cpu EXCEPT ![ins.to] = Value(ins.from)]
                            /\ UNCHANGED pt_regs
       \* The handler, a C function: it may change x0 to x18, and bl changes x30.
       [] ins.op = "bl"  -> /\ \E used \in {0 .. 18, {}} :
                                 cpu' = [r \in Slots |-> IF r \in used \cup {30} THEN Other ELSE cpu[r]]
                            /\ UNCHANGED pt_regs
  /\ step' = step + 1
  /\ UNCHANGED <<image, pc, pstate>>

Eret ==
  /\ step = Len(Vector) + 1
  /\ pc' = cpu[ELR_EL1] /\ pstate' = cpu[SPSR_EL1]
  /\ step' = 0
  /\ UNCHANGED <<image, cpu, pt_regs>>

VectorNext == TakeException \/ Execute \/ Eret

-----------------------------------------------------------------------------
(* Properties *)

\* The handler finds in struct pt_regs what every register held, and main() goes
\* on as if nothing had happened: at the instruction it was at (in 02_Abort the
\* one that faults, so that it never gets to the tests behind it), with the same
\* x0 to x30 and PSTATE, although the vector uses some of them for its own ends.
\* (ESR_EL1 does not survive in 02_Abort.)
Transparent ==
  /\ step = CallAt => pt_regs = [s \in Slots |-> s]
  /\ step = 0 => /\ \A r \in XRegs : cpu[r] = r
                 /\ pc = ELR_EL1 /\ pstate = SPSR_EL1
                 /\ cpu[ESR_EL1] \in {Other, IF image = "02_Abort" THEN SPSR_EL1 ELSE ESR_EL1}
=============================================================================
