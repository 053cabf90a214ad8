---------------------------- MODULE ContextSwitch ----------------------------
(***************************************************************************)
(* context_switch and the exception stubs around it, at the level of       *)
(* register groups: what is pushed on which kernel stack, what is parked   *)
(* in thread_t.ctx, and when TTBR0, the TLB and the I-cache change.        *)
(*                                                                         *)
(* A register group holds a small number standing for its contents.  gpr   *)
(* is r0-r12 with the return address and CPSR of the exception frame;      *)
(* callee is r4-r11 as kernel code uses them, and holds the thread whose   *)
(* C frames they belong to.  Which thread schedule() picks is module       *)
(* Kernel's business: here it is any other thread.                         *)
(*                                                                         *)
(* Interrupts are masked from entry to return, so the steps of one path    *)
(* are not interleaved with another's; the hardware may walk the page      *)
(* table in TTBR0 and fetch through it at any moment.  Coprocessor writes  *)
(* take effect in program order.                                           *)
(*                                                                         *)
(* The stubs of the three faults are left out: they put their frame on the *)
(* ABT or UND stack and the thread, retired in module Kernel, is switched  *)
(* away from and never resumed, so what it had in its registers is lost.   *)
(***************************************************************************)
EXTENDS Naturals, Sequences

CONSTANTS
  NUM_THREADS,
  THREADS_PER_PROC,
  Values,             \* contents a user program may give a register group
  BOOT                \* boot_pgd in TTBR0, the boot stack in sp_svc

Threads == 0 .. NUM_THREADS - 1

Proc(t) == t \div THREADS_PER_PROC

\* t->index: r0 at the first entry, and the number of its user stack slice.
Index(t) == t % THREADS_PER_PROC

ASSUME ContextSwitchAssumption ==
  /\ NUM_THREADS \in Nat \ {0}
  /\ THREADS_PER_PROC \in Nat \ {0}
  /\ 0 .. THREADS_PER_PROC - 1 \subseteq Values
  /\ 0 \in Values
  /\ BOOT \notin Nat

VARIABLES
  current,   \* the thread on the CPU
  prev,      \* first argument of the context_switch in progress
  pc,        \* where the CPU is
  cpu,       \* its registers
  kstack,    \* each thread's kernel stack, a sequence of frames
  ctx,       \* thread_t.ctx: sp_svc, sp_usr, lr_usr
  cached,    \* user-window translations and instructions held by the hardware
  view       \* what each thread's own program last left in its registers

vars == <<current, prev, pc, cpu, kstack, ctx, cached, view>>

Caches == {"tlb", "icache"}

\* A stack pointer: whose stack, and how many frames lie below it.
SP(owner, depth) == [owner |-> owner, depth |-> depth]

ExitFrame(gpr) == [kind |-> "exit", gpr |-> gpr]

ResumeFrame(callee, lr) == [kind |-> "resume", callee |-> callee, lr |-> lr]

-----------------------------------------------------------------------------

\* thread_init_all and thread_build_initial_frame: on every kernel stack an
\* exit frame with r0 = index below a resume frame whose lr is
\* ret_from_first_entry.
Init ==
  /\ current = 0
  /\ prev = BOOT
  /\ pc = "first_run"
  /\ cpu = [gpr |-> 0, sp_usr |-> 0, lr_usr |-> 0, callee |-> BOOT,
            sp_svc |-> SP(BOOT, 0), ttbr0 |-> BOOT]
  /\ kstack = [t \in Threads |->
                 <<ExitFrame(Index(t)), ResumeFrame(BOOT, "ret_from_first_entry")>>]
  /\ ctx = [t \in Threads |->
              [sp_svc |-> SP(t, 2), sp_usr |-> Index(t), lr_usr |-> 0]]
  /\ cached = {}
  /\ view = [t \in Threads |-> [gpr |-> Index(t), sp_usr |-> Index(t), lr_usr |-> 0]]

\* The stack in sp_svc with frame f pushed on it.
Push(f) ==
  LET sp == cpu.sp_svc
  IN  kstack' = [kstack EXCEPT ![sp.owner] = Append(SubSeq(@, 1, sp.depth), f)]

Deeper == SP(cpu.sp_svc.owner, cpu.sp_svc.depth + 1)

Shallower == SP(cpu.sp_svc.owner, cpu.sp_svc.depth - 1)

Top == kstack[cpu.sp_svc.owner][cpu.sp_svc.depth]

\* A user program changes its registers.
UserRun ==
  /\ pc = "user"
  /\ \E v \in Values, r \in {"gpr", "sp_usr", "lr_usr"} :
       /\ cpu' = [cpu EXCEPT ![r] = v]
       /\ view' = [view EXCEPT ![current][r] = v]
  /\ UNCHANGED <<current, prev, pc, kstack, ctx, cached>>

\* exception_entry_svc, exception_entry_irq: the exit frame goes on the
\* SVC stack, then C code uses the registers for itself.
ExceptionEntry ==
  /\ pc = "user"
  /\ Push(ExitFrame(cpu.gpr))
  /\ \E v \in Values :
       cpu' = [cpu EXCEPT !.gpr = v, !.callee = current, !.sp_svc = Deeper]
  /\ pc' = "kernel"
  /\ UNCHANGED <<current, prev, ctx, cached, view>>

\* syscall_dispatch stores the result in the caller's saved r0.  ctx is a local
\* of the C frames on the CPU, and a sys_read may have slept in between.
SyscallResult ==
  /\ pc = "kernel"
  /\ \E v \in Values :
       /\ kstack' = [kstack EXCEPT ![cpu.callee][1].gpr = v]
       /\ view' = [view EXCEPT ![current].gpr = v]
  /\ UNCHANGED <<current, prev, pc, cpu, ctx, cached>>

\* The tail of both stubs, and of ret_from_first_entry: drain the exit frame.
ExceptionReturn ==
  /\ pc \in {"kernel", "ret_from_first_entry"}
  /\ cpu' = [cpu EXCEPT !.gpr = Top.gpr, !.sp_svc = Shallower]
  /\ pc' = "user"
  /\ UNCHANGED <<current, prev, kstack, ctx, cached, view>>

\* thread_first_run(&threads[0]): prev is NULL, nothing to save.
thread_first_run ==
  /\ pc = "first_run"
  /\ pc' = "ctxsw_switch_mm"
  /\ UNCHANGED <<current, prev, cpu, kstack, ctx, cached, view>>

\* perform_switch calls context_switch(prev, next), which pushes r4-r11 and lr
\* and parks the stack pointer.
SaveResume ==
  /\ pc = "kernel"
  /\ \E next \in Threads \ {current} : current' = next
  /\ prev' = current
  /\ Push(ResumeFrame(cpu.callee, "kernel"))
  /\ cpu' = [cpu EXCEPT !.sp_svc = Deeper]
  /\ ctx' = [ctx EXCEPT ![current].sp_svc = Deeper]
  /\ pc' = "save_banked"
  /\ UNCHANGED <<cached, view>>

\* Mutant: siblings are taken for having nothing to save in the user bank.
MutantSaveBankedSkip ==
  /\ pc = "save_banked"
  /\ ctx' = IF Proc(prev) = Proc(current)
            THEN ctx
            ELSE [ctx EXCEPT ![prev].sp_usr = cpu.sp_usr, ![prev].lr_usr = cpu.lr_usr]
  /\ pc' = IF Proc(prev) = Proc(current) THEN ".Lload_next" ELSE "ctxsw_switch_mm"
  /\ UNCHANGED <<current, prev, cpu, kstack, cached, view>>

\* SYS mode stores SP_usr and LR_usr; then the owners are compared.
SaveBanked ==
  /\ pc = "save_banked"
  /\ ctx' = [ctx EXCEPT ![prev].sp_usr = cpu.sp_usr, ![prev].lr_usr = cpu.lr_usr]
  /\ pc' = IF Proc(prev) = Proc(current) THEN ".Lload_next" ELSE "ctxsw_switch_mm"
  /\ UNCHANGED <<current, prev, cpu, kstack, cached, view>>

\* TTBR0 := next->proc->pgd_pa.
ctxsw_switch_mm ==
  /\ pc = "ctxsw_switch_mm"
  /\ cpu' = [cpu EXCEPT !.ttbr0 = Proc(current)]
  /\ pc' = "flush"
  /\ UNCHANGED <<current, prev, kstack, ctx, cached, view>>

\* Mutant: ICIALLU is forgotten.
MutantFlushTlbOnly ==
  /\ pc = "flush"
  /\ cached' = {c \in cached : c[1] = "icache"}
  /\ pc' = ".Lload_next"
  /\ UNCHANGED <<current, prev, cpu, kstack, ctx, view>>

\* TLBIALL, ICIALLU, dsb, isb.
Flush ==
  /\ pc = "flush"
  /\ cached' = {}
  /\ pc' = ".Lload_next"
  /\ UNCHANGED <<current, prev, cpu, kstack, ctx, view>>

\* The user bank and the kernel stack pointer of next.
LoadNext ==
  /\ pc = ".Lload_next"
  /\ cpu' = [cpu EXCEPT !.sp_usr = ctx[current].sp_usr,
                        !.lr_usr = ctx[current].lr_usr,
                        !.sp_svc = ctx[current].sp_svc]
  /\ pc' = "pop_resume"
  /\ UNCHANGED <<current, prev, kstack, ctx, cached, view>>

\* Mutant: the resume frame is read but stays on the stack.
MutantPopKeepsFrame ==
  /\ pc = "pop_resume"
  /\ cpu' = [cpu EXCEPT !.callee = Top.callee]
  /\ pc' = Top.lr
  /\ UNCHANGED <<current, prev, kstack, ctx, cached, view>>

\* pop {r4-r11, lr}; bx lr.
PopResume ==
  /\ pc = "pop_resume"
  /\ cpu' = [cpu EXCEPT !.callee = Top.callee, !.sp_svc = Shallower]
  /\ pc' = Top.lr
  /\ UNCHANGED <<current, prev, kstack, ctx, cached, view>>

\* The hardware fills its TLB or I-cache through the table in TTBR0.
HardwareFill ==
  /\ cpu.ttbr0 # BOOT
  /\ \E c \in Caches : cached' = cached \cup {<<c, cpu.ttbr0>>}
  /\ UNCHANGED <<current, prev, pc, cpu, kstack, ctx, view>>

Next ==
  \/ UserRun \/ ExceptionEntry \/ SyscallResult \/ ExceptionReturn
  \/ thread_first_run \/ SaveResume \/ SaveBanked
  \/ ctxsw_switch_mm \/ Flush \/ LoadNext \/ PopResume
  \/ HardwareFill

Spec == Init /\ [][Next]_vars

-----------------------------------------------------------------------------
(* Properties.                                                             *)

\* A thread in user mode has the registers its own program left there, however
\* many switches to siblings and strangers happened in between.
UserContextIntact ==
  pc = "user" =>
    /\ cpu.gpr = view[current].gpr
    /\ cpu.sp_usr = view[current].sp_usr
    /\ cpu.lr_usr = view[current].lr_usr

\* User code executes in its own process's address space, with nothing cached
\* from another one: all processes use the same virtual window, the mappings
\* are global and there are no ASIDs, and the switch between siblings skips
\* the flush.
AddressSpaceOwn ==
  pc = "user" =>
    /\ cpu.ttbr0 = Proc(current)
    /\ \A c \in cached : c[2] = Proc(current)

\* Kernel code of a thread runs on that thread's stack with its own
\* callee-saved registers, exactly one exit frame deep, and the stack is empty
\* again in user mode: no chain of switches leaks or loses a frame.
KernelStackOwn ==
  /\ pc = "user" => cpu.sp_svc = SP(current, 0)
  /\ pc \in {"kernel", "ret_from_first_entry"} =>
       /\ cpu.sp_svc = SP(current, 1)
       /\ Top.kind = "exit"
  /\ pc = "kernel" => cpu.callee = current
  /\ \A t \in Threads : Len(kstack[t]) <= 2

=============================================================================
