--------------------------- MODULE MachineProofs ---------------------------
(***************************************************************************)
(* What the code that handles page tables, the TLB and saved registers     *)
(* keeps.                                                                  *)
(*                                                                         *)
(* The kernel never loses its own mapping and user code never sees more    *)
(* than its own section, for every layout of memory the board headers can  *)
(* describe.  The inductive invariant says what every page table holds at  *)
(* every step (TablesBuilt) and which tables the TLB's entries can come    *)
(* from (TlbFromTables): up to the flush of mmu_drop_identity from the     *)
(* table with the identity map, during a switch from any table, otherwise  *)
(* from the one in TTBR0.                                                  *)
(*                                                                         *)
(* A thread gets its registers, its stack and its address space back after *)
(* any chain of switches, for any number of threads and processes.  The    *)
(* inductive invariant says what each thread's saved state is worth at     *)
(* every step of the switch.  A parked thread has two frames on its stack, *)
(* an exit frame with its registers below a resume frame, and its user     *)
(* bank in thread_t.ctx; the switch parks prev in two steps (SaveResume,   *)
(* SaveBanked) and unparks next in two (LoadNext, PopResume).              *)
(***************************************************************************)
EXTENDS Boot, ContextSwitch, Integers, SequenceTheorems, TLAPS

-----------------------------------------------------------------------------
(* The switch.                                                             *)

Places == {"first_run", "user", "kernel", "ret_from_first_entry", "save_banked",
           "ctxsw_switch_mm", "flush", ".Lload_next", "pop_resume"}

\* The frames of a thread that context_switch can resume.
Framed(t) ==
  /\ Len(kstack[t]) = 2
  /\ kstack[t][1] = ExitFrame(view[t].gpr)
  /\ \/ kstack[t][2] = ResumeFrame(t, "kernel")
     \/ kstack[t][2] = ResumeFrame(BOOT, "ret_from_first_entry")
  /\ ctx[t].sp_svc = SP(t, 2)

Banked(t) == ctx[t].sp_usr = view[t].sp_usr /\ ctx[t].lr_usr = view[t].lr_usr

\* The user bank is in the CPU and belongs to t.
Live(t) == cpu.sp_usr = view[t].sp_usr /\ cpu.lr_usr = view[t].lr_usr

Spaces == {Proc(t) : t \in Threads} \cup {BOOT}

Types ==
  /\ current \in Threads
  /\ prev \in Threads \cup {BOOT}
  /\ pc \in Places
  /\ cpu \in [gpr : Values, sp_usr : Values, lr_usr : Values,
              callee : Threads \cup {BOOT},
              sp_svc : [owner : Threads \cup {BOOT}, depth : 0 .. 2],
              ttbr0 : Spaces]
  /\ ctx \in [Threads -> [sp_svc : [owner : Threads, depth : 0 .. 2],
                          sp_usr : Values, lr_usr : Values]]
  /\ view \in [Threads -> [gpr : Values, sp_usr : Values, lr_usr : Values]]

Frames == [kind : {"exit"}, gpr : Values]
            \cup [kind : {"resume"}, callee : Threads \cup {BOOT},
                  lr : {"kernel", "ret_from_first_entry"}]

Stacks ==
  /\ kstack \in [Threads -> Seq(Frames)]
  /\ \A t \in Threads : Len(kstack[t]) <= 2

\* Whose frames, and whose user bank, are in memory at this step.
FramesSaved(t) ==
  t # current \/ pc \notin {"user", "kernel", "ret_from_first_entry"}

BankSaved(t) ==
  IF pc = "save_banked" THEN t # prev
  ELSE t # current \/ pc \in {"first_run", "ctxsw_switch_mm", "flush", ".Lload_next"}

Parked ==
  \A t \in Threads :
    /\ FramesSaved(t) => Framed(t)
    /\ BankSaved(t) => Banked(t)

OnCpu ==
  /\ pc = "user" => cpu.sp_svc = SP(current, 0) /\ cpu.gpr = view[current].gpr
  /\ pc \in {"kernel", "ret_from_first_entry"} =>
       /\ cpu.sp_svc = SP(current, 1)
       /\ Len(kstack[current]) >= 1
       /\ kstack[current][1] = ExitFrame(view[current].gpr)
  /\ pc = "kernel" => cpu.callee = current
  /\ pc = "pop_resume" => cpu.sp_svc = SP(current, 2)
  /\ pc \in {"user", "kernel", "ret_from_first_entry", "pop_resume"} => Live(current)
  /\ pc = "save_banked" => prev \in Threads /\ prev # current /\ Live(prev)

Space ==
  /\ pc \in {"user", "kernel", "ret_from_first_entry", "pop_resume", ".Lload_next"} =>
       cpu.ttbr0 = Proc(current) /\ (\A c \in cached : c[2] = Proc(current))
  /\ pc = "save_banked" =>
       cpu.ttbr0 = Proc(prev) /\ (\A c \in cached : c[2] = Proc(prev))
  /\ pc = "flush" => cpu.ttbr0 = Proc(current)

CInv == Types /\ Stacks /\ Parked /\ OnCpu /\ Space

-----------------------------------------------------------------------------

\* BOOT is no thread, and a thread's index is a register value.
LEMMA ThreadFacts ==
  /\ BOOT \notin Threads
  /\ \A t \in Threads : Index(t) \in Values
  /\ 0 \in Threads
<1>1. ASSUME NEW t \in Threads
      PROVE  Index(t) \in Values
  BY ContextSwitchAssumption DEF Threads, Index
<1> QED  BY <1>1, ContextSwitchAssumption DEF Threads

\* Stack pointers are of the type ctx and cpu hold.
LEMMA StackPointers ==
  \A t \in Threads, d \in {0, 1, 2} :
    /\ SP(t, d) \in [owner : Threads, depth : 0 .. 2]
    /\ SP(t, d) \in [owner : Threads \cup {BOOT}, depth : 0 .. 2]
BY DEF SP

\* thread_init_all leaves every thread parked.
LEMMA CInit == Init => CInv
<1> SUFFICES ASSUME Init PROVE CInv
  OBVIOUS
<1> USE ThreadFacts
<1>1. Types
  BY ContextSwitchAssumption DEF Init, Types, Places, SP, Spaces
<1>2. \A t \in Threads :
        /\ kstack[t] = <<ExitFrame(Index(t)), ResumeFrame(BOOT, "ret_from_first_entry")>>
        /\ kstack[t] \in Seq(Frames)
  <2>1. \A t \in Threads : ExitFrame(Index(t)) \in Frames
    BY DEF ExitFrame, Frames
  <2>2. ResumeFrame(BOOT, "ret_from_first_entry") \in Frames
    BY DEF ResumeFrame, Frames
  <2> QED  BY <2>1, <2>2 DEF Init
<1>3. Stacks
  BY <1>2 DEF Init, Stacks
<1>4. Parked
  BY <1>2 DEF Init, Parked, Framed, Banked
<1>5. OnCpu /\ Space
  BY DEF Init, OnCpu, Space
<1> QED  BY <1>1, <1>3, <1>4, <1>5 DEF CInv

\* Pushing on the stack in use leaves the frames below it alone.
LEMMA PushFacts ==
  ASSUME Stacks, NEW f \in Frames,
         cpu.sp_svc.owner \in Threads, cpu.sp_svc.depth \in {0, 1},
         cpu.sp_svc.depth <= Len(kstack[cpu.sp_svc.owner]), Push(f)
  PROVE  /\ Stacks'
         /\ \A t \in Threads : t # cpu.sp_svc.owner => kstack'[t] = kstack[t]
         /\ Len(kstack'[cpu.sp_svc.owner]) = cpu.sp_svc.depth + 1
         /\ kstack'[cpu.sp_svc.owner][cpu.sp_svc.depth + 1] = f
         /\ cpu.sp_svc.depth = 1 =>
              kstack'[cpu.sp_svc.owner][1] = kstack[cpu.sp_svc.owner][1]
<1> DEFINE o == cpu.sp_svc.owner
<1> DEFINE d == cpu.sp_svc.depth
<1> DEFINE s == kstack[o]
<1>1. s \in Seq(Frames) /\ d \in 0 .. Len(s) /\ o \in Threads /\ d \in {0, 1}
  BY DEF Stacks
<1>2. kstack' = [kstack EXCEPT ![o] = Append(SubSeq(s, 1, d), f)]
  BY DEF Push
<1> HIDE DEF o, d, s
<1>3. /\ SubSeq(s, 1, d) \in Seq(Frames) /\ Len(SubSeq(s, 1, d)) = d
      /\ \A i \in 1 .. d : SubSeq(s, 1, d)[i] = s[i]
  BY <1>1
<1>4. /\ Append(SubSeq(s, 1, d), f) \in Seq(Frames)
      /\ Len(Append(SubSeq(s, 1, d), f)) = d + 1
      /\ Append(SubSeq(s, 1, d), f)[d + 1] = f
      /\ d = 1 => Append(SubSeq(s, 1, d), f)[1] = s[1]
  BY <1>1, <1>3, AppendProperties
<1>5. /\ kstack'[o] = Append(SubSeq(s, 1, d), f)
      /\ \A t \in Threads : t # o => kstack'[t] = kstack[t]
      /\ kstack' \in [Threads -> Seq(Frames)]
  BY <1>1, <1>2, <1>4 DEF Stacks
<1>6. Stacks'
  <2>1. \A t \in Threads : t # o => Len(kstack'[t]) <= 2
    BY <1>5 DEF Stacks
  <2>2. Len(kstack'[o]) <= 2
    BY <1>1, <1>4, <1>5
  <2> QED  BY <1>5, <2>1, <2>2, Zenon DEF Stacks
<1> QED  BY <1>1, <1>4, <1>5, <1>6 DEF o, d, s

-----------------------------------------------------------------------------
(* One lemma per action.                                                   *)

\* User code changes registers that are its own.
LEMMA UserRunKeeps == CInv /\ UserRun => CInv'
<1> SUFFICES ASSUME CInv, UserRun PROVE CInv'
  OBVIOUS
<1>1. PICK v \in Values, r \in {"gpr", "sp_usr", "lr_usr"} :
        /\ cpu' = [cpu EXCEPT ![r] = v]
        /\ view' = [view EXCEPT ![current][r] = v]
  BY Zenon DEF UserRun
<1>2. pc = "user" /\ UNCHANGED <<current, prev, pc, kstack, ctx, cached>>
  BY DEF UserRun
<1>3. Types'
  BY <1>1, <1>2 DEF CInv, Types, Spaces
<1>4. /\ cpu'.sp_svc = cpu.sp_svc /\ cpu'.ttbr0 = cpu.ttbr0
      /\ \A t \in Threads \ {current} : view'[t] = view[t]
      /\ cpu'.gpr = view'[current].gpr
      /\ cpu'.sp_usr = view'[current].sp_usr
      /\ cpu'.lr_usr = view'[current].lr_usr
  BY <1>1, <1>2 DEF CInv, Types, OnCpu, Live
<1>5. Parked'
  BY <1>2, <1>4 DEF CInv, Parked, Framed, Banked, FramesSaved, BankSaved
<1>6. OnCpu' /\ Space' /\ Stacks'
  BY <1>2, <1>4 DEF CInv, OnCpu, Space, Stacks, Live
<1> QED  BY <1>3, <1>5, <1>6 DEF CInv

\* An exception pushes the exit frame of the thread on the CPU.
LEMMA EntryKeeps == CInv /\ ExceptionEntry => CInv'
<1> SUFFICES ASSUME CInv, ExceptionEntry PROVE CInv'
  OBVIOUS
<1>1. PICK v \in Values :
        cpu' = [cpu EXCEPT !.gpr = v, !.callee = current, !.sp_svc = Deeper]
  BY Zenon DEF ExceptionEntry
<1>2. /\ pc = "user" /\ pc' = "kernel" /\ Push(ExitFrame(cpu.gpr))
      /\ UNCHANGED <<current, prev, ctx, cached, view>>
  BY DEF ExceptionEntry
<1>3. /\ current \in Threads /\ cpu.sp_svc = SP(current, 0)
      /\ cpu.sp_svc.owner = current /\ cpu.sp_svc.depth = 0
      /\ cpu.gpr = view[current].gpr /\ cpu.gpr \in Values
  <2>1. current \in Threads /\ cpu.gpr \in Values
    BY DEF CInv, Types
  <2>2. cpu.sp_svc = SP(current, 0) /\ Live(current)
    BY <1>2 DEF CInv, OnCpu
  <2>3. cpu.gpr = view[current].gpr
    BY <1>2, <2>2 DEF CInv, OnCpu
  <2>4. SP(current, 0).owner = current /\ SP(current, 0).depth = 0
    BY DEF SP
  <2> QED  BY <2>1, <2>2, <2>3, <2>4
<1>4. ExitFrame(cpu.gpr) \in Frames /\ 0 <= Len(kstack[current])
  BY <1>3 DEF ExitFrame, Frames, CInv, Stacks
<1>5. /\ Stacks'
      /\ \A t \in Threads : t # current => kstack'[t] = kstack[t]
      /\ Len(kstack'[current]) = 1
      /\ kstack'[current][1] = ExitFrame(cpu.gpr)
  <2>1. /\ Stacks'
        /\ \A t \in Threads : t # cpu.sp_svc.owner => kstack'[t] = kstack[t]
        /\ Len(kstack'[cpu.sp_svc.owner]) = cpu.sp_svc.depth + 1
        /\ kstack'[cpu.sp_svc.owner][cpu.sp_svc.depth + 1] = ExitFrame(cpu.gpr)
    BY <1>2, <1>3, <1>4, PushFacts DEF CInv
  <2> QED  BY <1>3, <2>1
<1>6. Deeper = SP(current, 1)
  BY <1>3 DEF Deeper
<1>7. /\ cpu'.sp_svc = SP(current, 1) /\ cpu'.callee = current
      /\ cpu'.ttbr0 = cpu.ttbr0 /\ cpu'.sp_usr = cpu.sp_usr /\ cpu'.lr_usr = cpu.lr_usr
  BY <1>1, <1>6 DEF CInv, Types
<1>8. Types'
  BY <1>1, <1>2, <1>3, <1>6, StackPointers, ZenonT(40) DEF CInv, Types, Places
<1>9. Parked'
  BY <1>2, <1>5 DEF CInv, Parked, Framed, Banked, FramesSaved, BankSaved
<1>10. OnCpu' /\ Space'
  <2>1. OnCpu'
    BY <1>2, <1>3, <1>5, <1>7 DEF CInv, OnCpu, Live
  <2>2. Space'
    BY <1>2, <1>7 DEF CInv, Space
  <2> QED  BY <2>1, <2>2
<1> QED  BY <1>5, <1>8, <1>9, <1>10 DEF CInv

\* syscall_dispatch puts its result in the frame of its caller.
LEMMA ResultKeeps == CInv /\ SyscallResult => CInv'
<1> SUFFICES ASSUME CInv, SyscallResult PROVE CInv'
  OBVIOUS
<1>1. PICK v \in Values :
        /\ kstack' = [kstack EXCEPT ![cpu.callee][1].gpr = v]
        /\ view' = [view EXCEPT ![current].gpr = v]
  BY Zenon DEF SyscallResult
<1>2. pc = "kernel" /\ UNCHANGED <<current, prev, pc, cpu, ctx, cached>>
  BY DEF SyscallResult
<1>3. /\ current \in Threads /\ cpu.callee = current
      /\ kstack[current] \in Seq(Frames) /\ Len(kstack[current]) >= 1
      /\ kstack[current][1] = ExitFrame(view[current].gpr)
  BY <1>2 DEF CInv, OnCpu, Types, Stacks
<1>4. /\ \A t \in Threads : t # current => kstack'[t] = kstack[t] /\ view'[t] = view[t]
      /\ view'[current].gpr = v
      /\ view'[current].sp_usr = view[current].sp_usr
      /\ view'[current].lr_usr = view[current].lr_usr
  BY <1>1, <1>3 DEF CInv, Types, Stacks
<1>5. /\ kstack'[current] \in Seq(Frames)
      /\ Len(kstack'[current]) = Len(kstack[current])
      /\ kstack'[current][1] = ExitFrame(v)
  <2> DEFINE s == kstack[current]
  <2>1. ExitFrame(v) \in Frames /\ [ExitFrame(view[current].gpr) EXCEPT !.gpr = v] = ExitFrame(v)
    BY DEF ExitFrame, Frames
  <2>2. kstack'[current] = [s EXCEPT ![1] = [s[1] EXCEPT !.gpr = v]]
    BY <1>1, <1>3 DEF CInv, Stacks
  <2>3. kstack'[current] = [s EXCEPT ![1] = ExitFrame(v)]
    BY <1>3, <2>1, <2>2
  <2> QED  BY <1>3, <2>1, <2>3
<1>6. Stacks'
  <2>1. kstack' \in [Threads -> Seq(Frames)]
    BY <1>1, <1>3, <1>4, <1>5 DEF CInv, Stacks
  <2> QED  BY <1>4, <1>5, <2>1 DEF CInv, Stacks
<1>7. Types'
  BY <1>1, <1>2 DEF CInv, Types
<1>8. Parked'
  BY <1>2, <1>4 DEF CInv, Parked, Framed, Banked, FramesSaved, BankSaved
<1>9. OnCpu' /\ Space'
  BY <1>2, <1>3, <1>4, <1>5 DEF CInv, OnCpu, Space, Live
<1> QED  BY <1>6, <1>7, <1>8, <1>9 DEF CInv

\* The exception return pops that frame.
LEMMA ReturnKeeps == CInv /\ ExceptionReturn => CInv'
<1> SUFFICES ASSUME CInv, ExceptionReturn PROVE CInv'
  OBVIOUS
<1>1. /\ pc \in {"kernel", "ret_from_first_entry"} /\ pc' = "user"
      /\ cpu' = [cpu EXCEPT !.gpr = Top.gpr, !.sp_svc = Shallower]
      /\ UNCHANGED <<current, prev, kstack, ctx, cached, view>>
  BY DEF ExceptionReturn
<1>2. /\ current \in Threads /\ cpu.sp_svc.owner = current /\ cpu.sp_svc.depth = 1
      /\ kstack[current][1] = ExitFrame(view[current].gpr)
  BY <1>1 DEF CInv, OnCpu, Types, SP
<1>3. Top.gpr = view[current].gpr /\ Shallower = SP(current, 0)
  BY <1>2 DEF Top, ExitFrame, Shallower
<1>4. /\ cpu'.sp_svc = SP(current, 0) /\ cpu'.gpr = view[current].gpr
      /\ cpu'.ttbr0 = cpu.ttbr0 /\ cpu'.sp_usr = cpu.sp_usr /\ cpu'.lr_usr = cpu.lr_usr
  BY <1>1, <1>3 DEF CInv, Types
<1>5. Types'
  <2>1. Top.gpr \in Values
    BY <1>2, <1>3 DEF CInv, Types
  <2> QED  BY <1>1, <1>2, <1>3, <2>1, StackPointers, Zenon DEF CInv, Types, Places
<1>6. Parked' /\ Stacks'
  BY <1>1 DEF CInv, Parked, Stacks, Framed, Banked, FramesSaved, BankSaved
<1>7. OnCpu' /\ Space'
  BY <1>1, <1>4 DEF CInv, OnCpu, Space, Live
<1> QED  BY <1>5, <1>6, <1>7 DEF CInv

\* The first entry saves nothing.
LEMMA FirstRunKeeps == CInv /\ thread_first_run => CInv'
BY DEF CInv, thread_first_run, Types, Places, Stacks, Parked, Framed, Banked,
       FramesSaved, BankSaved, OnCpu, Space, Live

\* context_switch pushes the resume frame of prev and parks sp_svc.
LEMMA SaveResumeKeeps == CInv /\ SaveResume => CInv'
<1> SUFFICES ASSUME CInv, SaveResume PROVE CInv'
  OBVIOUS
<1>1. /\ pc = "kernel" /\ pc' = "save_banked"
      /\ current' \in Threads \ {current} /\ prev' = current
      /\ Push(ResumeFrame(cpu.callee, "kernel"))
      /\ cpu' = [cpu EXCEPT !.sp_svc = Deeper]
      /\ ctx' = [ctx EXCEPT ![current].sp_svc = Deeper]
      /\ UNCHANGED <<cached, view>>
  BY DEF SaveResume
<1>2. /\ current \in Threads
      /\ cpu.sp_svc.owner = current /\ cpu.sp_svc.depth = 1
      /\ cpu.callee = current /\ Len(kstack[current]) >= 1
      /\ kstack[current][1] = ExitFrame(view[current].gpr)
  BY <1>1 DEF CInv, OnCpu, Types, SP
<1>3. ResumeFrame(cpu.callee, "kernel") = ResumeFrame(current, "kernel")
      /\ ResumeFrame(cpu.callee, "kernel") \in Frames
  BY <1>2 DEF ResumeFrame, Frames
<1>4. /\ Stacks'
      /\ \A t \in Threads : t # current => kstack'[t] = kstack[t]
      /\ Len(kstack'[current]) = 2
      /\ kstack'[current][2] = ResumeFrame(current, "kernel")
      /\ kstack'[current][1] = kstack[current][1]
  <2>1. /\ Stacks'
        /\ \A t \in Threads : t # cpu.sp_svc.owner => kstack'[t] = kstack[t]
        /\ Len(kstack'[cpu.sp_svc.owner]) = cpu.sp_svc.depth + 1
        /\ kstack'[cpu.sp_svc.owner][cpu.sp_svc.depth + 1] = ResumeFrame(cpu.callee, "kernel")
        /\ kstack'[cpu.sp_svc.owner][1] = kstack[cpu.sp_svc.owner][1]
    BY <1>1, <1>2, <1>3, PushFacts DEF CInv
  <2> QED  BY <1>2, <1>3, <2>1
<1>5. Deeper = SP(current, 2)
  BY <1>2 DEF Deeper
<1>6. /\ cpu'.sp_usr = cpu.sp_usr /\ cpu'.lr_usr = cpu.lr_usr /\ cpu'.ttbr0 = cpu.ttbr0
      /\ \A t \in Threads : t # current => ctx'[t] = ctx[t]
      /\ ctx'[current].sp_svc = SP(current, 2)
  BY <1>1, <1>2, <1>5 DEF CInv, Types
<1>7. Types'
  <2>1. Deeper \in [owner : Threads, depth : 0 .. 2]
        /\ Deeper \in [owner : Threads \cup {BOOT}, depth : 0 .. 2]
    BY <1>2, <1>5, StackPointers
  <2>2. /\ current' \in Threads /\ prev' \in Threads \cup {BOOT} /\ pc' \in Places
        /\ view' \in [Threads -> [gpr : Values, sp_usr : Values, lr_usr : Values]]
    BY <1>1, <1>2 DEF CInv, Types, Places
  <2>3. cpu' \in [gpr : Values, sp_usr : Values, lr_usr : Values,
                  callee : Threads \cup {BOOT},
                  sp_svc : [owner : Threads \cup {BOOT}, depth : 0 .. 2], ttbr0 : Spaces]
    BY <1>1, <2>1, Zenon DEF CInv, Types
  <2>4. ctx' \in [Threads -> [sp_svc : [owner : Threads, depth : 0 .. 2],
                              sp_usr : Values, lr_usr : Values]]
    BY <1>1, <1>2, <2>1 DEF CInv, Types
  <2> QED  BY <2>2, <2>3, <2>4 DEF Types, Spaces
<1>8. Parked'
  <2>1. ASSUME NEW t \in Threads, t # current
        PROVE  Framed(t)' /\ Banked(t)'
    BY <1>1, <1>4, <1>6, <2>1 DEF CInv, Parked, Framed, Banked, FramesSaved, BankSaved
  <2>2. ASSUME NEW t \in Threads, t = current
        PROVE  Framed(t)' /\ ~BankSaved(t)'
    BY <1>1, <1>2, <1>4, <1>6, <2>2 DEF Framed, BankSaved
  <2> QED  BY <2>1, <2>2 DEF Parked
<1>9. OnCpu' /\ Space'
  BY <1>1, <1>2, <1>6 DEF CInv, OnCpu, Space, Live
<1> QED  BY <1>4, <1>7, <1>8, <1>9 DEF CInv

\* The user bank of prev is parked too.
LEMMA SaveBankedKeeps == CInv /\ SaveBanked => CInv'
<1> SUFFICES ASSUME CInv, SaveBanked PROVE CInv'
  OBVIOUS
<1>1. /\ pc = "save_banked"
      /\ ctx' = [ctx EXCEPT ![prev].sp_usr = cpu.sp_usr, ![prev].lr_usr = cpu.lr_usr]
      /\ pc' = IF Proc(prev) = Proc(current) THEN ".Lload_next" ELSE "ctxsw_switch_mm"
      /\ UNCHANGED <<current, prev, cpu, kstack, cached, view>>
  BY DEF SaveBanked
<1>2. prev \in Threads /\ Live(prev)
  BY <1>1 DEF CInv, OnCpu
<1>3. /\ \A t \in Threads : t # prev => ctx'[t] = ctx[t]
      /\ ctx'[prev].sp_svc = ctx[prev].sp_svc
      /\ ctx'[prev].sp_usr = cpu.sp_usr /\ ctx'[prev].lr_usr = cpu.lr_usr
  BY <1>1, <1>2 DEF CInv, Types
<1>4. Types' /\ Stacks'
  BY <1>1, <1>2, ZenonT(40) DEF CInv, Types, Places, Stacks
<1>5. Parked'
  <2>1. ASSUME NEW t \in Threads
        PROVE  Framed(t)' /\ Banked(t)'
    BY <1>1, <1>2, <1>3, Zenon DEF CInv, Parked, Framed, Banked, FramesSaved, BankSaved, Live
  <2> QED  BY <2>1 DEF Parked
<1>6. OnCpu' /\ Space'
  BY <1>1 DEF CInv, OnCpu, Space, Live
<1> QED  BY <1>4, <1>5, <1>6 DEF CInv

\* TTBR0 takes the table of the next process.
LEMMA SwitchMmKeeps == CInv /\ ctxsw_switch_mm => CInv'
<1> SUFFICES ASSUME CInv, ctxsw_switch_mm PROVE CInv'
  OBVIOUS
<1>1. /\ pc = "ctxsw_switch_mm" /\ pc' = "flush"
      /\ cpu' = [cpu EXCEPT !.ttbr0 = Proc(current)]
      /\ UNCHANGED <<current, prev, kstack, ctx, cached, view>>
  BY DEF ctxsw_switch_mm
<1>2. cpu'.ttbr0 = Proc(current)
  BY <1>1 DEF CInv, Types
<1>3. Types' /\ Stacks'
  BY <1>1, Zenon DEF CInv, Types, Places, Stacks, Spaces
<1>4. Parked'
  BY <1>1 DEF CInv, Parked, Framed, Banked, FramesSaved, BankSaved
<1>5. OnCpu' /\ Space'
  BY <1>1, <1>2 DEF CInv, OnCpu, Space
<1> QED  BY <1>3, <1>4, <1>5 DEF CInv

\* TLB and I-cache are emptied.
LEMMA FlushKeeps == CInv /\ Flush => CInv'
<1> SUFFICES ASSUME CInv, Flush PROVE CInv'
  OBVIOUS
<1>1. /\ pc = "flush" /\ pc' = ".Lload_next" /\ cached' = {}
      /\ UNCHANGED <<current, prev, cpu, kstack, ctx, view>>
  BY DEF Flush
<1>2. Types' /\ Stacks'
  BY <1>1 DEF CInv, Types, Places, Stacks
<1>3. Parked'
  BY <1>1 DEF CInv, Parked, Framed, Banked, FramesSaved, BankSaved, Live
<1>4. OnCpu' /\ Space'
  BY <1>1 DEF CInv, OnCpu, Space, Live
<1> QED  BY <1>2, <1>3, <1>4 DEF CInv

\* The user bank and sp_svc of next come back.
LEMMA LoadNextKeeps == CInv /\ LoadNext => CInv'
<1> SUFFICES ASSUME CInv, LoadNext PROVE CInv'
  OBVIOUS
<1>1. /\ pc = ".Lload_next" /\ pc' = "pop_resume"
      /\ cpu' = [cpu EXCEPT !.sp_usr = ctx[current].sp_usr,
                            !.lr_usr = ctx[current].lr_usr,
                            !.sp_svc = ctx[current].sp_svc]
      /\ UNCHANGED <<current, prev, kstack, ctx, cached, view>>
  BY DEF LoadNext
<1>2. current \in Threads /\ Framed(current) /\ Banked(current)
  BY <1>1 DEF CInv, Types, Parked, FramesSaved, BankSaved
<1>3. /\ cpu'.sp_usr = view[current].sp_usr /\ cpu'.lr_usr = view[current].lr_usr
      /\ cpu'.sp_svc = SP(current, 2) /\ cpu'.ttbr0 = cpu.ttbr0
  BY <1>1, <1>2 DEF CInv, Types, Framed, Banked
<1>4. Types' /\ Stacks'
  BY <1>1, <1>2, Zenon DEF CInv, Types, Places, Stacks
<1>5. Parked'
  BY <1>1 DEF CInv, Parked, Framed, Banked, FramesSaved, BankSaved
<1>6. OnCpu' /\ Space'
  BY <1>1, <1>3 DEF CInv, OnCpu, Space, Live
<1> QED  BY <1>4, <1>5, <1>6 DEF CInv

\* The resume frame of next is popped.
LEMMA PopResumeKeeps == CInv /\ PopResume => CInv'
<1> SUFFICES ASSUME CInv, PopResume PROVE CInv'
  OBVIOUS
<1>1. /\ pc = "pop_resume" /\ pc' = Top.lr
      /\ cpu' = [cpu EXCEPT !.callee = Top.callee, !.sp_svc = Shallower]
      /\ UNCHANGED <<current, prev, kstack, ctx, cached, view>>
  BY DEF PopResume
<1>2. /\ current \in Threads /\ Framed(current)
      /\ cpu.sp_svc.owner = current /\ cpu.sp_svc.depth = 2
  BY <1>1 DEF CInv, Types, Parked, FramesSaved, OnCpu, SP
<1>3. Top = kstack[current][2] /\ Shallower = SP(current, 1)
  BY <1>2 DEF Top, Shallower
<1>4. \/ Top.lr = "kernel" /\ Top.callee = current
      \/ Top.lr = "ret_from_first_entry" /\ Top.callee = BOOT
  <2>1. \A a, b : ResumeFrame(a, b).callee = a /\ ResumeFrame(a, b).lr = b
    BY DEF ResumeFrame
  <2>2. Top = ResumeFrame(current, "kernel") \/ Top = ResumeFrame(BOOT, "ret_from_first_entry")
    BY <1>2, <1>3 DEF Framed
  <2> QED  BY <2>1, <2>2
<1>5. /\ cpu'.callee = Top.callee /\ cpu'.sp_svc = SP(current, 1)
      /\ cpu'.sp_usr = cpu.sp_usr /\ cpu'.lr_usr = cpu.lr_usr /\ cpu'.ttbr0 = cpu.ttbr0
  BY <1>1, <1>3 DEF CInv, Types
<1>6. Types' /\ Stacks'
  BY <1>1, <1>2, <1>3, <1>4, StackPointers, Zenon DEF CInv, Types, Places, Stacks
<1>7. Parked'
  BY <1>1, <1>4 DEF CInv, Parked, Framed, Banked, FramesSaved, BankSaved
<1>8. OnCpu' /\ Space'
  BY <1>1, <1>2, <1>4, <1>5 DEF CInv, OnCpu, Space, Live, Framed
<1> QED  BY <1>6, <1>7, <1>8 DEF CInv

\* The hardware caches through the table in TTBR0.
LEMMA HardwareFillKeeps == CInv /\ HardwareFill => CInv'
<1> SUFFICES ASSUME CInv, HardwareFill PROVE CInv'
  OBVIOUS
<1>1. PICK k \in Caches : cached' = cached \cup {<<k, cpu.ttbr0>>}
  BY DEF HardwareFill
<1>2. UNCHANGED <<current, prev, pc, cpu, kstack, ctx, view>>
  BY DEF HardwareFill
<1>3. Types' /\ Stacks' /\ Parked' /\ OnCpu'
  BY <1>2 DEF CInv, Types, Stacks, Parked, Framed, Banked, FramesSaved, BankSaved, OnCpu, Live
<1>4. Space'
  BY <1>1, <1>2 DEF CInv, Space
<1> QED  BY <1>3, <1>4 DEF CInv

-----------------------------------------------------------------------------
(* The theorems.                                                           *)

\* The invariant holds along every chain of switches.
LEMMA CInvariance == Spec => []CInv
<1>1. CInv /\ [Next]_vars => CInv'
  <2>1. CInv /\ UNCHANGED vars => CInv'
    BY DEF vars, CInv, Types, Stacks, Parked, Framed, Banked, FramesSaved, BankSaved,
           OnCpu, Space, Live
  <2> QED  BY <2>1, UserRunKeeps, EntryKeeps, ResultKeeps, ReturnKeeps, FirstRunKeeps,
              SaveResumeKeeps, SaveBankedKeeps, SwitchMmKeeps, FlushKeeps, LoadNextKeeps,
              PopResumeKeeps, HardwareFillKeeps DEF Next
<1> QED  BY <1>1, CInit, PTL DEF Spec

\* However many context switches happened since a thread last ran, and to
\* whichever threads, it is back in user mode with the registers it left: the
\* exit frame, the resume frame and the user bank parked in thread_t.ctx are
\* nobody else's to write.
THEOREM ContextCorrect == Spec => []UserContextIntact
<1>1. CInv => UserContextIntact
  BY DEF CInv, OnCpu, Live, UserContextIntact
<1> QED  BY <1>1, CInvariance, PTL

\* Skipping TTBR0 and the flush between siblings, as context_switch does, is
\* safe for any grouping of threads into processes: user code runs with its
\* own table and nothing cached from another process.
THEOREM AddressSpaceCorrect == Spec => []AddressSpaceOwn
<1>1. CInv => AddressSpaceOwn
  BY DEF CInv, Space, AddressSpaceOwn
<1> QED  BY <1>1, CInvariance, PTL

\* Kernel code is always on the stack of the thread it runs for, one exit
\* frame deep, and no chain of switches lets a stack grow beyond two frames.
THEOREM KernelStackCorrect == Spec => []KernelStackOwn
<1>1. ASSUME CInv PROVE KernelStackOwn
  <2>1. pc \in {"kernel", "ret_from_first_entry"} => Top.kind = "exit"
    <3> SUFFICES ASSUME pc \in {"kernel", "ret_from_first_entry"} PROVE Top.kind = "exit"
      OBVIOUS
    <3>1. /\ cpu.sp_svc.owner = current /\ cpu.sp_svc.depth = 1
          /\ kstack[current][1] = ExitFrame(view[current].gpr)
      BY <1>1 DEF CInv, OnCpu, SP
    <3> QED  BY <3>1 DEF Top, ExitFrame
  <2> QED  BY <1>1, <2>1 DEF CInv, OnCpu, Stacks, KernelStackOwn
<1> QED  BY <1>1, CInvariance, PTL

-----------------------------------------------------------------------------
(* Page tables and the TLB.                                                *)

Early == {"reset", "mmu_init", "mmu_enable"}

Late == {"kernel", "switch_flush", "user"}

Loop == {"copy_image", "icache_sync", "build_table"}

\* The boot table after mmu_drop_identity, and before it.
BootMap(s) ==
  IF s \in Peripherals THEN Section(s, "device")
  ELSE IF s \in Alias THEN Section(s - PHYS_OFFSET, "kernel")
  ELSE FAULT

FullMap(s) == IF s \in Ram THEN Section(s, "kernel") ELSE BootMap(s)

\* The table a process gets, or boot_pgd.
RootMap(root, s) ==
  IF root # BOOT_PGD /\ s = USER_VIRT_BASE THEN Section(UserPhys(root), "user") ELSE BootMap(s)

Roots == Procs \cup {BOOT_PGD}

BootShape ==
  /\ step \in Early \cup Late \cup Loop \cup {"trampoline", "drop_identity", "drop_flush"}
  /\ step \in Early => ttbr0 = OFF /\ at = "PA"
  /\ step = "trampoline" => ttbr0 = BOOT_PGD /\ at = "PA"
  /\ step \in Loop \cup {"drop_identity", "drop_flush"} => ttbr0 = BOOT_PGD
  /\ step = "kernel" => ttbr0 \in Roots
  /\ step \in {"switch_flush", "user"} => ttbr0 \in Procs
  /\ step \notin Early \cup {"trampoline"} => at = "VA"
  /\ next_proc \in 0 .. NUM_PROCESSES
  /\ step \in Early \cup {"trampoline"} => next_proc = 0
  /\ step \in Loop => next_proc \in Procs
  /\ step \in Late \cup {"drop_identity", "drop_flush"} => next_proc = NUM_PROCESSES

TablesBuilt ==
  /\ step = "mmu_init" => boot_pgd = Empty
  /\ step \in Loop \cup {"mmu_enable", "trampoline", "drop_identity"} =>
       boot_pgd = [s \in Sections |-> FullMap(s)]
  /\ step \in Late \cup {"drop_flush"} => boot_pgd = [s \in Sections |-> BootMap(s)]
  /\ DOMAIN proc_pgd = Procs
  /\ \A p \in Procs : p < next_proc => proc_pgd[p] = [s \in Sections |-> RootMap(p, s)]

TlbFromTables ==
  /\ step \in Loop \cup {"trampoline", "drop_identity", "drop_flush"} =>
       \A e \in tlb : \E s \in Sections : e = <<s, FullMap(s)>>
  /\ step \in {"kernel", "user"} =>
       \A e \in tlb : \E s \in Sections : e = <<s, RootMap(ttbr0, s)>>
  /\ step = "switch_flush" =>
       \A e \in tlb : \E s \in Sections, r \in Roots : e = <<s, RootMap(r, s)>>

\* The image of process p is in place and visible to instruction fetches.
Loaded(p) == mem[UserPhys(p)] = Image(p) /\ UserPhys(p) \notin unclean

MemoryFilled ==
  /\ DOMAIN mem = Ram
  /\ mem[KERNEL_PHYS_BASE] = Kernel
  /\ \A p \in Procs : p < next_proc => Loaded(p)
  /\ step \in {"icache_sync", "build_table"} => mem[UserPhys(next_proc)] = Image(next_proc)
  /\ unclean \subseteq IF step = "icache_sync" THEN {UserPhys(next_proc)} ELSE {}

BInv == BootShape /\ TablesBuilt /\ TlbFromTables /\ MemoryFilled

-----------------------------------------------------------------------------
(* The layout and the maps.                                                *)

\* The alias is RAM shifted by PHYS_OFFSET, and every region has its entries.
LEMMA AliasFacts ==
  /\ \A s \in Ram : s + PHYS_OFFSET \in Alias /\ (s + PHYS_OFFSET) - PHYS_OFFSET = s
  /\ Alias \subseteq Sections /\ Ram \subseteq Sections /\ Peripherals \subseteq Sections
  /\ 0 \in Sections => 0 \notin Ram \cup Alias \cup Peripherals \cup {USER_VIRT_BASE}
  /\ KERNEL_PHYS_BASE \in Ram
  /\ \A p \in Procs : UserPhys(p) \in Ram /\ UserPhys(p) # KERNEL_PHYS_BASE
<1> USE BootAssumption
<1>1. \A s \in Ram : s + PHYS_OFFSET \in Alias /\ (s + PHYS_OFFSET) - PHYS_OFFSET = s
  BY DEF Ram, Alias, PHYS_OFFSET
<1>2. /\ Alias \subseteq Sections /\ Ram \subseteq Sections /\ Peripherals \subseteq Sections
      /\ 0 \notin Ram \cup Alias \cup Peripherals \cup {USER_VIRT_BASE}
  OBVIOUS
<1> QED  BY <1>1, <1>2

\* Two processes have different physical sections.
LEMMA SlotsApart == \A p, q \in Procs : UserPhys(p) = UserPhys(q) => p = q
<1> SUFFICES ASSUME NEW p \in Procs, NEW q \in Procs, p < q
             PROVE  UserPhys(p) # UserPhys(q)
  BY DEF Procs
<1>1. \A a, b, k \in Int : k > 0 /\ a < b => a * k < b * k
  OBVIOUS
<1>2. p \in Int /\ q \in Int /\ USER_PHYS_STRIDE \in Int /\ USER_PHYS_STRIDE > 0
  BY BootAssumption DEF Procs
<1>3. p * USER_PHYS_STRIDE < q * USER_PHYS_STRIDE
  BY <1>1, <1>2
<1>4. p * USER_PHYS_STRIDE \in Int /\ q * USER_PHYS_STRIDE \in Int /\ USER_PHYS_BASE \in Int
  BY <1>2, BootAssumption
<1> QED  BY <1>3, <1>4 DEF UserPhys

\* What the maps say of RAM, alias, peripherals and the user section.
LEMMA MapFacts ==
  /\ \A s \in Ram : /\ FullMap(s) = Section(s, "kernel")
                    /\ FullMap(s + PHYS_OFFSET) = Section(s, "kernel")
  /\ \A s \in Ram, r \in Roots : /\ RootMap(r, s) = FAULT
                                 /\ RootMap(r, s + PHYS_OFFSET) = Section(s, "kernel")
  /\ \A s \in Peripherals : FullMap(s) = Section(s, "device")
  /\ \A s \in Peripherals, r \in Roots : RootMap(r, s) = Section(s, "device")
  /\ FullMap(0) = FAULT
  /\ \A r \in Roots : RootMap(r, 0) = FAULT
<1> USE BootAssumption, AliasFacts DEF FullMap, BootMap, RootMap
<1>1. \A s \in Ram : s + PHYS_OFFSET \in Alias /\ s + PHYS_OFFSET \notin Ram
                     /\ s + PHYS_OFFSET \notin Peripherals /\ s + PHYS_OFFSET # USER_VIRT_BASE
  OBVIOUS
<1>2. 0 \notin Ram \cup Alias \cup Peripherals \cup {USER_VIRT_BASE}
  OBVIOUS
<1> QED  BY <1>1, <1>2

\* User descriptors are found at the window only.
LEMMA UserDescriptors ==
  /\ \A s \in Sections : BootMap(s).attr # "user"
  /\ \A r \in Procs, s \in Sections :
       IF s = USER_VIRT_BASE THEN RootMap(r, s) = Section(UserPhys(r), "user")
                             ELSE RootMap(r, s).attr # "user"
<1>1. \A s \in Sections : BootMap(s).attr # "user"
  BY DEF BootMap, Section, FAULT
<1>2. \A r \in Procs : r # BOOT_PGD
  BY BootAssumption
<1> QED  BY <1>1, <1>2 DEF RootMap

\* If the table and every entry of the TLB agree on a section, an access to it
\* has that translation.
LEMMA OneTranslation ==
  ASSUME NEW va, NEW d, Table(ttbr0)[va] = d,
         \A e \in tlb : \E s, x : e = <<s, x>> /\ (s = va => x = d)
  PROVE  Translations(va) = {d}
<1>1. \A x : <<va, x>> \in tlb => x = d
  <2> SUFFICES ASSUME NEW x, <<va, x>> \in tlb PROVE x = d
    OBVIOUS
  <2>1. PICK s, y : <<va, x>> = <<s, y>> /\ (s = va => y = d)
    OBVIOUS
  <2> QED  BY <2>1
<1> QED  BY <1>1 DEF Translations

\* What an access uses before the identity map is dropped, and once the system
\* runs.
LEMMA FullTranslation ==
  ASSUME BInv, step \in Loop \cup {"trampoline", "drop_identity"}, NEW va \in Sections
  PROVE  Translations(va) = {FullMap(va)}
<1>1. ttbr0 = BOOT_PGD /\ Table(ttbr0)[va] = FullMap(va)
  BY DEF BInv, BootShape, TablesBuilt, Table, Loop, Late, Early
<1>2. \A e \in tlb : \E s \in Sections : e = <<s, FullMap(s)>>
  BY DEF BInv, TlbFromTables
<1> QED  BY <1>1, <1>2, OneTranslation

\* After boot the table in TTBR0 holds the map of its root.
LEMMA LateTable ==
  ASSUME BInv, step \in Late, NEW va \in Sections
  PROVE  ttbr0 \in Roots /\ Table(ttbr0)[va] = RootMap(ttbr0, va)
<1>1. ttbr0 \in Roots
  BY DEF BInv, BootShape, Late, Roots
<1>2. CASE ttbr0 = BOOT_PGD
  BY <1>2, <1>1 DEF BInv, TablesBuilt, Table, RootMap, Loop, Late, Early
<1>3. CASE ttbr0 \in Procs
  <2>1. ttbr0 # BOOT_PGD
    BY <1>3, BootAssumption
  <2>2. next_proc = NUM_PROCESSES
    BY DEF BInv, BootShape, Late
  <2>3. ttbr0 < next_proc
    BY <1>3, <2>2, BootAssumption DEF Procs
  <2> QED  BY <1>1, <1>3, <2>1, <2>3 DEF BInv, TablesBuilt, Table
<1> QED  BY <1>1, <1>2, <1>3 DEF Roots

\* Outside a switch a section has one translation, that of the root in TTBR0.
LEMMA RootTranslation ==
  ASSUME BInv, step \in {"kernel", "user"}, NEW va \in Sections
  PROVE  Translations(va) = {RootMap(ttbr0, va)}
<1>1. ttbr0 \in Roots /\ Table(ttbr0)[va] = RootMap(ttbr0, va)
  BY LateTable DEF Late
<1>2. \A e \in tlb : \E s \in Sections : e = <<s, RootMap(ttbr0, s)>>
  BY DEF BInv, TlbFromTables
<1> QED  BY <1>1, <1>2, OneTranslation

-----------------------------------------------------------------------------
(* One lemma per group of actions.                                         *)

\* The reset state satisfies the invariant.
LEMMA BInit == BootInit => BInv
<1> SUFFICES ASSUME BootInit PROVE BInv
  OBVIOUS
<1>1. BootShape
  BY BootAssumption DEF BootInit, BootShape, Early, Loop, Late
<1>2. TablesBuilt
  <2>1. \A p \in Procs : ~(p < next_proc)
    BY BootAssumption DEF BootInit, Procs
  <2> QED  BY <2>1 DEF BootInit, TablesBuilt, Loop, Late
<1>3. TlbFromTables
  BY DEF BootInit, TlbFromTables, Loop
<1>4. MemoryFilled
  <2>1. \A p \in Procs : ~(p < next_proc)
    BY BootAssumption DEF BootInit, Procs
  <2> QED  BY <2>1, AliasFacts DEF BootInit, MemoryFilled
<1> QED  BY <1>1, <1>2, <1>3, <1>4 DEF BInv

\* What memory holds is not touched by the steps that leave mem, unclean and
\* next_proc alone.
LEMMA MemoryKept ==
  ASSUME MemoryFilled, UNCHANGED <<mem, unclean, next_proc>>, step # "icache_sync",
         step' # "icache_sync", step' = "build_table" => step = "build_table"
  PROVE  MemoryFilled'
BY DEF MemoryFilled, Loaded

\* .Lzero_bss clears the boot table.
LEMMA ZeroBssKeeps == BInv /\ ZeroBss => BInv'
<1> SUFFICES ASSUME BInv, ZeroBss PROVE BInv'
  OBVIOUS
<1>1. \A p \in Procs : ~(p < next_proc)
  BY BootAssumption DEF ZeroBss, BInv, BootShape, Early, Procs
<1>2. TablesBuilt'
  BY <1>1 DEF ZeroBss, TablesBuilt, Loop, Late
<1>3. MemoryFilled'
  BY MemoryKept DEF BInv, ZeroBss
<1>4. BootShape' /\ TlbFromTables'
  BY DEF BInv, ZeroBss, BootShape, TlbFromTables, Early, Loop, Late
<1> QED  BY <1>2, <1>3, <1>4 DEF BInv

\* mmu_build_boot_pgd fills an empty table with the full map.
LEMMA BuiltTable == mmu_build_boot_pgd(Empty) = [s \in Sections |-> FullMap(s)]
<1> DEFINE ident == pgtable_map_range(Empty, Ram, 0, "kernel")
           high  == pgtable_map_range(ident, Alias, PHYS_OFFSET, "kernel")
<1>1. \A s \in Ram \cup Peripherals : s - 0 = s
  BY BootAssumption DEF Sections
<1>2. \A s \in Sections : ident[s] = IF s \in Ram THEN Section(s, "kernel") ELSE FAULT
  BY <1>1 DEF pgtable_map_range, Empty
<1>3. \A s \in Sections :
        high[s] = IF s \in Alias THEN Section(s - PHYS_OFFSET, "kernel") ELSE ident[s]
  BY DEF pgtable_map_range
<1>4. mmu_build_boot_pgd(Empty) =
        [s \in Sections |-> IF s \in Peripherals THEN Section(s - 0, "device") ELSE high[s]]
  BY DEF mmu_build_boot_pgd, pgtable_map_range
<1> HIDE DEF ident, high
<1>5. ASSUME NEW s \in Sections
      PROVE  (IF s \in Peripherals THEN Section(s - 0, "device") ELSE high[s]) = FullMap(s)
  BY <1>1, <1>2, <1>3, BootAssumption DEF FullMap, BootMap
<1> QED  BY <1>4, <1>5

\* mmu_init builds the boot table with the MMU still off.
LEMMA MmuInitKeeps == BInv /\ mmu_init => BInv'
<1> SUFFICES ASSUME BInv, mmu_init PROVE BInv'
  OBVIOUS
<1>1. boot_pgd' = [s \in Sections |-> FullMap(s)]
  BY BuiltTable DEF BInv, TablesBuilt, mmu_init
<1>2. TablesBuilt'
  BY <1>1 DEF BInv, mmu_init, TablesBuilt, Loop, Late
<1>3. MemoryFilled'
  BY MemoryKept DEF BInv, mmu_init
<1>4. BootShape' /\ TlbFromTables'
  BY DEF BInv, mmu_init, BootShape, TlbFromTables, Early, Loop, Late
<1> QED  BY <1>2, <1>3, <1>4 DEF BInv

\* mmu_enable starts with an empty TLB and the boot table.
LEMMA MmuEnableKeeps == BInv /\ mmu_enable => BInv'
<1> SUFFICES ASSUME BInv, mmu_enable PROVE BInv'
  OBVIOUS
<1>1. MemoryFilled'
  BY MemoryKept DEF BInv, mmu_enable
<1>2. BootShape' /\ TlbFromTables' /\ TablesBuilt'
  BY DEF BInv, mmu_enable, BootShape, TlbFromTables, TablesBuilt, Early, Loop, Late
<1> QED  BY <1>1, <1>2 DEF BInv

\* The jump to the alias changes only where the code runs.
LEMMA TrampolineKeeps == BInv /\ Trampoline => BInv'
<1> SUFFICES ASSUME BInv, Trampoline PROVE BInv'
  OBVIOUS
<1>1. MemoryFilled'
  BY MemoryKept DEF BInv, Trampoline
<1>2. 0 \in Procs
  BY BootAssumption DEF Procs
<1>3. BootShape' /\ TlbFromTables' /\ TablesBuilt'
  BY <1>2 DEF BInv, Trampoline, BootShape, TlbFromTables, TablesBuilt, Early, Loop, Late
<1> QED  BY <1>1, <1>3 DEF BInv

\* process_init_all reaches the slot of the process through the alias.
LEMMA SlotReached ==
  ASSUME BInv, step \in Loop
  PROVE  /\ next_proc \in Procs /\ UserPhys(next_proc) \in Ram
         /\ Translations(UserPhys(next_proc) + PHYS_OFFSET)
              = {Section(UserPhys(next_proc), "kernel")}
         /\ \A d \in Translations(UserPhys(next_proc) + PHYS_OFFSET) : d.pa = UserPhys(next_proc)
<1>1. next_proc \in Procs /\ UserPhys(next_proc) \in Ram
  BY AliasFacts DEF BInv, BootShape
<1>2. UserPhys(next_proc) + PHYS_OFFSET \in Sections
  BY <1>1, AliasFacts
<1>3. Translations(UserPhys(next_proc) + PHYS_OFFSET)
        = {FullMap(UserPhys(next_proc) + PHYS_OFFSET)}
  BY <1>2, FullTranslation
<1>4. FullMap(UserPhys(next_proc) + PHYS_OFFSET) = Section(UserPhys(next_proc), "kernel")
  BY <1>1, MapFacts
<1> QED  BY <1>1, <1>3, <1>4 DEF Section

\* Copying an image fills its own slot and no other.
LEMMA CopyImageKeeps == BInv /\ CopyImage => BInv'
<1> SUFFICES ASSUME BInv, CopyImage PROVE BInv'
  OBVIOUS
<1>1. /\ step = "copy_image" /\ step' = "icache_sync"
      /\ UNCHANGED <<at, ttbr0, boot_pgd, proc_pgd, tlb, next_proc>>
  BY DEF CopyImage
<1>2. /\ mem' = [mem EXCEPT ![UserPhys(next_proc)] = Image(next_proc)]
      /\ unclean' = unclean \cup {UserPhys(next_proc)}
      /\ next_proc \in Procs
  BY <1>1, SlotReached, Zenon DEF CopyImage, Loop
<1>3. MemoryFilled'
  <2>1. UserPhys(next_proc) \in Ram /\ UserPhys(next_proc) # KERNEL_PHYS_BASE
        /\ KERNEL_PHYS_BASE \in Ram
    BY <1>2, AliasFacts
  <2>2. ASSUME NEW p \in Procs, p < next_proc
        PROVE  Loaded(p)'
    <3>1. p # next_proc
      BY <1>2, <2>2 DEF Procs
    <3>2. UserPhys(p) # UserPhys(next_proc) /\ UserPhys(p) \in Ram
      BY <1>2, <3>1, SlotsApart, AliasFacts
    <3> QED  BY <1>2, <2>1, <2>2, <3>2 DEF BInv, MemoryFilled, Loaded
  <2>3. /\ DOMAIN mem' = Ram /\ mem'[KERNEL_PHYS_BASE] = Kernel
        /\ mem'[UserPhys(next_proc)] = Image(next_proc)
        /\ unclean' \subseteq {UserPhys(next_proc)}
    BY <1>1, <1>2, <2>1 DEF BInv, MemoryFilled
  <2> QED  BY <1>1, <2>2, <2>3 DEF MemoryFilled
<1>4. BootShape' /\ TlbFromTables' /\ TablesBuilt'
  BY <1>1 DEF BInv, BootShape, TlbFromTables, TablesBuilt, Early, Loop, Late
<1> QED  BY <1>3, <1>4 DEF BInv

\* icache_sync makes the image just copied visible to fetches.
LEMMA IcacheSyncKeeps == BInv /\ icache_sync => BInv'
<1> SUFFICES ASSUME BInv, icache_sync PROVE BInv'
  OBVIOUS
<1>1. /\ step = "icache_sync" /\ step' = "build_table"
      /\ UNCHANGED <<at, ttbr0, boot_pgd, proc_pgd, tlb, mem, next_proc>>
  BY DEF icache_sync
<1>2. unclean' = unclean \ {UserPhys(next_proc)}
  BY <1>1, SlotReached DEF icache_sync, Loop
<1>3. MemoryFilled'
  BY <1>1, <1>2 DEF BInv, MemoryFilled, Loaded
<1>4. BootShape' /\ TlbFromTables' /\ TablesBuilt'
  BY <1>1 DEF BInv, BootShape, TlbFromTables, TablesBuilt, Early, Loop, Late
<1> QED  BY <1>3, <1>4 DEF BInv

\* pgtable_build_for_proc gives the process its map.
LEMMA BuildTableKeeps == BInv /\ BuildTable => BInv'
<1> SUFFICES ASSUME BInv, BuildTable PROVE BInv'
  OBVIOUS
<1>1. /\ step = "build_table" /\ next_proc' = next_proc + 1
      /\ proc_pgd' = [proc_pgd EXCEPT
                        ![next_proc] = pgtable_build_for_proc(UserPhys(next_proc))]
      /\ step' = IF next_proc' = NUM_PROCESSES THEN "drop_identity" ELSE "copy_image"
      /\ UNCHANGED <<at, ttbr0, boot_pgd, tlb, mem, unclean>>
  BY DEF BuildTable
<1>2. next_proc \in Procs
  BY <1>1 DEF BInv, BootShape, Loop
<1>3. /\ next_proc' \in 0 .. NUM_PROCESSES
      /\ next_proc' # NUM_PROCESSES => next_proc' \in Procs
      /\ \A p \in Procs : p < next_proc' => p < next_proc \/ p = next_proc
  BY <1>1, <1>2, BootAssumption DEF Procs
<1>4. BootShape'
  BY <1>1, <1>3 DEF BInv, BootShape, Early, Loop, Late
<1>5. pgtable_build_for_proc(UserPhys(next_proc)) = [s \in Sections |-> RootMap(next_proc, s)]
  <2>1. boot_pgd = [s \in Sections |-> FullMap(s)] /\ next_proc # BOOT_PGD
    BY <1>1, <1>2, BootAssumption DEF BInv, TablesBuilt, Loop
  <2>2. ASSUME NEW s \in Sections
        PROVE  (IF s = USER_VIRT_BASE THEN Section(UserPhys(next_proc), "user")
                ELSE IF s \in Ram THEN FAULT ELSE boot_pgd[s]) = RootMap(next_proc, s)
    <3>1. s \in Ram => s \notin Peripherals /\ s \notin Alias
      BY BootAssumption
    <3> QED  BY <2>1, <3>1 DEF RootMap, FullMap, BootMap
  <2> QED  BY <2>2 DEF pgtable_build_for_proc
<1>6. TablesBuilt'
  <2>1. /\ DOMAIN proc_pgd' = Procs
        /\ \A p \in Procs : p < next_proc' => proc_pgd'[p] = [s \in Sections |-> RootMap(p, s)]
    BY <1>1, <1>2, <1>3, <1>5 DEF BInv, TablesBuilt
  <2> QED  BY <1>1, <2>1 DEF BInv, TablesBuilt, Loop, Late
<1>7. TlbFromTables'
  BY <1>1 DEF BInv, TlbFromTables, Loop
<1>8. MemoryFilled'
  BY <1>1, <1>3 DEF BInv, MemoryFilled, Loaded
<1> QED  BY <1>4, <1>6, <1>7, <1>8 DEF BInv

\* mmu_drop_identity takes the identity map from table and TLB.
LEMMA DropKeeps == BInv /\ (DropIdentity \/ DropFlush) => BInv'
<1> SUFFICES ASSUME BInv, DropIdentity \/ DropFlush PROVE BInv'
  OBVIOUS
<1>1. MemoryFilled'
  BY MemoryKept DEF BInv, DropIdentity, DropFlush
<1>2. BootShape' /\ TlbFromTables'
  BY DEF BInv, DropIdentity, DropFlush, BootShape, TlbFromTables, Early, Loop, Late, Roots
<1>3. DropIdentity => boot_pgd' = [s \in Sections |-> BootMap(s)]
  <2> SUFFICES ASSUME DropIdentity PROVE boot_pgd' = [s \in Sections |-> BootMap(s)]
    OBVIOUS
  <2>1. boot_pgd = [s \in Sections |-> FullMap(s)]
    BY DEF BInv, TablesBuilt, DropIdentity
  <2>2. \A s \in Sections : (IF s \in Ram THEN FAULT ELSE boot_pgd[s]) = BootMap(s)
    <3>1. \A s \in Ram : s \notin Peripherals /\ s \notin Alias
      BY BootAssumption
    <3> QED  BY <2>1, <3>1 DEF FullMap, BootMap
  <2> QED  BY <2>2 DEF DropIdentity
<1>4. TablesBuilt'
  BY <1>3 DEF BInv, DropIdentity, DropFlush, TablesBuilt, Loop, Late
<1> QED  BY <1>1, <1>2, <1>4 DEF BInv

\* A switch of address space, its flush, and entering and leaving user mode.
LEMMA SwitchKeeps ==
  BInv /\ (SwitchMm \/ SwitchFlush \/ EnterKernel \/ ReturnToUser) => BInv'
<1> SUFFICES ASSUME BInv, SwitchMm \/ SwitchFlush \/ EnterKernel \/ ReturnToUser PROVE BInv'
  OBVIOUS
<1>1. /\ step \in Late /\ step' \in Late
      /\ UNCHANGED <<at, boot_pgd, proc_pgd, mem, unclean, next_proc>>
  BY DEF SwitchMm, SwitchFlush, EnterKernel, ReturnToUser, Late
<1>2. MemoryFilled'
  BY <1>1, MemoryKept DEF BInv, Late
<1>3. TablesBuilt'
  BY <1>1 DEF BInv, TablesBuilt, Loop, Late
<1>4. BootShape'
  BY <1>1 DEF BInv, BootShape, SwitchMm, SwitchFlush, EnterKernel, ReturnToUser,
              Early, Loop, Late, Roots
<1>5. TlbFromTables'
  <2>1. CASE SwitchMm
    <3>1. \A e \in tlb : \E s \in Sections : e = <<s, RootMap(ttbr0, s)>>
      BY <2>1 DEF SwitchMm, BInv, TlbFromTables
    <3>2. ttbr0 \in Roots
      BY <2>1 DEF SwitchMm, BInv, BootShape
    <3>3. \A e \in tlb : \E s \in Sections, r \in Roots : e = <<s, RootMap(r, s)>>
      BY <3>1, <3>2
    <3> QED  BY <2>1, <3>3 DEF SwitchMm, TlbFromTables, Loop
  <2>2. CASE SwitchFlush
    BY <2>2 DEF SwitchFlush, TlbFromTables
  <2>3. CASE EnterKernel \/ ReturnToUser
    BY <2>3 DEF EnterKernel, ReturnToUser, BInv, TlbFromTables, Loop
  <2> QED  BY <2>1, <2>2, <2>3
<1> QED  BY <1>2, <1>3, <1>4, <1>5 DEF BInv

\* A table walk loads the TLB from the table in TTBR0.
LEMMA TlbFillKeeps == BInv /\ TlbFill => BInv'
<1> SUFFICES ASSUME BInv, TlbFill PROVE BInv'
  OBVIOUS
<1>1. PICK s \in Sections :
        Table(ttbr0)[s] # FAULT /\ tlb' = tlb \cup {<<s, Table(ttbr0)[s]>>}
  BY DEF TlbFill
<1>2. MmuOn /\ UNCHANGED <<step, at, ttbr0, boot_pgd, proc_pgd, mem, unclean, next_proc>>
  BY DEF TlbFill
<1>3. step \notin Early
  BY <1>2 DEF BInv, BootShape, MmuOn
<1>4. BootShape' /\ TablesBuilt' /\ MemoryFilled'
  BY <1>2 DEF BInv, BootShape, TablesBuilt, MemoryFilled, Loaded
<1>5. TlbFromTables'
  <2>1. CASE step \in Loop \cup {"trampoline", "drop_identity"}
    <3>1. Table(ttbr0)[s] = FullMap(s)
      BY <2>1 DEF BInv, BootShape, TablesBuilt, Table, Loop, Late, Early
    <3> QED  BY <1>1, <1>2, <2>1, <3>1 DEF BInv, TlbFromTables, Loop
  <2>2. CASE step = "drop_flush"
    <3>1. Table(ttbr0)[s] = BootMap(s)
      BY <2>2 DEF BInv, BootShape, TablesBuilt, Table, Loop, Late, Early
    <3>2. BootMap(s) # FAULT => BootMap(s) = FullMap(s)
      BY BootAssumption DEF BootMap, FullMap
    <3> QED  BY <1>1, <1>2, <2>2, <3>1, <3>2 DEF BInv, TlbFromTables, Loop
  <2>3. CASE step \in Late
    <3>1. Table(ttbr0)[s] = RootMap(ttbr0, s) /\ ttbr0 \in Roots
      BY <2>3, LateTable
    <3>2. CASE step = "switch_flush"
      BY <1>1, <1>2, <3>1, <3>2 DEF BInv, TlbFromTables, Loop
    <3>3. CASE step \in {"kernel", "user"}
      BY <1>1, <1>2, <3>1, <3>3 DEF BInv, TlbFromTables, Loop
    <3> QED  BY <2>3, <3>2, <3>3 DEF Late
  <2> QED  BY <1>3, <2>1, <2>2, <2>3 DEF BInv, BootShape
<1> QED  BY <1>4, <1>5 DEF BInv

-----------------------------------------------------------------------------
(* The theorems.                                                           *)

\* The invariant holds at every step of boot and afterwards.
LEMMA BInvariance == BootSpec => []BInv
<1>1. BInv /\ [BootNext]_bootVars => BInv'
  <2>1. ASSUME BInv, UNCHANGED bootVars PROVE BInv'
    <3>1. BootShape' /\ TlbFromTables'
      BY <2>1 DEF bootVars, BInv, BootShape, TlbFromTables
    <3>2. TablesBuilt'
      BY <2>1 DEF bootVars, BInv, TablesBuilt
    <3>3. MemoryFilled'
      BY <2>1 DEF bootVars, BInv, MemoryFilled, Loaded
    <3> QED  BY <3>1, <3>2, <3>3 DEF BInv
  <2> QED  BY <2>1, ZeroBssKeeps, MmuInitKeeps, MmuEnableKeeps, TrampolineKeeps,
              CopyImageKeeps, IcacheSyncKeeps, BuildTableKeeps, DropKeeps, SwitchKeeps,
              TlbFillKeeps DEF BootNext
<1> QED  BY <1>1, BInit, PTL DEF BootSpec

\* Where all processes' tables agree, a switch in progress makes no difference;
\* where the boot tables agree too, nothing does.
LEMMA LateTranslation ==
  ASSUME BInv, step \in Late, NEW va \in Sections, NEW d, \A r \in Roots : RootMap(r, va) = d
  PROVE  Translations(va) = {d}
<1>1. Table(ttbr0)[va] = d
  BY LateTable
<1>2. \A e \in tlb : \E s \in Sections, r \in Roots : e = <<s, RootMap(r, s)>>
  BY LateTable DEF BInv, TlbFromTables, Late
<1> QED  BY <1>1, <1>2, OneTranslation

\* A section on which all maps agree has that one translation at every step.
LEMMA AgreedTranslation ==
  ASSUME BInv, MmuOn, NEW va \in Sections, NEW d,
         FullMap(va) = d, \A r \in Roots : RootMap(r, va) = d
  PROVE  Translations(va) = {d}
<1>1. CASE step \in Loop \cup {"trampoline", "drop_identity"}
  BY <1>1, FullTranslation
<1>2. CASE step = "drop_flush"
  <2>1. RootMap(BOOT_PGD, va) = BootMap(va) /\ BOOT_PGD \in Roots
    BY DEF RootMap, Roots
  <2>2. Table(ttbr0)[va] = d
    BY <1>2, <2>1 DEF BInv, BootShape, TablesBuilt, Table, Loop, Late, Early
  <2>3. \A e \in tlb : \E s \in Sections : e = <<s, FullMap(s)>>
    BY <1>2 DEF BInv, TlbFromTables
  <2> QED  BY <2>2, <2>3, OneTranslation
<1>3. CASE step \in Late
  BY <1>3, LateTranslation
<1>4. step \notin Early
  BY DEF BInv, BootShape, MmuOn
<1> QED  BY <1>1, <1>2, <1>3, <1>4 DEF BInv, BootShape

\* In every layout the kernel and its devices are mapped, and mapped right,
\* from the instant the MMU is on: on both sides of the trampoline, while the
\* identity map goes away, and in the middle of every later switch.
THEOREM KernelReachableCorrect == BootSpec => []KernelReachable
<1>1. ASSUME BInv PROVE KernelReachable
  <2> SUFFICES ASSUME MmuOn PROVE
        /\ Translations(CodeSection) = {Section(KERNEL_PHYS_BASE, "kernel")}
        /\ \A s \in Peripherals : Translations(s) = {Section(s, "device")}
    BY DEF KernelReachable
  <2>1. \A s \in Peripherals : Translations(s) = {Section(s, "device")}
    BY <1>1, AgreedTranslation, MapFacts, AliasFacts
  <2>2. CASE at = "PA"
    <3>1. step = "trampoline"
      BY <1>1, <2>2 DEF BInv, BootShape, MmuOn
    <3> QED  BY <1>1, <2>1, <2>2, <3>1, FullTranslation, MapFacts, AliasFacts DEF CodeSection
  <2>3. CASE at # "PA"
    <3>1. CodeSection = KERNEL_PHYS_BASE + PHYS_OFFSET /\ CodeSection \in Sections
      BY <2>3, AliasFacts DEF CodeSection
    <3>2. /\ FullMap(CodeSection) = Section(KERNEL_PHYS_BASE, "kernel")
          /\ \A r \in Roots : RootMap(r, CodeSection) = Section(KERNEL_PHYS_BASE, "kernel")
      BY <3>1, MapFacts, AliasFacts
    <3> QED  BY <1>1, <2>1, <3>1, <3>2, AgreedTranslation
  <2> QED  BY <2>2, <2>3
<1> QED  BY <1>1, BInvariance, PTL

\* In every layout a null pointer faults from the start, and any physical
\* address once mmu_drop_identity has returned.
THEOREM StrayPointersCorrect == BootSpec => []StrayPointersFault
<1>1. ASSUME BInv PROVE StrayPointersFault
  <2>1. MmuOn => Translations(0) = {FAULT}
    <3>1. 0 \in Sections
      BY BootAssumption DEF Sections
    <3> QED  BY <1>1, <3>1, AgreedTranslation, MapFacts
  <2>2. step \in Late => \A s \in Ram : Translations(s) = {FAULT}
    BY <1>1, LateTranslation, MapFacts, AliasFacts
  <2> QED  BY <2>1, <2>2 DEF StrayPointersFault, Late
<1> QED  BY <1>1, BInvariance, PTL

\* In every layout, whatever the TLB picked up on the way: user code has its
\* own slot through the window and no other section.
THEOREM IsolationCorrect == BootSpec => []UserIsolated
<1>1. ASSUME BInv PROVE UserIsolated
  <2> SUFFICES ASSUME step = "user", NEW s \in Sections, NEW d \in Translations(s)
               PROVE  IF s = USER_VIRT_BASE THEN d = Section(UserPhys(ttbr0), "user")
                                            ELSE d.attr # "user"
    BY DEF UserIsolated
  <2>1. d = RootMap(ttbr0, s) /\ ttbr0 \in Procs
    BY <1>1, RootTranslation DEF BInv, BootShape
  <2> QED  BY <2>1, UserDescriptors
<1> QED  BY <1>1, BInvariance, PTL

\* In every layout process_init_all leaves each process its own image, clean
\* to the point of unification, and the kernel's section as it was.
THEOREM ImagesCorrect == BootSpec => []ImagesIntact
<1>1. ASSUME BInv PROVE ImagesIntact
  <2> SUFFICES ASSUME step = "user" PROVE
        /\ \A p \in Procs : mem[UserPhys(p)] = Image(p) /\ UserPhys(p) \notin unclean
        /\ mem[KERNEL_PHYS_BASE] = Kernel
    BY DEF ImagesIntact
  <2>1. \A p \in Procs : p < next_proc
    BY <1>1, BootAssumption DEF BInv, BootShape, Late, Procs
  <2> QED  BY <1>1, <2>1 DEF BInv, MemoryFilled, Loaded
<1> QED  BY <1>1, BInvariance, PTL

=============================================================================
