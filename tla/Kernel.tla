------------------------------- MODULE Kernel -------------------------------
(***************************************************************************)
(* The kernel core: threads, the round-robin scheduler, the UART wait      *)
(* queue, the system calls, the IRQ path and the user-fault path, on one   *)
(* CPU.                                                                    *)
(*                                                                         *)
(* Every exception entry masks IRQs and only the return to user mode       *)
(* unmasks them, so kernel code is interleaved with the hardware (bytes    *)
(* arriving, the timer expiring) but never with another handler.  What a   *)
(* thread does in the kernel is cut where control can leave it: at         *)
(* schedule(), which may resume another thread at the point where that     *)
(* one called schedule(), and at the exception return.  pc[t] is that      *)
(* point; it stands for the frames on thread_kstack[t].                    *)
(*                                                                         *)
(* The contents of the receive ring do not matter here: rx is the number   *)
(* of bytes in it (module RxRing has the ring itself), and waitq is the    *)
(* queue that module WaitQueue implements with an array, a head and a      *)
(* count.                                                                  *)
(***************************************************************************)
EXTENDS Naturals, Sequences, FiniteSets

CONSTANTS
  NUM_PROCESSES,      \* size of processes[]
  THREADS_PER_PROC,   \* threads of one process
  RX_CAP,             \* bytes the receive ring can hold
  FIFO_DEPTH,         \* bytes the UART's own receive FIFO can hold
  MAX_READ,           \* largest len a user passes to sys_read
  KillPids,           \* pids users pass to sys_kill, valid or not
  Calls,              \* what each thread's program does in user mode
  NULL                \* the null thread_t pointer

NUM_THREADS == NUM_PROCESSES * THREADS_PER_PROC

Threads == 0 .. NUM_THREADS - 1

Procs == 0 .. NUM_PROCESSES - 1

\* t->proc: thread_init_all hands out tids process by process.
Proc(t) == t \div THREADS_PER_PROC

Ops == {"other", "yield", "exit", "read", "kill", "fault"}

ASSUME KernelAssumption ==
  /\ NUM_PROCESSES \in Nat \ {0}
  /\ THREADS_PER_PROC \in Nat \ {0}
  /\ RX_CAP \in Nat \ {0}
  /\ FIFO_DEPTH \in Nat \ {0}
  /\ MAX_READ \in Nat \ {0}
  /\ KillPids \subseteq Nat
  /\ Calls \in [Threads -> SUBSET Ops]
  /\ NULL \notin Threads

VARIABLES
  state,            \* thread_t.state of every thread
  current,          \* the thread on the CPU
  need_reschedule,  \* the flag schedule() consumes
  wake_hint,        \* the just-woken thread, or NULL
  waitq,            \* threads asleep in sys_read, oldest first
  pc,               \* where each thread is, or will resume
  want,             \* len of the sys_read a thread is inside, else 0
  rx,               \* bytes in the receive ring
  fifo,             \* bytes in the UART's receive FIFO
  timer,            \* the timer's interrupt line
  frames,           \* frames left on the shared ABT and UND stacks
  faulted,          \* history: processes retired by a user fault
  surplus           \* history: bytes that receive interrupts brought beyond the
                    \* first of each, since the ring was last empty

vars == <<state, current, need_reschedule, wake_hint, waitq, pc, want, rx,
          fifo, timer, frames, faulted, surplus>>

States == {"READY", "RUNNING", "BLOCKED", "DEAD"}

ExcStacks == {"abt", "und"}

\* The call sites of schedule(), and where each one continues.
SchedulePoints == {"svc_schedule", "irq_schedule", "read_schedule",
                   "fault_schedule"}

AfterSchedule(point) ==
  CASE point = "svc_schedule"   -> "svc_exit"
    [] point = "irq_schedule"   -> "irq_exit"
    [] point = "read_schedule"  -> "read_loop"
    [] point = "fault_schedule" -> "panic"

ExitPoints == {"svc_exit", "irq_exit", "first_entry"}

PCs == {"user", "read_loop", "panic"} \cup SchedulePoints \cup ExitPoints

Runnable(t) == state[t] \in {"READY", "RUNNING"}

InUser == pc[current] = "user"

-----------------------------------------------------------------------------
(* Boot hands over here: every frame built by thread_init_all, threads[0]  *)
(* loaded by thread_first_run, IRQs still masked.  The devices have been   *)
(* running for a while.                                                    *)

Init ==
  /\ state = [t \in Threads |-> "READY"]
  /\ current = 0
  /\ need_reschedule = FALSE
  /\ wake_hint = NULL
  /\ waitq = <<>>
  /\ pc = [t \in Threads |-> "first_entry"]
  /\ want = [t \in Threads |-> 0]
  /\ rx = 0
  /\ fifo \in 0 .. FIFO_DEPTH
  /\ timer \in BOOLEAN
  /\ frames = [m \in ExcStacks |-> 0]
  /\ faulted = {}
  /\ surplus = 0

-----------------------------------------------------------------------------
(* The scheduler.                                                          *)

\* Mutant: the sweep starts at threads[0] instead of after prev.
MutantSweepFromZero(prev, t) == t

\* How many steps of schedule()'s sweep after `prev` it takes to reach t.
SweepDistance(prev, t) == (t + NUM_THREADS - (prev + 1)) % NUM_THREADS

\* The runnable threads other than the one giving up the CPU.
Candidates == {t \in Threads \ {current} : Runnable(t)}

\* The hint wins when it names a candidate; otherwise the sweep's first hit.
Chosen(t) ==
  IF wake_hint \in Candidates
  THEN t = wake_hint
  ELSE /\ t \in Candidates
       /\ \A u \in Candidates :
            SweepDistance(current, t) <= SweepDistance(current, u)

\* Mutant: prev keeps its state RUNNING.
MutantNoDemotion(cand) ==
  /\ state' = [state EXCEPT ![cand] = "RUNNING"]
  /\ current' = cand

perform_switch(cand) ==
  /\ state' = [state EXCEPT ![current] = IF @ = "RUNNING" THEN "READY" ELSE @,
                            ![cand] = "RUNNING"]
  /\ current' = cand

schedule ==
  /\ pc[current] \in SchedulePoints
  /\ pc' = [pc EXCEPT ![current] = AfterSchedule(@)]
  /\ IF need_reschedule
     THEN /\ need_reschedule' = FALSE
          /\ wake_hint' = NULL
          /\ \/ \E cand \in Candidates : Chosen(cand) /\ perform_switch(cand)
             \/ /\ Candidates = {}
                /\ UNCHANGED <<state, current>>
     ELSE UNCHANGED <<state, current, need_reschedule, wake_hint>>
  /\ UNCHANGED <<waitq, want, rx, fifo, timer, frames, faulted, surplus>>

\* Mutant: no search for an earlier entry of t.
MutantPushTwice(t) ==
  waitq' = IF Len(waitq) >= NUM_THREADS THEN waitq ELSE Append(waitq, t)

\* waitq_push: a thread already queued is not queued twice, and a full ring
\* takes nobody.
waitq_push(t) ==
  waitq' = IF (\E i \in DOMAIN waitq : waitq[i] = t) \/ Len(waitq) >= NUM_THREADS
           THEN waitq
           ELSE Append(waitq, t)

\* scheduler_block_on_input, up to its call of schedule().
scheduler_block_on_input ==
  /\ state' = [state EXCEPT ![current] = "BLOCKED"]
  /\ waitq_push(current)
  /\ need_reschedule' = TRUE
  /\ pc' = [pc EXCEPT ![current] = "read_schedule"]

\* Positions in the queue whose thread is still asleep.
Asleep == {i \in DOMAIN waitq : state[waitq[i]] = "BLOCKED"}

\* Mutant: the woken reader is not hinted.
MutantWakeNoHint ==
  \/ /\ Asleep = {}
     /\ waitq' = <<>>
     /\ UNCHANGED <<state, need_reschedule, wake_hint>>
  \/ \E i \in Asleep :
       /\ \A j \in Asleep : i <= j
       /\ waitq' = SubSeq(waitq, i + 1, Len(waitq))
       /\ state' = [state EXCEPT ![waitq[i]] = "READY"]
       /\ need_reschedule' = TRUE
       /\ UNCHANGED wake_hint

\* Mutant: whoever is popped first is woken, dead or not.
MutantWakeCorpse ==
  \/ /\ waitq = <<>>
     /\ UNCHANGED <<waitq, state, need_reschedule, wake_hint>>
  \/ /\ waitq # <<>>
     /\ waitq' = Tail(waitq)
     /\ state' = [state EXCEPT ![Head(waitq)] = "READY"]
     /\ wake_hint' = Head(waitq)
     /\ need_reschedule' = TRUE

\* Mutant: a corpse at the head swallows the wakeup.
MutantCorpseSwallows ==
  \/ /\ 1 \notin Asleep
     /\ waitq' = IF waitq = <<>> THEN waitq ELSE Tail(waitq)
     /\ UNCHANGED <<state, need_reschedule, wake_hint>>
  \/ /\ 1 \in Asleep
     /\ waitq' = Tail(waitq)
     /\ state' = [state EXCEPT ![Head(waitq)] = "READY"]
     /\ wake_hint' = Head(waitq)
     /\ need_reschedule' = TRUE

\* Mutant: the queue is served from its newest end.
MutantWakeNewest ==
  \/ /\ Asleep = {}
     /\ waitq' = <<>>
     /\ UNCHANGED <<state, need_reschedule, wake_hint>>
  \/ \E i \in Asleep :
       /\ \A j \in Asleep : i >= j
       /\ waitq' = SubSeq(waitq, 1, i - 1)
       /\ state' = [state EXCEPT ![waitq[i]] = "READY"]
       /\ wake_hint' = waitq[i]
       /\ need_reschedule' = TRUE

\* scheduler_wake_reader: pop up to and including the first thread that is
\* still BLOCKED, dropping the others, and make that one runnable.
scheduler_wake_reader ==
  \/ /\ Asleep = {}
     /\ waitq' = <<>>
     /\ UNCHANGED <<state, need_reschedule, wake_hint>>
  \/ \E i \in Asleep :
       /\ \A j \in Asleep : i <= j
       /\ waitq' = SubSeq(waitq, i + 1, Len(waitq))
       /\ state' = [state EXCEPT ![waitq[i]] = "READY"]
       /\ wake_hint' = waitq[i]
       /\ need_reschedule' = TRUE

-----------------------------------------------------------------------------
(* System calls: exception_entry_svc, handle_svc and syscall_dispatch up   *)
(* to the schedule() in handle_svc.                                        *)

Svc(op) ==
  /\ InUser
  /\ op \in Calls[current]

SvcReturns == pc' = [pc EXCEPT ![current] = "svc_schedule"]

\* sys_write, sys_getpid, sys_ps, sys_ticks, an unknown number, a rejected
\* buffer, and sys_read with len 0: they change nothing but the caller's r0.
SysOther ==
  /\ Svc("other")
  /\ SvcReturns
  /\ UNCHANGED <<state, current, need_reschedule, wake_hint, waitq, want, rx,
                 fifo, timer, frames, faulted, surplus>>

SysYield ==
  /\ Svc("yield")
  /\ SvcReturns
  /\ need_reschedule' = TRUE
  /\ UNCHANGED <<state, current, wake_hint, waitq, want, rx, fifo, timer,
                 frames, faulted, surplus>>

\* Mutant: sys_exit requests no reschedule.
MutantExitStays ==
  /\ Svc("exit")
  /\ SvcReturns
  /\ state' = [state EXCEPT ![current] = "DEAD"]
  /\ UNCHANGED <<current, need_reschedule, wake_hint, waitq, want, rx, fifo,
                 timer, frames, faulted, surplus>>

SysExit ==
  /\ Svc("exit")
  /\ SvcReturns
  /\ state' = [state EXCEPT ![current] = "DEAD"]
  /\ need_reschedule' = TRUE
  /\ UNCHANGED <<current, wake_hint, waitq, want, rx, fifo, timer, frames,
                 faulted, surplus>>

\* Mutant: only the running thread of p dies.
MutantRetireOne(p) ==
  [t \in Threads |-> IF Proc(t) = p /\ t = current THEN "DEAD" ELSE state[t]]

\* Every thread of process p DEAD, as sys_kill and user_fault_kill leave it.
Retired(p) == [t \in Threads |-> IF Proc(t) = p THEN "DEAD" ELSE state[t]]

\* Mutant: sys_kill requests no reschedule.
MutantKillStays ==
  /\ Svc("kill")
  /\ SvcReturns
  /\ \E pid \in KillPids :
       state' = IF pid \in Procs THEN Retired(pid) ELSE state
  /\ UNCHANGED <<current, need_reschedule, wake_hint, waitq, want, rx, fifo,
                 timer, frames, faulted, surplus>>

SysKill ==
  /\ Svc("kill")
  /\ SvcReturns
  /\ \E pid \in KillPids :
       IF pid \in Procs /\ \E t \in Threads : Proc(t) = pid /\ state[t] # "DEAD"
       THEN /\ state' = Retired(pid)
            /\ need_reschedule' = TRUE
       ELSE UNCHANGED <<state, need_reschedule>>
  /\ UNCHANGED <<current, wake_hint, waitq, want, rx, fifo, timer, frames,
                 faulted, surplus>>

SysRead ==
  /\ Svc("read")
  /\ pc' = [pc EXCEPT ![current] = "read_loop"]
  /\ \E len \in 1 .. MAX_READ : want' = [want EXCEPT ![current] = len]
  /\ UNCHANGED <<state, current, need_reschedule, wake_hint, waitq, rx, fifo,
                 timer, frames, faulted, surplus>>

\* The copy loop takes what is there, at most len bytes, and returns.
SysReadCopy ==
  /\ pc[current] = "read_loop"
  /\ rx > 0
  /\ rx' = IF rx > want[current] THEN rx - want[current] ELSE 0
  /\ surplus' = IF rx' = 0 THEN 0 ELSE surplus
  /\ want' = [want EXCEPT ![current] = 0]
  /\ SvcReturns
  /\ UNCHANGED <<state, current, need_reschedule, wake_hint, waitq, fifo,
                 timer, frames, faulted>>

\* Nothing to copy and nothing copied yet: sleep.
SysReadBlock ==
  /\ pc[current] = "read_loop"
  /\ rx = 0
  /\ scheduler_block_on_input
  /\ UNCHANGED <<current, wake_hint, want, rx, fifo, timer, frames, faulted, surplus>>

-----------------------------------------------------------------------------
(* The return to user mode, which unmasks IRQs.                            *)

ExceptionReturn ==
  /\ pc[current] \in ExitPoints
  /\ pc' = [pc EXCEPT ![current] = "user"]
  /\ UNCHANGED <<state, current, need_reschedule, wake_hint, waitq, want, rx,
                 fifo, timer, frames, faulted, surplus>>

-----------------------------------------------------------------------------
(* Interrupts: exception_entry_irq and handle_irq up to its schedule().    *)
(* One exception serves one line, and acknowledges it before schedule().   *)

\* CPSR.I is clear in user mode only.
IrqEntry ==
  /\ InUser
  /\ pc' = [pc EXCEPT ![current] = "irq_schedule"]

TimerIrq ==
  /\ IrqEntry
  /\ timer
  /\ timer' = FALSE
  /\ need_reschedule' = TRUE
  /\ UNCHANGED <<state, current, wake_hint, waitq, want, rx, fifo, frames,
                 faulted, surplus>>

\* More than RX_CAP need not be told apart, since the ring holds no more.
CountSurplus ==
  surplus' = IF surplus + (fifo - 1) > RX_CAP THEN RX_CAP ELSE surplus + (fifo - 1)

\* Mutant: the ring does not refuse what does not fit.
MutantRingOverrun ==
  /\ IrqEntry
  /\ fifo > 0
  /\ rx' = rx + fifo
  /\ fifo' = 0
  /\ CountSurplus
  /\ scheduler_wake_reader
  /\ UNCHANGED <<current, want, timer, frames, faulted>>

\* The driver drains the FIFO into the ring, which drops what does not fit,
\* and wakes one reader.
UartIrq ==
  /\ IrqEntry
  /\ fifo > 0
  /\ rx' = IF rx + fifo > RX_CAP THEN RX_CAP ELSE rx + fifo
  /\ fifo' = 0
  /\ CountSurplus
  /\ scheduler_wake_reader
  /\ UNCHANGED <<current, want, timer, frames, faulted>>

\* The controller reports no line: irq_dispatch only writes the EOI.
SpuriousIrq ==
  /\ IrqEntry
  /\ UNCHANGED <<state, current, need_reschedule, wake_hint, waitq, want, rx,
                 fifo, timer, frames, faulted, surplus>>

-----------------------------------------------------------------------------
(* Faults in user mode.  The entry stub pushes its frame on the stack of   *)
(* the exception's own mode, which no thread owns; no path pops it.        *)

UserFault ==
  /\ InUser
  /\ "fault" \in Calls[current]
  /\ \E m \in ExcStacks : frames' = [frames EXCEPT ![m] = @ + 1]
  /\ state' = Retired(Proc(current))
  /\ faulted' = faulted \cup {Proc(current)}
  /\ need_reschedule' = TRUE
  /\ pc' = [pc EXCEPT ![current] = "fault_schedule"]
  /\ UNCHANGED <<current, wake_hint, waitq, want, rx, fifo, timer, surplus>>

\* Reached only when schedule() found nobody else: wfi, for ever.
halt_forever ==
  /\ pc[current] = "panic"
  /\ UNCHANGED vars

-----------------------------------------------------------------------------
(* The devices.                                                            *)

UartReceive ==
  /\ fifo < FIFO_DEPTH
  /\ fifo' = fifo + 1
  /\ UNCHANGED <<state, current, need_reschedule, wake_hint, waitq, pc, want,
                 rx, timer, frames, faulted, surplus>>

TimerExpire ==
  /\ ~timer
  /\ timer' = TRUE
  /\ UNCHANGED <<state, current, need_reschedule, wake_hint, waitq, pc, want,
                 rx, fifo, frames, faulted, surplus>>

-----------------------------------------------------------------------------

UserStep == SysOther \/ SysYield \/ SysExit \/ SysKill \/ SysRead \/ UserFault

KernelStep == schedule \/ SysReadCopy \/ SysReadBlock \/ ExceptionReturn

Next ==
  \/ UserStep
  \/ KernelStep
  \/ TimerIrq \/ UartIrq \/ SpuriousIrq
  \/ halt_forever
  \/ UartReceive \/ TimerExpire

Spec == Init /\ [][Next]_vars

\* Kernel code runs to its end; a line that stays asserted is taken once the
\* CPU is unmasked often enough; the timer is periodic.  Users and the
\* keyboard promise nothing.
Fairness ==
  /\ WF_vars(KernelStep)
  /\ SF_vars(TimerIrq)
  /\ SF_vars(UartIrq)
  /\ WF_vars(TimerExpire)

FairSpec == Spec /\ Fairness

-----------------------------------------------------------------------------
(* Type invariant.                                                         *)

\* Every variable has the type its C object or register has, and rx and fifo
\* stay within the buffers they count.
TypeOK ==
  /\ state \in [Threads -> States]
  /\ current \in Threads
  /\ need_reschedule \in BOOLEAN
  /\ wake_hint \in Threads \cup {NULL}
  /\ waitq \in Seq(Threads)
  /\ pc \in [Threads -> PCs]
  /\ want \in [Threads -> 0 .. MAX_READ]
  /\ rx \in 0 .. RX_CAP
  /\ fifo \in 0 .. FIFO_DEPTH
  /\ timer \in BOOLEAN
  /\ frames \in [ExcStacks -> Nat]
  /\ faulted \in SUBSET Procs
  /\ surplus \in 0 .. RX_CAP

-----------------------------------------------------------------------------
(* Safety: scheduler and wait queue.                                       *)

\* uart_waitq holds every sleeping reader exactly once, and nobody who could
\* run: a thread is BLOCKED only while queued, a queued thread is BLOCKED or
\* was killed there.  So waitq_push's second refusal, the full ring, is
\* never what keeps a reader out (scheduler.c:54-56, 86-87).
WaitqHoldsSleepers ==
  /\ \A i, j \in DOMAIN waitq : waitq[i] = waitq[j] => i = j
  /\ \A t \in Threads : state[t] = "BLOCKED" => \E i \in DOMAIN waitq : waitq[i] = t
  /\ \A i \in DOMAIN waitq : state[waitq[i]] \in {"BLOCKED", "DEAD"}

\* need_reschedule and wake_hint never survive into user mode: whatever
\* raised them, the schedule() at the handler's tail consumed them, so no
\* later schedule() acts on a hint about a thread that has since slept or
\* died.  And nobody who was woken is still waiting for the CPU there: the
\* reader that scheduler_wake_reader picked ran at once and took its byte.
WakeupConsumed ==
  InUser =>
    /\ ~need_reschedule
    /\ wake_hint = NULL
    /\ \A t \in Threads \ {current} :
         pc[t] = "read_loop" => state[t] \in {"BLOCKED", "DEAD"}

\* What schedule() leaves behind resumes where it should: only the thread on
\* the CPU is RUNNING, a thread off the CPU is parked at a point context_switch
\* can return to, a sleeper is parked inside sys_read with a length to serve,
\* and the fault path is never resumed (its thread is DEAD for good).
ParkedThreadsResumable ==
  \A t \in Threads \ {current} :
    /\ state[t] # "RUNNING"
    /\ pc[t] \in ExitPoints \cup {"read_loop", "panic"}
    /\ state[t] = "BLOCKED" => pc[t] = "read_loop"
    /\ pc[t] = "read_loop" => want[t] > 0
    /\ pc[t] = "panic" => state[t] = "DEAD"

\* Who may be executing user code: a RUNNING thread; thread 0 in its first
\* slice, which thread_first_run starts without marking it RUNNING; or, with
\* no other thread left to run, a DEAD one (schedule() keeps the current
\* thread when the sweep finds nobody).  Never a BLOCKED one.
WhoRunsUserCode ==
  InUser =>
    \/ state[current] = "RUNNING"
    \/ /\ state[current] = "READY"
       /\ current = 0
       /\ \A t \in Threads \ {0} : pc[t] = "first_entry"
    \/ /\ state[current] = "DEAD"
       /\ Candidates = {}

\* How far the thread on the CPU is with its handler, and what holds there:
\* a pending reschedule is always about to be consumed, a hint names a
\* runnable thread and is consumed next, a reader that woke up but has not run
\* is that hint, a BLOCKED thread on the CPU is inside sys_read with an empty
\* ring, a DEAD one stays only when there is nobody to switch to, and READY is
\* only thread 0 before the first switch.  It is the part of the inductive
\* invariant that speaks about states in the middle of a handler.
HandlerPaths ==
  /\ need_reschedule => pc[current] \in SchedulePoints
  /\ wake_hint # NULL =>
       need_reschedule /\ pc[current] = "irq_schedule" /\ wake_hint \in Candidates
  /\ \A t \in Threads \ {current} :
       pc[t] = "read_loop" => state[t] \in {"BLOCKED", "DEAD"} \/ t = wake_hint
  /\ state[current] = "BLOCKED" =>
       pc[current] \in {"read_loop", "read_schedule"} /\ rx = 0
  /\ pc[current] = "read_schedule" =>
       state[current] = "BLOCKED" /\ need_reschedule
  /\ pc[current] \in {"read_loop", "read_schedule"} => want[current] > 0
  /\ pc[current] \in {"fault_schedule", "panic"} => state[current] = "DEAD"
  /\ state[current] = "DEAD" /\ ~need_reschedule => Candidates = {}
  /\ state[current] = "READY" =>
       current = 0 /\ \A t \in Threads \ {0} : pc[t] = "first_entry"

\* A thread that died off the CPU is never scheduled, woken or marked
\* anything but DEAD again, whatever is still queued or hinted about it.
DeadOffCpuStaysDead ==
  [][\A t \in Threads :
       state[t] = "DEAD" /\ t # current => state'[t] = "DEAD" /\ current' # t]_vars

\* A user fault retires the process: none of its threads leaves DEAD or runs
\* user code afterwards, whichever sibling was asleep, preempted or not yet
\* started.
FaultRetiresProcess ==
  \A p \in faulted :
    /\ \A t \in Threads : Proc(t) = p => state[t] = "DEAD"
    /\ Proc(current) = p => pc[current] \in {"fault_schedule", "panic"}

\* The frames that user faults leave on the shared ABT and UND stacks are
\* bounded by the number of processes, although nothing ever pops them.
FaultFramesBounded == frames["abt"] + frames["und"] <= NUM_PROCESSES

-----------------------------------------------------------------------------
(* Safety and liveness: input.                                             *)

\* A byte that waits in the ring beside a sleeping reader came in an interrupt
\* that carried several: scheduler_wake_reader wakes one reader per interrupt,
\* who takes at least one byte, so no more than the others are left behind,
\* whoever died in the queue meanwhile.  In particular, while every interrupt
\* brings one byte nobody sleeps beside one.
StrandedBytesAreSurplus ==
  InUser /\ (\E t \in Threads : state[t] = "BLOCKED") => rx <= surplus

\* Round robin: if input eventually pauses, every READY thread gets the CPU
\* or is killed.
ReadyRuns ==
  <>[](fifo = 0) =>
    \A t \in Threads : state[t] = "READY" ~> (current = t \/ state[t] = "DEAD")

\* The oldest sleeping reader wakes once a byte arrives.
OldestReaderServed ==
  \A t \in Threads :
    /\ fifo > 0
    /\ \E i \in Asleep : waitq[i] = t /\ \A j \in Asleep : i <= j
    ~> state[t] # "BLOCKED"

-----------------------------------------------------------------------------
(* What the comments and the design document say of the program, where the *)
(* code does otherwise.                                                    *)

\* scheduler.h:21-23, of sleeping readers: "each arriving byte wakes exactly one,
\* in the order they blocked": so no byte sits in the ring while a reader sleeps.
NoStrandedByte ==
  InUser => rx = 0 \/ \A t \in Threads : state[t] # "BLOCKED"

\* syscall.c:94-95, of sys_exit: "Scheduler skips DEAD threads, so the kernel
\* never returns to this thread's saved user frame."
DeadNeverReturnsToUser == InUser => state[current] # "DEAD"

\* scheduler.c:124-126, of a reader left on the CPU with nobody else to run:
\* "The resulting behaviour is a busy-wait for input": so input ends it.
BusyWaitEndsWithInput ==
  (state[current] = "BLOCKED" /\ fifo > 0) ~> state[current] # "BLOCKED"

=============================================================================
