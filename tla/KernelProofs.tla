---------------------------- MODULE KernelProofs ----------------------------
(***************************************************************************)
(* Proofs about Kernel, for any number of processes and threads, any ring  *)
(* and FIFO size, and any user programs.                                   *)
(*                                                                         *)
(* IInv is the inductive invariant.  Its conjuncts are invariants of their *)
(* own; none but TypeOK is inductive alone, because each speaks about the  *)
(* thread on the CPU between two steps of its handler and needs            *)
(* HandlerPaths to say where that is.                                      *)
(***************************************************************************)
EXTENDS Kernel, TLAPS, FiniteSetTheorems, SequenceTheorems

FramesCounted == frames["abt"] + frames["und"] = Cardinality(faulted)

IInv ==
  /\ TypeOK
  /\ WaitqHoldsSleepers
  /\ ParkedThreadsResumable
  /\ HandlerPaths
  /\ FaultRetiresProcess
  /\ FramesCounted

-----------------------------------------------------------------------------
(* The constants.                                                          *)

\* threads[] has at least the entry boot starts with, and each thread's
\* process is an entry of processes[].
LEMMA ThreadFacts ==
  /\ NUM_THREADS \in Nat \ {0}
  /\ 0 \in Threads
  /\ Threads \subseteq Nat
  /\ \A t \in Threads : Proc(t) \in Procs
<1>1. NUM_THREADS \in Nat \ {0}
  BY KernelAssumption, SMT DEF NUM_THREADS
<1>2. 0 \in Threads /\ Threads \subseteq Nat
  BY <1>1 DEF Threads
<1>3. ASSUME NEW t \in Threads  PROVE Proc(t) \in Procs
  <2>1. t \in Nat /\ t < NUM_PROCESSES * THREADS_PER_PROC
    BY <1>1, <1>3 DEF Threads, NUM_THREADS
  <2>2. DEFINE q == t \div THREADS_PER_PROC
  <2>3. /\ q \in Nat
        /\ q * THREADS_PER_PROC <= t
    BY <2>1, KernelAssumption, SMT
  <2>4. q < NUM_PROCESSES
    <3> HIDE DEF q
    <3>1. SUFFICES ASSUME q >= NUM_PROCESSES  PROVE FALSE
      BY <2>3, KernelAssumption
    <3>2. q * THREADS_PER_PROC >= NUM_PROCESSES * THREADS_PER_PROC
      BY <3>1, <2>3, KernelAssumption, SMT
    <3>3. q * THREADS_PER_PROC \in Nat /\ NUM_PROCESSES * THREADS_PER_PROC \in Nat
      BY <2>3, KernelAssumption, SMT
    <3> QED  BY <3>2, <3>3, <2>1, <2>3
  <2> QED  BY <2>3, <2>4, KernelAssumption DEF Proc, Procs
<1> QED  BY <1>1, <1>2, <1>3

-----------------------------------------------------------------------------
(* Type correctness.                                                       *)

\* Every schedule() call site has a place to continue that is a pc.
LEMMA AfterScheduleType ==
  ASSUME NEW p \in SchedulePoints
  PROVE  /\ AfterSchedule(p) \in {"svc_exit", "irq_exit", "read_loop", "panic"}
         /\ AfterSchedule(p) = "read_loop" <=> p = "read_schedule"
         /\ AfterSchedule(p) = "panic" <=> p = "fault_schedule"
BY DEF SchedulePoints, AfterSchedule

\* What is left of a queue after its first i entries were popped.
LEMMA QueueAfterPops ==
  ASSUME NEW S, NEW q \in Seq(S), NEW i \in 1 .. Len(q)
  PROVE  /\ SubSeq(q, i + 1, Len(q)) \in Seq(S)
         /\ DOMAIN SubSeq(q, i + 1, Len(q)) = 1 .. Len(q) - i
         /\ \A k \in 1 .. Len(q) - i : SubSeq(q, i + 1, Len(q))[k] = q[k + i]
<1> DEFINE r == SubSeq(q, i + 1, Len(q))
           n == Len(q)
<1>1. n \in Nat /\ i \in 1 .. n /\ i \in Int /\ i + 1 \in Int /\ DOMAIN q = 1 .. n
  BY LenProperties
<1>2. \A k \in i + 1 .. n : q[k] \in S
  BY <1>1
<1>3. /\ r \in Seq(S)
      /\ Len(r) = IF i + 1 <= n THEN n - (i + 1) + 1 ELSE 0
      /\ \A k \in 1 .. n - (i + 1) + 1 : r[k] = q[(i + 1) + k - 1]
  BY <1>1, <1>2, SubSeqProperties
<1>4. DOMAIN r = 1 .. Len(r)
  BY <1>3, LenProperties
<1> HIDE DEF r, n
<1>5. Len(r) = n - i
  BY <1>1, <1>3
<1>6. ASSUME NEW k \in 1 .. n - i  PROVE r[k] = q[k + i]
  <2>1. k \in 1 .. n - (i + 1) + 1 /\ (i + 1) + k - 1 = k + i
    BY <1>1
  <2> QED  BY <1>3, <2>1, Zenon
<1> QED  BY <1>3, <1>4, <1>5, <1>6 DEF r, n

\* The state thread_init_all leaves is well typed.
LEMMA TypeInit == Init => TypeOK
BY ThreadFacts, KernelAssumption
   DEF Init, TypeOK, States, PCs, ExitPoints, ExcStacks

\* Every handler, device and scheduler step keeps the types.
LEMMA TypeStep == TypeOK /\ [Next]_vars => TypeOK'
<1> SUFFICES ASSUME TypeOK, [Next]_vars  PROVE TypeOK'
  OBVIOUS
<1> USE ThreadFacts, KernelAssumption
<1>1. CASE UNCHANGED vars
  BY <1>1 DEF vars, TypeOK
<1>2. CASE SysOther
  BY <1>2 DEF SysOther, SvcReturns, TypeOK, PCs, SchedulePoints
<1>3. CASE SysYield
  BY <1>3 DEF SysYield, SvcReturns, TypeOK, PCs, SchedulePoints
<1>4. CASE SysExit
  BY <1>4 DEF SysExit, SvcReturns, TypeOK, PCs, SchedulePoints, States
<1>5. CASE SysKill
  <2>1. state' \in [Threads -> States] /\ need_reschedule' \in BOOLEAN
    <3> PICK pid \in KillPids :
          IF pid \in Procs /\ \E t \in Threads : Proc(t) = pid /\ state[t] # "DEAD"
          THEN state' = Retired(pid) /\ need_reschedule' = TRUE
          ELSE UNCHANGED <<state, need_reschedule>>
      BY <1>5 DEF SysKill
    <3>1. Retired(pid) \in [Threads -> States]
      BY DEF TypeOK, Retired, States
    <3> QED  BY <3>1 DEF TypeOK
  <2> QED  BY <1>5, <2>1 DEF SysKill, SvcReturns, TypeOK, PCs, SchedulePoints
<1>6. CASE SysRead
  BY <1>6 DEF SysRead, TypeOK, PCs
<1>7. CASE UserFault
  <2>1. state' \in [Threads -> States]
    BY <1>7 DEF UserFault, TypeOK, Retired, States
  <2>2. frames' \in [ExcStacks -> Nat]
    BY <1>7 DEF UserFault, TypeOK
  <2>3. faulted' \in SUBSET Procs
    BY <1>7 DEF UserFault, TypeOK
  <2> QED
    BY <1>7, <2>1, <2>2, <2>3 DEF UserFault, TypeOK, PCs, SchedulePoints
<1>8. CASE schedule
  <2>1. pc' \in [Threads -> PCs]
    BY <1>8, AfterScheduleType DEF schedule, TypeOK, PCs, ExitPoints
  <2>2. state' \in [Threads -> States] /\ current' \in Threads
    BY <1>8 DEF schedule, perform_switch, Candidates, TypeOK, States
  <2> QED  BY <1>8, <2>1, <2>2 DEF schedule, TypeOK
<1>9. CASE SysReadCopy
  <2>1. rx' \in 0 .. RX_CAP
    BY <1>9 DEF SysReadCopy, TypeOK
  <2> QED
    BY <1>9, <2>1 DEF SysReadCopy, SvcReturns, TypeOK, PCs, SchedulePoints
<1>10. CASE SysReadBlock
  <2>1. waitq' \in Seq(Threads)
    BY <1>10 DEF SysReadBlock, scheduler_block_on_input, waitq_push, TypeOK
  <2> QED
    BY <1>10, <2>1
    DEF SysReadBlock, scheduler_block_on_input, TypeOK, PCs, SchedulePoints, States
<1>11. CASE ExceptionReturn
  BY <1>11 DEF ExceptionReturn, TypeOK, PCs
<1>12. CASE TimerIrq
  BY <1>12 DEF TimerIrq, IrqEntry, TypeOK, PCs, SchedulePoints
<1>13. CASE UartIrq
  <2>0. surplus' \in 0 .. RX_CAP
    BY <1>13 DEF UartIrq, CountSurplus, TypeOK
  <2>1. CASE Asleep = {} /\ waitq' = <<>> /\ UNCHANGED <<state, need_reschedule, wake_hint>>
    BY <1>13, <2>0, <2>1 DEF UartIrq, IrqEntry, TypeOK, PCs, SchedulePoints
  <2>2. ASSUME NEW i \in Asleep,
               waitq' = SubSeq(waitq, i + 1, Len(waitq)),
               state' = [state EXCEPT ![waitq[i]] = "READY"],
               wake_hint' = waitq[i],
               need_reschedule' = TRUE
        PROVE  TypeOK'
    <3>1. i \in 1 .. Len(waitq) /\ Len(waitq) \in Nat /\ waitq[i] \in Threads
      BY <2>2 DEF Asleep, TypeOK
    <3>2. waitq' \in Seq(Threads)
      <4>1. waitq \in Seq(Threads)
        BY DEF TypeOK
      <4> QED  BY <2>2, <3>1, <4>1, QueueAfterPops, Zenon
    <3>3. state' \in [Threads -> States]
      BY <2>2, <3>1 DEF TypeOK, States
    <3>4. rx' \in 0 .. RX_CAP /\ fifo' \in 0 .. FIFO_DEPTH
      BY <1>13 DEF UartIrq, TypeOK
    <3> QED
      BY <1>13, <2>0, <2>2, <3>1, <3>2, <3>3, <3>4
      DEF UartIrq, IrqEntry, TypeOK, PCs, SchedulePoints
  <2> QED  BY <1>13, <2>1, <2>2 DEF UartIrq, scheduler_wake_reader
<1>14. CASE SpuriousIrq
  BY <1>14 DEF SpuriousIrq, IrqEntry, TypeOK, PCs, SchedulePoints
<1>15. CASE halt_forever
  BY <1>15 DEF halt_forever, vars, TypeOK
<1>16. CASE UartReceive
  BY <1>16 DEF UartReceive, TypeOK
<1>17. CASE TimerExpire
  BY <1>17 DEF TimerExpire, TypeOK
<1> QED
  BY <1>1, <1>2, <1>3, <1>4, <1>5, <1>6, <1>7, <1>8, <1>9, <1>10, <1>11, <1>12,
     <1>13, <1>14, <1>15, <1>16, <1>17
  DEF Next, UserStep, KernelStep

\* Every variable keeps the type of its C object: in particular `current`
\* always points into threads[] and the ring never holds more than RX_CAP
\* bytes.
THEOREM TypeCorrect == Spec => []TypeOK
BY TypeInit, TypeStep, PTL DEF Spec

-----------------------------------------------------------------------------
(* The wait queue.                                                         *)

\* A duplicate-free queue that misses one thread is not full: waitq_push
\* refuses for lack of room only somebody who is queued already.
LEMMA QueueHasRoom ==
  ASSUME NEW q \in Seq(Threads), NEW t \in Threads,
         \A i, j \in DOMAIN q : q[i] = q[j] => i = j,
         \A i \in DOMAIN q : q[i] # t
  PROVE  Len(q) < NUM_THREADS
<1> DEFINE others == Threads \ {t}
<1>1. IsFiniteSet(others) /\ Cardinality(others) = NUM_THREADS - 1
  <2>1. IsFiniteSet(Threads) /\ Cardinality(Threads) = NUM_THREADS
    BY ThreadFacts, FS_Interval DEF Threads
  <2> QED  BY <2>1, FS_RemoveElement
<1>2. Len(q) \in Nat /\ DOMAIN q = 1 .. Len(q) /\ q \in [1 .. Len(q) -> others]
  BY LenProperties
<1>3. IsFiniteSet(1 .. Len(q)) /\ Cardinality(1 .. Len(q)) = Len(q)
  <2> HIDE DEF others
  <2>1. 1 \in Int /\ Len(q) \in Int /\ (1 > Len(q) => Len(q) = 0)
    BY <1>2
  <2>2. IsFiniteSet(1 .. Len(q))
    BY <2>1, FS_Interval
  <2>3. Cardinality(1 .. Len(q)) = IF 1 > Len(q) THEN 0 ELSE Len(q) - 1 + 1
    BY <2>1, FS_Interval
  <2> QED  BY <2>1, <2>2, <2>3
<1>4. ~ (NUM_THREADS - 1 < Len(q))
  <2> SUFFICES ASSUME NUM_THREADS - 1 < Len(q)  PROVE FALSE
    OBVIOUS
  <2> HIDE DEF others
  <2>1. \E x, y \in 1 .. Len(q) : x # y /\ q[x] = q[y]
    BY <1>1, <1>2, <1>3, FS_PigeonHole
  <2> QED  BY <2>1, <1>2
<1> QED  BY <1>2, <1>4, ThreadFacts

\* sys_kill: each thread keeps its state or dies, and whoever died asked for a
\* reschedule.
LEMMA KillStep ==
  ASSUME SysKill
  PROVE  /\ \A t \in Threads : state'[t] \in {state[t], "DEAD"}
         /\ need_reschedule' = need_reschedule \/ need_reschedule' = TRUE
         /\ state' = state \/ need_reschedule' = TRUE
<1> PICK pid \in KillPids :
      IF pid \in Procs /\ \E t \in Threads : Proc(t) = pid /\ state[t] # "DEAD"
      THEN state' = Retired(pid) /\ need_reschedule' = TRUE
      ELSE UNCHANGED <<state, need_reschedule>>
  BY DEF SysKill
<1>1. CASE UNCHANGED <<state, need_reschedule>>
  BY <1>1
<1>2. CASE state' = Retired(pid) /\ need_reschedule' = TRUE
  BY <1>2 DEF Retired
<1> QED  BY <1>1, <1>2

\* scheduler_wake_reader: nothing changes, or one BLOCKED thread becomes READY,
\* is hinted and a reschedule is requested.
LEMMA WakeStep ==
  ASSUME TypeOK, UartIrq
  PROVE  \/ UNCHANGED <<state, need_reschedule, wake_hint>>
         \/ \E t \in Threads :
              /\ state[t] = "BLOCKED"
              /\ state' = [state EXCEPT ![t] = "READY"]
              /\ wake_hint' = t
              /\ need_reschedule' = TRUE
<1>1. ASSUME NEW i \in Asleep
      PROVE  waitq[i] \in Threads /\ state[waitq[i]] = "BLOCKED"
  BY <1>1 DEF TypeOK, Asleep
<1> QED  BY <1>1 DEF UartIrq, scheduler_wake_reader

\* Every step keeps the wait queue exact: blocking enqueues once, waking
\* drops the corpses before the reader, a kill leaves only corpses behind.
LEMMA WaitqStep == IInv /\ [Next]_vars => WaitqHoldsSleepers'
<1> SUFFICES ASSUME IInv, [Next]_vars  PROVE WaitqHoldsSleepers'
  OBVIOUS
<1> USE ThreadFacts DEF WaitqHoldsSleepers
<1>0. /\ waitq \in Seq(Threads) /\ state \in [Threads -> States] /\ current \in Threads
      /\ Len(waitq) \in Nat /\ DOMAIN waitq = 1 .. Len(waitq)
      /\ \A i \in DOMAIN waitq : waitq[i] \in Threads
  BY LenProperties DEF IInv, TypeOK
<1>1. CASE UNCHANGED <<state, waitq>>
  BY <1>1 DEF IInv
<1>2. CASE SysExit
  BY <1>0, <1>2 DEF SysExit, IInv
<1>3. CASE SysKill \/ UserFault
  <2>1. waitq' = waitq
    BY <1>3 DEF SysKill, UserFault
  <2>2. \A t \in Threads : state'[t] \in {state[t], "DEAD"}
    BY <1>3, KillStep DEF UserFault, Retired
  <2> QED  BY <1>0, <2>1, <2>2 DEF IInv
<1>4. CASE schedule
  BY <1>0, <1>4 DEF schedule, perform_switch, Candidates, Runnable, IInv
<1>5. CASE SysReadBlock
  <2>1. /\ state' = [state EXCEPT ![current] = "BLOCKED"]
        /\ waitq_push(current)
    BY <1>5 DEF SysReadBlock, scheduler_block_on_input
  <2>2. CASE \E i \in DOMAIN waitq : waitq[i] = current
    BY <1>0, <2>1, <2>2 DEF waitq_push, IInv
  <2>3. CASE ~ \E i \in DOMAIN waitq : waitq[i] = current
    <3>1. Len(waitq) < NUM_THREADS
      BY <1>0, <2>3, QueueHasRoom DEF IInv
    <3>2. waitq' = Append(waitq, current)
      <4>1. ~ (Len(waitq) >= NUM_THREADS)
        BY <1>0, <3>1
      <4> QED  BY <2>1, <2>3, <4>1, Zenon DEF waitq_push
    <3>3. /\ DOMAIN waitq' = 1 .. Len(waitq) + 1
          /\ \A i \in 1 .. Len(waitq) : waitq'[i] = waitq[i]
          /\ waitq'[Len(waitq) + 1] = current
      BY <1>0, <3>2, AppendProperties
    <3> QED  BY <1>0, <2>1, <2>3, <3>3 DEF IInv
  <2> QED  BY <2>2, <2>3
<1>6. CASE UartIrq
  <2>1. CASE Asleep = {} /\ waitq' = <<>> /\ UNCHANGED state
    <3>1. \A t \in Threads : state[t] # "BLOCKED"
      BY <2>1 DEF Asleep, IInv
    <3> QED  BY <2>1, <3>1
  <2>2. ASSUME NEW i \in Asleep,
               \A j \in Asleep : i <= j,
               waitq' = SubSeq(waitq, i + 1, Len(waitq)),
               state' = [state EXCEPT ![waitq[i]] = "READY"]
        PROVE  WaitqHoldsSleepers'
    <3>1. i \in 1 .. Len(waitq) /\ waitq[i] \in Threads
      BY <1>0, <2>2 DEF Asleep
    <3>2. /\ DOMAIN waitq' = 1 .. Len(waitq) - i
          /\ \A k \in 1 .. Len(waitq) - i : waitq'[k] = waitq[k + i]
      BY <1>0, <2>2, <3>1, QueueAfterPops
    <3>3. ASSUME NEW k \in DOMAIN waitq', NEW l \in DOMAIN waitq',
                 waitq'[k] = waitq'[l]
          PROVE  k = l
      <4>1. /\ k + i \in DOMAIN waitq /\ l + i \in DOMAIN waitq
            /\ k \in Int /\ l \in Int /\ i \in Int
        BY <1>0, <3>1, <3>2
      <4>2. waitq[k + i] = waitq[l + i]
        BY <3>2, <3>3
      <4>3. k + i = l + i
        BY <4>1, <4>2 DEF IInv
      <4> QED  BY <4>1, <4>3
    <3>4. ASSUME NEW t \in Threads, state'[t] = "BLOCKED"
          PROVE  \E k \in DOMAIN waitq' : waitq'[k] = t
      <4>1. state[t] = "BLOCKED" /\ t # waitq[i]
        BY <1>0, <2>2, <3>1, <3>4
      <4>2. PICK j \in DOMAIN waitq : waitq[j] = t
        BY <4>1 DEF IInv
      <4>3. j \in Asleep /\ j # i
        BY <4>1, <4>2 DEF Asleep
      <4>4. j - i \in 1 .. Len(waitq) - i /\ (j - i) + i = j
        BY <1>0, <2>2, <3>1, <4>3, <4>2
      <4> QED  BY <3>2, <4>2, <4>4
    <3>5. ASSUME NEW k \in DOMAIN waitq'
          PROVE  state'[waitq'[k]] \in {"BLOCKED", "DEAD"}
      <4>1. /\ k + i \in DOMAIN waitq
            /\ k + i # i
            /\ waitq'[k] = waitq[k + i]
        BY <1>0, <3>1, <3>2, <3>5
      <4>2. waitq[k + i] # waitq[i]
        BY <1>0, <3>1, <4>1 DEF IInv
      <4> QED  BY <1>0, <2>2, <3>1, <4>1, <4>2 DEF IInv
    <3> QED  BY <3>3, <3>4, <3>5
  <2> QED  BY <1>6, <2>1, <2>2 DEF UartIrq, scheduler_wake_reader
<1> QED
  BY <1>1, <1>2, <1>3, <1>4, <1>5, <1>6
  DEF Next, UserStep, KernelStep, SysOther, SysYield, SysRead, SysReadCopy,
      ExceptionReturn, TimerIrq, SpuriousIrq, halt_forever, UartReceive,
      TimerExpire, vars

-----------------------------------------------------------------------------
(* Faults.                                                                 *)

\* Every step keeps a faulted process retired: nobody wakes a DEAD thread.
LEMMA FaultStep == IInv /\ [Next]_vars => FaultRetiresProcess'
<1> SUFFICES ASSUME IInv, [Next]_vars  PROVE FaultRetiresProcess'
  OBVIOUS
<1> USE ThreadFacts DEF FaultRetiresProcess
<1>0. /\ state \in [Threads -> States] /\ pc \in [Threads -> PCs]
      /\ current \in Threads /\ faulted \in SUBSET Procs
  BY DEF IInv, TypeOK
<1>1. CASE UNCHANGED <<state, current, pc, faulted>>
  BY <1>1 DEF IInv
<1>2. CASE SysOther \/ SysYield \/ SysRead \/ TimerIrq \/ SpuriousIrq
           \/ ExceptionReturn \/ SysReadCopy
  <2>1. /\ UNCHANGED <<state, current, faulted>>
        /\ pc[current] \notin {"fault_schedule", "panic"}
    BY <1>2 DEF SysOther, SysYield, SysRead, TimerIrq, SpuriousIrq, IrqEntry,
       ExceptionReturn, ExitPoints, SysReadCopy, Svc, InUser
  <2> QED  BY <2>1 DEF IInv
<1>3. CASE SysExit
  <2>1. pc[current] \notin {"fault_schedule", "panic"}
    BY <1>3 DEF SysExit, Svc, InUser
  <2> QED  BY <1>0, <1>3, <2>1 DEF SysExit, IInv
<1>4. CASE SysKill
  <2>1. /\ UNCHANGED <<current, faulted>>
        /\ pc[current] \notin {"fault_schedule", "panic"}
    BY <1>4 DEF SysKill, Svc, InUser
  <2>2. \A t \in Threads : state'[t] \in {state[t], "DEAD"}
    BY <1>4, KillStep
  <2> QED  BY <1>0, <2>1, <2>2 DEF IInv
<1>5. CASE UserFault
  <2>1. /\ current' = current /\ faulted' = faulted \cup {Proc(current)}
        /\ pc'[current] = "fault_schedule"
        /\ \A t \in Threads : state'[t] = IF Proc(t) = Proc(current) THEN "DEAD" ELSE state[t]
    BY <1>0, <1>5 DEF UserFault, Retired
  <2> QED  BY <1>0, <2>1 DEF IInv
<1>6. CASE schedule
  <2>1. faulted' = faulted /\ pc[current] \in SchedulePoints
        /\ pc'[current] = AfterSchedule(pc[current])
    BY <1>0, <1>6 DEF schedule
  <2>2. CASE state' = state /\ current' = current
    <3>1. pc[current] \in {"fault_schedule", "panic"} => pc'[current] = "panic"
      BY <2>1, AfterScheduleType DEF SchedulePoints
    <3> QED  BY <1>0, <2>1, <2>2, <3>1 DEF IInv
  <2>3. ASSUME NEW cand \in Candidates, perform_switch(cand)
        PROVE  FaultRetiresProcess'
    <3>1. /\ cand \in Threads /\ cand # current /\ state[cand] # "DEAD"
          /\ current' = cand
          /\ \A t \in Threads \ {cand} : state[t] = "DEAD" => state'[t] = "DEAD"
      BY <1>0, <2>3 DEF Candidates, Runnable, perform_switch
    <3>2. Proc(cand) \notin faulted
      BY <3>1 DEF IInv
    <3> QED  BY <1>0, <2>1, <3>1, <3>2 DEF IInv
  <2> QED  BY <1>6, <2>2, <2>3 DEF schedule
<1>7. CASE SysReadBlock
  <2>1. pc[current] = "read_loop" /\ current' = current /\ faulted' = faulted
        /\ state' = [state EXCEPT ![current] = "BLOCKED"]
    BY <1>7 DEF SysReadBlock, scheduler_block_on_input
  <2>2. Proc(current) \notin faulted
    BY <1>0, <2>1 DEF IInv
  <2> QED  BY <1>0, <2>1, <2>2 DEF IInv
<1>8. CASE UartIrq
  <2>1. /\ InUser /\ current' = current /\ faulted' = faulted
        /\ \A t \in Threads : state[t] = "DEAD" => state'[t] = "DEAD"
    <3>1. ASSUME NEW i \in Asleep, state' = [state EXCEPT ![waitq[i]] = "READY"]
          PROVE  \A t \in Threads : state[t] = "DEAD" => state'[t] = "DEAD"
      BY <1>0, <3>1 DEF Asleep
    <3> QED  BY <1>8, <3>1 DEF UartIrq, IrqEntry, scheduler_wake_reader
  <2>2. Proc(current) \notin faulted
    BY <1>0, <2>1 DEF IInv, InUser
  <2> QED  BY <1>0, <2>1, <2>2 DEF IInv
<1> QED
  BY <1>1, <1>2, <1>3, <1>4, <1>5, <1>6, <1>7, <1>8
  DEF Next, UserStep, KernelStep, halt_forever, UartReceive, TimerExpire, vars

\* Each fault adds one frame and one process: the faulting thread was running
\* user code, so its process had not faulted before.
LEMMA FramesStep == IInv /\ [Next]_vars => FramesCounted'
<1> SUFFICES ASSUME IInv, [Next]_vars  PROVE FramesCounted'
  OBVIOUS
<1> USE ThreadFacts DEF FramesCounted
<1>1. CASE UNCHANGED <<frames, faulted>>
  BY <1>1 DEF IInv
<1>2. CASE UserFault
  <2>1. IsFiniteSet(faulted)
    <3>1. IsFiniteSet(Procs)
      BY KernelAssumption, FS_Interval DEF Procs
    <3> QED  BY <3>1, FS_Subset DEF IInv, TypeOK
  <2>2. Proc(current) \notin faulted
    BY <1>2 DEF UserFault, InUser, IInv, FaultRetiresProcess
  <2>3. Cardinality(faulted') = Cardinality(faulted) + 1
    BY <1>2, <2>1, <2>2, FS_AddElement DEF UserFault
  <2>4. frames \in [ExcStacks -> Nat]
    BY DEF IInv, TypeOK
  <2>5. frames'["abt"] + frames'["und"] = frames["abt"] + frames["und"] + 1
    BY <1>2, <2>4 DEF UserFault, ExcStacks
  <2> QED  BY <2>3, <2>5 DEF IInv
<1> QED
  BY <1>1, <1>2
  DEF Next, UserStep, KernelStep, SysOther, SysYield, SysExit, SysKill, SysRead,
      schedule, SysReadCopy, SysReadBlock, ExceptionReturn, TimerIrq, UartIrq,
      SpuriousIrq, halt_forever, UartReceive, TimerExpire, vars

-----------------------------------------------------------------------------
(* Parked threads.                                                         *)

\* Every step leaves the threads off the CPU where context_switch can resume
\* them.
LEMMA ParkedStep == IInv /\ [Next]_vars => ParkedThreadsResumable'
<1> SUFFICES ASSUME IInv, [Next]_vars  PROVE ParkedThreadsResumable'
  OBVIOUS
<1> USE ThreadFacts DEF ParkedThreadsResumable
<1>0. /\ state \in [Threads -> States] /\ pc \in [Threads -> PCs]
      /\ want \in [Threads -> 0 .. MAX_READ] /\ current \in Threads
  BY DEF IInv, TypeOK
<1>1. CASE UNCHANGED <<state, current, pc, want>>
  BY <1>1 DEF IInv
<1>2. CASE SysOther \/ SysYield \/ TimerIrq \/ SpuriousIrq \/ ExceptionReturn
           \/ SysRead \/ SysReadCopy
  <2>1. /\ UNCHANGED <<state, current>>
        /\ \A t \in Threads \ {current} : pc'[t] = pc[t] /\ want'[t] = want[t]
    BY <1>0, <1>2 DEF SysOther, SysYield, TimerIrq, SpuriousIrq, IrqEntry,
       ExceptionReturn, SysRead, SysReadCopy, SvcReturns
  <2> QED  BY <1>0, <2>1 DEF IInv
<1>3. CASE SysExit \/ SysReadBlock
  <2>1. /\ UNCHANGED <<current, want>>
        /\ \A t \in Threads \ {current} : state'[t] = state[t] /\ pc'[t] = pc[t]
    BY <1>0, <1>3 DEF SysExit, SvcReturns, SysReadBlock, scheduler_block_on_input
  <2> QED  BY <1>0, <2>1 DEF IInv
<1>4. CASE SysKill \/ UserFault
  <2>1. /\ UNCHANGED <<current, want>>
        /\ \A t \in Threads \ {current} : pc'[t] = pc[t]
    BY <1>0, <1>4 DEF SysKill, UserFault, SvcReturns
  <2>2. \A t \in Threads : state'[t] \in {state[t], "DEAD"}
    BY <1>4, KillStep DEF UserFault, Retired
  <2> QED  BY <1>0, <2>1, <2>2 DEF IInv
<1>5. CASE schedule
  <2>1. /\ pc[current] \in SchedulePoints
        /\ pc'[current] = AfterSchedule(pc[current])
        /\ \A t \in Threads \ {current} : pc'[t] = pc[t]
        /\ want' = want
    BY <1>0, <1>5 DEF schedule
  <2>2. CASE state' = state /\ current' = current
    BY <1>0, <2>1, <2>2 DEF IInv
  <2>3. ASSUME NEW cand \in Candidates, perform_switch(cand)
        PROVE  ParkedThreadsResumable'
    <3>1. /\ cand \in Threads /\ cand # current /\ current' = cand
          /\ state'[current] = IF state[current] = "RUNNING" THEN "READY" ELSE state[current]
          /\ \A t \in Threads \ {cand, current} : state'[t] = state[t]
      BY <1>0, <2>3 DEF Candidates, perform_switch
    <3>2. /\ state'[current] # "RUNNING"
          /\ pc'[current] \in ExitPoints \cup {"read_loop", "panic"}
      BY <2>1, <3>1, AfterScheduleType DEF ExitPoints
    <3>3. state'[current] = "BLOCKED" => pc'[current] = "read_loop"
      BY <2>1, <3>1, AfterScheduleType DEF IInv, HandlerPaths, SchedulePoints
    <3>4. pc'[current] = "read_loop" => want'[current] > 0
      BY <2>1, AfterScheduleType DEF IInv, HandlerPaths
    <3>5. pc'[current] = "panic" => state'[current] = "DEAD"
      BY <2>1, <3>1, AfterScheduleType DEF IInv, HandlerPaths
    <3> QED  BY <1>0, <2>1, <3>1, <3>2, <3>3, <3>4, <3>5 DEF IInv
  <2> QED  BY <1>5, <2>2, <2>3 DEF schedule
<1>6. CASE UartIrq
  <2>1. /\ UNCHANGED <<current, want>>
        /\ \A t \in Threads \ {current} : pc'[t] = pc[t]
    BY <1>0, <1>6 DEF UartIrq, IrqEntry
  <2>2. \A t \in Threads : state'[t] = state[t] \/ (state[t] = "BLOCKED" /\ state'[t] = "READY")
    <3>1. TypeOK
      BY DEF IInv
    <3> QED  BY <1>0, <1>6, <3>1, WakeStep
  <2> QED  BY <1>0, <2>1, <2>2 DEF IInv
<1> QED
  BY <1>1, <1>2, <1>3, <1>4, <1>5, <1>6
  DEF Next, UserStep, KernelStep, halt_forever, UartReceive, TimerExpire, vars

-----------------------------------------------------------------------------
(* Inside a handler.                                                       *)

\* Every step follows the paths of the handlers from entry to return.
LEMMA PathsStep == IInv /\ [Next]_vars => HandlerPaths'
<1> SUFFICES ASSUME IInv, [Next]_vars  PROVE HandlerPaths'
  OBVIOUS
<1> USE ThreadFacts, KernelAssumption
<1>0. /\ state \in [Threads -> States] /\ pc \in [Threads -> PCs]
      /\ want \in [Threads -> 0 .. MAX_READ] /\ current \in Threads
      /\ need_reschedule \in BOOLEAN /\ wake_hint \in Threads \cup {NULL}
      /\ TypeOK /\ HandlerPaths /\ ParkedThreadsResumable
  BY DEF IInv, TypeOK
<1>1. CASE UNCHANGED <<state, current, pc, want, rx, need_reschedule, wake_hint>>
  BY <1>0, <1>1 DEF HandlerPaths, Candidates, Runnable
\* Facts about a thread in user mode, common to every entry into the kernel.
<1>2. ASSUME InUser
      PROVE  /\ ~need_reschedule /\ wake_hint = NULL
             /\ state[current] # "BLOCKED"
             /\ \A t \in Threads \ {current} :
                  pc[t] = "read_loop" => state[t] \in {"BLOCKED", "DEAD"}
             /\ state[current] = "DEAD" => Candidates = {}
  BY <1>0, <1>2 DEF HandlerPaths, InUser, SchedulePoints
<1>3. CASE SysOther \/ SpuriousIrq
  <2>1. /\ InUser /\ UNCHANGED <<state, current, want, rx, need_reschedule, wake_hint>>
        /\ pc'[current] \in {"svc_schedule", "irq_schedule"}
        /\ \A t \in Threads \ {current} : pc'[t] = pc[t]
    BY <1>0, <1>3 DEF SysOther, SpuriousIrq, Svc, SvcReturns, IrqEntry
  <2> QED  BY <1>0, <1>2, <2>1 DEF HandlerPaths, Candidates, Runnable
<1>4. CASE SysYield \/ TimerIrq
  <2>1. /\ InUser /\ UNCHANGED <<state, current, want, rx, wake_hint>>
        /\ need_reschedule' = TRUE
        /\ pc'[current] \in {"svc_schedule", "irq_schedule"}
        /\ \A t \in Threads \ {current} : pc'[t] = pc[t]
    BY <1>0, <1>4 DEF SysYield, TimerIrq, Svc, SvcReturns, IrqEntry
  <2> QED  BY <1>0, <1>2, <2>1 DEF HandlerPaths, SchedulePoints
<1>5. CASE SysExit
  <2>1. /\ InUser /\ UNCHANGED <<current, want, rx, wake_hint>>
        /\ need_reschedule' = TRUE
        /\ state'[current] = "DEAD" /\ pc'[current] = "svc_schedule"
        /\ \A t \in Threads \ {current} : pc'[t] = pc[t] /\ state'[t] = state[t]
    BY <1>0, <1>5 DEF SysExit, Svc, SvcReturns
  <2> QED  BY <1>0, <1>2, <2>1 DEF HandlerPaths, SchedulePoints
<1>6. CASE SysKill
  <2>1. /\ InUser /\ UNCHANGED <<current, want, rx, wake_hint>>
        /\ pc'[current] = "svc_schedule"
        /\ \A t \in Threads \ {current} : pc'[t] = pc[t]
    BY <1>0, <1>6 DEF SysKill, Svc, SvcReturns
  <2>2. CASE state' = state /\ need_reschedule' = need_reschedule
    BY <1>0, <1>2, <2>1, <2>2 DEF HandlerPaths, Candidates, Runnable
  <2>3. CASE need_reschedule' = TRUE
    <3>1. \A t \in Threads : state'[t] \in {state[t], "DEAD"}
      BY <1>6, KillStep
    <3> QED  BY <1>0, <1>2, <2>1, <2>3, <3>1 DEF HandlerPaths, SchedulePoints
  <2> QED  BY <1>6, <2>2, <2>3, KillStep
<1>7. CASE SysRead
  <2>1. /\ InUser /\ UNCHANGED <<state, current, rx, need_reschedule, wake_hint>>
        /\ pc'[current] = "read_loop" /\ want'[current] > 0
        /\ \A t \in Threads \ {current} : pc'[t] = pc[t]
    BY <1>0, <1>7 DEF SysRead, Svc
  <2> QED  BY <1>0, <1>2, <2>1 DEF HandlerPaths, Candidates, Runnable
<1>8. CASE UserFault
  <2>1. /\ InUser /\ UNCHANGED <<current, want, rx, wake_hint>>
        /\ need_reschedule' = TRUE
        /\ pc'[current] = "fault_schedule" /\ state'[current] = "DEAD"
        /\ \A t \in Threads \ {current} : pc'[t] = pc[t]
        /\ \A t \in Threads : state'[t] \in {state[t], "DEAD"}
    BY <1>0, <1>8 DEF UserFault, Retired
  <2> QED  BY <1>0, <1>2, <2>1 DEF HandlerPaths, SchedulePoints
<1>9. CASE SysReadCopy
  <2>1. /\ UNCHANGED <<state, current, need_reschedule, wake_hint>>
        /\ pc[current] = "read_loop" /\ rx > 0 /\ rx # 0
        /\ pc'[current] = "svc_schedule"
        /\ \A t \in Threads \ {current} : pc'[t] = pc[t]
    BY <1>0, <1>9 DEF SysReadCopy, SvcReturns, TypeOK
  <2>2. /\ state[current] # "BLOCKED" /\ ~need_reschedule /\ wake_hint = NULL
    BY <1>0, <2>1 DEF HandlerPaths, SchedulePoints
  <2> QED  BY <1>0, <2>1, <2>2 DEF HandlerPaths, Candidates, Runnable
<1>10. CASE SysReadBlock
  <2>1. /\ UNCHANGED <<current, rx, want, wake_hint>>
        /\ pc[current] = "read_loop" /\ rx = 0
        /\ state'[current] = "BLOCKED" /\ need_reschedule' = TRUE
        /\ pc'[current] = "read_schedule"
        /\ \A t \in Threads \ {current} : pc'[t] = pc[t] /\ state'[t] = state[t]
    BY <1>0, <1>10 DEF SysReadBlock, scheduler_block_on_input
  <2>2. wake_hint = NULL /\ want[current] > 0
    BY <1>0, <2>1 DEF HandlerPaths
  <2> QED  BY <1>0, <2>1, <2>2 DEF HandlerPaths, SchedulePoints
<1>11. CASE ExceptionReturn
  <2>1. /\ UNCHANGED <<state, current, want, rx, need_reschedule, wake_hint>>
        /\ pc[current] \in ExitPoints /\ pc'[current] = "user"
        /\ \A t \in Threads \ {current} : pc'[t] = pc[t]
    BY <1>0, <1>11 DEF ExceptionReturn
  <2>2. ~need_reschedule /\ wake_hint = NULL /\ state[current] # "BLOCKED"
    BY <1>0, <2>1 DEF HandlerPaths, SchedulePoints, ExitPoints
  <2> QED  BY <1>0, <2>1, <2>2 DEF HandlerPaths, Candidates, Runnable
<1>12. CASE UartIrq
  <2>1. /\ InUser /\ UNCHANGED <<current, want>>
        /\ pc'[current] = "irq_schedule"
        /\ \A t \in Threads \ {current} : pc'[t] = pc[t]
    BY <1>0, <1>12 DEF UartIrq, IrqEntry
  <2>2. CASE UNCHANGED <<state, need_reschedule, wake_hint>>
    BY <1>0, <1>2, <2>1, <2>2 DEF HandlerPaths, Candidates, Runnable
  <2>3. ASSUME NEW t \in Threads, state[t] = "BLOCKED",
               state' = [state EXCEPT ![t] = "READY"],
               wake_hint' = t, need_reschedule' = TRUE
        PROVE  HandlerPaths'
    <3>1. t # current
      BY <1>2, <2>1, <2>3
    <3>2. t \in Candidates'
      BY <1>0, <2>1, <2>3, <3>1 DEF Candidates, Runnable
    <3>3. state'[current] = state[current]
          /\ \A u \in Threads \ {t} : state'[u] = state[u]
      BY <1>0, <2>3, <3>1
    <3>4. \A u \in Threads \ {current} :
            pc[u] = "read_loop" => state'[u] \in {"BLOCKED", "DEAD"} \/ u = wake_hint'
      BY <1>2, <2>1, <2>3, <3>3
    <3>5. /\ state'[current] = "READY" =>
               current = 0 /\ \A u \in Threads \ {0} : pc[u] = "first_entry"
          /\ state'[current] # "BLOCKED"
      BY <1>0, <1>2, <2>1, <3>3 DEF HandlerPaths
    <3>6. pc'[current] \in SchedulePoints
      BY <2>1 DEF SchedulePoints
    <3> QED
      BY <1>0, <2>1, <2>3, <3>2, <3>4, <3>5, <3>6 DEF HandlerPaths
  <2> QED  BY <1>0, <1>12, <2>2, <2>3, WakeStep
<1>13. CASE schedule
  <2>1. /\ pc[current] \in SchedulePoints
        /\ pc'[current] = AfterSchedule(pc[current])
        /\ \A t \in Threads \ {current} : pc'[t] = pc[t]
        /\ UNCHANGED <<want, rx>>
    BY <1>0, <1>13 DEF schedule
  <2>2. /\ pc'[current] \notin SchedulePoints
        /\ pc'[current] = "read_loop" <=> pc[current] = "read_schedule"
        /\ pc'[current] = "panic" <=> pc[current] = "fault_schedule"
    BY <2>1, AfterScheduleType DEF SchedulePoints
  <2>3. CASE need_reschedule
    <3>1. ~need_reschedule' /\ wake_hint' = NULL
      BY <1>13, <2>3 DEF schedule
    <3>2. CASE Candidates = {} /\ UNCHANGED <<state, current>>
      <4>1. wake_hint = NULL
        BY <1>0, <3>2 DEF HandlerPaths
      <4>2. Candidates' = {}
        BY <3>2 DEF Candidates, Runnable
      <4>3. pc[current] # "read_schedule" => state[current] # "BLOCKED"
        BY <1>0, <2>1 DEF HandlerPaths, SchedulePoints
      <4>4. state[current] = "READY" => \A t \in Threads \ {0} : pc'[t] = "first_entry"
        BY <1>0, <2>1 DEF HandlerPaths
      <4> QED
        BY <1>0, <2>1, <2>2, <3>1, <3>2, <4>1, <4>2, <4>3, <4>4
        DEF HandlerPaths, SchedulePoints
    <3>3. ASSUME NEW cand \in Candidates, Chosen(cand), perform_switch(cand)
          PROVE  HandlerPaths'
      <4>1. /\ cand \in Threads /\ cand # current /\ current' = cand
            /\ state[cand] \in {"READY", "RUNNING"}
            /\ state'[cand] = "RUNNING"
            /\ state'[current] = IF state[current] = "RUNNING" THEN "READY" ELSE state[current]
            /\ \A t \in Threads \ {cand, current} : state'[t] = state[t]
        BY <1>0, <3>3 DEF Candidates, Runnable, perform_switch
      <4>2. wake_hint # NULL => cand = wake_hint
        BY <1>0, <3>3 DEF HandlerPaths, Chosen
      <4>3. /\ pc'[cand] \in ExitPoints \cup {"read_loop", "panic"}
            /\ pc'[cand] # "panic"
            /\ pc'[cand] = "read_loop" => want'[cand] > 0
        BY <1>0, <2>1, <4>1 DEF ParkedThreadsResumable
      <4>4. pc'[current] = "read_loop" => state'[current] = "BLOCKED"
        BY <1>0, <2>1, <2>2, <4>1 DEF HandlerPaths
      <4>5. \A t \in Threads \ {cand} :
              pc'[t] = "read_loop" => state'[t] \in {"BLOCKED", "DEAD"}
        BY <1>0, <2>1, <4>1, <4>2, <4>4 DEF HandlerPaths
      <4>6. pc'[cand] \notin {"read_schedule", "fault_schedule", "panic"}
        BY <4>3 DEF ExitPoints
      <4> QED
        BY <3>1, <4>1, <4>3, <4>5, <4>6 DEF HandlerPaths
    <3> QED  BY <1>13, <2>3, <3>2, <3>3 DEF schedule
  <2>4. CASE ~need_reschedule
    <3>1. UNCHANGED <<state, current, need_reschedule, wake_hint>>
      BY <1>13, <2>4 DEF schedule
    <3>2. pc[current] # "read_schedule" /\ wake_hint = NULL /\ state[current] # "BLOCKED"
      BY <1>0, <2>1, <2>4 DEF HandlerPaths, SchedulePoints
    <3>3. Candidates' = Candidates
      BY <3>1 DEF Candidates, Runnable
    <3> QED
      BY <1>0, <2>1, <2>2, <2>4, <3>1, <3>2, <3>3 DEF HandlerPaths, SchedulePoints
  <2> QED  BY <2>3, <2>4
<1> QED
  BY <1>1, <1>3, <1>4, <1>5, <1>6, <1>7, <1>8, <1>9, <1>10, <1>11, <1>12, <1>13
  DEF Next, UserStep, KernelStep, halt_forever, UartReceive, TimerExpire, vars

-----------------------------------------------------------------------------
(* The invariant and its consequences.                                     *)

\* The inductive invariant holds when boot hands over.
LEMMA InitIInv == Init => IInv
<1> SUFFICES ASSUME Init  PROVE IInv
  OBVIOUS
<1>1. TypeOK
  BY TypeInit
<1>2. WaitqHoldsSleepers /\ ParkedThreadsResumable
  BY ThreadFacts DEF Init, WaitqHoldsSleepers, ParkedThreadsResumable, ExitPoints
<1>3. HandlerPaths
  BY ThreadFacts DEF Init, HandlerPaths
<1>4. FaultRetiresProcess /\ FramesCounted
  BY FS_EmptySet DEF Init, FaultRetiresProcess, FramesCounted, ExcStacks
<1> QED  BY <1>1, <1>2, <1>3, <1>4 DEF IInv

\* The inductive invariant holds in every state of the kernel.
THEOREM Invariance == Spec => []IInv
<1>1. IInv /\ [Next]_vars => IInv'
  <2>1. IInv => TypeOK
    BY DEF IInv
  <2> QED
    BY <2>1, TypeStep, WaitqStep, ParkedStep, PathsStep, FaultStep, FramesStep
    DEF IInv
<1> QED  BY InitIInv, <1>1, PTL DEF Spec

\* uart_waitq holds each sleeping reader exactly once and nobody who could
\* run, so its capacity NUM_THREADS is enough (scheduler.c:54-56).
THEOREM WaitqCorrect == Spec => []WaitqHoldsSleepers
<1>1. IInv => WaitqHoldsSleepers
  BY DEF IInv
<1> QED  BY <1>1, Invariance, PTL

\* perform_switch leaves behind only threads that context_switch can resume.
THEOREM ParkedCorrect == Spec => []ParkedThreadsResumable
<1>1. IInv => ParkedThreadsResumable
  BY DEF IInv
<1> QED  BY <1>1, Invariance, PTL

\* schedule() consumes every request and every hint before the return to user
\* mode, and a woken reader runs before anybody else does.
THEOREM WakeupCorrect == Spec => []WakeupConsumed
<1>1. IInv => WakeupConsumed
  <2> SUFFICES ASSUME IInv, InUser  PROVE WakeupConsumed
    BY DEF WakeupConsumed
  <2>1. ~need_reschedule /\ wake_hint = NULL
    BY DEF IInv, HandlerPaths, InUser, SchedulePoints
  <2>2. NULL \notin Threads
    BY KernelAssumption
  <2> QED  BY <2>1, <2>2 DEF IInv, HandlerPaths, WakeupConsumed
<1> QED  BY <1>1, Invariance, PTL

\* The flags, hints and states in the middle of a handler are as the
\* comments of schedule() and scheduler_block_on_input() take them to be.
THEOREM PathsCorrect == Spec => []HandlerPaths
<1>1. IInv => HandlerPaths
  BY DEF IInv
<1> QED  BY <1>1, Invariance, PTL

\* Only a RUNNING thread executes user code, except thread 0 in its first
\* slice and a DEAD thread with nobody left to switch to.
THEOREM UserCodeCorrect == Spec => []WhoRunsUserCode
<1>1. IInv => WhoRunsUserCode
  <2> SUFFICES ASSUME IInv, InUser  PROVE WhoRunsUserCode
    BY DEF WhoRunsUserCode
  <2>1. state[current] \in States
    BY DEF IInv, TypeOK
  <2>2. ~need_reschedule /\ state[current] # "BLOCKED"
    BY DEF IInv, HandlerPaths, InUser, SchedulePoints
  <2> QED  BY <2>1, <2>2 DEF IInv, HandlerPaths, WhoRunsUserCode, States
<1> QED  BY <1>1, Invariance, PTL

\* A process retired by user_fault_kill stays retired.
THEOREM FaultCorrect == Spec => []FaultRetiresProcess
<1>1. IInv => FaultRetiresProcess
  BY DEF IInv
<1> QED  BY <1>1, Invariance, PTL

\* The ABT and UND stacks never hold more than one frame per process.
THEOREM FramesCorrect == Spec => []FaultFramesBounded
<1>1. IInv => FaultFramesBounded
  <2> SUFFICES ASSUME IInv  PROVE FaultFramesBounded
    OBVIOUS
  <2>1. IsFiniteSet(Procs) /\ Cardinality(Procs) = NUM_PROCESSES
    BY KernelAssumption, FS_Interval DEF Procs
  <2>2. faulted \in SUBSET Procs
    BY DEF IInv, TypeOK
  <2>3. Cardinality(faulted) <= NUM_PROCESSES
    BY <2>1, <2>2, FS_Subset
  <2> QED  BY <2>3 DEF IInv, FramesCounted, FaultFramesBounded
<1> QED  BY <1>1, Invariance, PTL

\* No step of the kernel revives a thread that died off the CPU: neither the
\* sweep nor the hint picks it and no wakeup touches it.
THEOREM DeadCorrect == Spec => DeadOffCpuStaysDead
<1> DEFINE Keeps == \A t \in Threads :
             state[t] = "DEAD" /\ t # current => state'[t] = "DEAD" /\ current' # t
<1>1. IInv /\ [Next]_vars => [Keeps]_vars
  <2> SUFFICES ASSUME IInv, Next  PROVE Keeps
    OBVIOUS
  <2>0. state \in [Threads -> States] /\ current \in Threads /\ TypeOK
    BY DEF IInv, TypeOK
  <2>1. CASE UNCHANGED <<state, current>>
    BY <2>1
  <2>2. CASE SysExit \/ SysReadBlock
    BY <2>0, <2>2 DEF SysExit, SysReadBlock, scheduler_block_on_input
  <2>3. CASE SysKill
    BY <2>0, <2>3, KillStep DEF SysKill
  <2>4. CASE UserFault
    BY <2>0, <2>4 DEF UserFault, Retired
  <2>5. CASE UartIrq
    <3>1. current' = current
      BY <2>5 DEF UartIrq
    <3> QED  BY <2>0, <2>5, <3>1, WakeStep
  <2>6. CASE schedule
    BY <2>0, <2>6 DEF schedule, perform_switch, Candidates, Runnable
  <2> QED
    BY <2>1, <2>2, <2>3, <2>4, <2>5, <2>6
    DEF Next, UserStep, KernelStep, SysOther, SysYield, SysRead, SysReadCopy,
        ExceptionReturn, TimerIrq, SpuriousIrq, halt_forever, UartReceive,
        TimerExpire, vars
<1> QED  BY <1>1, Invariance, PTL DEF Spec, DeadOffCpuStaysDead

-----------------------------------------------------------------------------
(* Bytes and sleepers.                                                     *)

Sleeping == \E t \in Threads : state[t] = "BLOCKED"

\* Beside a sleeper there is at most one byte that is not a surplus one, and
\* another reader is on its way to it: hinted, or on the CPU at the copy loop.
SInv ==
  rx > surplus /\ Sleeping =>
    /\ rx = surplus + 1
    /\ \/ wake_hint # NULL /\ pc[wake_hint] = "read_loop"
       \/ pc[current] = "read_loop"

\* Steps that let nobody fall asleep, leave the ring alone and keep the reader
\* that is on its way where it is.
LEMMA SInvKept ==
  ASSUME SInv, rx' = rx, surplus' = surplus, Sleeping' => Sleeping,
         rx > surplus /\ Sleeping => UNCHANGED <<wake_hint, pc, current>>
  PROVE  SInv'
BY DEF SInv

\* At most one more, and more.
LEMMA OneMore ==
  ASSUME NEW a \in Nat, NEW b \in Nat, a <= b + 1
  PROVE  a > b => a = b + 1
OBVIOUS

\* Every step of the kernel keeps SInv.
LEMMA StrandedStep ==
  ASSUME IInv, SInv, [Next]_vars
  PROVE  SInv'
<1> USE ThreadFacts, KernelAssumption
<1>0. /\ state \in [Threads -> States] /\ pc \in [Threads -> PCs]
      /\ want \in [Threads -> 0 .. MAX_READ] /\ current \in Threads
      /\ rx \in 0 .. RX_CAP /\ fifo \in 0 .. FIFO_DEPTH /\ surplus \in 0 .. RX_CAP
      /\ wake_hint \in Threads \cup {NULL}
      /\ TypeOK /\ HandlerPaths /\ ParkedThreadsResumable /\ WaitqHoldsSleepers
  BY DEF IInv, TypeOK
\* A thread in user mode sees no other byte beside a sleeper, nor does one at an
\* exit.
<1>1. ASSUME pc[current] # "read_loop", wake_hint = NULL
      PROVE  ~(rx > surplus /\ Sleeping)
  BY <1>1 DEF SInv
<1>2. ASSUME pc[current] \notin {"irq_schedule", "read_loop"}
      PROVE  ~(rx > surplus /\ Sleeping)
  BY <1>0, <1>1, <1>2 DEF HandlerPaths
<1>3. CASE UNCHANGED <<state, current, pc, rx, wake_hint, surplus>>
  BY <1>3 DEF SInv, Sleeping
<1>4. CASE SysOther \/ SysYield \/ SysRead \/ SysExit \/ SysKill \/ UserFault \/ TimerIrq
           \/ SpuriousIrq \/ ExceptionReturn
  <2>1. pc[current] \notin {"irq_schedule", "read_loop"} /\ rx' = rx /\ surplus' = surplus
    BY <1>4 DEF SysOther, SysYield, SysRead, SysExit, SysKill, UserFault, TimerIrq,
       SpuriousIrq, ExceptionReturn, Svc, IrqEntry, InUser, ExitPoints
  <2>2. \A t \in Threads : state'[t] \in {state[t], "DEAD"}
    <3>1. CASE SysKill
      BY <3>1, KillStep
    <3>2. CASE ~SysKill
      BY <1>0, <1>4, <3>2 DEF SysOther, SysYield, SysRead, SysExit, UserFault, TimerIrq,
         SpuriousIrq, ExceptionReturn, Retired
    <3> QED  BY <3>1, <3>2
  <2>3. Sleeping' => Sleeping
    BY <2>2 DEF Sleeping
  <2> QED  BY <1>2, <2>1, <2>3, SInvKept
<1>5. CASE SysReadBlock
  BY <1>0, <1>5 DEF SysReadBlock, SInv
<1>6. CASE SysReadCopy
  <2>1. /\ pc[current] = "read_loop" /\ state' = state
        /\ rx' = IF rx > want[current] THEN rx - want[current] ELSE 0
        /\ surplus' = IF rx' = 0 THEN 0 ELSE surplus
    BY <1>6 DEF SysReadCopy
  <2>2. want[current] > 0 /\ want[current] \in Nat
    <3>1. pc[current] \in {"read_loop", "read_schedule"} => want[current] > 0
      BY <1>0, Zenon DEF HandlerPaths
    <3> QED  BY <1>0, <2>1, <3>1
  <2>3. CASE ~Sleeping
    BY <2>1, <2>3 DEF SInv, Sleeping
  <2>4. CASE Sleeping
    <3>1. rx <= surplus + 1
      BY <1>0, <2>4 DEF SInv
    <3>2. rx' <= surplus'
      BY <1>0, <2>1, <2>2, <3>1
    <3>3. rx' \in Nat /\ surplus' \in Nat
      BY <1>0, <2>1, <2>2
    <3> QED  BY <3>2, <3>3 DEF SInv
  <2> QED  BY <2>3, <2>4
<1>7. CASE UartIrq
  <2>1. /\ InUser /\ fifo > 0 /\ current' = current
        /\ CountSurplus
        /\ rx' = IF rx + fifo > RX_CAP THEN RX_CAP ELSE rx + fifo
        /\ pc' = [pc EXCEPT ![current] = "irq_schedule"]
        /\ scheduler_wake_reader
    BY <1>0, <1>7 DEF UartIrq, IrqEntry
  <2>2. rx <= surplus \/ ~Sleeping
    BY <1>0, <1>2, <2>1 DEF InUser
  <2>3. CASE Asleep = {} /\ UNCHANGED state
    <3>1. ~Sleeping
      BY <1>0, <2>3 DEF Asleep, Sleeping, WaitqHoldsSleepers
    <3> QED  BY <2>3, <3>1 DEF SInv, Sleeping
  <2>4. ASSUME NEW i \in Asleep, wake_hint' = waitq[i]
        PROVE  SInv'
    <3> DEFINE t == waitq[i]
    <3>1. t \in Threads /\ state[t] = "BLOCKED"
      <4>1. waitq \in Seq(Threads)
        BY <1>0 DEF TypeOK
      <4>2. i \in DOMAIN waitq /\ state[t] = "BLOCKED"
        BY <2>4, Zenon DEF Asleep, t
      <4> QED  BY ONLY <4>1, <4>2 DEF t
    <3> HIDE DEF t
    <3>2. t # current
      <4>1. state[current] # "BLOCKED"
        BY <1>0, <2>1 DEF HandlerPaths, InUser
      <4> QED  BY <3>1, <4>1, Zenon
    <3>3. pc'[t] = "read_loop" /\ t # NULL /\ wake_hint' = t
      <4>1. pc[t] = "read_loop"
        BY <1>0, <3>1, <3>2, Zenon DEF ParkedThreadsResumable
      <4>2. wake_hint' = t
        BY <2>4 DEF t
      <4> QED  BY <1>0, <2>1, <3>1, <3>2, <4>1, <4>2
    <3>4. Sleeping
      BY <3>1 DEF Sleeping
    <3>5. rx' <= surplus' + 1 /\ rx' \in Nat /\ surplus' \in Nat
      BY <1>0, <2>1, <2>2, <3>4 DEF CountSurplus
    <3>6. rx' > surplus' => rx' = surplus' + 1
      BY <3>5, OneMore, Zenon
    <3> QED  BY <3>3, <3>6, Zenon DEF SInv
  <2> QED  BY <2>1, <2>3, <2>4 DEF scheduler_wake_reader
<1>8. CASE schedule
  <2>1. /\ pc[current] \in SchedulePoints /\ rx' = rx /\ surplus' = surplus
        /\ pc' = [pc EXCEPT ![current] = AfterSchedule(@)]
    BY <1>8 DEF schedule
  <2>2. \/ UNCHANGED <<state, current>>
        \/ \E cand \in Candidates : Chosen(cand) /\ perform_switch(cand)
    BY <1>8 DEF schedule
  <2>3. Sleeping' => Sleeping
    <3>1. \A t \in Threads : state'[t] = "BLOCKED" => state[t] = "BLOCKED"
      BY <1>0, <2>2 DEF perform_switch, Candidates
    <3> QED  BY <3>1 DEF Sleeping
  <2>4. CASE ~(rx > surplus /\ Sleeping)
    BY <2>1, <2>3, <2>4, SInvKept
  <2>5. CASE rx > surplus /\ Sleeping
    <3>1. rx = surplus + 1 /\ wake_hint # NULL /\ pc[wake_hint] = "read_loop"
      BY <2>1, <2>5 DEF SInv, SchedulePoints
    <3>2. need_reschedule /\ wake_hint \in Candidates
      BY <1>0, <3>1 DEF HandlerPaths
    <3>3. current' = wake_hint
      BY <1>8, <3>2 DEF schedule, Chosen, perform_switch
    <3>4. pc'[wake_hint] = "read_loop"
      BY <1>0, <2>1, <3>1, <3>2 DEF Candidates
    <3> QED  BY <2>1, <3>1, <3>3, <3>4 DEF SInv
  <2> QED  BY <2>4, <2>5
<1> QED
  BY <1>3, <1>4, <1>5, <1>6, <1>7, <1>8
  DEF Next, UserStep, KernelStep, halt_forever, UartReceive, TimerExpire, vars

\* The bytes that wait beside a sleeping reader are no more than what receive
\* interrupts brought beyond their first byte since the ring was last empty: for
\* any size of FIFO and ring, and whatever is killed, retired or preempted.
THEOREM StrandedCorrect == Spec => []StrandedBytesAreSurplus
<1>1. Init => SInv
  BY DEF Init, SInv
<1>2. IInv /\ SInv /\ [Next]_vars => SInv'
  BY StrandedStep
<1>3. IInv /\ SInv => StrandedBytesAreSurplus
  <2> SUFFICES ASSUME IInv, SInv, InUser, Sleeping  PROVE rx <= surplus
    BY DEF StrandedBytesAreSurplus, Sleeping
  <2>1. wake_hint = NULL /\ pc[current] # "read_loop"
    <3>1. HandlerPaths /\ pc[current] = "user"
      BY DEF IInv, InUser
    <3> QED  BY <3>1 DEF HandlerPaths
  <2>2. rx \in Nat /\ surplus \in Nat
    BY DEF IInv, TypeOK
  <2> QED  BY <2>1, <2>2 DEF SInv
<1> QED  BY <1>1, <1>2, <1>3, Invariance, PTL DEF Spec

-----------------------------------------------------------------------------
(* The order of readers.                                                   *)

\* u stands in the queue before t.
Ahead(u, t) == \E i, j \in DOMAIN waitq : i < j /\ waitq[i] = u /\ waitq[j] = t

\* Only a thread that sleeps on the CPU is queued while it is there; a DEAD
\* one that is still there, which WaitqHoldsSleepers would allow, is not.
CurrentUnqueued ==
  state[current] # "BLOCKED" => \A i \in DOMAIN waitq : waitq[i] # current

\* What a step does to the order of sleepers: it wakes nobody but the first,
\* leaves those who go on sleeping in their order, and puts whoever falls asleep
\* behind everybody.
InTurn(t, u) ==
  /\ state[t] = "BLOCKED" /\ state[u] = "BLOCKED" =>
       /\ state'[t] \notin {"BLOCKED", "DEAD"} => Ahead(t, u)
       /\ state'[t] = "BLOCKED" /\ state'[u] = "BLOCKED" => (Ahead(t, u)' <=> Ahead(t, u))
  /\ state[t] # "BLOCKED" /\ state'[t] = "BLOCKED" /\ state[u] = "BLOCKED" => Ahead(u, t)'

\* Every step of the kernel keeps block's and wake's order, kills included.
ServedInTurn == [][\A t, u \in Threads : t # u => InTurn(t, u)]_vars

\* The thread on the CPU leaves the queue before it runs and joins it only by
\* falling asleep.
LEMMA UnqueuedStep == IInv /\ CurrentUnqueued /\ [Next]_vars => CurrentUnqueued'
<1> SUFFICES ASSUME IInv, CurrentUnqueued, [Next]_vars  PROVE CurrentUnqueued'
  OBVIOUS
<1>0. /\ waitq \in Seq(Threads) /\ state \in [Threads -> States] /\ current \in Threads
      /\ Len(waitq) \in Nat /\ DOMAIN waitq = 1 .. Len(waitq)
      /\ InUser => state[current] # "BLOCKED"
  BY LenProperties DEF IInv, TypeOK, HandlerPaths, InUser
<1>1. CASE UNCHANGED <<state, current, waitq>>
  BY <1>1 DEF CurrentUnqueued
<1>2. CASE SysExit \/ SysKill \/ UserFault
  <2>1. InUser /\ UNCHANGED <<current, waitq>>
    BY <1>2 DEF SysExit, SysKill, UserFault, Svc
  <2> QED  BY <1>0, <2>1 DEF CurrentUnqueued
<1>3. CASE schedule
  <2>1. waitq' = waitq /\ (current' \in Candidates \/ UNCHANGED <<state, current>>)
    BY <1>3 DEF schedule, perform_switch
  <2>2. ASSUME current' \in Candidates
        PROVE  \A i \in DOMAIN waitq : waitq[i] # current'
    BY <2>2 DEF Candidates, Runnable, IInv, WaitqHoldsSleepers
  <2> QED  BY <2>1, <2>2 DEF CurrentUnqueued
<1>4. CASE SysReadBlock
  BY <1>0, <1>4 DEF SysReadBlock, scheduler_block_on_input, CurrentUnqueued
<1>5. CASE UartIrq
  <2>1. InUser /\ current' = current
    BY <1>5 DEF UartIrq, IrqEntry
  <2>2. \A i \in DOMAIN waitq : waitq[i] # current
    BY <1>0, <2>1 DEF CurrentUnqueued
  <2>3. CASE waitq' = <<>>
    BY <2>3 DEF CurrentUnqueued
  <2>4. ASSUME NEW i \in Asleep, waitq' = SubSeq(waitq, i + 1, Len(waitq))
        PROVE  \A k \in DOMAIN waitq' : waitq'[k] # current
    <3>1. i \in 1 .. Len(waitq)
      BY <1>0 DEF Asleep
    <3>2. /\ DOMAIN waitq' = 1 .. Len(waitq) - i
          /\ \A k \in 1 .. Len(waitq) - i : waitq'[k] = waitq[k + i]
      BY <1>0, <2>4, <3>1, QueueAfterPops
    <3>3. \A k \in 1 .. Len(waitq) - i : k + i \in DOMAIN waitq
      BY <1>0, <3>1
    <3> QED  BY <2>2, <3>2, <3>3
  <2> QED  BY <1>5, <2>1, <2>3, <2>4 DEF UartIrq, scheduler_wake_reader, CurrentUnqueued
<1> QED
  BY <1>1, <1>2, <1>3, <1>4, <1>5
  DEF Next, UserStep, KernelStep, SysOther, SysYield, SysRead, SysReadCopy,
      ExceptionReturn, TimerIrq, SpuriousIrq, halt_forever, UartReceive,
      TimerExpire, vars

\* A step that leaves the queue alone and lets nobody fall asleep or wake.
LEMMA QuietInTurn ==
  ASSUME waitq' = waitq,
         \A t \in Threads : /\ state'[t] = "BLOCKED" => state[t] = "BLOCKED"
                            /\ state[t] = "BLOCKED" => state'[t] \in {"BLOCKED", "DEAD"}
  PROVE  \A t, u \in Threads : InTurn(t, u)
BY DEF InTurn, Ahead

\* Whoever falls asleep is appended.
LEMMA BlockInTurn ==
  ASSUME IInv, CurrentUnqueued, SysReadBlock, NEW t \in Threads, NEW u \in Threads, t # u
  PROVE  InTurn(t, u)
<1>0. /\ waitq \in Seq(Threads) /\ state \in [Threads -> States] /\ current \in Threads
      /\ Len(waitq) \in Nat /\ DOMAIN waitq = 1 .. Len(waitq)
  BY LenProperties DEF IInv, TypeOK
<1>1. state' = [state EXCEPT ![current] = "BLOCKED"] /\ waitq_push(current)
  BY DEF SysReadBlock, scheduler_block_on_input
<1>2. CASE state[current] = "BLOCKED"
  <2>1. \E i \in DOMAIN waitq : waitq[i] = current
    BY <1>0, <1>2 DEF IInv, WaitqHoldsSleepers
  <2>2. waitq' = waitq
    BY <1>1, <2>1 DEF waitq_push
  <2> QED  BY <1>0, <1>1, <1>2, <2>2, QuietInTurn
<1>3. CASE state[current] # "BLOCKED"
  <2>1. \A i \in DOMAIN waitq : waitq[i] # current
    BY <1>3 DEF CurrentUnqueued
  <2>2. ~(Len(waitq) >= NUM_THREADS)
    <3>1. \A i, j \in DOMAIN waitq : waitq[i] = waitq[j] => i = j
      BY DEF IInv, WaitqHoldsSleepers
    <3>2. Len(waitq) < NUM_THREADS
      BY <1>0, <2>1, <3>1, QueueHasRoom, Zenon
    <3> QED  BY <1>0, <3>2, ThreadFacts
  <2>3. waitq' = Append(waitq, current)
    BY <1>1, <2>1, <2>2, Zenon DEF waitq_push
  <2>4. /\ DOMAIN waitq' = 1 .. Len(waitq) + 1
        /\ \A i \in 1 .. Len(waitq) : waitq'[i] = waitq[i]
        /\ waitq'[Len(waitq) + 1] = current
    BY <1>0, <2>3, AppendProperties
  <2>5. CASE t = current
    <3>1. ASSUME state[u] = "BLOCKED" PROVE Ahead(u, t)'
      <4>1. PICK i \in 1 .. Len(waitq) : waitq[i] = u
        BY <1>0, <3>1 DEF IInv, WaitqHoldsSleepers
      <4>2. i < Len(waitq) + 1 /\ i \in 1 .. Len(waitq) + 1 /\ Len(waitq) + 1 \in 1 .. Len(waitq) + 1
        BY <1>0
      <4> QED  BY <2>4, <2>5, <4>1, <4>2 DEF Ahead
    <3> QED  BY <1>3, <2>5, <3>1 DEF InTurn
  <2>6. CASE t # current
    <3>1. state'[t] = state[t]
      BY <1>0, <1>1, <2>6
    <3>2. ASSUME u # current PROVE Ahead(t, u)' <=> Ahead(t, u)
      <4>0. \A i \in 1 .. Len(waitq) + 1 : i \in 1 .. Len(waitq) \/ i = Len(waitq) + 1
        BY <1>0
      <4>1. \A i \in 1 .. Len(waitq) + 1 : waitq'[i] # current => i \in 1 .. Len(waitq)
        BY <2>4, <4>0, Zenon
      <4>2. \A i \in 1 .. Len(waitq) : i \in 1 .. Len(waitq) + 1
        BY <1>0
      <4> QED  BY <1>0, <2>4, <2>6, <3>2, <4>1, <4>2 DEF Ahead
    <3> QED  BY <1>3, <3>1, <3>2 DEF InTurn
  <2> QED  BY <2>5, <2>6
<1> QED  BY <1>2, <1>3

\* Waking takes the first sleeper and drops the corpses before it.
LEMMA WakeInTurn ==
  ASSUME IInv, UartIrq, NEW t \in Threads, NEW u \in Threads, t # u
  PROVE  InTurn(t, u)
<1>0. /\ waitq \in Seq(Threads) /\ state \in [Threads -> States]
      /\ Len(waitq) \in Nat /\ DOMAIN waitq = 1 .. Len(waitq)
      /\ \A i \in DOMAIN waitq : waitq[i] \in Threads
  BY LenProperties DEF IInv, TypeOK
<1>1. ASSUME NEW v \in Threads, state[v] = "BLOCKED"
      PROVE  \E i \in Asleep : waitq[i] = v
  BY <1>1 DEF IInv, WaitqHoldsSleepers, Asleep
<1>2. CASE Asleep = {} /\ UNCHANGED state
  BY <1>1, <1>2 DEF InTurn
<1>3. ASSUME NEW i \in Asleep, \A j \in Asleep : i <= j,
             waitq' = SubSeq(waitq, i + 1, Len(waitq)),
             state' = [state EXCEPT ![waitq[i]] = "READY"]
      PROVE  InTurn(t, u)
  <2>1. i \in 1 .. Len(waitq) /\ waitq[i] \in Threads
    BY <1>0 DEF Asleep
  <2>2. /\ DOMAIN waitq' = 1 .. Len(waitq) - i
        /\ \A k \in 1 .. Len(waitq) - i : waitq'[k] = waitq[k + i]
    BY <1>0, <1>3, <2>1, QueueAfterPops
  <2>3. ASSUME NEW j \in Asleep, waitq[j] # waitq[i]
        PROVE  j \in 1 .. Len(waitq) /\ i < j
    BY <1>0, <1>3, <2>1, <2>3 DEF Asleep
  <2>4. /\ state'[t] = IF t = waitq[i] THEN "READY" ELSE state[t]
        /\ state'[u] = IF u = waitq[i] THEN "READY" ELSE state[u]
    BY <1>0, <1>3, <2>1
  <2>5. ASSUME t = waitq[i], state[u] = "BLOCKED"
        PROVE  Ahead(t, u)
    <3>1. PICK j \in Asleep : waitq[j] = u
      BY <1>1, <2>5
    <3>2. j \in 1 .. Len(waitq) /\ i < j
      BY <2>3, <2>5, <3>1
    <3> QED  BY <1>0, <2>1, <2>5, <3>1, <3>2 DEF Ahead
  <2>6. ASSUME state[t] = "BLOCKED", state[u] = "BLOCKED", t # waitq[i], u # waitq[i]
        PROVE  Ahead(t, u)' <=> Ahead(t, u)
    <3>1. ASSUME Ahead(t, u) PROVE Ahead(t, u)'
      <4>1. PICK j, m \in DOMAIN waitq : j < m /\ waitq[j] = t /\ waitq[m] = u
        BY <3>1 DEF Ahead
      <4>2. i < j /\ i < m
        BY <2>3, <2>6, <4>1 DEF Asleep
      <4>3. /\ j - i \in 1 .. Len(waitq) - i /\ m - i \in 1 .. Len(waitq) - i
            /\ j - i < m - i /\ (j - i) + i = j /\ (m - i) + i = m
        <5>1. j \in 1 .. Len(waitq) /\ m \in 1 .. Len(waitq) /\ i \in 1 .. Len(waitq)
          BY <1>0, <2>1
        <5> QED  BY <1>0, <4>1, <4>2, <5>1
      <4> QED  BY <2>2, <4>1, <4>3 DEF Ahead
    <3>2. ASSUME Ahead(t, u)' PROVE Ahead(t, u)
      <4>1. PICK k, l \in DOMAIN waitq' : k < l /\ waitq'[k] = t /\ waitq'[l] = u
        BY <3>2 DEF Ahead
      <4>2. k + i \in DOMAIN waitq /\ l + i \in DOMAIN waitq /\ k + i < l + i
        <5>1. k \in 1 .. Len(waitq) - i /\ l \in 1 .. Len(waitq) - i /\ i \in 1 .. Len(waitq)
          BY <2>1, <2>2, <4>1
        <5> QED  BY <1>0, <4>1, <5>1
      <4> QED  BY <2>2, <4>1, <4>2 DEF Ahead
    <3> QED  BY <3>1, <3>2
  <2> QED  BY <2>4, <2>5, <2>6 DEF InTurn
<1> QED  BY <1>2, <1>3 DEF UartIrq, scheduler_wake_reader

\* Readers are served in the order in which they fell asleep, whatever is
\* killed, retired or preempted meanwhile, for any number of threads: the safety
\* half of OldestReaderServed.
THEOREM OrderCorrect == Spec => ServedInTurn
<1> DEFINE Turns == \A t, u \in Threads : t # u => InTurn(t, u)
<1>1. Init => CurrentUnqueued
  BY DEF Init, CurrentUnqueued
<1>2. IInv /\ CurrentUnqueued /\ [Next]_vars => [Turns]_vars
  <2> SUFFICES ASSUME IInv, CurrentUnqueued, Next  PROVE Turns
    OBVIOUS
  <2>0. state \in [Threads -> States] /\ current \in Threads
    BY DEF IInv, TypeOK
  <2>1. CASE UNCHANGED <<state, waitq>>
    BY <2>1, QuietInTurn
  <2>2. CASE SysExit \/ SysKill \/ UserFault
    <3>1. waitq' = waitq
      BY <2>2 DEF SysExit, SysKill, UserFault
    <3>2. \A t \in Threads : state'[t] \in {state[t], "DEAD"}
      BY <2>0, <2>2, KillStep DEF SysExit, UserFault, Retired
    <3> QED  BY <3>1, <3>2, QuietInTurn
  <2>3. CASE schedule
    <3>1. waitq' = waitq
      BY <2>3 DEF schedule
    <3>2. \A t \in Threads : /\ state'[t] = "BLOCKED" => state[t] = "BLOCKED"
                             /\ state[t] = "BLOCKED" => state'[t] = "BLOCKED"
      BY <2>0, <2>3 DEF schedule, perform_switch, Candidates, Runnable
    <3> QED  BY <3>1, <3>2, QuietInTurn
  <2>4. CASE SysReadBlock
    BY <2>4, BlockInTurn
  <2>5. CASE UartIrq
    BY <2>5, WakeInTurn
  <2> HIDE DEF Turns
  <2> QED
    BY <2>1, <2>2, <2>3, <2>4, <2>5
    DEF Next, UserStep, KernelStep, SysOther, SysYield, SysRead, SysReadCopy,
        ExceptionReturn, TimerIrq, SpuriousIrq, halt_forever, UartReceive,
        TimerExpire, vars
<1> QED  BY <1>1, <1>2, UnqueuedStep, Invariance, PTL DEF Spec, ServedInTurn

-----------------------------------------------------------------------------
(* The sweep.                                                              *)

\* Every switch that no wakeup asked for brings each thread that goes on
\* waiting for the CPU nearer to its turn.
SweepAdvances ==
  [][\A t \in Threads \ {current} :
       state[t] = "READY" /\ state'[t] = "READY" /\ wake_hint = NULL /\ current' # current =>
         SweepDistance(current', t) < SweepDistance(current, t)]_vars

\* The sweep's (prev + 1 + i) % NUM_THREADS counts the threads after prev, then
\* those from 0 on.
LEMMA DistanceIs ==
  ASSUME NEW p \in Threads, NEW t \in Threads
  PROVE  SweepDistance(p, t) = IF t > p THEN t - p - 1 ELSE t + NUM_THREADS - p - 1
<1> DEFINE n == NUM_THREADS
<1>1. n \in Nat \ {0} /\ p \in 0 .. n - 1 /\ t \in 0 .. n - 1
  BY ThreadFacts DEF Threads
<1>2. SweepDistance(p, t) = (t + n - (p + 1)) % n
  BY DEF SweepDistance
<1> HIDE DEF n
<1>3. CASE t > p
  <2>1. t - p - 1 \in 0 .. n - 1 /\ t + n - (p + 1) = (t - p - 1) + n
    BY <1>1, <1>3
  <2>2. \A r \in 0 .. n - 1 : (r + n) % n = r
    BY <1>1
  <2> QED  BY <1>2, <1>3, <2>1, <2>2 DEF n
<1>4. CASE ~(t > p)
  <2>1. t + n - (p + 1) \in 0 .. n - 1 /\ t + n - (p + 1) = t + n - p - 1
    BY <1>1, <1>4
  <2>2. \A r \in 0 .. n - 1 : r % n = r
    BY <1>1
  <2> QED  BY <1>2, <1>4, <2>1, <2>2 DEF n
<1> QED  BY <1>3, <1>4

\* A thread at least as far as the one that is chosen is nearer to that one.
LEMMA DistanceShrinks ==
  ASSUME NEW p \in Threads, NEW c \in Threads, NEW t \in Threads, t # c,
         SweepDistance(p, c) <= SweepDistance(p, t)
  PROVE  SweepDistance(c, t) < SweepDistance(p, t)
<1> DEFINE n == NUM_THREADS
<1>1. n \in Nat \ {0} /\ p \in 0 .. n - 1 /\ c \in 0 .. n - 1 /\ t \in 0 .. n - 1
  BY ThreadFacts DEF Threads
<1>2. /\ SweepDistance(p, c) = IF c > p THEN c - p - 1 ELSE c + n - p - 1
      /\ SweepDistance(p, t) = IF t > p THEN t - p - 1 ELSE t + n - p - 1
      /\ SweepDistance(c, t) = IF t > c THEN t - c - 1 ELSE t + n - c - 1
  BY DistanceIs
<1> HIDE DEF n
<1> QED  BY <1>1, <1>2

\* Round robin, for any number of threads: a READY thread is passed over by
\* fewer sweeps than there are threads, the safety half of ReadyRuns.
THEOREM SweepCorrect == Spec => SweepAdvances
<1> DEFINE Advances ==
      \A t \in Threads \ {current} :
        state[t] = "READY" /\ state'[t] = "READY" /\ wake_hint = NULL /\ current' # current =>
          SweepDistance(current', t) < SweepDistance(current, t)
<1>1. IInv /\ [Next]_vars => [Advances]_vars
  <2> SUFFICES ASSUME IInv, Next, NEW t \in Threads \ {current},
                      state[t] = "READY", state'[t] = "READY", wake_hint = NULL, current' # current
               PROVE  SweepDistance(current', t) < SweepDistance(current, t)
    OBVIOUS
  <2>1. schedule
    BY DEF Next, UserStep, KernelStep, SysOther, SysYield, SysExit, SysKill, SysRead, UserFault,
           SysReadCopy, SysReadBlock, ExceptionReturn, TimerIrq, UartIrq, SpuriousIrq,
           halt_forever, UartReceive, TimerExpire, vars
  <2>2. PICK cand \in Candidates : Chosen(cand) /\ perform_switch(cand)
    BY <2>1 DEF schedule
  <2>3. current \in Threads /\ cand \in Threads /\ t \in Threads /\ state \in [Threads -> States]
    BY DEF IInv, TypeOK, Candidates
  <2>4. current' = cand /\ t # cand
    BY <2>2, <2>3 DEF perform_switch
  <2>5. wake_hint \notin Candidates
    BY KernelAssumption DEF Candidates
  <2>6. t \in Candidates
    BY DEF Candidates, Runnable
  <2>7. SweepDistance(current, cand) <= SweepDistance(current, t)
    BY <2>2, <2>5, <2>6 DEF Chosen
  <2> QED  BY <2>3, <2>4, <2>7, DistanceShrinks
<1> QED  BY <1>1, Invariance, PTL DEF Spec, SweepAdvances

=============================================================================
