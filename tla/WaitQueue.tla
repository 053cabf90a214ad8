------------------------------ MODULE WaitQueue ------------------------------
(***************************************************************************)
(* uart_waitq, the ring of threads asleep in sys_read: an array of         *)
(* WAITQ_CAP pointers, the index of the oldest and a count.                *)
(*                                                                         *)
(* sys_kill marks a thread DEAD without touching the ring, so corpses stay *)
(* in it until scheduler_wake_reader pops them.  Its loop is modelled pop  *)
(* by pop (`waking`); IRQs are masked throughout, so nothing else runs     *)
(* between two pops.                                                       *)
(*                                                                         *)
(* Who calls: the thread on the CPU enters scheduler_block_on_input, and   *)
(* enters it again while still BLOCKED when schedule() found nobody else   *)
(* to run.  Only then is the caller in the ring: a thread that died there  *)
(* is off the CPU (CurrentUnqueued of KernelProofs).  One that died on the *)
(* CPU, with nobody else to run, may still call.                           *)
(***************************************************************************)
EXTENDS Naturals, Sequences, FiniteSets

CONSTANTS
  Threads,    \* the threads of the kernel
  WAITQ_CAP,  \* slots of uart_waitq
  NULL        \* the null pointer

ASSUME WaitQueueAssumption ==
  /\ WAITQ_CAP \in Nat \ {0}
  /\ IsFiniteSet(Threads)
  /\ Cardinality(Threads) = WAITQ_CAP
  /\ NULL \notin Threads

VARIABLES
  uart_waitq,   \* the slots
  waitq_head,   \* index of the next thread to wake
  waitq_count,  \* entries currently queued
  state,        \* RUNNING (or READY), BLOCKED or DEAD
  waking        \* inside the loop of scheduler_wake_reader

wqVars == <<uart_waitq, waitq_head, waitq_count, state, waking>>

WQSlots == 0 .. WAITQ_CAP - 1

WQInit ==
  /\ uart_waitq = [s \in WQSlots |-> NULL]
  /\ waitq_head = 0
  /\ waitq_count = 0
  /\ state = [t \in Threads |-> "RUNNING"]
  /\ waking = FALSE

\* Slot of the i-th entry, counted from 0.
Slot(i) == (waitq_head + i) % WAITQ_CAP

Queued(t) == \E i \in 0 .. waitq_count - 1 : uart_waitq[Slot(i)] = t

\* Mutant: the tail slot is computed without the head.
MutantPushAtCount(t) ==
  IF Queued(t) \/ waitq_count >= WAITQ_CAP
  THEN UNCHANGED <<uart_waitq, waitq_count>>
  ELSE /\ uart_waitq' = [uart_waitq EXCEPT ![waitq_count] = t]
       /\ waitq_count' = waitq_count + 1

waitq_push(t) ==
  IF Queued(t) \/ waitq_count >= WAITQ_CAP
  THEN UNCHANGED <<uart_waitq, waitq_count>>
  ELSE /\ uart_waitq' = [uart_waitq EXCEPT ![Slot(waitq_count)] = t]
       /\ waitq_count' = waitq_count + 1

\* What waitq_pop returns.
Popped == IF waitq_count = 0 THEN NULL ELSE uart_waitq[waitq_head]

\* What waitq_pop does.
waitq_pop ==
  IF waitq_count = 0
  THEN UNCHANGED <<uart_waitq, waitq_head, waitq_count>>
  ELSE /\ uart_waitq' = [uart_waitq EXCEPT ![waitq_head] = NULL]
       /\ waitq_head' = (waitq_head + 1) % WAITQ_CAP
       /\ waitq_count' = waitq_count - 1

scheduler_block_on_input(t) ==
  /\ ~waking
  /\ Queued(t) => state[t] = "BLOCKED"
  /\ state' = [state EXCEPT ![t] = "BLOCKED"]
  /\ waitq_push(t)
  /\ UNCHANGED <<waitq_head, waking>>

\* What sys_kill and user_fault_kill do to each thread of the process.
Kill(t) ==
  /\ ~waking
  /\ state' = [state EXCEPT ![t] = "DEAD"]
  /\ UNCHANGED <<uart_waitq, waitq_head, waitq_count, waking>>

\* The UART interrupt calls scheduler_wake_reader.
WakeStart ==
  /\ ~waking
  /\ waking' = TRUE
  /\ UNCHANGED <<uart_waitq, waitq_head, waitq_count, state>>

\* Mutant: the loop ends at the first corpse.
MutantStopAtCorpse ==
  /\ waking
  /\ Popped # NULL /\ state[Popped] # "BLOCKED"
  /\ waitq_pop
  /\ waking' = FALSE
  /\ UNCHANGED state

\* The popped thread is not asleep: drop it and go round again.
WakeSkip ==
  /\ waking
  /\ Popped # NULL /\ state[Popped] # "BLOCKED"
  /\ waitq_pop
  /\ UNCHANGED <<state, waking>>

\* The popped thread is asleep: it becomes READY and the loop ends.
WakeReader ==
  /\ waking
  /\ Popped # NULL /\ state[Popped] = "BLOCKED"
  /\ waitq_pop
  /\ state' = [state EXCEPT ![Popped] = "RUNNING"]
  /\ waking' = FALSE

\* waitq_pop returned NULL: nobody left waiting.
WakeNobody ==
  /\ waking
  /\ Popped = NULL
  /\ waitq_pop
  /\ waking' = FALSE
  /\ UNCHANGED state

WQNext ==
  \/ \E t \in Threads : scheduler_block_on_input(t) \/ Kill(t)
  \/ WakeStart \/ WakeSkip \/ WakeReader \/ WakeNobody

WQSpec == WQInit /\ [][WQNext]_wqVars

-----------------------------------------------------------------------------
(* Properties.                                                             *)

\* The queue as a sequence, oldest first: this is Kernel's waitq.
Contents == [i \in 1 .. waitq_count |-> uart_waitq[Slot(i - 1)]]

\* The ring is well formed: head and count in range, a thread in every slot
\* between head and tail, NULL in all the others (waitq_pop clears what it
\* leaves), and no thread twice.  Then pop never returns NULL for a queue that
\* is not empty, which would end the wake loop early.
RingShape ==
  /\ waitq_head \in WQSlots
  /\ waitq_count \in 0 .. WAITQ_CAP
  /\ \A i \in WQSlots :
       IF i < waitq_count THEN uart_waitq[Slot(i)] \in Threads
                          ELSE uart_waitq[Slot(i)] = NULL
  /\ \A i, j \in 0 .. waitq_count - 1 :
       uart_waitq[Slot(i)] = uart_waitq[Slot(j)] => i = j

\* The threads asleep, and which of them come before which in the ring.
Readers == {t \in Threads : state[t] = "BLOCKED"}

Before(u, t) ==
  \E i, j \in 1 .. waitq_count : i < j /\ Contents[i] = u /\ Contents[j] = t

Ahead == {p \in Readers \X Readers : Before(p[1], p[2])}

Promise == INSTANCE ReaderQueue WITH
  sleepers <- Readers,
  ahead    <- Ahead,
  wakeup   <- waking

\* The ring with its corpses implements the first-come first-served queue of
\* live readers: whatever was killed where, a wakeup goes to the oldest reader
\* that still sleeps, and none is swallowed by a corpse or lost to the wrap
\* of the indices.
ImplementsReaderQueue == Promise!RQSpec

=============================================================================
