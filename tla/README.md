# Verification of Cortext-A-OS

TLA+ specifications of the ARMv7-A kernel in `src/`, the TLC configurations
that check them on small instances, and TLAPS proofs of their safety properties.
Every definition is translated from the source; `PROJECT.json` (`map`) gives
the lines of each one, `hazards` the places in the code the properties were
chosen for.

## 1. The system and its parts

A uniprocessor kernel for QEMU realview-pb-a8 and the BeagleBone Black: a fixed
table of processes (counter, runaway, shell), a fixed number of threads in
each, round-robin scheduling, eight system calls, a timer tick, UART input.

| Part | Source | Module |
| --- | --- | --- |
| Scheduler, `uart_waitq`, wake hint | `kernel/sched/scheduler.c` | `Kernel`; the ring in `WaitQueue` |
| Threads, initial frames | `kernel/proc/thread.c`, `include/thread.h` | `Kernel!Init`, `ContextSwitch!Init` |
| System calls | `kernel/syscall/syscall.c` | `Kernel` (effects on threads, ring and scheduler); `Syscalls` (pointers, results, the `ps` text) |
| SVC, IRQ and user-fault paths | `arch/arm/exception/` | `Kernel`; frames and stacks in `ContextSwitch` |
| Context switch | `arch/arm/proc/context_switch.S` | `ContextSwitch` |
| UART receive ring | `drivers/uart/uart_core.c:24-49` | `RxRing` |
| UART, timer, interrupt controller drivers | `drivers/` | `IrqPath`; as single steps in `Kernel` (`UartIrq`, `TimerIrq`, `SpuriousIrq`) |
| Page tables, MMU, boot order, images | `arch/arm/mm/`, `arch/arm/boot/start.S`, `main.c`, `proc/process.c` | `Boot` |
| Both printfs | `drivers/uart/uart_core.c`, `user/libc/ulib.c` | `Format` |
| `ulib_delay_ticks` | `user/libc/ulib.c` | `Delay` |
| Shell, its heartbeat, terminal output | `user/apps/shell/shell.c`, `uart_putc`, `pl011_putc` | `Shell` |
| Demo programs | `user/apps/` | programs are `Calls` of `Kernel`; counter's lines in `Shell` |
| Board tables, clock set-up, dumps, linker scripts | | not modelled (section 8) |

How they interact.  Every exception masks IRQs and only the return to user mode
unmasks them, so kernel code is never interleaved with another handler, only
with the devices.  A handler gives up the CPU in one place, `schedule()`, which
resumes another thread in the middle of *its* handler.  These two facts are the
control structure of `Kernel`.

## 2. Modules

- `Kernel` - the core.  `state`, `current`, `need_reschedule`, `wake_hint` and
  `waitq` are the variables of the same names.  `pc[t]` is where thread t is,
  or where its kernel stack says it will resume; `want` is the `len` of a
  `sys_read` in progress; `rx` and `fifo` count bytes in the ring and in the
  UART; `timer` is the timer's interrupt line; `frames` counts exception frames
  left on the shared ABT and UND stacks; `faulted` and `surplus` are history:
  the processes retired by a fault, and the bytes that receive interrupts brought
  beyond the first of each since the ring was last empty.  One action per
  system call, per interrupt, for the fault path, for `schedule()` and for the
  exception return; a handler is cut only at `schedule()`, at the re-check of
  the ring in `sys_read`, and at its return.
- `WaitQueue` - `uart_waitq` as the array with head and count, the loop of
  `scheduler_wake_reader` pop by pop.  It implements `ReaderQueue`, the
  promise: live sleepers and the order in which they fell asleep, from which a
  kill removes a thread at once and every wakeup takes the oldest.  A thread
  that died on the CPU may still call `scheduler_block_on_input`, as in the code;
  that it is not in the ring then is `CurrentUnqueued` of `KernelProofs`.
- `RxRing` - the receive ring with free-running counters that wrap at `WORD`
  and a plain `char` of either sign.  It implements `ByteQueue`, a bounded FIFO
  of bytes that drops new ones when full.
- `ContextSwitch` - register groups, kernel stacks as sequences of frames,
  `thread_t.ctx`, TTBR0 and what TLB and I-cache hold; the assembly step by
  step, including the first entry and the skip between siblings.  The stubs of
  the three faults are not in it: their thread is retired and never resumed, and
  `Kernel` has what they do to threads and to the shared stacks.
- `IrqPath` - both boards' UART, timer and interrupt controller with their
  drivers and `irq_dispatch`, register access by register access where a device
  can interfere: bring-up in `kmain`, claim, acknowledge, drain loop, wakeup, EOI.
  Beside the two lines the kernel uses there are a shared one and two private ones
  of the GIC (a software-generated one and a device's), which whatever ran before
  may have left enabled or raised.
- `Boot` - 1 MB sections, `boot_pgd` and the processes' tables, the TLB, the
  contents of RAM; from reset through `mmu_enable`, the trampoline,
  `process_init_all` and `mmu_drop_identity` to later address-space switches.
- `Format` - `ulib_printf` and `uart_printf` as functions from a format and its
  arguments to a text, with their numerals; pure operators.
- `Syscalls` - the calls as the caller sees them: `valid_user_ptr` on wrapping
  addresses, which bytes of the caller are touched, what comes back in r0, the
  text of `sys_ps`, thread by thread, cut by the caller's buffer.  `call` is the
  call in progress or just made.
- `Delay` - the loop of `ulib_delay_ticks` against a tick counter that wraps,
  with the clock's reading, its comparison and the yield as separate steps.
- `UserProgram` - composes `Delay` and `Syscalls` (and through it `Format`): one
  user thread that delays, prints and makes calls beside the timer.
- `Shell` - the reader thread's line buffer and commands, the heartbeat thread,
  a second program, their writes byte by byte, and a terminal that obeys
  carriage return, line feed, backspace and the clear sequence.  It implements
  `LineEditor`, the promise: a bounded line that is typed, erased, and run by its
  first word.
- `MC*` - instances for TLC.
- `KernelProofs`, `InterruptProofs` (`IrqPath`, `WaitQueue`, `RxRing`),
  `MachineProofs` (`ContextSwitch`, `Boot`), `FormatProofs` (`Format` and the
  messages of `UserProgram`), `UserProgramProofs` (its delays and calls),
  `ShellProofs` and, on top of it, `TerminalProofs` and
  `DeathProofs` - theorems about the modules each extends.  `Boot` calls its
  specification `BootSpec` and its program counter `step`, so that it can stand
  beside `ContextSwitch` in one module.

`Kernel` uses `waitq` as a sequence and `rx` as a number.  `WaitQueue` and
`RxRing` justify this: `WaitQueue!Contents` is `Kernel`'s `waitq`,
and `RxRing!Used` is its `rx`.  `Kernel` also takes an interrupt as one step and
lets `UartIrq` happen only with a byte in the FIFO: `IrqPath` has the steps, and
its `WakeupFollowsBytes` says that no wakeup comes without a byte.  `Syscalls` and
`Shell` leave the scheduler to `Kernel`: a handler is one step, or keeps every
other thread out, because interrupts are masked until it returns.

## 3. Runs

| Run | Checks | Result |
| --- | --- | --- |
| `kernel` | the invariants of section 5, `DeadOffCpuStaysDead`, `StrandedBytesAreSurplus`; 2 processes x 2 threads, any program, up to two bytes to an interrupt | holds, 1,408,086 states |
| `progress` | `ReadyRuns`: once input pauses, every READY thread runs or dies; `OldestReaderServed`: the oldest live reader wakes; one thread never sleeps, the others do anything | holds |
| `irq_path` | `SharedLinesHaveHandlers`, `TicksAccounted`, `WakeupFollowsBytes`, `DevicesServed`; both boards | holds, 27,006 states |
| `wait_queue` | `RingShape`, `ImplementsReaderQueue` | holds, 8,320 states |
| `rx_ring` | `ImplementsByteQueue` | holds |
| `context_switch` | `UserContextIntact`, `AddressSpaceOwn`, `KernelStackOwn` | holds, 624,626 states |
| `boot` | `KernelReachable`, `UserIsolated`, `ImagesIntact`, `StrayPointersFault` | holds, 1,444 states |
| `user_calls` | delays: `DelayNeverEarly`, `DelayOnTime`, `DelayEnds`; calls: `PointersConfined`, `ResultTruthful`, `PsShowsListing`; texts: `NumeralsExact`, `PrintfsAgree` | holds, 67,266 states |
| `shell` | `LineFits`, `ImplementsLineEditor`, `ScreenShowsLine`, `MessagesWhole`, `DeathsAreOrdered`, `PromptReturns` | holds, 241,560 states |
| `burst` | `NoStrandedByte` when an interrupt may carry two bytes | violated |
| `exit_last` | `DeadNeverReturnsToUser` | violated |
| `busy_wait` | `BusyWaitEndsWithInput` | violated |

Each property of a passing run is shown to bite by a mutant, a `Mutant...`
definition beside the one it changes, under which TLC reports it violated.

### What the violated properties show

Each states a comment or a line of the design document; `findings` has the
quotations.

- `burst`: the drivers wake one reader per *interrupt*; `scheduler.h:21-23`
  says per byte.  Two one-byte readers asleep, two bytes in the FIFO: the second
  reader sleeps on until another byte arrives.  `StrandedBytesAreSurplus`, which
  holds, says that this is the only way: the bytes that wait beside a sleeper are
  no more than interrupts brought beyond their first one, whatever is killed,
  faults or reads in between.
- `exit_last`: when no other thread is runnable `schedule()` keeps the current
  one, also when it is DEAD, and it goes on executing user code.  If it then
  calls `sys_read`, `scheduler.c:111` turns DEAD into BLOCKED, and the next byte
  makes it READY: a second way in which DEAD is not final
  (`docs/os-design.md:764`).  `DeadOffCpuStaysDead` says that this is the only
  one: a thread that died off the CPU stays dead.
- `busy_wait`: with everybody asleep in `sys_read`, the last reader loops in
  the kernel.  The loop runs with IRQs masked, so no byte can end it.  The demo
  set avoids this because runaway never sleeps - until it is killed.

Smaller differences met while reading, with no run of their own: thread 0 is
READY, not RUNNING, during its first slice (`thread_first_run` does not set the
state; `WhoRunsUserCode` has the case); a user fault with only sleeping threads
left ends in the panic loop rather than in a wait for input
(`exception_handlers.c`, after `schedule()`); `gicv1_init` disables the lines from
32 on, so that a private line of the GIC that was left enabled stays so and reaches
`irq_dispatch` without a handler (`SharedLinesHaveHandlers` and `DevicesServed`
have the case); while bytes keep arriving every
few ticks, each switch to the hinted reader restarts the sweep after the
reader's tid, so that a thread further along the ring may wait that long
(`ReadyRuns` therefore speaks of input that pauses); a heartbeat prints a fresh
prompt without the characters typed so far, which are still in the line
(`ScreenShowsLine` is about lines nobody else wrote into); `shell.c:6` says `ps`
lists the pid, and the example at `syscall.c:151` has another layout, while
`sys_ps` prints name, thread index and state; `uart_printf` goes on behind the
terminator of a format that ends in `%`, which no format of the kernel does, and
`ulib_printf` stops there (`PrintfsAgree` excludes such formats); `ulib_atoi`
lets a number longer than an `int` overflow, which in a build without optimisation
(the Makefile asks for none) wraps, so that it is read modulo 2^32
(`DeathsAreOrdered` counts modulo `INT_RANGE`).

## 4. Bounds

- `kernel`: two processes of two threads are the least with a sibling and a
  stranger for every thread.  A ring of 2 and reads of up to 2 reach an overfull
  ring and reads that leave bytes or take them all.  The FIFO holds two bytes, so
  that an interrupt brings one or several; `surplus` saturates at the ring's
  capacity, above which it allows nothing more.  `KillPids` holds one invalid pid.
  All user programs are allowed at every step.
- `progress`: three single-thread processes, so that a third thread can be
  passed over while two alternate.
- `wait_queue`: four slots, every head offset, every number of corpses.
- `rx_ring`: four slots, counters that wrap every eight bytes (so wrapped and
  unwrapped counters meet at every fill level), four byte values of which two
  are negative as signed `char`, one of them -1.
- `context_switch`: two siblings and a stranger, two values per register group.
- `irq_path`: a FIFO of three with the trigger at two, so that bytes wait below
  the trigger, at it and above it; at most two bytes (`ARRIVALS`) per handler,
  since a serial line is far slower than the drain loop.  Without that bound the
  loop could go on for ever.  A byte that finds the FIFO full is lost in the chip
  and is not represented; the properties are about bytes the FIFO took.  Any set of
  lines may be enabled or raised at reset, and the AM335x may have one in service,
  which its soft reset and NEWIRQAGR end; the GIC starts with none in service, since
  `gicv1_init` would not end it.  Line numbers from `MAX_IRQS` on do not occur.
- `boot`: twelve sections in the order of the QEMU board; `.bss` and the TLB
  hold garbage or nothing at reset.

- `user_calls`: words of seven bits with a window of 42 bytes in the middle,
  three decimal digits and four two-bit nibbles, so that wrap, window ends and
  the most negative int are all met; buffers on both sides of every boundary and
  lengths that reach from each across every other; listings of four threads cut
  at every byte; every format of up to three characters and the kernel's longer
  ones; a tick counter that wraps at 8 with delays up to 5 and readings at most
  `POLL_GAP` = 2 ticks apart.
- `shell`: a line of three characters and its terminator, words of which some
  begin others, digits, a blank; two processes; all keys at every moment.  An
  `int` has `INT_RANGE` = 8 values, so that of the digits 3 and 9 the second
  overflows it and wraps to the shell's own pid, the first names nobody, and an
  argument without digits names the other process.

The bounded counters are data sizes of the code (`RX_CAP`, `FIFO_DEPTH`,
`MAX_READ`, `WORD`), not limits on the length of a behaviour.

## 5. Properties of the core

- `WaitqHoldsSleepers`: every sleeper is queued once, nobody runnable is.
- `WakeupConsumed`: no request or hint survives into user mode, and a woken
  reader has run by then.
- `ParkedThreadsResumable`: one RUNNING thread; every other one is parked where
  `context_switch` can resume it.
- `WhoRunsUserCode`: a RUNNING thread, thread 0 in its first slice, or a DEAD
  thread when nobody else is runnable.
- `HandlerPaths`: the same story for the states in the middle of handlers.
- `FaultRetiresProcess`: a faulting process never executes again.
- `FaultFramesBounded`: the frames left on the ABT and UND stacks (60 bytes
  each, on 1 KB stacks, never popped) number at most `NUM_PROCESSES`; 17
  processes would still fit.
- `DeadOffCpuStaysDead`: no step revives a thread that died off the CPU.
- `StrandedBytesAreSurplus`: in user mode, with a reader asleep, the ring holds no
  more bytes than interrupts brought beyond their first one.

## 6. Fairness

`FairSpec` has weak fairness of kernel steps (straight-line code with IRQs
masked) and of the timer's expiry (periodic), and strong fairness of the two
interrupts: user code runs unmasked, a pending level-triggered line is taken at
the next instruction in user mode, so a line asserted for ever is not passed
over at every visit to user mode.  User programs and the keyboard have none: a
hog may compute for ever.  A pending interrupt may be taken later than the next
user instruction, which allows more behaviours than the CPU.

`IrqPath!Fairness` adds the PL011's receive timeout (weak: a byte that waits is
announced; `pl011.c:5` relies on "level + timeout", and `pl011_init` unmasks it)
and strong fairness of claiming either line, since the timer's period is far
longer than a handler.  `DevicesServed` needs the timeout: `pl011_rx_irq` clears
the interrupt of a byte that arrives between its last look at the FIFO and its
write to ICR.  A PL011 without the timeout would leave such a byte in the FIFO,
as the mutant `MutantNoReceiveTimeout` shows.  It promises nothing while an
enabled private device of the GIC keeps its line up (`Stuck`): that line has no
handler and is signalled again after every EOI.

`UserProgram!Fairness`: the timer goes on, the loop of a delay is scheduled again
and again, a call ends.  That the loop reads the clock at least every `POLL_GAP`
ticks is an assumption (`DelayAssumption`: a delay and that gap together stay
below the counter's range - 300 or 500 ticks against 2^32).  `Shell!Fairness` is
strong fairness of each thread's next step, since another thread inside
`sys_write` disables it for a while; keys and heartbeats have none.

## 7. Proofs

TLAPS checks the theorems below for every value of the constants, from the named
assumptions of each module (sizes are positive, ranges do not overlap, `NULL` is
no thread, a ring's size divides the counters' range, the shell's words are
distinct and hold no blank, the arrays for digits are long enough for the widest
unsigned int); TLC evaluates the same assumptions in the runs.  The
inductive invariants were checked by TLC on the instances of the runs before they
were proved.

**`KernelProofs`** - any number of processes and threads, any ring and FIFO size,
any choice of programs.  `Invariance` proves `Spec => []IInv` with

    IInv == TypeOK /\ WaitqHoldsSleepers /\ ParkedThreadsResumable
            /\ HandlerPaths /\ FaultRetiresProcess /\ FramesCounted

None of the properties is inductive alone.  That a wakeup goes to a thread
parked in `sys_read` needs the queue to hold only sleepers and corpses; that a
sleeper is always queued needs the queue to have room, which follows from its
having no duplicates (`QueueHasRoom`, by cardinality); that no request survives
into user mode needs to know at which points of which handlers one can be
pending (`HandlerPaths`); the bound on frames needs that each retired process
left one frame (`FramesCounted`), which needs that a retired process never runs
again.  One lemma per conjunct has one step per action; the theorems
`TypeCorrect`, `WaitqCorrect`, `ParkedCorrect`, `WakeupCorrect`, `PathsCorrect`,
`UserCodeCorrect`, `FaultCorrect`, `FramesCorrect` follow from `Invariance`, and
`DeadCorrect`, an action property, from it and a case per action.
`StrandedCorrect`, for a FIFO of any depth, adds `SInv`: if the ring holds more than
the surplus while a reader sleeps, it holds one byte more, and another reader is
already on its way to it.

Two more action properties are the safety halves of what `ReadyRuns` and
`OldestReaderServed` say under fairness.  `SweepCorrect`: every switch that no
wakeup asked for brings each thread that goes on waiting for the CPU nearer in the
sweep, so fewer than `NUM_THREADS` of them pass it over; it rests on what
`(prev + 1 + i) % NUM_THREADS` counts (`DistanceIs`, `DistanceShrinks`).
`OrderCorrect`: a wakeup reaches only the first sleeper, a kill leaves the others
in their order, and whoever falls asleep stands behind all of them.  It needs
`CurrentUnqueued`, that the thread on the CPU is in the queue only once it sleeps:
`WaitqHoldsSleepers` alone would allow a DEAD thread to be queued while it
still runs, and then to fall asleep at its old place.

**`InterruptProofs`**, the wait ring - any number of threads.  `RingShapeCorrect`;
`RingIsFifo`:
read from head to tail, the ring only gains an entry at its end or loses its
first; `FullRingHoldsAll`: a full ring contains every thread (entries are
distinct and there are as many slots as threads), so the `if` that refuses an
entry in `waitq_push` never loses a reader.  `WaitQueueRefinement`: the ring
implements `ReaderQueue`.  The mapping takes the BLOCKED threads as the sleepers
and the order of their slots as the order of falling asleep; `RInv` adds that
every sleeper is in the ring and that an entry is a sleeper or a corpse, so a pop
that skips a corpse is a stutter and one that finds a sleeper finds the oldest.

**`InterruptProofs`**, the receive ring - any size of ring, counter and character.
`NeverOverrunCorrect`,
and `RingImplementsQueue`: the ring with wrapping counters implements `ByteQueue`.
The argument is that head and tail are congruent to a position and a fill level
that do not wrap, so masking gives distinct
slots to the bytes in the ring, and that storing a byte in a `char` of either
sign and reading it back as unsigned loses nothing.

**`MachineProofs`**, the switch - any number of threads and processes.  `CInv` says whose
frames and whose user bank are in memory and whose are in the CPU at every step
of the switch; `ContextCorrect`, `AddressSpaceCorrect` and `KernelStackCorrect`
follow.

**`MachineProofs`**, boot and page tables - any memory layout allowed by `BootAssumption`.  `BInv` gives the
contents of every page table at every step and the tables the TLB's entries can
come from (up to the flush in `mmu_drop_identity`, from the one with the identity
map; during a switch, from any; otherwise from the one in TTBR0);
`KernelReachableCorrect`, `StrayPointersCorrect`, `IsolationCorrect` and
`ImagesCorrect` follow.

**`InterruptProofs`**, the interrupt path - both boards, any FIFO depth and trigger level, any number of
bytes during a handler, any lines enabled or raised at reset.
`HandlersCorrect`: from `irq_init` on a line other than the GIC's private ones is
enabled only after its handler is in the table (`LineInv`).  `TicksCorrect`: the handler runs only with the timer's
latch set, which nobody else clears (`TickInv`).  `WakeupsCorrect`: the UART's line
is low over an empty FIFO, so its handler starts with a byte to fetch, and what it
pushed it announces before it ends (`ByteInv`).

**`FormatProofs`** - any width of an unsigned int, any radix from 2 to 10, any
size of a nibble up to 16, any size of the line buffer, any format and string.
The loops of `Format` are recursive functions, and what they compute is proved by
induction on sets of numbers: `Induction` (from the well-foundedness of `<`),
`Recursion` (a function whose values are made of the earlier ones exists) and
`Loop` (so does one that goes on by a step) give a recursive definition its
equation, after which its values are found step by step.  `DecExact`: the digits
`put_dec` leaves in `tmp`, read backwards, denote the number, fit the array and do
not begin with a zero.  `Int32Exact`: the detour over `val + 1` negates the most
negative int too.  `HexExact`: the nibbles do the same, and `put_hex`, which drops
leading zeros as it goes, shows what `uart_printf` finds by searching downwards.
`PrintfExact`: the one walks over the format writing into a buffer, the other
writing to the UART, and the first's text is the second's, cut at the buffer's end.
`MessageInvariance` proves `PrintInv`: a message is what `ulib_printf` makes of
arguments the program has, since every other step leaves a call of another name
(`CallNames`).  `NumeralsCorrect` and `PrintfsCorrect` follow for every message.

**`UserProgramProofs`** - any width of the tick counter, of addresses and of the
window, any number of processes and threads, any names.  `NeverEarlyCorrect` and
`OnTimeCorrect` rest on `ClockFromStart`: the clock is the start plus the ticks
waited, modulo the counter's range, and fewer ticks than that range have come.
`PointerCheckExact`: the wrapping comparison accepts exactly the ranges inside the
window.  `CallInvariance` proves `CallInv`, from which `ConfinementCorrect` (no byte
outside the window is touched), `ResultsCorrect` (what comes back in r0 is true) and
`ListingCorrect` (`sys_ps` stores the beginning of the listing that the buffer has
room for) follow.  Its conjunct `ListingInv` says that after i threads the buffer
holds the first i lines, cut to the buffer; it is kept because every copying loop
of `sys_ps` cuts what it appends in the same way (`CutCopy`), so that a
cut text with a cut continuation is the cut of the whole text.

**`ShellProofs`** - any line length, keys, command table and pids.

- `LineFitsCorrect`; `MessagesWholeCorrect`, since at most one thread is inside a
  write (`MInv`); what a command prints in two writes, as echo does, may be parted
  between them.
- `LineEditorRefinement`: the array, with the stale bytes of earlier lines behind
  its terminator, and the C string functions implement `LineEditor`.
  `DispatchIsInterpret` is the core: what `skip_spaces` and `match_word` find in the
  array is the command of the line's first word (`MatchIsFirstWord`), with the rest
  behind the blanks as its argument (`ArgIsRest`).  `EditInv` says that the counted
  characters are visible ones, so that no stale terminator is among them.

**`TerminalProofs`** - the same generality.  `ScreenCorrect`: while nobody else
writes, a shell that waits for a key shows the prompt and exactly what Enter would
run.  `ScreenInv` describes the row byte by byte of every write: waiting, echoing
the last character, erasing one (back, blank, back), or answering a command, where
`Orderly` says that whatever wants to start on an empty row - the prompt, the
kernel's line about a kill - comes after something that ended in a line feed or
cleared the screen.

**`DeathProofs`** - the same generality, and any width of an `int`.  `AtoiExact`:
`ulib_atoi`, which multiplies, adds and wraps digit by digit, returns the weighted sum of the
leading digits modulo the number of ints, for an argument of any length; wrapping
early or late makes no difference (`DigitWraps`), and the sum of a longer prefix
is the shorter one moved up by one weight (`NextWeight`, `ReadsSum`).
`DeathsCorrect`: a process dies whole, and only by the command that was run.
`DeathInv` says of every kill that waits in the shell's script of writes whose it
is: the running command's, with the pid its argument denotes.

Only model-checked: liveness (`ReadyRuns`, `OldestReaderServed`, `DevicesServed`,
`DelayEnds`, `PromptReturns`), since fairness is out of the prover's reach.  Every
other property of the passing runs is a theorem.

## 8. Not modelled

- Register dumps, `mmu_print_status`, the boot banner, clock set-up of the
  BeagleBone's timer, baud rates: output and constants.
- Kernel-mode faults and FIQ: they print and halt.
- `switch_count`, which nobody reads; byte contents in `Kernel` (they are in
  `RxRing`).
- `ulib_putu`, `ulib_putx`, `ulib_strcmp`, `uart_print_hex`: no caller that a
  property could be about.  `NULL` passed for `%s`.
- Control characters other than Enter and the erase keys at the shell's
  keyboard: the code stores and echoes them like visible ones.
- crt0: a jump on r0 to `main` or `thread_main`, and `sys_exit` behind them.
- The linker scripts: the layout `Boot` needs of them is `BootAssumption`.
- Weak memory order: coprocessor writes take effect in program order, as the
  barriers in the code provide.

## 9. Plan

Every part of the source that changes state is modelled, apart from the list
above, and every safety property of the passing runs is proved.  `Kernel`'s queue
does not implement `ReaderQueue` step for step, as the ring does: one `sys_kill`
of `Kernel` removes several sleepers, and one interrupt both asks for a wakeup and
performs it.  `OrderCorrect` states the same promise directly.
