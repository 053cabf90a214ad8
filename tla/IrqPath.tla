------------------------------- MODULE IrqPath -------------------------------
(***************************************************************************)
(* The way of an interrupt: UART and timer chips, interrupt controller,    *)
(* irq_dispatch and the drivers, from their initialisation in kmain to the *)
(* handlers running beside the live devices.  Module Kernel takes each     *)
(* interrupt as one step; this module has the steps.                       *)
(*                                                                         *)
(* Two boards share the code above the chips: "qemu" has a PL011, an SP804 *)
(* and a GIC, "bbb" an NS16550, a DMTIMER and an AM335x INTC.  The chips   *)
(* behave as their register interfaces are used by the drivers: the PL011  *)
(* raises RX when its FIFO fills to a trigger level and RT when a byte has *)
(* waited for a while, and both are cleared by reading or through ICR; the *)
(* NS16550's line is high while its FIFO holds a byte.  No line is         *)
(* signalled to the CPU while another is in service.                       *)
(*                                                                         *)
(* What schedule() does at the end of handle_irq, and the system calls     *)
(* between two interrupts, are module Kernel's.                            *)
(***************************************************************************)
EXTENDS Naturals, FiniteSets

CONSTANTS
  FIFO_DEPTH,   \* bytes in the UART's receive FIFO
  RX_TRIGGER,   \* fill level at which the PL011 raises RX
  ARRIVALS,     \* bytes the serial line can deliver during one handler
  NONE          \* no interrupt in service

ASSUME IrqPathAssumption ==
  /\ FIFO_DEPTH \in Nat \ {0}
  /\ RX_TRIGGER \in 1 .. FIFO_DEPTH
  /\ ARRIVALS \in Nat

Boards == {"qemu", "bbb"}

\* The GIC's private lines, 0 .. 31: one that software or another agent raises,
\* one of a per-CPU device.
Private == {"sgi", "ppi"}

\* The two lines the kernel uses, a third shared one, and the private ones,
\* none of which it looks at.  Numbers from MAX_IRQS on do not occur: both
\* boards' controllers have at most that many lines.
Lines == {"timer", "uart", "other"} \cup Private

\* get_active's answer for a spurious interrupt.
MAX_IRQS == "MAX_IRQS"

VARIABLES
  board,
  pc,        \* next step of kmain or of the IRQ path; "user" with IRQs unmasked
  imsc,      \* interrupt sources enabled in the UART (IMSC, IER)
  ris,       \* the PL011's raw interrupt status
  fifo,      \* bytes in the UART's FIFO
  running,   \* the timer counts
  overflow,  \* the timer's interrupt latch
  stray,     \* lines raised by something the kernel never looks at
  enabled,   \* lines enabled in the controller
  active,    \* what the controller holds in service
  irq_table, \* lines with a registered handler
  n,         \* local of irq_dispatch
  arrivals,  \* bytes received since the CPU entered the handler
  owed,      \* history: timer periods that ended and are not in tick_count
  pushed     \* history: a byte went into the ring since the last wakeup

vars == <<board, pc, imsc, ris, fifo, running, overflow, stray, enabled, active,
          irq_table, n, arrivals, owed, pushed>>

uartVars == <<imsc, ris, fifo>>
timerVars == <<running, overflow, stray>>
intcVars == <<enabled, active, irq_table>>

\* The lines of the board's controller.
Wired == IF board = "qemu" THEN Lines ELSE Lines \ Private

\* Whatever ran before left lines enabled or raised, the latch set, or (AM335x)
\* an interrupt in service.  The GIC starts with none in service, since
\* gicv1_init would not end it.
Init ==
  /\ board \in Boards
  /\ pc = "uart_init"
  /\ imsc = {} /\ ris = {} /\ fifo = 0
  /\ running = FALSE
  /\ overflow \in BOOLEAN
  /\ stray \in SUBSET (Wired \ {"timer", "uart"})
  /\ enabled \in SUBSET Wired
  /\ active \in IF board = "bbb" THEN {NONE, "other"} ELSE {NONE}
  /\ irq_table = {}
  /\ n = MAX_IRQS
  /\ arrivals = 0
  /\ owed = IF overflow THEN 1 ELSE 0
  /\ pushed = FALSE

UartLine ==
  IF board = "qemu" THEN imsc \cap ris # {} ELSE "RHR" \in imsc /\ fifo > 0

Asserted ==
  {l \in Lines : CASE l = "uart"  -> UartLine
                   [] l = "timer" -> overflow
                   [] OTHER       -> l \in stray}

Pending == enabled \cap Asserted

-----------------------------------------------------------------------------
(* kmain's bring-up, IRQs masked.                                          *)

\* Mutant: the receive timeout stays masked.
MutantNoReceiveTimeout ==
  /\ imsc' = {"RX"}
  /\ UNCHANGED <<ris, fifo>>

pl011_init ==
  /\ imsc' = {"RX", "RT"}
  /\ UNCHANGED <<ris, fifo>>

\* FCR clears the FIFO; IER enables the receive interrupt.
ns16550_init ==
  /\ imsc' = {"RHR"}
  /\ fifo' = 0
  /\ UNCHANGED ris

uart_init ==
  /\ pc = "uart_init"
  /\ IF board = "qemu" THEN pl011_init ELSE ns16550_init
  /\ pc' = "irq_init"
  /\ UNCHANGED <<board, timerVars, intcVars, n, arrivals, owed, pushed>>

\* Mutant: lines that were enabled before stay enabled.
MutantGicKeepsLines == UNCHANGED <<enabled, active>>

\* Every shared line disabled, then distributor and CPU interface on.  The loop
\* over ICENABLER starts at line 32 and leaves the private ones as they were.
gicv1_init ==
  /\ enabled' = enabled \cap Private
  /\ UNCHANGED active

\* Soft reset, every line masked, NEWIRQAGR.
am335x_intc_init ==
  /\ enabled' = {}
  /\ active' = NONE

irq_init ==
  /\ pc = "irq_init"
  /\ irq_table' = {}
  /\ IF board = "qemu" THEN gicv1_init ELSE am335x_intc_init
  /\ pc' = "timer_init"
  /\ UNCHANGED <<board, uartVars, timerVars, n, arrivals, owed, pushed>>

\* The SP804 keeps its latch.
sp804_init == UNCHANGED <<overflow, owed>>

\* Soft reset, and IRQSTATUS written with ones.
dmtimer_init ==
  /\ overflow' = FALSE
  /\ owed' = 0

timer_init ==
  /\ pc = "timer_init"
  /\ IF board = "qemu" THEN sp804_init ELSE dmtimer_init
  /\ running' = TRUE
  /\ pc' = "enable_timer"
  /\ UNCHANGED <<board, uartVars, stray, intcVars, n, arrivals, pushed>>

\* irq_register(line, fn); irq_enable(line).
RegisterAndEnable(line) ==
  /\ irq_table' = irq_table \cup {line}
  /\ enabled' = enabled \cup {line}
  /\ UNCHANGED active

EnableTimer ==
  /\ pc = "enable_timer"
  /\ RegisterAndEnable("timer")
  /\ pc' = "enable_uart"
  /\ UNCHANGED <<board, uartVars, timerVars, n, arrivals, owed, pushed>>

\* Then the rest of kmain, and the first thread in user mode.
EnableUart ==
  /\ pc = "enable_uart"
  /\ RegisterAndEnable("uart")
  /\ pc' = "user"
  /\ UNCHANGED <<board, uartVars, timerVars, n, arrivals, owed, pushed>>

-----------------------------------------------------------------------------
(* The IRQ exception: irq_dispatch and the drivers.                        *)

EnterHandler ==
  /\ pc = "user"
  /\ pc' = "irq_dispatch"
  /\ arrivals' = 0
  /\ UNCHANGED <<board, uartVars, timerVars, intcVars, n, owed, pushed>>

IrqEntry == active = NONE /\ Pending # {} /\ EnterHandler

\* The line that interrupted the CPU is gone before anybody looks.
Glitch == Pending = {} /\ EnterHandler

\* get_active: IAR or SIR_IRQ.  A line becomes in service by being read, which
\* also takes back what software raised; a spurious SIR_IRQ holds the AM335x
\* until NEWIRQAGR.
get_active(line) ==
  /\ pc = "irq_dispatch"
  /\ line \in Pending \/ (line = MAX_IRQS /\ Pending = {})
  /\ n' = line
  /\ active' = IF line = MAX_IRQS /\ board = "qemu" THEN active ELSE line
  /\ stray' = stray \ ({line} \cap {"sgi"})
  /\ pc' = CASE line = "timer" /\ line \in irq_table -> "timer_irq"
             [] line = "uart" /\ line \in irq_table  -> "uart_irq"
             [] OTHER                                -> "eoi"
  /\ UNCHANGED <<board, uartVars, running, overflow, enabled, irq_table, arrivals, owed, pushed>>

\* sp804_irq, dmtimer_irq: acknowledge first ...
TimerAck ==
  /\ pc = "timer_irq"
  /\ overflow' = FALSE
  /\ pc' = "timer_tick"
  /\ UNCHANGED <<board, uartVars, running, stray, intcVars, n, arrivals, owed, pushed>>

\* Mutant: the latch is cleared (again) after counting.
MutantTickThenAck ==
  /\ pc = "timer_tick"
  /\ owed' = owed - 1
  /\ overflow' = FALSE
  /\ pc' = "eoi"
  /\ UNCHANGED <<board, uartVars, running, stray, intcVars, n, arrivals, pushed>>

\* ... then tick_count++ and scheduler_tick.
timer_tick ==
  /\ pc = "timer_tick"
  /\ owed' = owed - 1
  /\ pc' = "eoi"
  /\ UNCHANGED <<board, uartVars, timerVars, intcVars, n, arrivals, pushed>>

\* The loop condition: FR.RXFE, LSR.DR.
UartPoll ==
  /\ pc = "uart_irq"
  /\ pc' = CASE fifo > 0                    -> "uart_read"
             [] fifo = 0 /\ board = "qemu"  -> "uart_ack"
             [] fifo = 0 /\ board = "bbb"   -> "uart_wake"
  /\ UNCHANGED <<board, uartVars, timerVars, intcVars, n, arrivals, owed, pushed>>

\* Read DR or RHR, uart_rx_push.
UartRead ==
  /\ pc = "uart_read"
  /\ fifo' = fifo - 1
  /\ ris' = ris \ ((IF fifo' < RX_TRIGGER THEN {"RX"} ELSE {})
                   \cup (IF fifo' = 0 THEN {"RT"} ELSE {}))
  /\ pushed' = TRUE
  /\ pc' = "uart_irq"
  /\ UNCHANGED <<board, imsc, timerVars, intcVars, n, arrivals, owed>>

\* Mutant: the PL011 handler returns from here.
MutantAckOnly ==
  /\ pc = "uart_ack"
  /\ ris' = {}
  /\ pc' = "eoi"
  /\ UNCHANGED <<board, imsc, fifo, timerVars, intcVars, n, arrivals, owed, pushed>>

\* PL011 only: ICR := RX | RT, whatever arrived since the last poll.
UartAck ==
  /\ pc = "uart_ack"
  /\ ris' = {}
  /\ pc' = "uart_wake"
  /\ UNCHANGED <<board, imsc, fifo, timerVars, intcVars, n, arrivals, owed, pushed>>

UartWake ==
  /\ pc = "uart_wake"
  /\ pushed' = FALSE
  /\ pc' = "eoi"
  /\ UNCHANGED <<board, uartVars, timerVars, intcVars, n, arrivals, owed>>

\* EOIR with the number that was read, 1023 if spurious.
gicv1_eoi == active' = IF n = active THEN NONE ELSE active

\* NEWIRQAGR, whatever the number.
am335x_intc_eoi == active' = NONE

\* The end of irq_dispatch, then handle_irq returns to user mode.
Eoi ==
  /\ pc = "eoi"
  /\ IF board = "qemu" THEN gicv1_eoi ELSE am335x_intc_eoi
  /\ pc' = "user"
  /\ UNCHANGED <<board, uartVars, timerVars, enabled, irq_table, n, arrivals, owed, pushed>>

-----------------------------------------------------------------------------
(* The devices.                                                            *)

\* A byte the FIFO has room for; one that finds it full is lost in the chip.
UartReceive ==
  /\ imsc # {}
  /\ fifo < FIFO_DEPTH
  /\ arrivals < ARRIVALS \/ pc = "user"
  /\ fifo' = fifo + 1
  /\ ris' = IF board = "qemu" /\ fifo' = RX_TRIGGER THEN ris \cup {"RX"} ELSE ris
  /\ arrivals' = IF pc = "user" THEN arrivals ELSE arrivals + 1
  /\ UNCHANGED <<board, pc, imsc, timerVars, intcVars, n, owed, pushed>>

\* The PL011's receive timeout.
ReceiveTimeout ==
  /\ board = "qemu"
  /\ fifo > 0
  /\ "RT" \notin ris
  /\ ris' = ris \cup {"RT"}
  /\ UNCHANGED <<board, pc, imsc, fifo, timerVars, intcVars, n, arrivals, owed, pushed>>

TimerExpire ==
  /\ running
  /\ ~overflow
  /\ overflow' = TRUE
  /\ owed' = owed + 1
  /\ UNCHANGED <<board, pc, uartVars, running, stray, intcVars, n, arrivals, pushed>>

-----------------------------------------------------------------------------

BringUp == uart_init \/ irq_init \/ timer_init \/ EnableTimer \/ EnableUart

Drivers == TimerAck \/ timer_tick \/ UartPoll \/ UartRead \/ UartAck \/ UartWake

Dispatch == \E line \in Lines \cup {MAX_IRQS} : get_active(line)

Next ==
  \/ BringUp
  \/ IrqEntry \/ Glitch \/ Dispatch \/ Drivers \/ Eoi
  \/ UartReceive \/ ReceiveTimeout \/ TimerExpire

Spec == Init /\ [][Next]_vars

\* The CPU executes; a signalled interrupt is taken in user mode; a byte that
\* waits times out; and the timer, whose period is far longer than a handler,
\* leaves the UART its turn.
Fairness ==
  /\ WF_vars(BringUp \/ Dispatch \/ Drivers \/ Eoi)
  /\ SF_vars(IrqEntry)
  /\ SF_vars(get_active("uart"))
  /\ SF_vars(get_active("timer"))
  /\ WF_vars(ReceiveTimeout)

FairSpec == Spec /\ Fairness

-----------------------------------------------------------------------------
(* Properties.                                                             *)

\* irq_dispatch finds no shared line without a handler, whatever was enabled or
\* raised before the kernel started: such a line would never be acknowledged,
\* and would interrupt again after every EOI.  The exception is a private line
\* of the GIC that was left enabled, which gicv1_init does not disable.
SharedLinesHaveHandlers ==
  pc = "eoi" =>
    \/ n \in irq_table \cup {MAX_IRQS}
    \/ board = "qemu" /\ n \in Private

\* Every period of the timer that ended while its latch was clear is counted
\* once in tick_count: one that ends between the acknowledge and the count, or
\* between the count and the EOI, is still latched for the next interrupt.
TicksAccounted ==
  owed = (IF overflow THEN 1 ELSE 0) + (IF pc = "timer_tick" THEN 1 ELSE 0)

\* A wakeup follows the bytes it announces: none is left in the ring unannounced
\* when the handler returns, and scheduler_wake_reader is never called for an
\* interrupt that brought no byte.
WakeupFollowsBytes ==
  /\ pc = "user" => ~pushed
  /\ pc \in {"uart_ack", "uart_wake"} => pushed

\* A private device that was left enabled and keeps its line up: the GIC signals
\* it again after every EOI, and nothing else is promised its turn.
Stuck == "ppi" \in Pending

\* No tick, and no byte the FIFO took, gets stuck: a byte that arrives between the
\* last poll and the write to ICR, which discards its interrupt, is fetched after
\* the receive timeout; and a spurious or private interrupt that nobody handles
\* is ended and lets the next one in.
DevicesServed ==
  /\ (fifo > 0 /\ ~Stuck) ~> fifo = 0
  /\ (running /\ overflow /\ ~Stuck) ~> ~overflow

=============================================================================
