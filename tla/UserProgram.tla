----------------------------- MODULE UserProgram -----------------------------
(***************************************************************************)
(* A user thread that makes calls, prints and waits, with the timer        *)
(* running beside it.                                                      *)
(***************************************************************************)
EXTENDS Delay, Syscalls

CONSTANTS
  Formats,  \* formats handed to ulib_printf
  Numbers,  \* arguments of %u, %x, %p
  Strings,  \* arguments of %s
  Char      \* the argument of %c

ASSUME ProgramAssumption ==
  /\ Formats \subseteq Seq(Characters) /\ Strings \subseteq Seq(Characters) /\ Char \in Characters
  /\ Numbers \subseteq UInts

progVars == <<tick_count, pc, ticks, start, now, waited, unseen, call>>

Init == DelayInit /\ SyscallsInit

\* Interrupts are masked from the svc to the return.
Tick ==
  /\ call = NoCall
  /\ timer_tick
  /\ UNCHANGED call

Wait ==
  /\ call = NoCall
  /\ (\E d \in DELAYS : DelayStart(d)) \/ DelayLoop
  /\ UNCHANGED call

\* sys_ticks and sys_yield are the loop's; the other calls come outside it.
Call ==
  /\ call = NoCall
  /\ pc = "run"
  /\ MakeCall
  /\ UNCHANGED delayVars

\* One message, composed in the thread's own buffer and written by one call.
Message(fmt, v, s) ==
  /\ call = NoCall
  /\ pc = "run"
  /\ call' = [op |-> "printf", fmt |-> fmt, v |-> v, s |-> s, text |-> ulib_printf(fmt, v, s, Char)]
  /\ UNCHANGED delayVars

\* The kernel at work on the listing.
Ps ==
  /\ PsLoop \/ PsDone
  /\ UNCHANGED delayVars

Return ==
  /\ call # NoCall
  /\ call.op # "listing"
  /\ SyscallReturn
  /\ UNCHANGED delayVars

Next ==
  \/ Tick
  \/ Wait
  \/ Call
  \/ \E fmt \in Formats, v \in Numbers, s \in Strings : Message(fmt, v, s)
  \/ Ps
  \/ Return

\* The timer goes on, the scheduler is fair, and a call in the kernel ends.
Fairness ==
  /\ WF_progVars(Tick)
  /\ WF_progVars(Wait /\ pc # "run")
  /\ WF_progVars(Ps \/ Return)

Spec == Init /\ [][Next]_progVars /\ Fairness
-----------------------------------------------------------------------------
\* Every numeral the formatters write denotes the number it was given, without
\* leading zeros and within the array its digits pass through; the most
\* negative int included.
NumeralsExact ==
  call.op = "printf" =>
    LET v == call.v
        i == AsSigned(v)
    IN /\ Value(Dec(v), RADIX) = v
       /\ Len(Dec(v)) <= DEC_DIGITS
       /\ v # 0 => Dec(v)[1] # "0"
       /\ Int32(i) = IF i < 0 THEN <<"-">> \o Dec(-i) ELSE Dec(i)
       /\ Value(UartHex(v), NIBBLE) = v
       /\ Value(Hex8(v), NIBBLE) = v
       /\ v # 0 => UartHex(v)[1] # "0"
       /\ v = 0 => UartHex(v) = <<"0">>

\* A program's message is what the kernel's printf would print, cut at the
\* buffer's size and never split.
PrintfsAgree ==
  call.op = "printf" =>
    LET text == uart_printf(call.fmt, call.v, call.s, Char)
        n    == IF Len(text) < ULIB_LINE_MAX THEN Len(text) ELSE ULIB_LINE_MAX
    IN Common(call.fmt, text) => call.text = SubSeq(text, 1, n)

=============================================================================
