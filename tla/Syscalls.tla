------------------------------ MODULE Syscalls ------------------------------
(***************************************************************************)
(* The system calls as the caller sees them: which memory of the caller    *)
(* the kernel touches, and what comes back in r0.                          *)
(*                                                                         *)
(* A handler runs with interrupts masked, so a call is one step here, and  *)
(* sys_ps one step for each turn of its loop; what a call does to threads  *)
(* and scheduler, sys_read's sleep included, is in Kernel.  Addresses and  *)
(* lengths are uint32_t and wrap at UINT.                                  *)
(***************************************************************************)
EXTENDS Format

CONSTANTS
  USER_VIRT_BASE,    \* 0x40000000 in the code
  USER_REGION_SIZE,  \* 0x00100000 in the code
  Names,             \* the processes' names, by pid, from 1
  THREADS_PER_PROC,
  PS_NAME_W,         \* 7 in the code: the widest name
  RX_BYTES,          \* most bytes the ring holds when sys_read looks
  Buffers, Lengths,  \* addresses and sizes passed as a buffer
  Snapshots,         \* states the threads are in when sys_ps looks
  NumArgs            \* numbers tried as system call and as pid

ASSUME SyscallsAssumption ==
  /\ USER_VIRT_BASE \in Nat /\ USER_REGION_SIZE \in Nat
  /\ UINT >= 4
  /\ USER_VIRT_BASE + USER_REGION_SIZE < UINT
  /\ 2 * USER_REGION_SIZE < UINT
  /\ THREADS_PER_PROC \in 1 .. 10
  /\ PS_NAME_W \in Nat
  /\ Names \in Seq(Seq(STRING)) /\ \A p \in DOMAIN Names : Len(Names[p]) <= PS_NAME_W
  /\ RX_BYTES \in Nat \ {0}
  /\ Buffers \subseteq UInts /\ Lengths \subseteq UInts /\ NumArgs \subseteq UInts

VARIABLE call  \* the call just made and what it did, or NoCall

NUM_PROCESSES == Len(Names)

NUM_THREADS == NUM_PROCESSES * THREADS_PER_PROC

Tids == 0 .. NUM_THREADS - 1

state_name ==
  [READY |-> <<"R", " ">>, RUNNING |-> <<"U", "N">>, BLOCKED |-> <<"B", "L">>, DEAD |-> <<"D", " ">>]

ASSUME SnapshotsAssumption == Snapshots \subseteq [Tids -> DOMAIN state_name]

NR_SYSCALLS == 8

E_BADCALL == AsUnsigned(-1)
E_FAULT   == AsUnsigned(-2)

\* The window every process has, and the addresses a range covers.
Window == USER_VIRT_BASE .. USER_VIRT_BASE + USER_REGION_SIZE - 1

Touches(addr, n) == {(addr + i) % UINT : i \in 0 .. n - 1}

-----------------------------------------------------------------------------
\* Mutant: no test for the wrap of addr + len.
MutantNoOverflowTest(addr, len) ==
  LET end == (addr + len) % UINT
  IN /\ ~(addr < USER_VIRT_BASE)
     /\ ~(end > USER_VIRT_BASE + USER_REGION_SIZE)

\* Mutant: the byte before the end of the window is taken for outside.
MutantEndExclusive(addr, len) ==
  LET end == (addr + len) % UINT
  IN /\ ~(end < addr)
     /\ ~(addr < USER_VIRT_BASE)
     /\ ~(end >= USER_VIRT_BASE + USER_REGION_SIZE)

valid_user_ptr(addr, len) ==
  LET end == (addr + len) % UINT
  IN /\ ~(end < addr)
     /\ ~(addr < USER_VIRT_BASE)
     /\ ~(end > USER_VIRT_BASE + USER_REGION_SIZE)

-----------------------------------------------------------------------------
(* The text of sys_ps.  A character is stored while n + 1 < size. *)

Room(out, size) == IF Len(out) + 1 < size THEN size - 1 - Len(out) ELSE 0

\* The copying loops: as much of s as fits.
CopyWhileFits(out, s, size) ==
  out \o SubSeq(s, 1, IF Len(s) <= Room(out, size) THEN Len(s) ELSE Room(out, size))

\* Mutant: the padding is not limited by the buffer.
MutantPadUnbounded(out, width, size) ==
  out \o [i \in 1 .. width |-> " "]

\* The loop that pads the name.
PadWhileFits(out, width, size) ==
  CopyWhileFits(out, [i \in 1 .. width |-> " "], size)

NameOf(t) == Names[t \div THREADS_PER_PROC + 1]

\* The five characters between the name and the state.
Index(t) == <<" ", "t", digit[t % THREADS_PER_PROC], " ", " ">>

\* One turn of the loop over the threads: the text so far, and whether one of
\* the six tests in front of a single character left the loop.
PsLine(out, t, states, size) ==
  LET named  == CopyWhileFits(out, NameOf(t), size)
      padded == PadWhileFits(named, PS_NAME_W - (Len(named) - Len(out)), size)
      mid    == CopyWhileFits(padded, Index(t), size)
      st     == CopyWhileFits(mid, state_name[states[t]], size)
  IN IF Len(mid) < Len(padded) + 5 THEN [out |-> mid, break |-> TRUE]
     ELSE IF Len(st) + 1 >= size THEN [out |-> st, break |-> TRUE]
     ELSE [out |-> Append(st, "\n"), break |-> FALSE]

-----------------------------------------------------------------------------
(* The calls. *)

NoCall == [op |-> "none"]

SyscallsInit == call = NoCall

\* A call that used no memory of the caller.
Returns(op, result) ==
  call' = [op |-> op, result |-> result, touched |-> {}]

\* A call on a buffer: what was asked, what was touched, what was returned.
ReturnsFrom(op, buf, len, n, result) ==
  call' = [op |-> op, buf |-> buf, len |-> len, result |-> result, touched |-> Touches(buf, n)]

sys_write(buf, len) ==
  IF ~valid_user_ptr(buf, len)
  THEN ReturnsFrom("write", buf, len, 0, E_FAULT)
  ELSE ReturnsFrom("write", buf, len, len, AsUnsigned(len))

\* The ring holds k bytes when the loop first finds it not empty.
sys_read(buf, len, k) ==
  LET n == IF k < len THEN k ELSE len
  IN IF len = 0
     THEN ReturnsFrom("read", buf, len, 0, 0)
     ELSE IF ~valid_user_ptr(buf, len)
     THEN ReturnsFrom("read", buf, len, 0, E_FAULT)
     ELSE ReturnsFrom("read", buf, len, n, AsUnsigned(n))

\* Nothing moves while the listing is written, so it is of one moment.
sys_ps(buf, size, states) ==
  IF ~valid_user_ptr(buf, size)
  THEN ReturnsFrom("ps", buf, size, 0, E_FAULT)
  ELSE call' = [op |-> "listing", buf |-> buf, len |-> size, states |-> states, out |-> << >>, i |-> 0]

PsReturn(out) ==
  call' = [op |-> "ps", buf |-> call.buf, len |-> call.len, result |-> AsUnsigned(Len(out)),
           touched |-> Touches(call.buf, Len(out)), states |-> call.states, text |-> out]

\* The loop over the threads, and its end.
PsLoop ==
  /\ call.op = "listing"
  /\ call.i < NUM_THREADS
  /\ LET line == PsLine(call.out, call.i, call.states, call.len)
     IN IF line.break THEN PsReturn(line.out)
        ELSE call' = [call EXCEPT !.out = line.out, !.i = @ + 1]

PsDone ==
  /\ call.op = "listing"
  /\ call.i = NUM_THREADS
  /\ PsReturn(call.out)

sys_kill(pid) ==
  IF pid >= NUM_PROCESSES THEN Returns("kill", E_BADCALL) ELSE Returns("kill", 0)

sys_getpid(pid) == Returns("getpid", AsUnsigned(pid))

\* syscall_dispatch with a number outside the table.
BadCall(num) ==
  /\ num >= NR_SYSCALLS
  /\ Returns("bad", E_BADCALL)

\* Back in user mode.
SyscallReturn == call' = NoCall

MakeCall ==
  \/ \E buf \in Buffers, len \in Lengths : sys_write(buf, len)
  \/ \E buf \in Buffers, len \in Lengths, k \in 1 .. RX_BYTES : sys_read(buf, len, k)
  \/ \E buf \in Buffers, size \in Lengths, states \in Snapshots : sys_ps(buf, size, states)
  \/ \E pid \in NumArgs : sys_kill(pid)
  \/ \E pid \in 0 .. NUM_PROCESSES - 1 : sys_getpid(pid)
  \/ \E num \in NumArgs : BadCall(num)

-----------------------------------------------------------------------------
\* The kernel touches no byte outside the caller's window, whatever pointer
\* and length it is given.
PointersConfined == call.op \in {"write", "read", "ps"} => call.touched \subseteq Window

\* What a buffer call answers is true: an error exactly when the range the caller
\* named does not lie between the window's ends or wraps (an empty range outside
\* them is an error too, except for read, which answers 0 to a length of 0 before
\* it looks at the pointer), and otherwise the number of bytes moved, which start
\* at the buffer, never exceed the length, and are not negative read as an int.
ResultTruthful ==
  call.op \in {"write", "read", "ps"} =>
    LET result == AsSigned(call.result)
        inside == call.buf >= USER_VIRT_BASE /\ call.buf + call.len <= USER_VIRT_BASE + USER_REGION_SIZE
    IN /\ call.op = "read" /\ call.len = 0 => result = 0
       /\ call.op # "read" \/ call.len > 0 => (result = -2 <=> ~inside)
       /\ result # -2 =>
            /\ result \in 0 .. call.len
            /\ call.touched = call.buf .. call.buf + result - 1

\* A line of the listing; all have the same width, as no name is wider than
\* its column.
Line(t, states) ==
  PadRight(NameOf(t), PS_NAME_W) \o Index(t) \o state_name[states[t]] \o <<"\n">>

LineWidth == PS_NAME_W + 8

\* The whole listing, of which sys_ps may show the beginning.
Listing(states) ==
  [k \in 1 .. NUM_THREADS * LineWidth |->
     Line((k - 1) \div LineWidth, states)[((k - 1) % LineWidth) + 1]]

\* What a buffer of this size has room for, one byte always left.
Cut(text, size) ==
  SubSeq(text, 1, IF Len(text) < size THEN Len(text) ELSE IF size = 0 THEN 0 ELSE size - 1)

\* sys_ps fills the buffer with the listing from its beginning and stops one
\* byte short of the buffer's end, in whatever field that is.
PsShowsListing ==
  (call.op = "ps" /\ AsSigned(call.result) # -2) => call.text = Cut(Listing(call.states), call.len)

=============================================================================
