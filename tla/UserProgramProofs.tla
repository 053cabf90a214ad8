------------------------- MODULE UserProgramProofs -------------------------
(***************************************************************************)
(* A program's delays are never early and never a turn of the counter      *)
(* late, for every width of the counter, every delay and every polling gap *)
(* that fit it.  The kernel's pointer check confines it to the program's   *)
(* window, a call's result says what the call did, and a listing is the    *)
(* beginning of the thread table, for every width of an address, every     *)
(* place of the window and every number of threads.  FormatProofs has the  *)
(* program's messages.                                                     *)
(***************************************************************************)
EXTENDS UserProgram, SequenceTheorems, TLAPS

-----------------------------------------------------------------------------
(* The delay loop.                                                         *)

\* A sum of two words, or of three, is brought back below WORD by at most one
\* or two subtractions.
LEMMA WrapSum ==
  ASSUME NEW w \in Nat \ {0}, NEW a \in 0 .. 3 * w - 1
  PROVE  a % w = IF a < w THEN a ELSE IF a < 2 * w THEN a - w ELSE a - 2 * w
OBVIOUS

\* An unsigned difference of two words is the difference or that plus WORD.
LEMMA WrapDifference ==
  ASSUME NEW w \in Nat \ {0}, NEW a \in (-w) .. (w - 1)
  PROVE  a % w = IF a < 0 THEN a + w ELSE a
OBVIOUS

\* Unsigned subtraction undoes wrapped addition of less than WORD.
LEMMA DifferenceOfSum ==
  ASSUME NEW w \in Nat \ {0}, NEW s \in 0 .. w - 1, NEW e \in 0 .. w - 1
  PROVE  (((s + e) % w) - s) % w = e
<1>w. \A x \in 0 .. 3 * w - 1 :
        x % w = IF x < w THEN x ELSE IF x < 2 * w THEN x - w ELSE x - 2 * w
  BY WrapSum, Zenon
<1> DEFINE n == (s + e) % w
<1>0. s + e \in 0 .. 3 * w - 1 /\ s + e < 2 * w
  OBVIOUS
<1>1. n = IF s + e < w THEN s + e ELSE s + e - w
  BY <1>0, <1>w
<1>2. n - s \in (-w) .. (w - 1)
  BY <1>1
<1>3. (n - s) % w = IF n - s < 0 THEN n - s + w ELSE n - s
  <2> HIDE DEF n
  <2> QED BY <1>2, WrapDifference
<1> QED
  BY <1>1, <1>3

\* Counting one more tick and wrapping is wrapping the sum plus one.
LEMMA WrapSuccessor ==
  ASSUME NEW w \in Nat \ {0}, NEW a \in 0 .. 3 * w - 2
  PROVE  ((a % w) + 1) % w = (a + 1) % w
<1>w. \A x \in 0 .. 3 * w - 1 :
        x % w = IF x < w THEN x ELSE IF x < 2 * w THEN x - w ELSE x - 2 * w
  BY WrapSum, Zenon
<1> DEFINE r == a % w
<1>1. r = IF a < w THEN a ELSE IF a < 2 * w THEN a - w ELSE a - 2 * w
  <2>1. a \in 0 .. 3 * w - 1
    OBVIOUS
  <2> QED BY <2>1, <1>w
<1>2. r \in 0 .. w - 1
  BY <1>1
<1> HIDE DEF r
<1>3. (r + 1) % w = IF r + 1 < w THEN r + 1 ELSE r + 1 - w
  <2> DEFINE y == r + 1
  <2>1. y \in 0 .. 3 * w - 1 /\ y < 2 * w
    BY <1>2
  <2> HIDE DEF y
  <2>2. y % w = IF y < w THEN y ELSE y - w
    BY <2>1, <1>w
  <2> QED BY <2>2, <1>2 DEF y
<1>4. (a + 1) % w = IF a + 1 < w THEN a + 1 ELSE IF a + 1 < 2 * w THEN a + 1 - w ELSE a + 1 - 2 * w
  <2>1. a + 1 \in 0 .. 3 * w - 1
    OBVIOUS
  <2> QED BY <2>1, <1>w
<1>5. (r + 1) % w = (a + 1) % w
  BY <1>1, <1>2, <1>3, <1>4
<1> QED
  BY <1>5 DEF r

-----------------------------------------------------------------------------
DInv == DelayTypeOK /\ ClockFromStart /\ DelayOnTime

\* How far the wait can go: less than two turns of the counter in all, and
\* less than one at the last reading of the clock.
LEMMA WaitBounds ==
  ASSUME DInv, pc # "run"
  PROVE  /\ ticks + POLL_GAP < WORD
         /\ waited - unseen \in 0 .. ticks + POLL_GAP
         /\ waited \in 0 .. 2 * WORD - 2
         /\ start + waited \in 0 .. 3 * WORD - 3
<1>1. ticks + POLL_GAP < WORD
  BY DelayAssumption DEF DInv, DelayTypeOK
<1> QED
  BY <1>1, DelayAssumption DEF DInv, DelayTypeOK, ClockFromStart, DelayOnTime, Words

\* What the loop computes from the value it read is the wait at that reading.
LEMMA MeasuredWait ==
  ASSUME DInv, pc = "test"
  PROVE  (now - start) % WORD = waited - unseen
<1> DEFINE e == waited - unseen
<1>1. e \in 0 .. WORD - 1 /\ start \in 0 .. WORD - 1 /\ WORD \in Nat \ {0}
  BY WaitBounds, DelayAssumption DEF DInv, DelayTypeOK, Words
<1>2. now = (start + e) % WORD
  BY DEF DInv, DelayTypeOK, ClockFromStart, Words
<1> HIDE DEF e
<1>3. (now - start) % WORD = e
  BY <1>1, <1>2, DifferenceOfSum
<1> QED
  BY <1>3 DEF e

\* A tick of the timer, in the loop or outside it.
LEMMA TickPreserves ==
  ASSUME DInv, timer_tick
  PROVE  DInv'
<1> USE DelayAssumption
<1>0. tick_count + 1 \in 0 .. 3 * WORD - 1 /\ (tick_count + 1) % WORD \in Words
  BY DEF DInv, DelayTypeOK, Words
<1>1. CASE pc = "run"
  BY <1>0, <1>1 DEF DInv, DelayTypeOK, ClockFromStart, DelayOnTime, timer_tick
<1>2. CASE pc # "run"
  <2>1. DelayTypeOK'
    BY <1>0, <1>2 DEF DInv, DelayTypeOK, timer_tick
  <2>2. start + waited \in 0 .. 3 * WORD - 2
    BY <1>2, WaitBounds DEF DInv, DelayTypeOK
  <2>3. tick_count' = (start + waited + 1) % WORD
    <3> DEFINE a == start + waited
    <3>1. a \in 0 .. 3 * WORD - 2 /\ tick_count = a % WORD
      BY <1>2, <2>2 DEF DInv, ClockFromStart
    <3>2. tick_count' = ((a % WORD) + 1) % WORD
      BY <3>1 DEF timer_tick
    <3> HIDE DEF a
    <3>3. tick_count' = (a + 1) % WORD
      BY <3>1, <3>2, WrapSuccessor, Zenon
    <3> QED BY <3>3 DEF a
  <2>4. /\ waited' = waited + 1 /\ unseen' = unseen + 1
        /\ UNCHANGED <<pc, ticks, start, now>>
        /\ waited \in Nat /\ unseen \in Nat /\ start \in Nat /\ ticks \in Nat
    BY <1>2 DEF DInv, DelayTypeOK, timer_tick, Words
  <2>5. /\ start + waited + 1 = start' + waited'
        /\ waited' - unseen' = waited - unseen
        /\ start' + waited' - unseen' = start + waited - unseen
    BY <2>4
  <2>6. ClockFromStart'
    BY <1>2, <2>3, <2>4, <2>5 DEF DInv, ClockFromStart
  <2>7. DelayOnTime'
    BY <1>2, <2>4, <2>5 DEF DInv, DelayOnTime
  <2> QED BY <2>1, <2>6, <2>7 DEF DInv
<1> QED BY <1>1, <1>2

\* The loop reads a clock the invariant places, and goes on only while the
\* wait measured is short.  Calls and messages leave the loop alone.
THEOREM DelayInvariance == Spec => []DInv
<1> USE DelayAssumption
<1>1. Init => DInv
  BY DEF Init, DelayInit, DInv, DelayTypeOK, ClockFromStart, DelayOnTime, Words
<1>2. [Next]_progVars => [DelayNext]_delayVars
  BY DEF Next, progVars, Tick, Wait, Call, Message, Ps, Return, DelayNext, delayVars
<1>3. DInv /\ [DelayNext]_delayVars => DInv'
  <2> SUFFICES ASSUME DInv, [DelayNext]_delayVars PROVE DInv'
    OBVIOUS
  <2>1. CASE timer_tick
    BY <2>1, TickPreserves
  <2>2. ASSUME NEW d \in DELAYS, DelayStart(d) PROVE DInv'
    <3>0. tick_count \in 0 .. WORD - 1
      BY DEF DInv, DelayTypeOK, Words
    <3>1. tick_count % WORD = tick_count
      BY <3>0
    <3>2. d \in Nat /\ waited' = 0 /\ unseen' = 0 /\ start' = tick_count /\ tick_count' = tick_count
          /\ pc' = "poll" /\ ticks' = d /\ now' = now
      BY <2>2 DEF DelayStart
    <3>3. start' + waited' = tick_count
      BY <3>0, <3>2
    <3> QED
      BY <3>0, <3>1, <3>2, <3>3 DEF DInv, DelayTypeOK, ClockFromStart, DelayOnTime, Words
  <2>3. CASE DelayPoll
    <3>1. /\ pc = "poll" /\ pc' = "test" /\ now' = tick_count /\ unseen' = 0
          /\ UNCHANGED <<tick_count, ticks, start, waited>>
      BY <2>3 DEF DelayPoll
    <3>2. DelayTypeOK'
      BY <3>1 DEF DInv, DelayTypeOK
    <3>3. waited' - unseen' = waited /\ start' + waited' - unseen' = start + waited /\ waited' \in Nat
      BY <3>1 DEF DInv, DelayTypeOK, Words
    <3>4. ClockFromStart'
      BY <3>1, <3>3 DEF DInv, ClockFromStart
    <3>5. waited <= ticks + POLL_GAP
      BY <3>1 DEF DInv, DelayTypeOK, DelayOnTime
    <3> QED BY <3>1, <3>2, <3>3, <3>4, <3>5 DEF DInv, DelayOnTime
  <2>4. CASE DelayTest
    <3>1. (now - start) % WORD = waited - unseen
      BY <2>4, MeasuredWait DEF DelayTest
    <3>2. CASE StillWaiting
      <4>1. waited - unseen < ticks
        BY <3>1, <3>2 DEF StillWaiting
      <4>2. /\ pc' = "yield" /\ pc = "test"
            /\ UNCHANGED <<tick_count, ticks, start, now, waited, unseen>>
        BY <2>4, <3>2 DEF DelayTest
      <4> QED
        BY <4>1, <4>2 DEF DInv, DelayTypeOK, ClockFromStart, DelayOnTime
    <3>3. CASE ~StillWaiting
      BY <2>4, <3>3 DEF DelayTest, DInv, DelayTypeOK, ClockFromStart, DelayOnTime, Words
    <3> QED BY <3>2, <3>3
  <2>5. CASE DelayYield
    BY <2>5 DEF DelayYield, DInv, DelayTypeOK, ClockFromStart, DelayOnTime
  <2>6. CASE UNCHANGED delayVars
    BY <2>6 DEF delayVars, DInv, DelayTypeOK, ClockFromStart, DelayOnTime
  <2> QED
    BY <2>1, <2>2, <2>3, <2>4, <2>5, <2>6 DEF DelayNext, DelayLoop
<1> QED
  BY <1>1, <1>2, <1>3, PTL DEF Spec

\* ulib_delay_ticks returns only after `ticks` ticks, across any wrap of the
\* counter.
THEOREM NeverEarlyCorrect == Spec => []DelayNeverEarly
<1>1. DInv => DelayNeverEarly
  <2> SUFFICES ASSUME DInv, pc = "test", ~StillWaiting PROVE waited >= ticks
    BY DEF DelayNeverEarly
  <2>1. (now - start) % WORD = waited - unseen
    BY MeasuredWait
  <2>2. ~(waited - unseen < ticks)
    BY <2>1 DEF StillWaiting
  <2> QED
    BY <2>2, DelayAssumption DEF DInv, DelayTypeOK
<1> QED
  BY <1>1, DelayInvariance, PTL

\* The wait measured never exceeds the delay by more than one polling gap: the
\* loop cannot miss its end and wait for another turn of the counter.
THEOREM OnTimeCorrect == Spec => []DelayOnTime
<1>1. DInv => DelayOnTime
  BY DEF DInv
<1> QED
  BY <1>1, DelayInvariance, PTL

-----------------------------------------------------------------------------
(* The pointer check.                                                      *)

\* A sum of two words wraps at most once.
LEMMA WrapOnce ==
  ASSUME NEW w \in Nat \ {0}, NEW a \in 0 .. 2 * w - 1
  PROVE  a % w = IF a < w THEN a ELSE a - w
OBVIOUS

\* An int has an even number of values.
LEMMA IntWidth == UINT \in Nat \ {0} /\ UINT % 2 = 0
BY FormatAssumption

\* The table has a number of threads.
LEMMA ThreadCount == NUM_THREADS \in Nat
BY SyscallsAssumption, LenProperties DEF NUM_THREADS, NUM_PROCESSES

\* An unsigned int is a natural number.
LEMMA UIntsNat == UInts \subseteq Nat
BY IntWidth DEF UInts

\* valid_user_ptr, computed with sums that wrap, accepts exactly the ranges
\* that lie in the window when the sums are taken without wrapping.
THEOREM PointerCheckExact ==
  ASSUME NEW addr \in UInts, NEW len \in UInts
  PROVE  valid_user_ptr(addr, len) <=>
           /\ addr >= USER_VIRT_BASE
           /\ addr + len <= USER_VIRT_BASE + USER_REGION_SIZE
<1> USE IntWidth, SyscallsAssumption
<1> DEFINE sum == addr + len
           end == sum % UINT
<1>1. /\ UINT \in Nat \ {0} /\ addr \in 0 .. UINT - 1 /\ len \in 0 .. UINT - 1
      /\ sum \in 0 .. 2 * UINT - 1
  BY DEF UInts
<1>2. end = IF sum < UINT THEN sum ELSE sum - UINT
  <2> HIDE DEF sum
  <2> QED BY <1>1, WrapOnce, Zenon
<1>3. valid_user_ptr(addr, len) <=>
        ~(end < addr) /\ ~(addr < USER_VIRT_BASE) /\ ~(end > USER_VIRT_BASE + USER_REGION_SIZE)
  BY DEF valid_user_ptr
<1> HIDE DEF end
<1> QED
  BY <1>1, <1>2, <1>3

\* Behind a check that passed, the first n bytes of the buffer are bytes of the
\* caller's window, for any n up to the length checked.
THEOREM AcceptedBytesInWindow ==
  ASSUME NEW addr \in UInts, NEW len \in UInts, NEW n \in 0 .. len,
         valid_user_ptr(addr, len)
  PROVE  Touches(addr, n) \subseteq Window /\ Touches(addr, n) = addr .. addr + n - 1
<1> USE IntWidth, SyscallsAssumption
<1>1. addr >= USER_VIRT_BASE /\ addr + len <= USER_VIRT_BASE + USER_REGION_SIZE
  BY PointerCheckExact
<1>2. ASSUME NEW i \in 0 .. n - 1
      PROVE  (addr + i) % UINT = addr + i /\ addr + i \in Window
  <2>1. addr + i \in 0 .. UINT - 1 /\ addr + i \in Window
    BY <1>1 DEF UInts, Window
  <2> DEFINE a == addr + i
  <2> HIDE DEF a
  <2>2. a \in 0 .. UINT - 1 => a % UINT = a
    <3>1. a \in 0 .. UINT - 1 => a \in 0 .. 2 * UINT - 1 /\ a < UINT
      BY IntWidth
    <3> QED  BY <3>1, WrapOnce, Zenon
  <2> QED BY <2>1, <2>2 DEF a
<1>3. Touches(addr, n) = {addr + i : i \in 0 .. n - 1}
  BY <1>2 DEF Touches
<1>4. {addr + i : i \in 0 .. n - 1} = addr .. addr + n - 1
  <2>1. ASSUME NEW b \in addr .. addr + n - 1
        PROVE  b \in {addr + i : i \in 0 .. n - 1}
    <3>1. b - addr \in 0 .. n - 1 /\ b = addr + (b - addr)
      BY DEF UInts
    <3> QED BY <3>1
  <2>2. ASSUME NEW i \in 0 .. n - 1
        PROVE  addr + i \in addr .. addr + n - 1
    BY DEF UInts
  <2>3. {addr + i : i \in 0 .. n - 1} \subseteq addr .. addr + n - 1
    BY <2>2
  <2>4. addr .. addr + n - 1 \subseteq {addr + i : i \in 0 .. n - 1}
    BY <2>1
  <2> QED BY <2>3, <2>4
<1> QED
  BY <1>2, <1>3, <1>4

-----------------------------------------------------------------------------
(* The calls on a buffer.                                                  *)

\* The two errors, and a count of bytes of the window, read back as an int.
LEMMA FaultResult == E_FAULT \in UInts /\ AsSigned(E_FAULT) = -2
<1>1. UINT \in Nat /\ UINT >= 4
  BY IntWidth, SyscallsAssumption
<1>2. (-2) % UINT = UINT - 2
  BY <1>1
<1> QED  BY <1>1, <1>2 DEF E_FAULT, AsUnsigned, AsSigned, UInts

\* A count of bytes survives the register.
LEMMA CountResult ==
  ASSUME NEW n \in 0 .. USER_REGION_SIZE
  PROVE  AsSigned(AsUnsigned(n)) = n
<1>1. UINT \in Nat \ {0} /\ USER_REGION_SIZE \in Nat /\ 2 * USER_REGION_SIZE < UINT
  BY IntWidth, SyscallsAssumption
<1>2. n \in 0 .. UINT - 1 /\ 2 * n < UINT
  BY <1>1
<1>3. n % UINT = n
  BY <1>1, <1>2
<1> QED  BY <1>1, <1>2, <1>3 DEF AsUnsigned, AsSigned

\* A buffer the check accepted holds no more than the window.
LEMMA AcceptedFits ==
  ASSUME NEW buf \in UInts, NEW len \in UInts, valid_user_ptr(buf, len)
  PROVE  /\ buf >= USER_VIRT_BASE /\ buf + len <= USER_VIRT_BASE + USER_REGION_SIZE
         /\ len <= USER_REGION_SIZE
<1>1. buf >= USER_VIRT_BASE /\ buf + len <= USER_VIRT_BASE + USER_REGION_SIZE
  BY PointerCheckExact
<1> QED  BY <1>1, IntWidth, SyscallsAssumption DEF UInts

\* A call that moved n bytes behind a check that passed.
LEMMA CountReturned ==
  ASSUME NEW buf \in UInts, NEW len \in UInts, NEW n \in 0 .. len, valid_user_ptr(buf, len),
         call'.op \in {"write", "read", "ps"}, call'.op = "read" => len > 0,
         call'.buf = buf, call'.len = len, call'.touched = Touches(buf, n),
         call'.result = AsUnsigned(n)
  PROVE  PointersConfined' /\ ResultTruthful'
<1>1. Touches(buf, n) \subseteq Window /\ Touches(buf, n) = buf .. buf + n - 1
  BY AcceptedBytesInWindow
<1>2. /\ buf >= USER_VIRT_BASE /\ buf + len <= USER_VIRT_BASE + USER_REGION_SIZE
      /\ len <= USER_REGION_SIZE
  BY AcceptedFits
<1>3. n \in 0 .. USER_REGION_SIZE /\ len \in Nat
  BY <1>2, IntWidth, SyscallsAssumption DEF UInts
<1>4. AsSigned(call'.result) = n
  BY <1>3, CountResult
<1>5. PointersConfined'
  BY <1>1 DEF PointersConfined
<1>6. n # -2
  BY <1>3
<1>7. ResultTruthful'
  BY <1>1, <1>2, <1>3, <1>4, <1>6 DEF ResultTruthful
<1> QED  BY <1>5, <1>7

\* A call refused for its pointer.
LEMMA FaultReturned ==
  ASSUME NEW buf \in UInts, NEW len \in UInts, ~valid_user_ptr(buf, len),
         call'.op \in {"write", "read", "ps"}, call'.op = "read" => len > 0,
         call'.buf = buf, call'.len = len, call'.touched = Touches(buf, 0),
         call'.result = E_FAULT
  PROVE  PointersConfined' /\ ResultTruthful' /\ PsShowsListing'
<1>1. Touches(buf, 0) = {}
  BY DEF Touches
<1>2. ~(buf >= USER_VIRT_BASE /\ buf + len <= USER_VIRT_BASE + USER_REGION_SIZE)
  BY PointerCheckExact
<1>3. AsSigned(call'.result) = -2
  BY FaultResult
<1>4. len \in Nat
  BY IntWidth DEF UInts
<1>5. PointersConfined'
  BY <1>1 DEF PointersConfined
<1>6. ResultTruthful'
  BY <1>2, <1>3, <1>4 DEF ResultTruthful
<1>7. PsShowsListing'
  BY <1>3 DEF PsShowsListing
<1> QED  BY <1>5, <1>6, <1>7

\* sys_write and sys_read.
LEMMA TransferStep ==
  ASSUME NEW buf \in Buffers, NEW len \in Lengths, NEW k \in 1 .. RX_BYTES,
         sys_write(buf, len) \/ sys_read(buf, len, k)
  PROVE  call'.op \in {"write", "read"} /\ PointersConfined' /\ ResultTruthful'
<1> DEFINE m == IF k < len THEN k ELSE len
<1>1. buf \in UInts /\ len \in UInts /\ len \in Nat
  BY SyscallsAssumption, IntWidth DEF UInts
<1>2. m \in 0 .. len /\ len \in 0 .. len /\ 0 \in 0 .. len
  BY <1>1, SyscallsAssumption
<1>3. call'.op \in {"write", "read"} /\ call'.buf = buf /\ call'.len = len
  BY DEF sys_write, sys_read, ReturnsFrom
<1>4. \/ /\ call'.op = "read" /\ len = 0 /\ call'.result = 0 /\ call'.touched = Touches(buf, 0)
      \/ /\ call'.op = "read" => len > 0
         /\ ~valid_user_ptr(buf, len) /\ call'.result = E_FAULT /\ call'.touched = Touches(buf, 0)
      \/ /\ call'.op = "read" => len > 0
         /\ valid_user_ptr(buf, len)
         /\ \E n \in 0 .. len : call'.result = AsUnsigned(n) /\ call'.touched = Touches(buf, n)
  <2>1. CASE sys_write(buf, len)
    BY <1>2, <2>1 DEF sys_write, ReturnsFrom
  <2>2. CASE sys_read(buf, len, k)
    <3>1. \/ /\ len = 0 /\ call' = [op |-> "read", buf |-> buf, len |-> len, result |-> 0, touched |-> Touches(buf, 0)]
          \/ /\ len # 0 /\ ~valid_user_ptr(buf, len)
             /\ call' = [op |-> "read", buf |-> buf, len |-> len, result |-> E_FAULT, touched |-> Touches(buf, 0)]
          \/ /\ len # 0 /\ valid_user_ptr(buf, len)
             /\ call' = [op |-> "read", buf |-> buf, len |-> len, result |-> AsUnsigned(m), touched |-> Touches(buf, m)]
      BY <2>2 DEF sys_read, ReturnsFrom
    <3> HIDE DEF m
    <3> QED  BY <1>1, <1>2, <3>1
  <2> QED  BY <2>1, <2>2
<1>5. PointersConfined' /\ ResultTruthful'
  <2>1. CASE call'.op = "read" /\ len = 0 /\ call'.result = 0 /\ call'.touched = Touches(buf, 0)
    <3>1. Touches(buf, 0) = {} /\ buf .. buf + 0 - 1 = {}
      BY <1>1 DEF Touches, UInts
    <3>2. AsSigned(0) = 0
      BY IntWidth DEF AsSigned
    <3>3. PointersConfined'
      BY <2>1, <3>1 DEF PointersConfined
    <3>4. /\ call'.op = "read" /\ call'.len = 0 /\ AsSigned(call'.result) = 0
          /\ call'.touched = call'.buf .. call'.buf + AsSigned(call'.result) - 1
      BY <1>3, <2>1, <3>1, <3>2, Zenon
    <3>5. ResultTruthful'
      BY <3>4 DEF ResultTruthful
    <3> QED  BY <3>3, <3>5
  <2>2. CASE /\ call'.op = "read" => len > 0
             /\ ~valid_user_ptr(buf, len) /\ call'.result = E_FAULT /\ call'.touched = Touches(buf, 0)
    BY <1>1, <1>3, <2>2, FaultReturned
  <2>3. ASSUME call'.op = "read" => len > 0, valid_user_ptr(buf, len),
               NEW n \in 0 .. len, call'.result = AsUnsigned(n), call'.touched = Touches(buf, n)
        PROVE  PointersConfined' /\ ResultTruthful'
    BY <1>1, <1>3, <2>3, CountReturned
  <2> QED  BY <1>4, <2>1, <2>2, <2>3
<1> QED  BY <1>3, <1>5

\* sys_ps refuses its buffer or begins with nothing of the listing.
LEMMA PsAnswer ==
  ASSUME NEW buf, NEW size, NEW states, sys_ps(buf, size, states)
  PROVE  \/ /\ ~valid_user_ptr(buf, size)
            /\ call'.op = "ps" /\ call'.buf = buf /\ call'.len = size
            /\ call'.result = E_FAULT /\ call'.touched = Touches(buf, 0)
         \/ /\ valid_user_ptr(buf, size)
            /\ call' = [op |-> "listing", buf |-> buf, len |-> size, states |-> states, out |-> << >>, i |-> 0]
<1>1. CASE ~valid_user_ptr(buf, size)
  BY <1>1 DEF sys_ps, ReturnsFrom
<1>2. CASE valid_user_ptr(buf, size)
  BY <1>2 DEF sys_ps
<1> QED  BY <1>1, <1>2

\* What a step of the program can do to the call it is in.
LEMMA StepKinds ==
  ASSUME [Next]_progVars
  PROVE  \/ UNCHANGED call
         \/ MakeCall \/ SyscallReturn \/ PsLoop \/ PsDone
         \/ \E fmt \in Formats, v \in Numbers, s \in Strings : Message(fmt, v, s)
BY DEF Next, progVars, Tick, Wait, Call, Ps, Return

-----------------------------------------------------------------------------
(* The text of sys_ps.                                                     *)

\* Every literal is a STRING, which the provers do not know.
Chars == STRING \cup {" ", "t", "\n", "R", "U", "N", "B", "L", "D"} \cup {digit[n] : n \in 0 .. 15}

Text == Seq(Chars)

Kept(n, size) == IF n < size THEN n ELSE IF size = 0 THEN 0 ELSE size - 1

\* The beginning of a text.
LEMMA Beginning ==
  ASSUME NEW f \in Text, NEW n \in 0 .. Len(f)
  PROVE  /\ SubSeq(f, 1, n) \in Text /\ Len(SubSeq(f, 1, n)) = n
         /\ \A i \in 1 .. n : SubSeq(f, 1, n)[i] = f[i]
<1>1. Len(f) \in Nat /\ \A i \in 1 .. Len(f) : f[i] \in Chars
  BY ElementOfSeq, LenProperties DEF Text
<1>2. n \in Nat /\ \A i \in 1 .. n : f[i] \in Chars
  BY <1>1
<1>3. /\ SubSeq(f, 1, n) \in Seq(Chars)
      /\ Len(SubSeq(f, 1, n)) = IF 1 <= n THEN n - 1 + 1 ELSE 0
      /\ \A i \in 1 .. n - 1 + 1 : SubSeq(f, 1, n)[i] = f[1 + i - 1]
  BY <1>2, SubSeqProperties
<1>4. \A i \in 1 .. n : i \in 1 .. n - 1 + 1 /\ 1 + i - 1 = i
  BY <1>2
<1>5. Len(SubSeq(f, 1, n)) = n
  BY <1>2, <1>3
<1> QED  BY <1>3, <1>4, <1>5 DEF Text

\* What is left of a text in a buffer.
LEMMA CutFacts ==
  ASSUME NEW f \in Text, NEW size \in Nat
  PROVE  /\ Cut(f, size) \in Text
         /\ Len(Cut(f, size)) = Kept(Len(f), size)
         /\ \A i \in 1 .. Kept(Len(f), size) : Cut(f, size)[i] = f[i]
<1> DEFINE n == Kept(Len(f), size)
<1>1. Len(f) \in Nat
  BY LenProperties DEF Text
<1>2. n \in 0 .. Len(f)
  BY <1>1 DEF Kept
<1>3. Cut(f, size) = SubSeq(f, 1, n)
  BY DEF Cut, Kept
<1> HIDE DEF n
<1> QED  BY <1>2, <1>3, Beginning DEF n

\* How much of b more characters fits behind what was kept of a.
Fits(a, b, size) ==
  LET room == IF Kept(a, size) + 1 < size THEN size - 1 - Kept(a, size) ELSE 0
  IN IF b <= room THEN b ELSE room

\* It is what the buffer keeps of both, and nothing unless all of a was kept.
LEMMA KeptSum ==
  ASSUME NEW a \in Nat, NEW b \in Nat, NEW size \in Nat
  PROVE  /\ Kept(a, size) \in Nat /\ Kept(a, size) <= a
         /\ Fits(a, b, size) \in Nat /\ Fits(a, b, size) <= b
         /\ Kept(a, size) + Fits(a, b, size) = Kept(a + b, size)
         /\ Fits(a, b, size) > 0 => Kept(a, size) = a
         /\ Kept(a, size) + 1 >= size => Kept(a + b, size) = Kept(a, size)
<1>1. CASE a < size
  BY <1>1 DEF Kept, Fits
<1>2. CASE ~(a < size)
  BY <1>2 DEF Kept, Fits
<1> QED  BY <1>1, <1>2

\* The copying loops extend a cut text to the cut of the longer text.
LEMMA CutCopy ==
  ASSUME NEW f \in Text, NEW s \in Text, NEW size \in Nat
  PROVE  CopyWhileFits(Cut(f, size), s, size) = Cut(f \o s, size)
<1> DEFINE out == Cut(f, size)
<1> DEFINE m == IF Len(s) <= Room(out, size) THEN Len(s) ELSE Room(out, size)
<1> DEFINE add == SubSeq(s, 1, m)
<1>1. Len(f) \in Nat /\ Len(s) \in Nat /\ \A i \in 1 .. Len(s) : s[i] \in Chars
  BY ElementOfSeq, LenProperties DEF Text
<1>2. /\ out \in Text /\ Len(out) = Kept(Len(f), size)
      /\ \A i \in 1 .. Len(out) : out[i] = f[i]
  BY CutFacts
<1> HIDE DEF out
<1>3. /\ m \in Nat /\ m <= Len(s) /\ Len(out) \in Nat /\ Len(out) <= Len(f)
      /\ Len(out) + m = Kept(Len(f) + Len(s), size)
      /\ m > 0 => Len(out) = Len(f)
  <2>1. m = Fits(Len(f), Len(s), size)
    BY <1>2 DEF Room, Fits
  <2> HIDE DEF m
  <2>2. \A a, b \in Nat :
           /\ Kept(a, size) \in Nat /\ Kept(a, size) <= a
           /\ Fits(a, b, size) \in Nat /\ Fits(a, b, size) <= b
           /\ Kept(a, size) + Fits(a, b, size) = Kept(a + b, size)
           /\ Fits(a, b, size) > 0 => Kept(a, size) = a
    BY KeptSum
  <2> QED  BY <1>1, <1>2, <2>1, <2>2
<1> HIDE DEF m
<1>4. add \in Text /\ Len(add) = m /\ \A i \in 1 .. m : add[i] = s[i]
  <2>1. m \in 0 .. Len(s)
    BY <1>1, <1>3
  <2> QED  BY <2>1, Beginning
<1> HIDE DEF add
<1>5. /\ out \o add \in Text /\ Len(out \o add) = Len(out) + m
      /\ \A i \in 1 .. Len(out) + m :
           (out \o add)[i] = IF i <= Len(out) THEN out[i] ELSE add[i - Len(out)]
  BY <1>2, <1>4, ConcatProperties, Zenon DEF Text
<1>6. /\ f \o s \in Text /\ Len(f \o s) = Len(f) + Len(s)
      /\ \A i \in 1 .. Len(f) + Len(s) :
           (f \o s)[i] = IF i <= Len(f) THEN f[i] ELSE s[i - Len(f)]
  BY ConcatProperties DEF Text
<1> DEFINE all == f \o s
<1> DEFINE cut == Cut(all, size)
<1>7. /\ cut \in Text /\ Len(cut) = Len(out) + m
       /\ \A i \in 1 .. Len(out) + m : cut[i] = all[i]
  <2>1. all \in Text /\ Kept(Len(all), size) = Len(out) + m
    BY <1>3, <1>6
  <2> HIDE DEF all
  <2> QED  BY <2>1, CutFacts
<1> HIDE DEF cut
<1>8. ASSUME NEW i \in 1 .. Len(out) + m
       PROVE  (out \o add)[i] = cut[i]
  <2>1. i \in 1 .. Len(f) + Len(s) /\ i \in Int
    BY <1>1, <1>3
  <2>2. CASE i <= Len(out)
    <3>1. i <= Len(f) /\ i \in 1 .. Len(out)
      BY <1>1, <1>3, <2>2
    <3>2. (out \o add)[i] = f[i]
      BY <1>2, <1>5, <2>2, <3>1
    <3>3. all[i] = f[i]
      BY <1>6, <2>1, <3>1
    <3> QED  BY <1>7, <3>2, <3>3, Zenon
  <2>3. CASE ~(i <= Len(out))
    <3>1. i - Len(out) \in 1 .. m /\ m > 0
      BY <1>3, <2>3
    <3>2. Len(out) = Len(f)
      BY <1>3, <3>1
    <3>3. (out \o add)[i] = s[i - Len(f)]
      BY <1>4, <1>5, <2>3, <3>1, <3>2
    <3>4. all[i] = s[i - Len(f)]
      BY <1>6, <2>1, <2>3, <3>2
    <3> QED  BY <1>7, <3>3, <3>4, Zenon
  <2> QED  BY <2>2, <2>3, Zenon
<1>9. out \o add = cut
  BY <1>5, <1>7, <1>8, SeqEqual DEF Text
<1> QED  BY <1>9, Zenon DEF CopyWhileFits, out, m, add, cut

\* Once the buffer is full, longer texts look the same.
LEMMA CutFull ==
  ASSUME NEW f \in Text, NEW s \in Text, NEW size \in Nat, Kept(Len(f), size) + 1 >= size
  PROVE  Cut(f \o s, size) = Cut(f, size)
<1> DEFINE all == f \o s
<1> DEFINE n == Kept(Len(f), size)
<1>1. Len(f) \in Nat /\ Len(s) \in Nat /\ Len(all) = Len(f) + Len(s) /\ all \in Text
  BY ConcatProperties, LenProperties DEF Text
<1>2. Kept(Len(all), size) = n /\ n <= Len(f) /\ n \in Nat
  BY <1>1, KeptSum
<1>3. \A i \in 1 .. n : all[i] = f[i]
  <2> TAKE i \in 1 .. n
  <2>1. i \in 1 .. Len(f) + Len(s) /\ i <= Len(f)
    BY <1>1, <1>2
  <2> QED  BY <2>1, ConcatProperties DEF Text
<1> HIDE DEF all, n
<1>4. /\ Cut(all, size) \in Text /\ Len(Cut(all, size)) = n
      /\ \A i \in 1 .. n : Cut(all, size)[i] = all[i]
  BY <1>1, <1>2, CutFacts, Zenon
<1>5. /\ Cut(f, size) \in Text /\ Len(Cut(f, size)) = n
      /\ \A i \in 1 .. n : Cut(f, size)[i] = f[i]
  BY CutFacts DEF n
<1>6. Cut(all, size) = Cut(f, size)
  BY <1>3, <1>4, <1>5, SeqEqual DEF Text
<1> QED  BY <1>6 DEF all

\* Division by a positive number, characterised.
LEMMA DivUnique ==
  ASSUME NEW m \in Nat \ {0}, NEW q \in Nat, NEW r \in 0 .. m - 1
  PROVE  (q * m + r) \div m = q /\ (q * m + r) % m = r
<1> DEFINE a == q * m + r
<1> DEFINE p == a \div m
<1> DEFINE s == a % m
<1>1. a \in Nat
  OBVIOUS
<1>2. p \in Int /\ s \in 0 .. m - 1 /\ a = p * m + s
  <2> HIDE DEF a
  <2> QED  BY <1>1
<1> HIDE DEF p, s
<1>3. (q - p) * m = s - r
  BY <1>2
<1>4. q - p >= 1 => (q - p) * m >= m
  BY <1>2
<1>5. q - p <= -1 => (q - p) * m <= -m
  BY <1>2
<1>6. q = p
  BY <1>2, <1>3, <1>4, <1>5
<1>7. s = r
  BY <1>2, <1>3, <1>6
<1> QED  BY <1>6, <1>7 DEF p, s, a

\* The owner of a thread has a name, and its index is a digit.
LEMMA ThreadFacts ==
  ASSUME NEW t \in Tids
  PROVE  t \div THREADS_PER_PROC + 1 \in DOMAIN Names /\ t % THREADS_PER_PROC \in 0 .. 15
<1> USE SyscallsAssumption
<1> DEFINE m == THREADS_PER_PROC
<1> DEFINE q == t \div m
<1> DEFINE r == t % m
<1>1. NUM_PROCESSES \in Nat /\ DOMAIN Names = 1 .. NUM_PROCESSES
  BY LenProperties DEF NUM_PROCESSES
<1>2. m \in 1 .. 10 /\ t \in Nat /\ t < NUM_PROCESSES * m
  BY <1>1 DEF Tids, NUM_THREADS
<1> HIDE DEF m
<1>3. q \in Int /\ r \in 0 .. m - 1 /\ t = q * m + r
  BY <1>2
<1> HIDE DEF q, r
<1>4. q >= 0
  <2>1. q <= -1 => q * m <= -m
    BY <1>2, <1>3
  <2> QED  BY <1>2, <1>3, <2>1
<1>5. q < NUM_PROCESSES
  <2>1. q >= NUM_PROCESSES => q * m >= NUM_PROCESSES * m
    BY <1>1, <1>2, <1>3
  <2>2. NUM_PROCESSES * m \in Int /\ q * m \in Int
    BY <1>1, <1>2, <1>3
  <2> QED  BY <1>1, <1>2, <1>3, <2>1, <2>2
<1>6. q + 1 \in DOMAIN Names /\ r \in 0 .. 15
  BY <1>1, <1>2, <1>3, <1>4, <1>5
<1> QED  BY <1>6 DEF q, r, m

\* Sequences written out.
LEMMA TwoChars ==
  ASSUME NEW S, NEW a \in S, NEW b \in S
  PROVE  <<a, b>> \in Seq(S) /\ Len(<<a, b>>) = 2
OBVIOUS

\* Five characters written out.
LEMMA FiveChars ==
  ASSUME NEW S, NEW a \in S, NEW b \in S, NEW c \in S, NEW d \in S, NEW e \in S
  PROVE  <<a, b, c, d, e>> \in Seq(S) /\ Len(<<a, b, c, d, e>>) = 5
OBVIOUS

\* The parts of a line.
LEMMA LineParts ==
  ASSUME NEW t \in Tids, NEW states \in Snapshots
  PROVE  /\ NameOf(t) \in Text /\ Len(NameOf(t)) \in 0 .. PS_NAME_W
         /\ Index(t) \in Text /\ Len(Index(t)) = 5
         /\ state_name[states[t]] \in Text /\ Len(state_name[states[t]]) = 2
<1>1. NameOf(t) \in Text /\ Len(NameOf(t)) \in 0 .. PS_NAME_W
  <2>1. t \div THREADS_PER_PROC + 1 \in DOMAIN Names
    BY ThreadFacts
  <2>2. DOMAIN Names = 1 .. Len(Names)
    BY SyscallsAssumption, LenProperties
  <2>3. NameOf(t) \in Text
    <3>1. NameOf(t) \in Seq(STRING)
      BY <2>1, <2>2, SyscallsAssumption, ElementOfSeq DEF NameOf
    <3>2. STRING \subseteq Chars
      BY Zenon DEF Chars
    <3> QED  BY <3>1, <3>2, SeqMonotonic, Zenon DEF Text
  <2>4. Len(NameOf(t)) \in Nat
    BY <2>3, LenProperties DEF Text
  <2> QED  BY <2>1, <2>3, <2>4, SyscallsAssumption DEF NameOf
<1>2. Index(t) \in Text /\ Len(Index(t)) = 5
  <2>1. " " \in Chars /\ "t" \in Chars /\ digit[t % THREADS_PER_PROC] \in Chars
    BY ThreadFacts, Zenon DEF Chars
  <2> QED  BY <2>1, FiveChars, Zenon DEF Index, Text
<1>3. states[t] \in {"READY", "RUNNING", "BLOCKED", "DEAD"}
  BY SnapshotsAssumption DEF state_name
<1>4. state_name[states[t]] \in Text /\ Len(state_name[states[t]]) = 2
  <2>1. /\ state_name["READY"] = <<"R", " ">> /\ state_name["RUNNING"] = <<"U", "N">>
        /\ state_name["BLOCKED"] = <<"B", "L">> /\ state_name["DEAD"] = <<"D", " ">>
    BY Zenon DEF state_name
  <2>2. {" ", "R", "U", "N", "B", "L", "D"} \subseteq Chars
    BY DEF Chars
  <2>3. ASSUME NEW a \in Chars, NEW b \in Chars
        PROVE  <<a, b>> \in Text /\ Len(<<a, b>>) = 2
    BY TwoChars DEF Text
  <2>4. CASE states[t] = "READY"
    BY <2>1, <2>2, <2>3, <2>4, ZenonT(40)
  <2>5. CASE states[t] = "RUNNING"
    BY <2>1, <2>2, <2>3, <2>5, ZenonT(40)
  <2>6. CASE states[t] = "BLOCKED"
    BY <2>1, <2>2, <2>3, <2>6, ZenonT(40)
  <2>7. CASE states[t] = "DEAD"
    BY <2>1, <2>2, <2>3, <2>7, ZenonT(40)
  <2> QED  BY <1>3, <2>4, <2>5, <2>6, <2>7
<1> QED  BY <1>1, <1>2, <1>4

Blanks(n) == [i \in 1 .. n |-> " "]

\* Padding is text of its own length.
LEMMA BlanksText ==
  ASSUME NEW n \in Nat
  PROVE  Blanks(n) \in Text /\ Len(Blanks(n)) = n
<1>1. " " \in Chars
  BY DEF Chars
<1>2. Blanks(n) \in [1 .. n -> Chars]
  BY <1>1, Zenon DEF Blanks
<1>3. Blanks(n) \in Seq(Chars)
  BY <1>2, SeqDef
<1>4. Len(Blanks(n)) = n
  <2>1. DOMAIN Blanks(n) = 1 .. n
    BY <1>2
  <2>2. DOMAIN Blanks(n) = 1 .. Len(Blanks(n)) /\ Len(Blanks(n)) \in Nat
    BY <1>3, LenProperties
  <2> HIDE DEF Blanks
  <2> QED  BY <2>1, <2>2
<1> QED  BY <1>3, <1>4 DEF Text

\* The text with the parts of one more line behind it.
Named(f, t)          == f \o NameOf(t)
Padded(f, t)         == Named(f, t) \o Blanks(PS_NAME_W - Len(NameOf(t)))
Indexed(f, t)        == Padded(f, t) \o Index(t)
Stated(f, t, states) == Indexed(f, t) \o state_name[states[t]]

\* The width of every part of a line.
LEMMA LineGrows ==
  ASSUME NEW f \in Text, NEW t \in Tids, NEW states \in Snapshots
  PROVE  /\ Named(f, t) \in Text /\ Len(Named(f, t)) = Len(f) + Len(NameOf(t))
         /\ Padded(f, t) \in Text /\ Len(Padded(f, t)) = Len(f) + PS_NAME_W
         /\ Indexed(f, t) \in Text /\ Len(Indexed(f, t)) = Len(Padded(f, t)) + 5
         /\ Stated(f, t, states) \in Text /\ Len(Stated(f, t, states)) = Len(Indexed(f, t)) + 2
         /\ <<"\n">> \in Text /\ Len(<<"\n">>) = 1
         /\ Line(t, states) \in Text /\ Len(Line(t, states)) = LineWidth
         /\ f \o Line(t, states) = Stated(f, t, states) \o <<"\n">>
<1> DEFINE w == PS_NAME_W - Len(NameOf(t))
<1> DEFINE st == state_name[states[t]]
<1>1. /\ NameOf(t) \in Text /\ Len(NameOf(t)) \in 0 .. PS_NAME_W /\ PS_NAME_W \in Nat
      /\ Index(t) \in Text /\ Len(Index(t)) = 5
      /\ st \in Text /\ Len(st) = 2
  BY LineParts, SyscallsAssumption
<1>2. w \in Nat
  BY <1>1
<1>3. Blanks(w) \in Text /\ Len(Blanks(w)) = w
  BY <1>2, BlanksText
<1>4. <<"\n">> \in Text /\ Len(<<"\n">>) = 1
  <2>1. "\n" \in Chars
    BY DEF Chars
  <2> QED  BY <2>1 DEF Text
<1>5. \A a \in Text, b \in Text : a \o b \in Text /\ Len(a \o b) = Len(a) + Len(b) /\ Len(a) \in Nat
  BY ConcatProperties, LenProperties DEF Text
<1>6. \A a \in Text, b \in Text, c \in Text : (a \o b) \o c = a \o (b \o c)
  BY ConcatAssociative DEF Text
<1>7. Line(t, states) = ((NameOf(t) \o Blanks(w)) \o Index(t)) \o st \o <<"\n">>
  BY DEF Line, PadRight, Blanks
<1>8. /\ Named(f, t) = f \o NameOf(t) /\ Padded(f, t) = Named(f, t) \o Blanks(w)
      /\ Indexed(f, t) = Padded(f, t) \o Index(t) /\ Stated(f, t, states) = Indexed(f, t) \o st
  BY DEF Named, Padded, Indexed, Stated
<1> HIDE DEF st
<1>9. Named(f, t) \in Text /\ Len(Named(f, t)) = Len(f) + Len(NameOf(t))
  BY <1>1, <1>5, <1>8
<1>10. Padded(f, t) \in Text /\ Len(Padded(f, t)) = Len(f) + PS_NAME_W
  <2>1. Padded(f, t) \in Text /\ Len(Padded(f, t)) = Len(Named(f, t)) + Len(Blanks(w))
    <3> HIDE DEF w
    <3> QED  BY <1>3, <1>5, <1>8, <1>9, Zenon
  <2>2. Len(f) \in Nat
    BY <1>3, <1>5
  <2> QED  BY <1>1, <1>2, <1>3, <1>9, <2>1, <2>2
<1> HIDE DEF w
<1>11. Indexed(f, t) \in Text /\ Len(Indexed(f, t)) = Len(Padded(f, t)) + 5
  BY <1>1, <1>5, <1>8, <1>10, Zenon
<1>12. Stated(f, t, states) \in Text /\ Len(Stated(f, t, states)) = Len(Indexed(f, t)) + 2
  BY <1>1, <1>5, <1>8, <1>11, Zenon
<1> DEFINE p1 == NameOf(t) \o Blanks(w)
<1> DEFINE p2 == p1 \o Index(t)
<1> DEFINE p3 == p2 \o st
<1>13. p1 \in Text /\ Len(p1) = PS_NAME_W
  BY <1>1, <1>3, <1>5 DEF w
<1>14. Padded(f, t) = f \o p1
  <2>1. (f \o NameOf(t)) \o Blanks(w) = f \o (NameOf(t) \o Blanks(w))
    BY <1>1, <1>3, <1>6, ZenonT(40)
  <2> QED  BY <1>8, <2>1
<1> HIDE DEF p1
<1>15. p2 \in Text /\ Len(p2) = PS_NAME_W + 5
  BY <1>1, <1>5, <1>13, Zenon
<1>16. Indexed(f, t) = f \o p2
  <2>1. (f \o p1) \o Index(t) = f \o (p1 \o Index(t))
    BY <1>1, <1>6, <1>13, ZenonT(40)
  <2> QED  BY <1>8, <1>14, <2>1
<1> HIDE DEF p2
<1>17. p3 \in Text /\ Len(p3) = PS_NAME_W + 7
  <2>1. p3 \in Text /\ Len(p3) = Len(p2) + Len(st)
    BY <1>1, <1>5, <1>15, Zenon
  <2> QED  BY <1>1, <1>15, <2>1
<1>18. Stated(f, t, states) = f \o p3
  <2>1. (f \o p2) \o st = f \o (p2 \o st)
    BY <1>1, <1>6, <1>15, ZenonT(40)
  <2> QED  BY <1>8, <1>16, <2>1
<1>19. Line(t, states) = p3 \o <<"\n">>
  BY <1>7 DEF p1, p2
<1> HIDE DEF p3
<1>20. Line(t, states) \in Text /\ Len(Line(t, states)) = LineWidth
  BY <1>1, <1>4, <1>5, <1>17, <1>19 DEF LineWidth
<1>21. f \o Line(t, states) = Stated(f, t, states) \o <<"\n">>
  <2> DEFINE e == <<"\n">>
  <2>1. e \in Text
    BY <1>4
  <2> HIDE DEF e
  <2>2. (f \o p3) \o e = f \o (p3 \o e)
    BY <1>6, <1>17, <2>1, Zenon
  <2> QED  BY <1>18, <1>19, <2>2 DEF e
<1> QED  BY <1>4, <1>9, <1>10, <1>11, <1>12, <1>20, <1>21

\* A turn of the loop adds the thread's line to the text, cut to the buffer;
\* it leaves the loop only when the buffer is full.
LEMMA PsLineCut ==
  ASSUME NEW f \in Text, NEW t \in Tids, NEW states \in Snapshots, NEW size \in Nat
  PROVE  /\ PsLine(Cut(f, size), t, states, size).out = Cut(f \o Line(t, states), size)
         /\ PsLine(Cut(f, size), t, states, size).break =>
              Kept(Len(f \o Line(t, states)), size) + 1 >= size
<1> DEFINE g1 == Named(f, t)
<1> DEFINE g2 == Padded(f, t)
<1> DEFINE g3 == Indexed(f, t)
<1> DEFINE g4 == Stated(f, t, states)
<1> DEFINE g5 == f \o Line(t, states)
<1> DEFINE w == PS_NAME_W - (Len(Cut(g1, size)) - Len(Cut(f, size)))
<1> DEFINE full == PS_NAME_W - Len(NameOf(t))
<1>1. /\ g1 \in Text /\ g2 \in Text /\ g3 \in Text /\ g4 \in Text /\ g5 \in Text
      /\ g5 = g4 \o <<"\n">> /\ <<"\n">> \in Text
      /\ Len(g1) = Len(f) + Len(NameOf(t)) /\ Len(g3) = Len(g2) + 5
      /\ Len(g4) = Len(g3) + 2 /\ Len(g5) = Len(g4) + 1
      /\ Len(f) \in Nat /\ Len(g1) \in Nat /\ Len(g2) \in Nat /\ Len(g3) \in Nat /\ Len(g4) \in Nat
  <2>1. /\ g1 \in Text /\ g2 \in Text /\ g3 \in Text /\ g4 \in Text
        /\ g5 = g4 \o <<"\n">> /\ <<"\n">> \in Text /\ Len(<<"\n">>) = 1
        /\ Len(g1) = Len(f) + Len(NameOf(t)) /\ Len(g3) = Len(g2) + 5 /\ Len(g4) = Len(g3) + 2
    BY LineGrows, Zenon
  <2> HIDE DEF g1, g2, g3, g4, g5
  <2>2. g5 \in Text /\ Len(g5) = Len(g4) + 1
    BY <2>1, ConcatProperties DEF Text
  <2>3. Len(f) \in Nat /\ Len(g1) \in Nat /\ Len(g2) \in Nat /\ Len(g3) \in Nat /\ Len(g4) \in Nat
    BY <2>1, LenProperties DEF Text
  <2> QED  BY <2>1, <2>2, <2>3
<1>2. /\ NameOf(t) \in Text /\ Len(NameOf(t)) \in 0 .. PS_NAME_W /\ PS_NAME_W \in Nat
      /\ Index(t) \in Text /\ state_name[states[t]] \in Text
  BY LineParts, SyscallsAssumption
<1>3. CopyWhileFits(Cut(f, size), NameOf(t), size) = Cut(g1, size)
  BY <1>2, CutCopy DEF Named
<1>4. PadWhileFits(Cut(g1, size), w, size) = Cut(g2, size)
  <2>1. /\ Len(Cut(g1, size)) = Kept(Len(f) + Len(NameOf(t)), size)
        /\ Len(Cut(f, size)) = Kept(Len(f), size)
    <3> HIDE DEF g1
    <3>1. Len(Cut(g1, size)) = Kept(Len(g1), size)
      BY <1>1, CutFacts, Zenon
    <3>2. Len(Cut(f, size)) = Kept(Len(f), size)
      BY CutFacts
    <3> QED  BY <1>1, <3>1, <3>2
  <2>2. w \in Nat
    <3> DEFINE fits == Fits(Len(f), Len(NameOf(t)), size)
    <3>1. /\ Kept(Len(f), size) \in Nat /\ fits \in Nat /\ fits <= Len(NameOf(t))
          /\ Kept(Len(f), size) + fits = Kept(Len(f) + Len(NameOf(t)), size)
      <4>1. Len(f) \in Nat /\ Len(NameOf(t)) \in Nat
        BY <1>1, <1>2
      <4>2. \A a \in Nat, b \in Nat :
              /\ Kept(a, size) \in Nat /\ Fits(a, b, size) \in Nat /\ Fits(a, b, size) <= b
              /\ Kept(a, size) + Fits(a, b, size) = Kept(a + b, size)
        BY KeptSum
      <4> HIDE DEF fits
      <4> QED  BY <4>1, <4>2 DEF fits
    <3> HIDE DEF fits
    <3> QED  BY <1>2, <2>1, <3>1
  <2>3. Blanks(w) \in Text /\ Blanks(full) \in Text
    <3>1. full \in Nat
      BY <1>2
    <3> HIDE DEF w, full
    <3> QED  BY <2>2, <3>1, BlanksText
  <2>4. PadWhileFits(Cut(g1, size), w, size) = Cut(g1 \o Blanks(w), size)
    <3> HIDE DEF g1, w
    <3> QED  BY <1>1, <2>3, CutCopy, Zenon DEF PadWhileFits, Blanks
  <2>5. g2 = g1 \o Blanks(full)
    BY DEF Padded
  <2>6. CASE Kept(Len(g1), size) + 1 < size
    <3>1. Len(g1) < size /\ Len(f) < size
      BY <1>1, <1>2, <2>6 DEF Kept
    <3>2. w = full
      BY <1>1, <1>2, <2>1, <3>1 DEF Kept
    <3> QED  BY <2>4, <2>5, <3>2
  <2>7. CASE ~(Kept(Len(g1), size) + 1 < size)
    <3>1. Kept(Len(g1), size) + 1 >= size
      BY <1>1, <2>7 DEF Kept
    <3> HIDE DEF g1, w, full
    <3>2. Cut(g1 \o Blanks(w), size) = Cut(g1, size) /\ Cut(g1 \o Blanks(full), size) = Cut(g1, size)
      <4>1. \A b \in Text : Cut(g1 \o b, size) = Cut(g1, size)
        BY <1>1, <3>1, CutFull, ZenonT(40)
      <4> QED  BY <2>3, <4>1
    <3> QED  BY <2>4, <2>5, <3>2
  <2> QED  BY <2>6, <2>7
<1>5. CopyWhileFits(Cut(g2, size), Index(t), size) = Cut(g3, size)
  BY <1>1, <1>2, CutCopy DEF Indexed
<1>6. CopyWhileFits(Cut(g3, size), state_name[states[t]], size) = Cut(g4, size)
  BY <1>1, <1>2, CutCopy DEF Stated
<1> DEFINE line == PsLine(Cut(f, size), t, states, size)
<1>7. line = IF Len(Cut(g3, size)) < Len(Cut(g2, size)) + 5 THEN [out |-> Cut(g3, size), break |-> TRUE]
             ELSE IF Len(Cut(g4, size)) + 1 >= size THEN [out |-> Cut(g4, size), break |-> TRUE]
             ELSE [out |-> Append(Cut(g4, size), "\n"), break |-> FALSE]
  BY <1>3, <1>4, <1>5, <1>6, Zenon DEF PsLine
<1> HIDE DEF g1, g2, g3, g4, g5, line, w
<1>8. /\ Len(Cut(g2, size)) = Kept(Len(g2), size) /\ Len(Cut(g3, size)) = Kept(Len(g3), size)
      /\ Len(Cut(g4, size)) = Kept(Len(g4), size) /\ Cut(g4, size) \in Text
  BY <1>1, CutFacts, Zenon
<1>9. CASE Len(Cut(g3, size)) < Len(Cut(g2, size)) + 5
  <2>1. Kept(Len(g3), size) + 1 >= size
    BY <1>1, <1>8, <1>9 DEF Kept
  <2>2. Kept(Len(g4), size) + 1 >= size /\ Kept(Len(g5), size) + 1 >= size
    BY <1>1, <2>1 DEF Kept
  <2>3. Cut(g4, size) = Cut(g3, size)
    BY <1>1, <1>2, <2>1, CutFull DEF g4, g3, Stated
  <2>4. Cut(g5, size) = Cut(g4, size)
    BY <1>1, <2>2, CutFull
  <2>5. line.out = Cut(g3, size)
    BY <1>7, <1>9
  <2> QED  BY <2>2, <2>3, <2>4, <2>5 DEF line, g5
<1>10. CASE ~(Len(Cut(g3, size)) < Len(Cut(g2, size)) + 5) /\ Len(Cut(g4, size)) + 1 >= size
  <2>1. Kept(Len(g4), size) + 1 >= size /\ Kept(Len(g5), size) + 1 >= size
    BY <1>1, <1>8, <1>10 DEF Kept
  <2>2. Cut(g5, size) = Cut(g4, size)
    BY <1>1, <2>1, CutFull
  <2>3. line.out = Cut(g4, size)
    BY <1>7, <1>10
  <2> QED  BY <2>1, <2>2, <2>3 DEF line, g5
<1>11. CASE ~(Len(Cut(g3, size)) < Len(Cut(g2, size)) + 5) /\ ~(Len(Cut(g4, size)) + 1 >= size)
  <2>1. line.out = Append(Cut(g4, size), "\n") /\ line.break = FALSE
    BY <1>7, <1>11
  <2> DEFINE nl == <<"\n">>
  <2>2. Append(Cut(g4, size), "\n") = Cut(g4, size) \o nl
    <3>1. "\n" \in Chars
      BY DEF Chars
    <3> QED  BY <1>8, <3>1, AppendIsConcat DEF Text
  <2>3. 1 <= Room(Cut(g4, size), size) /\ Len(nl) = 1 /\ SubSeq(nl, 1, 1) = nl
    <3>1. Kept(Len(g4), size) \in Nat
      BY <1>1, KeptSum, Zenon
    <3>2. 1 <= Room(Cut(g4, size), size)
      BY <1>8, <1>11, <3>1 DEF Room
    <3>3. Len(nl) = 1
      OBVIOUS
    <3>4. SubSeq(nl, 1, 1) = nl
      BY <1>1, <3>3, SubSeqFull, Zenon DEF Text
    <3> QED  BY <3>2, <3>3, <3>4
  <2>4. CopyWhileFits(Cut(g4, size), nl, size) = Cut(g4, size) \o nl
    BY <2>3 DEF CopyWhileFits
  <2>5. CopyWhileFits(Cut(g4, size), nl, size) = Cut(g5, size)
    BY <1>1, CutCopy
  <2> QED  BY <2>1, <2>2, <2>4, <2>5 DEF line, g5
<1> QED  BY <1>9, <1>10, <1>11

\* The listing's beginning of n lines, and what a thread adds to it.
Lines(n, states) == SubSeq(Listing(states), 1, n * LineWidth)

\* Where each line of the listing stands.
LEMMA ListingFacts ==
  ASSUME NEW states \in Snapshots
  PROVE  /\ LineWidth \in Nat \ {0} /\ NUM_THREADS \in Nat
         /\ Listing(states) \in Text /\ Len(Listing(states)) = NUM_THREADS * LineWidth
         /\ \A t \in Tids, j \in 1 .. LineWidth :
              /\ t * LineWidth + j \in 1 .. NUM_THREADS * LineWidth
              /\ Listing(states)[t * LineWidth + j] = Line(t, states)[j]
<1> DEFINE m == LineWidth
<1> DEFINE all == NUM_THREADS * m
<1> DEFINE f == Listing(states)
<1>1. m \in Nat \ {0}
  BY SyscallsAssumption DEF LineWidth
<1>2. NUM_THREADS \in Nat
  BY ThreadCount
<1>3. f = [k \in 1 .. all |-> Line((k - 1) \div m, states)[((k - 1) % m) + 1]]
  BY DEF Listing
<1>4. << >> \in Text
  BY EmptySeq DEF Text
<1>5. \A t \in Tids : Line(t, states) \in Text /\ Len(Line(t, states)) = m
  BY <1>4, LineGrows
<1> HIDE DEF m, f
<1>6. all \in Nat
  BY <1>1, <1>2
<1>7. ASSUME NEW t \in Tids, NEW j \in 1 .. m
      PROVE  /\ t * m + j \in 1 .. all
             /\ f[t * m + j] = Line(t, states)[j]
  <2>1. t \in Nat /\ t + 1 <= NUM_THREADS
    BY <1>2 DEF Tids
  <2>2. (t + 1) * m <= NUM_THREADS * m /\ (t + 1) * m = t * m + m /\ t * m \in Nat
    BY <1>1, <1>2, <2>1
  <2>3. t * m + j \in 1 .. all
    BY <1>1, <1>6, <2>2
  <2> DEFINE k == t * m + j
  <2>4. k - 1 = t * m + (j - 1) /\ j - 1 \in 0 .. m - 1
    BY <1>1, <2>2
  <2>5. (k - 1) \div m = t /\ (k - 1) % m = j - 1
    BY <1>1, <2>1, <2>4, DivUnique, Zenon
  <2>6. f[k] = Line((k - 1) \div m, states)[((k - 1) % m) + 1]
    <3> HIDE DEF k, all
    <3> QED  BY <1>3, <2>3 DEF k
  <2>7. (j - 1) + 1 = j
    BY <1>1
  <2> QED  BY <2>3, <2>5, <2>6, <2>7
<1>8. ASSUME NEW k \in 1 .. all
      PROVE  f[k] \in Chars
  <2> DEFINE q == (k - 1) \div m
  <2> DEFINE r == (k - 1) % m
  <2>1. k - 1 \in Nat /\ k - 1 < all
    BY <1>6
  <2>2. q \in Int /\ r \in 0 .. m - 1 /\ k - 1 = q * m + r
    <3> DEFINE a == k - 1
    <3>1. a \in Nat
      BY <2>1
    <3> HIDE DEF a
    <3>2. a \div m \in Int /\ a % m \in 0 .. m - 1 /\ a = (a \div m) * m + (a % m)
      BY <1>1, <3>1
    <3> QED  BY <3>2 DEF a
  <2>3. f[k] = Line(q, states)[r + 1]
    <3> HIDE DEF all
    <3> QED  BY <1>3
  <2> HIDE DEF q, r
  <2>4. q >= 0
    <3>1. q <= -1 => q * m <= -m
      BY <1>1, <2>2
    <3> QED  BY <1>1, <2>1, <2>2, <3>1
  <2>5. q < NUM_THREADS
    <3>1. q >= NUM_THREADS => q * m >= NUM_THREADS * m
      BY <1>1, <1>2, <2>2
    <3>2. q * m \in Int
      BY <1>1, <2>2
    <3> QED  BY <1>2, <1>6, <2>1, <2>2, <3>1, <3>2
  <2>6. q \in Tids /\ r + 1 \in 1 .. m
    BY <1>1, <1>2, <2>2, <2>4, <2>5 DEF Tids
  <2> QED  BY <1>5, <2>3, <2>6, ElementOfSeq DEF Text
<1>9. f \in Text /\ Len(f) = all
  <2>1. f \in [1 .. all -> Chars] /\ DOMAIN f = 1 .. all
    <3> HIDE DEF all
    <3> QED  BY <1>3, <1>8
  <2> HIDE DEF all
  <2>2. f \in Seq(Chars)
    BY <1>6, <2>1, SeqDef
  <2>3. DOMAIN f = 1 .. Len(f) /\ Len(f) \in Nat
    BY <2>2, LenProperties
  <2> QED  BY <1>6, <2>1, <2>2, <2>3 DEF Text
<1> QED  BY <1>1, <1>2, <1>7, <1>9 DEF m, f

\* A longer text looks like its beginning once the beginning fills the buffer.
LEMMA CutBeginning ==
  ASSUME NEW f \in Text, NEW n \in 0 .. Len(f), NEW size \in Nat, Kept(n, size) + 1 >= size
  PROVE  Cut(SubSeq(f, 1, n), size) = Cut(f, size)
<1> DEFINE g == SubSeq(f, 1, n)
<1>1. Len(f) \in Nat /\ \A i \in 1 .. Len(f) : f[i] \in Chars
  BY ElementOfSeq, LenProperties DEF Text
<1>2. g \in Text /\ Len(g) = n /\ \A i \in 1 .. n : g[i] = f[i]
  BY <1>1, Beginning
<1>3. Kept(Len(f), size) = Kept(n, size) /\ Kept(n, size) <= n /\ Kept(n, size) \in Nat
  BY <1>1 DEF Kept
<1> HIDE DEF g
<1>4. /\ Cut(g, size) \in Text /\ Len(Cut(g, size)) = Kept(n, size)
      /\ \A i \in 1 .. Kept(n, size) : Cut(g, size)[i] = g[i]
  BY <1>2, CutFacts, Zenon
<1>5. /\ Cut(f, size) \in Text /\ Len(Cut(f, size)) = Kept(n, size)
      /\ \A i \in 1 .. Kept(n, size) : Cut(f, size)[i] = f[i]
  BY <1>3, CutFacts
<1>6. \A i \in 1 .. Kept(n, size) : Cut(g, size)[i] = Cut(f, size)[i]
  BY <1>1, <1>2, <1>3, <1>4, <1>5
<1>7. Cut(g, size) = Cut(f, size)
  BY <1>4, <1>5, <1>6, SeqEqual DEF Text
<1> QED  BY <1>7 DEF g

\* The beginning grows by the line of the next thread, up to the whole listing.
LEMMA LinesGrow ==
  ASSUME NEW states \in Snapshots
  PROVE  /\ Lines(0, states) = << >>
         /\ Lines(NUM_THREADS, states) = Listing(states)
         /\ \A t \in Tids :
              /\ Lines(t, states) \in Text /\ Lines(t + 1, states) \in Text
              /\ Len(Lines(t + 1, states)) = (t + 1) * LineWidth
              /\ (t + 1) * LineWidth \in 0 .. Len(Listing(states))
              /\ Lines(t + 1, states) = Lines(t, states) \o Line(t, states)
<1> DEFINE m == LineWidth
<1> DEFINE f == Listing(states)
<1>1. /\ m \in Nat \ {0} /\ NUM_THREADS \in Nat
      /\ f \in Text /\ Len(f) = NUM_THREADS * m
      /\ \A t \in Tids, j \in 1 .. m : f[t * m + j] = Line(t, states)[j]
  BY ListingFacts
<1>2. << >> \in Text
  BY EmptySeq DEF Text
<1>3. \A t \in Tids : Line(t, states) \in Text /\ Len(Line(t, states)) = m
  BY <1>2, LineGrows
<1>4. \A n : Lines(n, states) = SubSeq(f, 1, n * m)
  BY DEF Lines
<1> HIDE DEF m, f
<1>5. ASSUME NEW n \in Nat, n <= NUM_THREADS
      PROVE  /\ n * m \in 0 .. Len(f)
             /\ Lines(n, states) \in Text /\ Len(Lines(n, states)) = n * m
             /\ \A i \in 1 .. n * m : Lines(n, states)[i] = f[i]
  <2>1. n * m <= NUM_THREADS * m /\ n * m \in Nat /\ NUM_THREADS * m \in Nat
    BY <1>1, <1>5
  <2>2. n * m \in 0 .. Len(f)
    BY <1>1, <2>1
  <2> QED  BY <1>1, <1>4, <2>2, Beginning, Zenon
<1>6. Lines(0, states) = << >>
  <2>1. 0 * m = 0
    BY <1>1
  <2>2. Lines(0, states) \in Text /\ Len(Lines(0, states)) = 0
    BY <1>1, <1>5, <2>1
  <2> QED  BY <2>2, EmptySeq DEF Text
<1>7. Lines(NUM_THREADS, states) = f
  BY <1>1, <1>4, SubSeqFull DEF Text
<1>8. ASSUME NEW t \in Tids
      PROVE  /\ Lines(t, states) \in Text /\ Lines(t + 1, states) \in Text
             /\ Len(Lines(t + 1, states)) = (t + 1) * m
             /\ (t + 1) * m \in 0 .. Len(f)
             /\ Lines(t + 1, states) = Lines(t, states) \o Line(t, states)
  <2> DEFINE a == Lines(t, states)
  <2> DEFINE b == Lines(t + 1, states)
  <2> DEFINE l == Line(t, states)
  <2>1. t \in Nat /\ t + 1 \in Nat /\ t <= NUM_THREADS /\ t + 1 <= NUM_THREADS
    BY <1>1 DEF Tids
  <2>2. (t + 1) * m = t * m + m /\ t * m \in Nat
    BY <1>1, <2>1
  <2>3. a \in Text /\ Len(a) = t * m /\ \A i \in 1 .. t * m : a[i] = f[i]
    BY <1>5, <2>1
  <2>4. /\ (t + 1) * m \in 0 .. Len(f)
        /\ b \in Text /\ Len(b) = (t + 1) * m /\ \A i \in 1 .. (t + 1) * m : b[i] = f[i]
    BY <1>5, <2>1
  <2>5. l \in Text /\ Len(l) = m
    BY <1>3
  <2> HIDE DEF a, b, l
  <2>6. /\ a \o l \in Text /\ Len(a \o l) = t * m + m
        /\ \A i \in 1 .. t * m + m : (a \o l)[i] = IF i <= t * m THEN a[i] ELSE l[i - t * m]
    <3>1. /\ a \o l \in Text /\ Len(a \o l) = Len(a) + Len(l)
          /\ \A i \in 1 .. Len(a) + Len(l) :
               (a \o l)[i] = IF i <= Len(a) THEN a[i] ELSE l[i - Len(a)]
      BY <2>3, <2>5, ConcatProperties, Zenon DEF Text
    <3> QED  BY <2>3, <2>5, <3>1
  <2>7. ASSUME NEW i \in 1 .. t * m + m
        PROVE  b[i] = (a \o l)[i]
    <3>1. b[i] = f[i]
      BY <2>2, <2>4
    <3>2. CASE i <= t * m
      <4>1. i \in 1 .. t * m
        BY <2>2, <3>2
      <4> QED  BY <2>3, <2>6, <3>1, <3>2, <4>1
    <3>3. CASE ~(i <= t * m)
      <4> DEFINE j == i - t * m
      <4>1. j \in 1 .. m /\ t * m + j = i
        BY <1>1, <2>2, <3>3
      <4>2. f[t * m + j] = l[j]
        <5> HIDE DEF j
        <5> QED  BY <1>1, <4>1 DEF l
      <4> QED  BY <2>6, <3>1, <3>3, <4>1, <4>2
    <3> QED  BY <3>2, <3>3, Zenon
  <2>8. b = a \o l
    BY <2>2, <2>4, <2>6, <2>7, SeqEqual DEF Text
  <2> QED  BY <2>3, <2>4, <2>8 DEF a, b, l
<1> QED  BY <1>6, <1>7, <1>8 DEF m, f

-----------------------------------------------------------------------------
(* The calls.                                                              *)

\* While the listing is written: what the loop has stored is the beginning of
\* the listing, cut to the buffer, and the buffer is one the check accepted.
ListingInv ==
  /\ call.buf \in Buffers /\ call.len \in Lengths /\ call.states \in Snapshots
  /\ call.i \in 0 .. NUM_THREADS
  /\ valid_user_ptr(call.buf, call.len)
  /\ call = [op |-> "listing", buf |-> call.buf, len |-> call.len, states |-> call.states,
             out |-> Cut(Lines(call.i, call.states), call.len), i |-> call.i]

CallInv ==
  /\ PointersConfined
  /\ ResultTruthful
  /\ PsShowsListing
  /\ call.op = "listing" => ListingInv

\* The end of sys_ps, from the loop or behind it.
LEMMA PsReturned ==
  ASSUME ListingInv, NEW out, PsReturn(out), out = Cut(Listing(call.states), call.len)
  PROVE  CallInv'
<1> DEFINE buf == call.buf
<1> DEFINE len == call.len
<1> DEFINE states == call.states
<1> DEFINE n == Len(out)
<1>1. buf \in UInts /\ len \in UInts /\ states \in Snapshots /\ valid_user_ptr(buf, len)
  BY SyscallsAssumption DEF ListingInv
<1>2. /\ call'.op = "ps" /\ call'.buf = buf /\ call'.len = len /\ call'.touched = Touches(buf, n)
      /\ call'.result = AsUnsigned(n) /\ call'.states = states /\ call'.text = out
  BY DEF PsReturn
<1>3. out = Cut(Listing(states), len)
  OBVIOUS
<1> HIDE DEF buf, len, states
<1>4. n \in 0 .. len
  <2>0. len \in Nat
    BY <1>1, UIntsNat
  <2>1. Listing(states) \in Text /\ len \in Nat
    BY <1>1, <2>0, ListingFacts, Zenon
  <2>2. n = Kept(Len(Listing(states)), len) /\ Len(Listing(states)) \in Nat
    BY <1>3, <2>1, CutFacts, LenProperties DEF Text
  <2> HIDE DEF n
  <2> QED  BY <2>1, <2>2 DEF Kept
<1> HIDE DEF n
<1>5. PointersConfined' /\ ResultTruthful'
  BY <1>1, <1>2, <1>4, CountReturned
<1>6. PsShowsListing'
  BY <1>2, <1>3 DEF PsShowsListing
<1> QED  BY <1>2, <1>5, <1>6 DEF CallInv

\* One turn of the loop.
LEMMA PsLoopStep ==
  ASSUME CallInv, PsLoop
  PROVE  CallInv'
<1> DEFINE t == call.i
<1> DEFINE len == call.len
<1> DEFINE states == call.states
<1> DEFINE line == PsLine(call.out, t, states, len)
<1>1. call.op = "listing" /\ ListingInv /\ t < NUM_THREADS
  BY DEF PsLoop, CallInv
<1>2. /\ states \in Snapshots /\ len \in Nat /\ t \in 0 .. NUM_THREADS
      /\ call.out = Cut(Lines(t, states), len)
  <2>1. Lengths \subseteq Nat
    BY SyscallsAssumption, IntWidth DEF UInts
  <2> QED  BY <1>1, <2>1 DEF ListingInv
<1>3. NUM_THREADS \in Nat /\ Listing(states) \in Text
  BY <1>2, ListingFacts
<1>4. t \in Tids
  BY <1>1, <1>2, <1>3 DEF Tids
<1>5. /\ Lines(t, states) \in Text /\ Lines(t + 1, states) = Lines(t, states) \o Line(t, states)
      /\ Len(Lines(t + 1, states)) \in 0 .. Len(Listing(states))
      /\ Len(Lines(t + 1, states)) = (t + 1) * LineWidth
  BY <1>2, <1>4, LinesGrow
<1>6. /\ line.out = Cut(Lines(t + 1, states), len)
      /\ line.break => Kept(Len(Lines(t + 1, states)), len) + 1 >= len
  <2> HIDE DEF t, len, states
  <2> QED  BY <1>2, <1>4, <1>5, PsLineCut, Zenon
<1>7. IF line.break THEN PsReturn(line.out)
      ELSE call' = [call EXCEPT !.out = line.out, !.i = @ + 1]
  BY DEF PsLoop
<1>8. CASE line.break
  <2>1. Cut(Lines(t + 1, states), len) = Cut(Listing(states), len)
    <3> HIDE DEF t, len, states, line
    <3> QED  BY <1>2, <1>3, <1>5, <1>6, <1>8, CutBeginning, Zenon DEF Lines
  <2>2. PsReturn(line.out) /\ line.out = Cut(Listing(states), len)
    BY <1>6, <1>7, <1>8, <2>1
  <2> HIDE DEF line
  <2> QED  BY <1>1, <2>2, PsReturned
<1>9. CASE ~line.break
  <2>1. call' = [call EXCEPT !.out = line.out, !.i = t + 1]
    BY <1>7, <1>9
  <2>2. call = [op |-> "listing", buf |-> call.buf, len |-> len, states |-> states,
                out |-> Cut(Lines(t, states), len), i |-> t]
    BY <1>1 DEF ListingInv
  <2>3. call' = [op |-> "listing", buf |-> call.buf, len |-> len, states |-> states,
                 out |-> Cut(Lines(t + 1, states), len), i |-> t + 1]
    <3> DEFINE buf == call.buf
    <3> DEFINE old == Cut(Lines(t, states), len)
    <3> DEFINE new == Cut(Lines(t + 1, states), len)
    <3> DEFINE next == t + 1
    <3>1. /\ call = [op |-> "listing", buf |-> buf, len |-> len, states |-> states, out |-> old, i |-> t]
          /\ call' = [call EXCEPT !.out = new, !.i = next]
      BY <1>6, <2>1, <2>2
    <3> HIDE DEF line, t, len, states, buf, old, new, next
    <3>2. call' = [op |-> "listing", buf |-> buf, len |-> len, states |-> states, out |-> new, i |-> next]
      BY <3>1, Zenon
    <3> QED  BY <3>2 DEF buf, new, next
  <2>4. t + 1 \in 0 .. NUM_THREADS
    BY <1>1, <1>2, <1>3
  <2>5. /\ call'.op = "listing" /\ call'.buf = call.buf /\ call'.len = len
        /\ call'.states = states /\ call'.i = t + 1
    <3> HIDE DEF t, len, states
    <3> QED  BY <2>3
  <2>6. ListingInv'
    <3>1. /\ call.buf \in Buffers /\ len \in Lengths /\ states \in Snapshots
          /\ valid_user_ptr(call.buf, len)
      BY <1>1 DEF ListingInv
    <3> HIDE DEF t, len, states
    <3> QED  BY <2>3, <2>4, <2>5, <3>1 DEF ListingInv
  <2>7. call'.op \notin {"write", "read", "ps"}
    BY <2>5
  <2> QED  BY <2>6, <2>7 DEF CallInv, PointersConfined, ResultTruthful, PsShowsListing
<1> QED  BY <1>8, <1>9

\* sys_ps refuses its buffer or begins with nothing of the listing.
LEMMA PsStart ==
  ASSUME NEW buf \in Buffers, NEW size \in Lengths, NEW states \in Snapshots, sys_ps(buf, size, states)
  PROVE  CallInv'
<1>1. buf \in UInts /\ size \in UInts /\ size \in Nat
  BY SyscallsAssumption, IntWidth DEF UInts
<1> DEFINE refused == /\ ~valid_user_ptr(buf, size)
                      /\ call'.op = "ps" /\ call'.buf = buf /\ call'.len = size
                      /\ call'.result = E_FAULT /\ call'.touched = Touches(buf, 0)
           begun ==
             call' = [op |-> "listing", buf |-> buf, len |-> size, states |-> states, out |-> << >>, i |-> 0]
<1>0. refused \/ (valid_user_ptr(buf, size) /\ begun)
  BY PsAnswer
<1>2. CASE refused
  BY <1>1, <1>2, FaultReturned DEF CallInv
<1>3. CASE valid_user_ptr(buf, size) /\ begun
  <2>1. begun
    BY <1>3
  <2>2. Cut(Lines(0, states), size) = << >>
    <3>1. Lines(0, states) = << >> /\ << >> \in Text /\ Len(<< >>) = 0
      BY LinesGrow, EmptySeq DEF Text
    <3>2. Cut(<< >>, size) \in Text /\ Len(Cut(<< >>, size)) = 0
      BY <1>1, <3>1, CutFacts DEF Kept
    <3> QED  BY <3>1, <3>2, EmptySeq DEF Text
  <2>3. 0 \in 0 .. NUM_THREADS
    BY ThreadCount
  <2>4. ListingInv'
    BY <1>3, <2>1, <2>2, <2>3 DEF ListingInv
  <2> QED  BY <2>1, <2>4 DEF CallInv, PointersConfined, ResultTruthful, PsShowsListing
<1> HIDE DEF refused, begun
<1> QED  BY <1>0, <1>2, <1>3

\* Every call the program makes, for every window, buffer, length, listing and
\* set of names: what the kernel touches, what it answers and what sys_ps shows.
THEOREM CallInvariance == Spec => []CallInv
<1>1. Init => CallInv
  BY DEF Init, SyscallsInit, NoCall, CallInv, PointersConfined, ResultTruthful, PsShowsListing
<1>2. ASSUME CallInv, [Next]_progVars
      PROVE  CallInv'
  <2> DEFINE quiet == call'.op \notin {"write", "read", "ps", "listing"}
  <2>1. quiet => CallInv'
    BY DEF CallInv, PointersConfined, ResultTruthful, PsShowsListing
  <2>2. CASE UNCHANGED call
    BY <1>2, <2>2 DEF CallInv, PointersConfined, ResultTruthful, PsShowsListing, ListingInv
  <2>3. CASE MakeCall
    <3>0. ASSUME call'.op \in {"write", "read"}, PointersConfined', ResultTruthful'
          PROVE  CallInv'
      BY <3>0 DEF CallInv, PsShowsListing
    <3>1. ASSUME NEW buf \in Buffers, NEW len \in Lengths, sys_write(buf, len)
          PROVE  CallInv'
      <4>1. 1 \in 1 .. RX_BYTES
        BY SyscallsAssumption
      <4>2. call'.op \in {"write", "read"} /\ PointersConfined' /\ ResultTruthful'
        BY <3>1, <4>1, TransferStep
      <4> QED  BY <3>0, <4>2
    <3>2. ASSUME NEW buf \in Buffers, NEW len \in Lengths, NEW k \in 1 .. RX_BYTES, sys_read(buf, len, k)
          PROVE  CallInv'
      <4>1. call'.op \in {"write", "read"} /\ PointersConfined' /\ ResultTruthful'
        BY <3>2, TransferStep
      <4> QED  BY <3>0, <4>1
    <3>3. ASSUME NEW buf \in Buffers, NEW size \in Lengths, NEW states \in Snapshots, sys_ps(buf, size, states)
          PROVE  CallInv'
      BY <3>3, PsStart
    <3>4. ASSUME NEW pid, sys_kill(pid) \/ sys_getpid(pid) \/ BadCall(pid)
          PROVE  quiet
      BY <3>4 DEF sys_kill, sys_getpid, BadCall, Returns
    <3> HIDE DEF quiet
    <3> QED  BY <2>1, <2>3, <3>1, <3>2, <3>3, <3>4 DEF MakeCall
  <2>4. CASE SyscallReturn
    BY <2>1, <2>4 DEF SyscallReturn, NoCall
  <2>5. CASE PsLoop
    BY <1>2, <2>5, PsLoopStep
  <2>6. CASE PsDone
    <3>1. ListingInv /\ call.i = NUM_THREADS /\ PsReturn(call.out)
      BY <1>2, <2>6 DEF PsDone, CallInv
    <3>2. call.out = Cut(Lines(NUM_THREADS, call.states), call.len) /\ call.states \in Snapshots
      BY <3>1 DEF ListingInv
    <3>3. call.out = Cut(Listing(call.states), call.len)
      BY <3>2, LinesGrow
    <3> QED  BY <3>1, <3>3, PsReturned
  <2>7. ASSUME NEW fmt, NEW v, NEW s, Message(fmt, v, s)
        PROVE  quiet
    BY <2>7 DEF Message
  <2> HIDE DEF quiet
  <2> QED
    BY <1>2, <2>1, <2>2, <2>3, <2>4, <2>5, <2>6, <2>7, StepKinds
<1> QED  BY <1>1, <1>2, PTL DEF Spec

\* The kernel touches no byte outside the caller's window.
THEOREM ConfinementCorrect == Spec => []PointersConfined
<1>1. CallInv => PointersConfined
  BY DEF CallInv
<1> QED  BY <1>1, CallInvariance, PTL

\* What sys_write, sys_read and sys_ps answer is true.
THEOREM ResultsCorrect == Spec => []ResultTruthful
<1>1. CallInv => ResultTruthful
  BY DEF CallInv
<1> QED  BY <1>1, CallInvariance, PTL

\* sys_ps shows the beginning of the listing that its buffer has room for,
\* for every number of processes, of threads and every name.
THEOREM ListingCorrect == Spec => []PsShowsListing
<1>1. CallInv => PsShowsListing
  BY DEF CallInv
<1> QED  BY <1>1, CallInvariance, PTL

=============================================================================
