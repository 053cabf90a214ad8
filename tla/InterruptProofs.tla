-------------------------- MODULE InterruptProofs --------------------------
(***************************************************************************)
(* The interrupt path, and the two rings between the UART's interrupt and  *)
(* sys_read.                                                               *)
(*                                                                         *)
(* On both boards, for any depth and trigger level of the UART's FIFO and  *)
(* any number of bytes during a handler: every line that reaches           *)
(* irq_dispatch has a handler, every timer period is counted, and every    *)
(* wakeup follows a byte.                                                  *)
(*                                                                         *)
(* For any number of threads uart_waitq is a well-formed ring, what it     *)
(* holds changes like a first-in first-out queue, and it implements the    *)
(* queue of live readers.  For any size of ring, counter and character     *)
(* rx_buf implements the bounded byte queue.                               *)
(***************************************************************************)
EXTENDS WaitQueue, RxRing, IrqPath, SequenceTheorems, FiniteSetTheorems, TLAPS

-----------------------------------------------------------------------------
(* Remainders, for any divisor.                                            *)

\* A number is quotient times divisor plus remainder.
LEMMA DivMod ==
  ASSUME NEW m \in Nat \ {0}, NEW a \in Int
  PROVE  /\ a \div m \in Int /\ a % m \in 0 .. m - 1
         /\ a = (a \div m) * m + (a % m)
OBVIOUS

\* And in one way only.
LEMMA ModUnique ==
  ASSUME NEW m \in Nat \ {0}, NEW q \in Int, NEW r \in 0 .. m - 1
  PROVE  (q * m + r) % m = r
<1> DEFINE a == q * m + r
<1> DEFINE p == a \div m
<1> DEFINE s == a % m
<1>1. a \in Int
  OBVIOUS
<1>2. p \in Int /\ s \in 0 .. m - 1 /\ a = p * m + s
  <2> HIDE DEF a
  <2> QED  BY <1>1, DivMod
<1>3. (q - p) * m = s - r
  <2> HIDE DEF p, s
  <2> QED  BY <1>2
<1>4. \A d \in Int : d >= 1 => d * m >= m
  OBVIOUS
<1>5. \A d \in Int : d <= -1 => d * m <= -m
  OBVIOUS
<1>6. q - p = 0
  <2> HIDE DEF p, s
  <2> DEFINE d == q - p
  <2>1. d \in Int /\ d * m = s - r
    BY <1>2, <1>3
  <2> HIDE DEF d
  <2>2. d < 1 /\ d > -1
    BY <1>2, <1>4, <1>5, <2>1
  <2>3. d = 0
    BY <2>1, <2>2
  <2> QED  BY <2>3 DEF d
<1>7. s = r
  <2> HIDE DEF p, s
  <2> QED  BY <1>2, <1>3, <1>6
<1> QED  BY <1>7

\* Multiples of the divisor do not change a remainder.
LEMMA ModShift ==
  ASSUME NEW m \in Nat \ {0}, NEW a \in Int, NEW k \in Int
  PROVE  (a + k * m) % m = a % m
<1> DEFINE q == a \div m
<1> DEFINE r == a % m
<1>1. q \in Int /\ r \in 0 .. m - 1 /\ a = q * m + r
  BY DivMod
<1> HIDE DEF q, r
<1>2. a + k * m = (q + k) * m + r
  BY <1>1
<1>3. q + k \in Int
  BY <1>1
<1>4. ((q + k) * m + r) % m = r
  BY <1>1, <1>3, ModUnique
<1> QED  BY <1>2, <1>4 DEF r

\* Numbers less than a divisor apart have different remainders.
LEMMA ModApart ==
  ASSUME NEW m \in Nat \ {0}, NEW a \in Int, NEW d \in 1 .. m - 1
  PROVE  (a + d) % m # a % m
<1> DEFINE q == a \div m
<1> DEFINE r == a % m
<1>1. q \in Int /\ r \in 0 .. m - 1 /\ a = q * m + r
  BY DivMod
<1> HIDE DEF q, r
<1>2. CASE r + d < m
  <2>1. r + d \in 0 .. m - 1 /\ a + d = q * m + (r + d)
    BY <1>1, <1>2
  <2>2. (q * m + (r + d)) % m = r + d
    BY <1>1, <2>1, ModUnique
  <2>3. (a + d) % m = r + d
    BY <2>1, <2>2
  <2> QED  BY <1>1, <2>3 DEF r
<1>3. CASE r + d >= m
  <2>1. r + d - m \in 0 .. m - 1 /\ q + 1 \in Int /\ a + d = (q + 1) * m + (r + d - m)
    BY <1>1, <1>3
  <2>2. ((q + 1) * m + (r + d - m)) % m = r + d - m
    BY <2>1, ModUnique, Zenon
  <2>3. (a + d) % m = r + d - m
    BY <2>1, <2>2
  <2> QED  BY <1>1, <2>3 DEF r
<1> QED  BY <1>1, <1>2, <1>3

-----------------------------------------------------------------------------
(* The counters.                                                           *)

Counters == 0 .. WORD - 1

\* The mask does not see turns of the counters.
LEMMA MaskTurns ==
  ASSUME NEW a \in Int, NEW k \in Int
  PROVE  Mask(a + k * WORD) = Mask(a)
<1> DEFINE p == WORD \div UART_RX_BUF_SIZE
<1>1. p \in Int /\ WORD = p * UART_RX_BUF_SIZE
  BY RxRingAssumption, DivMod
<1> HIDE DEF p
<1>2. k * p \in Int /\ k * WORD = (k * p) * UART_RX_BUF_SIZE
  BY <1>1, RxRingAssumption
<1>3. (a + (k * p) * UART_RX_BUF_SIZE) % UART_RX_BUF_SIZE = a % UART_RX_BUF_SIZE
  BY <1>2, ModShift, RxRingAssumption, Zenon
<1> QED  BY <1>2, <1>3 DEF Mask

\* Nor does it see the wrap of one counter.
LEMMA MaskWrap ==
  ASSUME NEW a \in Int
  PROVE  Mask(a % WORD) = Mask(a)
<1> DEFINE k == a \div WORD
<1> DEFINE r == a % WORD
<1>1. k \in Int /\ r \in Int /\ a = k * WORD + r
  BY DivMod, RxRingAssumption
<1> HIDE DEF k, r
<1>2. a = r + k * WORD
  BY <1>1, RxRingAssumption
<1> QED  BY <1>1, <1>2, MaskTurns DEF r

\* RxSlots less than a ring apart are different slots, a whole ring apart the
\* same slot.
LEMMA MaskSlots ==
  ASSUME NEW a \in Int
  PROVE  /\ Mask(a) \in RxSlots
         /\ Mask(a + UART_RX_BUF_SIZE) = Mask(a)
         /\ \A d \in 1 .. UART_RX_BUF_SIZE - 1 : Mask(a + d) # Mask(a)
<1>1. Mask(a) \in RxSlots
  BY RxRingAssumption, DivMod DEF Mask, RxSlots
<1>2. \A k \in Int : (a + k * UART_RX_BUF_SIZE) % UART_RX_BUF_SIZE = a % UART_RX_BUF_SIZE
  BY ModShift, RxRingAssumption, Zenon
<1>3. (a + UART_RX_BUF_SIZE) % UART_RX_BUF_SIZE = a % UART_RX_BUF_SIZE
  <2>1. PICK k \in Int : k = 1
    OBVIOUS
  <2>2. k * UART_RX_BUF_SIZE = UART_RX_BUF_SIZE
    BY <2>1, RxRingAssumption
  <2> QED  BY <1>2, <2>2
<1>4. \A d \in 1 .. UART_RX_BUF_SIZE - 1 : (a + d) % UART_RX_BUF_SIZE # a % UART_RX_BUF_SIZE
  BY ModApart, RxRingAssumption, Zenon
<1> QED  BY <1>1, <1>3, <1>4 DEF Mask

\* Two numbers a whole number of turns apart have the same unsigned value.
LEMMA Turns ==
  ASSUME NEW a \in Int, NEW k \in Int
  PROVE  (a + k * WORD) % WORD = a % WORD
BY ModShift, RxRingAssumption, Zenon

\* A byte came out as the byte that went in, whatever the sign of plain char.
LEMMA CharRoundTrip ==
  ASSUME NEW b \in Bytes
  PROVE  ToUnsigned(ToChar(b)) = b
<1>1. b \in 0 .. CHAR - 1 /\ b % CHAR = b
  <2>1. b \in 0 .. CHAR - 1 /\ 0 * CHAR + b = b
    BY RxRingAssumption DEF Bytes
  <2>2. (0 * CHAR + b) % CHAR = b
    BY <2>1, ModUnique, RxRingAssumption
  <2> QED  BY <2>1, <2>2
<1>2. (b - CHAR) % CHAR = b
  <2>1. b - CHAR = (-1) * CHAR + b
    BY <1>1, RxRingAssumption
  <2>2. ((-1) * CHAR + b) % CHAR = b
    BY <1>1, ModUnique, RxRingAssumption
  <2> QED  BY <2>1, <2>2
<1> QED  BY <1>1, <1>2 DEF ToUnsigned, ToChar

-----------------------------------------------------------------------------
(* The ring.                                                               *)

RxInv ==
  /\ rx_head \in Counters
  /\ rx_tail \in Counters
  /\ rx_buf \in [RxSlots -> Int]
  /\ NeverOverrun

\* Where the head is: Used bytes past the tail, up to whole turns.
LEMMA HeadPosition ==
  ASSUME RxInv
  PROVE  /\ Used \in 0 .. UART_RX_BUF_SIZE - 1
         /\ \E k \in Int : rx_head = rx_tail + Used + k * WORD
<1>1. rx_head - rx_tail \in Int
  BY RxRingAssumption DEF RxInv, Counters
<1>2. Used \in 0 .. WORD - 1
  BY <1>1, RxRingAssumption, DivMod, Zenon DEF Used
<1>3. PICK k \in Int : rx_head - rx_tail = k * WORD + Used
  BY <1>1, RxRingAssumption, DivMod, Zenon DEF Used
<1>4. rx_head = rx_tail + Used + k * WORD
  BY <1>2, <1>3, RxRingAssumption DEF RxInv, Counters
<1> QED  BY <1>2, <1>4, RxRingAssumption DEF RxInv, NeverOverrun

\* The full test: the slot after the head is the tail's exactly when all
\* usable slots are used.
LEMMA FullTest ==
  ASSUME RxInv
  PROVE  /\ Mask(rx_head) = Mask(rx_tail + Used)
         /\ Mask((rx_head + 1) % WORD) = Mask(rx_tail) <=> Used = UART_RX_BUF_SIZE - 1
<1>1. PICK k \in Int : rx_head = rx_tail + Used + k * WORD
  BY HeadPosition
<1>2. Used \in 0 .. UART_RX_BUF_SIZE - 1 /\ rx_tail \in Int /\ rx_head \in Int
  BY HeadPosition, RxRingAssumption DEF RxInv, Counters
<1> DEFINE a == rx_tail + Used
<1> DEFINE b == a + 1
<1>3. a \in Int /\ b \in Int /\ rx_head = a + k * WORD /\ rx_head + 1 = b + k * WORD
  BY <1>1, <1>2, RxRingAssumption
<1>4. Mask(rx_head) = Mask(a)
  <2> HIDE DEF a
  <2> QED  BY <1>3, MaskTurns
<1>5. Mask((rx_head + 1) % WORD) = Mask(b)
  <2> HIDE DEF b
  <2>1. rx_head + 1 \in Int
    BY <1>2
  <2>2. Mask((rx_head + 1) % WORD) = Mask(rx_head + 1)
    BY <2>1, MaskWrap
  <2>3. Mask(b + k * WORD) = Mask(b)
    BY <1>3, MaskTurns
  <2> QED  BY <1>3, <2>2, <2>3
<1>6. CASE Used = UART_RX_BUF_SIZE - 1
  <2>1. b = rx_tail + UART_RX_BUF_SIZE
    BY <1>2, <1>6, RxRingAssumption
  <2>2. Mask(b) = Mask(rx_tail)
    BY <1>2, <2>1, MaskSlots
  <2> QED  BY <1>4, <1>5, <1>6, <2>2
<1>7. CASE Used # UART_RX_BUF_SIZE - 1
  <2>1. Used + 1 \in 1 .. UART_RX_BUF_SIZE - 1 /\ b = rx_tail + (Used + 1)
    BY <1>2, <1>7, RxRingAssumption
  <2>2. \A d \in 1 .. UART_RX_BUF_SIZE - 1 : Mask(rx_tail + d) # Mask(rx_tail)
    BY <1>2, MaskSlots
  <2>3. Mask(rx_tail + (Used + 1)) # Mask(rx_tail)
    BY <2>1, <2>2
  <2> QED  BY <1>4, <1>5, <1>7, <2>1, <2>3
<1> QED  BY <1>6, <1>7

\* A push that is not refused adds one byte to those used.
LEMMA PushCounts ==
  ASSUME RxInv, Used < UART_RX_BUF_SIZE - 1,
         rx_head' = (rx_head + 1) % WORD, rx_tail' = rx_tail
  PROVE  rx_head' \in Counters /\ Used' = Used + 1
<1>1. PICK k \in Int : rx_head = rx_tail + Used + k * WORD
  BY HeadPosition
<1>2. Used \in 0 .. UART_RX_BUF_SIZE - 1 /\ rx_tail \in Int /\ rx_head \in Int
  BY HeadPosition, RxRingAssumption DEF RxInv, Counters
<1> DEFINE j == (rx_head + 1) \div WORD
<1> DEFINE h == (rx_head + 1) % WORD
<1>3. j \in Int /\ h \in 0 .. WORD - 1 /\ rx_head + 1 = j * WORD + h
  <2>1. rx_head + 1 \in Int
    BY <1>2
  <2> QED  BY <2>1, RxRingAssumption, DivMod, Zenon
<1> HIDE DEF j, h
<1>4. h - rx_tail = (Used + 1) + (k - j) * WORD /\ k - j \in Int
  BY <1>1, <1>2, <1>3, RxRingAssumption
<1>5. (h - rx_tail) % WORD = (Used + 1) % WORD
  BY <1>2, <1>4, Turns
<1>6. (Used + 1) % WORD = Used + 1
  BY <1>2, RxRingAssumption
<1>7. Used' = (h - rx_tail) % WORD
  BY DEF Used, h
<1> QED  BY <1>3, <1>5, <1>6, <1>7 DEF Counters, h

\* A pop takes one byte from those used, and the slots move up by one.
LEMMA PopCounts ==
  ASSUME RxInv, Used > 0,
         rx_tail' = (rx_tail + 1) % WORD, rx_head' = rx_head
  PROVE  /\ rx_tail' \in Counters /\ Used' = Used - 1
         /\ \A i \in Int : Mask(rx_tail' + i) = Mask(rx_tail + 1 + i)
<1>1. PICK k \in Int : rx_head = rx_tail + Used + k * WORD
  BY HeadPosition
<1>2. Used \in 0 .. UART_RX_BUF_SIZE - 1 /\ rx_tail \in Int /\ rx_head \in Int
  BY HeadPosition, RxRingAssumption DEF RxInv, Counters
<1> DEFINE j == (rx_tail + 1) \div WORD
<1> DEFINE t == (rx_tail + 1) % WORD
<1>3. j \in Int /\ t \in 0 .. WORD - 1 /\ rx_tail + 1 = j * WORD + t
  <2>1. rx_tail + 1 \in Int
    BY <1>2
  <2> QED  BY <2>1, RxRingAssumption, DivMod, Zenon
<1> HIDE DEF j, t
<1>4. rx_head - t = (Used - 1) + (k + j) * WORD /\ k + j \in Int
  BY <1>1, <1>2, <1>3, RxRingAssumption
<1>5. (rx_head - t) % WORD = (Used - 1) % WORD
  BY <1>2, <1>4, Turns
<1>6. (Used - 1) % WORD = Used - 1
  BY <1>2, RxRingAssumption
<1>7. Used' = (rx_head - t) % WORD
  BY DEF Used, t
<1>8. ASSUME NEW i \in Int
      PROVE  Mask(t + i) = Mask(rx_tail + 1 + i)
  <2>1. rx_tail + 1 + i = (t + i) + j * WORD /\ t + i \in Int
    BY <1>2, <1>3, RxRingAssumption
  <2> QED  BY <1>3, <2>1, MaskTurns
<1> QED  BY <1>3, <1>5, <1>6, <1>7, <1>8 DEF Counters, t

\* The counters agree exactly when the ring is empty.
LEMMA EmptyTest ==
  ASSUME RxInv
  PROVE  uart_rx_empty <=> Used = 0
BY RxRingAssumption DEF RxInv, Counters, Used, uart_rx_empty

-----------------------------------------------------------------------------
(* The invariant.                                                          *)

\* The ring starts empty.
LEMMA RxStart == RxInit => RxInv /\ Used = 0
BY RxRingAssumption DEF RxInit, RxInv, Counters, NeverOverrun, Used, RxSlots

\* What a push does: it is refused, or it stores the byte in the head's slot.
LEMMA PushCases ==
  ASSUME RxInv, NEW b \in Bytes, uart_rx_push(b)
  PROVE  \/ Used = UART_RX_BUF_SIZE - 1 /\ UNCHANGED rxVars
         \/ /\ Used < UART_RX_BUF_SIZE - 1 /\ Used' = Used + 1
            /\ rx_buf' = [rx_buf EXCEPT ![Mask(rx_tail + Used)] = ToChar(b)]
            /\ rx_head' \in Counters
            /\ UNCHANGED <<rx_tail, popped>>
<1>1. Used \in 0 .. UART_RX_BUF_SIZE - 1
  BY HeadPosition
<1>2. CASE Used = UART_RX_BUF_SIZE - 1
  BY <1>2, FullTest DEF uart_rx_push, rxVars
<1>3. CASE Used # UART_RX_BUF_SIZE - 1
  <2>1. Used < UART_RX_BUF_SIZE - 1
    BY <1>1, <1>3, RxRingAssumption
  <2>2. /\ rx_buf' = [rx_buf EXCEPT ![Mask(rx_head)] = ToChar(b)]
        /\ rx_head' = (rx_head + 1) % WORD
        /\ UNCHANGED <<rx_tail, popped>>
    BY <1>3, FullTest DEF uart_rx_push
  <2>3. rx_head' \in Counters /\ Used' = Used + 1
    BY <2>1, <2>2, PushCounts
  <2> QED  BY <2>1, <2>2, <2>3, FullTest
<1> QED  BY <1>2, <1>3

\* What a pop does: it answers -1, or it takes the byte in the tail's slot.
LEMMA PopCases ==
  ASSUME RxInv, uart_rx_pop
  PROVE  \/ Used = 0 /\ popped' = -1 /\ UNCHANGED <<rx_buf, rx_head, rx_tail>>
         \/ /\ Used > 0 /\ Used' = Used - 1
            /\ popped' = ToUnsigned(rx_buf[Mask(rx_tail)])
            /\ rx_tail' \in Counters
            /\ \A i \in Int : Mask(rx_tail' + i) = Mask(rx_tail + 1 + i)
            /\ UNCHANGED <<rx_buf, rx_head>>
<1>1. Used \in 0 .. UART_RX_BUF_SIZE - 1
  BY HeadPosition
<1>2. CASE Used = 0
  BY <1>2, EmptyTest DEF uart_rx_pop
<1>3. CASE Used # 0
  <2>1. Used > 0
    BY <1>1, <1>3
  <2>2. /\ popped' = ToUnsigned(rx_buf[Mask(rx_tail)])
        /\ rx_tail' = (rx_tail + 1) % WORD
        /\ UNCHANGED <<rx_buf, rx_head>>
    BY <1>3, EmptyTest DEF uart_rx_pop
  <2> QED  BY <2>1, <2>2, PopCounts
<1> QED  BY <1>2, <1>3

\* A stored char is an int.
LEMMA CharIsInt ==
  ASSUME NEW b \in Bytes
  PROVE  ToChar(b) \in Int
BY RxRingAssumption DEF ToChar, Bytes

\* Every step keeps the invariant.
LEMMA RxStep == RxInv /\ [RxNext]_rxVars => RxInv'
<1> SUFFICES ASSUME RxInv, [RxNext]_rxVars  PROVE RxInv'
  OBVIOUS
<1>0. Used \in 0 .. UART_RX_BUF_SIZE - 1
  BY HeadPosition
<1>1. CASE UNCHANGED rxVars
  BY <1>1 DEF rxVars, RxInv, NeverOverrun, Used
<1>2. ASSUME NEW b \in Bytes, uart_rx_push(b)  PROVE RxInv'
  <2>1. CASE UNCHANGED rxVars
    BY <1>1, <2>1
  <2>2. CASE /\ Used < UART_RX_BUF_SIZE - 1 /\ Used' = Used + 1
             /\ rx_buf' = [rx_buf EXCEPT ![Mask(rx_tail + Used)] = ToChar(b)]
             /\ rx_head' \in Counters
             /\ UNCHANGED <<rx_tail, popped>>
    <3>1. rx_buf' \in [RxSlots -> Int]
      BY <2>2, CharIsInt, Zenon DEF RxInv
    <3>2. NeverOverrun'
      BY <1>0, <2>2, RxRingAssumption DEF NeverOverrun
    <3> QED  BY <2>2, <3>1, <3>2 DEF RxInv, Counters
  <2> QED  BY <1>2, <2>1, <2>2, PushCases
<1>3. CASE uart_rx_pop
  <2>1. CASE UNCHANGED <<rx_buf, rx_head, rx_tail>>
    BY <2>1 DEF RxInv, NeverOverrun, Used
  <2>2. CASE /\ Used > 0 /\ Used' = Used - 1
             /\ rx_tail' \in Counters
             /\ UNCHANGED <<rx_buf, rx_head>>
    <3>1. NeverOverrun'
      BY <1>0, <2>2, RxRingAssumption DEF NeverOverrun
    <3> QED  BY <2>2, <3>1 DEF RxInv, Counters
  <2> QED  BY <1>3, <2>1, <2>2, PopCases
<1> QED  BY <1>1, <1>2, <1>3 DEF RxNext

\* uart_rx_push never lets the counters drift apart by more than the usable
\* slots, also when one of them has wrapped at 2^32 and the other has not.
THEOREM NeverOverrunCorrect == RxSpec => []NeverOverrun
<1>1. RxInv => NeverOverrun
  BY DEF RxInv
<1> QED  BY RxStart, RxStep, <1>1, PTL DEF RxSpec

-----------------------------------------------------------------------------
(* The refinement.                                                         *)

QueueShaped ==
  /\ Queue \in Seq(Int)
  /\ Len(Queue) = Used
  /\ \A i \in 1 .. Used : Queue[i] = ToUnsigned(rx_buf[Mask(rx_tail + i - 1)])
  /\ Queue = << >> <=> Used = 0

\* The queue that the ring stands for is a sequence of Used numbers.
LEMMA QueueShape == RxInv => QueueShaped
<1> SUFFICES ASSUME RxInv  PROVE QueueShaped
  OBVIOUS
<1>1. Used \in Nat /\ rx_tail \in Int
  BY HeadPosition, RxRingAssumption DEF RxInv, Counters
<1>2. ASSUME NEW i \in 1 .. Used
      PROVE  ToUnsigned(rx_buf[Mask(rx_tail + i - 1)]) \in Int
  <2>1. rx_tail + i - 1 \in Int
    BY <1>1
  <2>2. Mask(rx_tail + i - 1) \in RxSlots
    BY <2>1, MaskSlots
  <2>3. rx_buf[Mask(rx_tail + i - 1)] \in Int
    BY <2>2 DEF RxInv
  <2> QED  BY <2>3, RxRingAssumption DEF ToUnsigned
<1>3. Queue \in [1 .. Used -> Int]
  BY <1>2 DEF Queue
<1>4. Queue \in Seq(Int) /\ Len(Queue) = Used
  BY <1>1, <1>3
<1> QED  BY <1>1, <1>4 DEF Queue, QueueShaped

\* Storing a byte appends it to the queue.
LEMMA PushAppends ==
  ASSUME RxInv, RxInv', NEW b \in Bytes,
         Used < UART_RX_BUF_SIZE - 1, Used' = Used + 1,
         rx_buf' = [rx_buf EXCEPT ![Mask(rx_tail + Used)] = ToChar(b)],
         rx_tail' = rx_tail
  PROVE  Queue' = Append(Queue, b)
<1>1. Used \in 0 .. UART_RX_BUF_SIZE - 1 /\ rx_tail \in Int /\ b \in Int
  BY HeadPosition, RxRingAssumption DEF RxInv, Counters, Bytes
<1>2. /\ Queue' \in Seq(Int) /\ Len(Queue') = Used + 1
      /\ \A i \in 1 .. Used + 1 : Queue'[i] = ToUnsigned(rx_buf'[Mask(rx_tail + i - 1)])
  <2>1. /\ Queue' \in Seq(Int) /\ Len(Queue') = Used'
        /\ \A i \in 1 .. Used' : Queue'[i] = ToUnsigned(rx_buf'[Mask(rx_tail' + i - 1)])
    <3>1. QueueShaped'
      BY QueueShape, PTL
    <3> QED  BY <3>1 DEF QueueShaped
  <2> QED  BY <2>1
<1>3. /\ Append(Queue, b) \in Seq(Int) /\ Len(Append(Queue, b)) = Used + 1
      /\ \A i \in 1 .. Used : Append(Queue, b)[i] = Queue[i]
      /\ Append(Queue, b)[Used + 1] = b
  BY <1>1, QueueShape, AppendProperties DEF QueueShaped
<1>4. ASSUME NEW i \in 1 .. Used
      PROVE  Queue'[i] = Queue[i]
  <2> DEFINE a == rx_tail + i - 1
  <2> DEFINE d == Used - (i - 1)
  <2>1. a \in Int /\ d \in 1 .. UART_RX_BUF_SIZE - 1 /\ a + d = rx_tail + Used /\ i \in 1 .. Used + 1
    BY <1>1, RxRingAssumption
  <2> HIDE DEF d
  <2>2. Mask(a) # Mask(rx_tail + Used) /\ Mask(a) \in RxSlots
    <3> HIDE DEF a
    <3>1. Mask(a + d) # Mask(a) /\ Mask(a) \in RxSlots
      BY <2>1, MaskSlots
    <3> QED  BY <2>1, <3>1
  <2>3. rx_buf'[Mask(a)] = rx_buf[Mask(a)]
    BY <2>2 DEF RxInv
  <2>4. Queue'[i] = ToUnsigned(rx_buf'[Mask(a)])
    BY <1>2, <2>1
  <2>5. Queue[i] = ToUnsigned(rx_buf[Mask(a)])
    BY QueueShape DEF QueueShaped
  <2> QED  BY <2>3, <2>4, <2>5
<1>5. Queue'[Used + 1] = b
  <2>1. Used + 1 \in 1 .. Used + 1 /\ rx_tail + (Used + 1) - 1 = rx_tail + Used /\ rx_tail + Used \in Int
    BY <1>1
  <2>2. Mask(rx_tail + Used) \in RxSlots
    BY <2>1, MaskSlots
  <2>3. rx_buf'[Mask(rx_tail + Used)] = ToChar(b)
    BY <2>2 DEF RxInv
  <2>4. Queue'[Used + 1] = ToUnsigned(rx_buf'[Mask(rx_tail + Used)])
    BY <1>2, <2>1
  <2> QED  BY <2>3, <2>4, CharRoundTrip
<1>6. \A i \in 1 .. Used + 1 : Queue'[i] = Append(Queue, b)[i]
  <2> TAKE i \in 1 .. Used + 1
  <2>1. i \in 1 .. Used \/ i = Used + 1
    BY <1>1
  <2> QED  BY <1>3, <1>4, <1>5, <2>1
<1> QED  BY <1>2, <1>3, <1>6, SeqEqual

\* Taking a byte out removes the queue's head.
LEMMA PopsHead ==
  ASSUME RxInv, RxInv', Used > 0, Used' = Used - 1,
         \A i \in Int : Mask(rx_tail' + i) = Mask(rx_tail + 1 + i),
         rx_buf' = rx_buf
  PROVE  /\ Queue' = Tail(Queue)
         /\ Head(Queue) = ToUnsigned(rx_buf[Mask(rx_tail)])
<1>1. Used \in 0 .. UART_RX_BUF_SIZE - 1 /\ rx_tail \in Int /\ rx_tail' \in Int
  BY HeadPosition, RxRingAssumption DEF RxInv, Counters
<1>2. /\ Queue' \in Seq(Int) /\ Len(Queue') = Used - 1
      /\ \A i \in 1 .. Used - 1 : Queue'[i] = ToUnsigned(rx_buf[Mask(rx_tail' + i - 1)])
  <2>1. /\ Queue' \in Seq(Int) /\ Len(Queue') = Used'
        /\ \A i \in 1 .. Used' : Queue'[i] = ToUnsigned(rx_buf'[Mask(rx_tail' + i - 1)])
    <3>1. QueueShaped'
      BY QueueShape, PTL
    <3> QED  BY <3>1 DEF QueueShaped
  <2> QED  BY <2>1
<1>3. /\ Queue \in Seq(Int) /\ Len(Queue) = Used /\ Queue # << >>
      /\ \A i \in 1 .. Used : Queue[i] = ToUnsigned(rx_buf[Mask(rx_tail + i - 1)])
  BY <1>1, QueueShape DEF QueueShaped
<1>4. /\ Tail(Queue) \in Seq(Int) /\ Len(Tail(Queue)) = Used - 1
      /\ \A i \in 1 .. Used - 1 : Tail(Queue)[i] = Queue[i + 1]
      /\ Head(Queue) = Queue[1]
  BY <1>1, <1>3, HeadTailProperties
<1>5. ASSUME NEW i \in 1 .. Used - 1
      PROVE  Queue'[i] = Tail(Queue)[i]
  <2>1. /\ i + 1 \in 1 .. Used /\ rx_tail' + i - 1 = rx_tail' + (i - 1) /\ i - 1 \in Int
        /\ rx_tail + (i + 1) - 1 = rx_tail + 1 + (i - 1)
    BY <1>1
  <2>2. Queue'[i] = ToUnsigned(rx_buf[Mask(rx_tail + 1 + (i - 1))])
    BY <1>2, <2>1
  <2>3. Queue[i + 1] = ToUnsigned(rx_buf[Mask(rx_tail + 1 + (i - 1))])
    BY <1>3, <2>1
  <2> QED  BY <1>4, <2>2, <2>3
<1>6. Queue' = Tail(Queue)
  BY <1>2, <1>4, <1>5, SeqEqual
<1>7. Queue[1] = ToUnsigned(rx_buf[Mask(rx_tail)])
  <2>1. 1 \in 1 .. Used /\ rx_tail + 1 - 1 = rx_tail
    BY <1>1
  <2> QED  BY <1>3, <2>1
<1> QED  BY <1>4, <1>6, <1>7

\* The receive ring of uart_core.c implements the bounded byte queue: bytes
\* come out as they went in and in order, one is refused only when all usable
\* slots are taken, and -1 is answered only when there is none.
THEOREM RingImplementsQueue == RxSpec => ImplementsByteQueue
<1>1. RxInit => Ring!BQInit
  <2> SUFFICES ASSUME RxInit  PROVE Queue = << >> /\ popped = -1
    BY DEF Ring!BQInit
  <2> QED  BY RxStart, QueueShape DEF RxInit, QueueShaped
<1>2. RxInv /\ RxInv' /\ [RxNext]_rxVars => [Ring!BQNext]_Ring!bqVars
  <2> SUFFICES ASSUME RxInv, RxInv', [RxNext]_rxVars  PROVE [Ring!BQNext]_Ring!bqVars
    OBVIOUS
  <2>0. Len(Queue) = Used /\ (Queue = << >> <=> Used = 0) /\ Used \in Nat
    BY QueueShape, HeadPosition, RxRingAssumption DEF QueueShaped
  <2>1. CASE UNCHANGED rxVars
    <3>1. Queue' = Queue /\ popped' = popped
      BY <2>1 DEF rxVars, Queue, Used
    <3> QED  BY <3>1 DEF Ring!bqVars
  <2>2. ASSUME NEW b \in Bytes, uart_rx_push(b)  PROVE [Ring!BQNext]_Ring!bqVars
    <3>1. CASE Used = UART_RX_BUF_SIZE - 1 /\ UNCHANGED rxVars
      BY <2>1, <3>1
    <3>2. CASE /\ Used < UART_RX_BUF_SIZE - 1 /\ Used' = Used + 1
               /\ rx_buf' = [rx_buf EXCEPT ![Mask(rx_tail + Used)] = ToChar(b)]
               /\ UNCHANGED <<rx_tail, popped>>
      <4>1. Queue' = Append(Queue, b) /\ popped' = popped
        BY <3>2, PushAppends, Zenon
      <4>2. Ring!Put(b)
        BY <2>0, <3>2, <4>1 DEF Ring!Put
      <4> QED  BY <4>2 DEF Ring!BQNext
    <3> QED  BY <2>2, <3>1, <3>2, PushCases
  <2>3. CASE uart_rx_pop
    <3>1. CASE Used = 0 /\ popped' = -1 /\ UNCHANGED <<rx_buf, rx_head, rx_tail>>
      <4>1. Queue' = Queue /\ Queue = << >>
        BY <2>0, <3>1 DEF Queue, Used
      <4>2. Ring!Get
        BY <3>1, <4>1 DEF Ring!Get
      <4> QED  BY <4>2 DEF Ring!BQNext
    <3>2. CASE /\ Used > 0 /\ Used' = Used - 1
               /\ popped' = ToUnsigned(rx_buf[Mask(rx_tail)])
               /\ \A i \in Int : Mask(rx_tail' + i) = Mask(rx_tail + 1 + i)
               /\ UNCHANGED <<rx_buf, rx_head>>
      <4>1. Queue' = Tail(Queue) /\ popped' = Head(Queue) /\ Queue # << >>
        BY <2>0, <3>2, PopsHead
      <4>2. Ring!Get
        BY <4>1 DEF Ring!Get
      <4> QED  BY <4>2 DEF Ring!BQNext
    <3> QED  BY <2>3, <3>1, <3>2, PopCases
  <2> QED  BY <2>1, <2>2, <2>3 DEF RxNext
<1> QED  BY RxStart, RxStep, <1>1, <1>2, PTL DEF RxSpec, ImplementsByteQueue, Ring!BQSpec

-----------------------------------------------------------------------------
(* The queue of sleeping readers.                                          *)

WInv ==
  /\ uart_waitq \in [WQSlots -> Threads \cup {NULL}]
  /\ RingShape

\* The remainder of an index that is less than two turns round the ring.
LEMMA Wrap ==
  ASSUME NEW a \in 0 .. 2 * WAITQ_CAP - 1
  PROVE  a % WAITQ_CAP = IF a < WAITQ_CAP THEN a ELSE a - WAITQ_CAP
<1> USE WaitQueueAssumption
<1> DEFINE q == a \div WAITQ_CAP
<1> DEFINE r == a % WAITQ_CAP
<1>1. q \in Int /\ r \in 0 .. WAITQ_CAP - 1 /\ a = q * WAITQ_CAP + r
  OBVIOUS
<1> HIDE DEF q, r
<1>2. q = 0 \/ q = 1
  <2>1. q >= 2 => q * WAITQ_CAP >= 2 * WAITQ_CAP
    BY <1>1
  <2>2. q <= -1 => q * WAITQ_CAP <= -WAITQ_CAP
    BY <1>1
  <2> QED  BY <1>1, <2>1, <2>2
<1>3. r = IF a < WAITQ_CAP THEN a ELSE a - WAITQ_CAP
  BY <1>1, <1>2
<1> QED  BY <1>3 DEF r

\* Different positions are in different slots, whatever the head.
LEMMA SlotFacts ==
  ASSUME waitq_head \in WQSlots
  PROVE  /\ \A i \in WQSlots : Slot(i) \in WQSlots
         /\ Slot(0) = waitq_head
         /\ \A i, j \in WQSlots : Slot(i) = Slot(j) => i = j
<1>1. ASSUME NEW i \in WQSlots
      PROVE  Slot(i) = IF waitq_head + i < WAITQ_CAP THEN waitq_head + i
                                                     ELSE waitq_head + i - WAITQ_CAP
  BY Wrap, WaitQueueAssumption DEF Slot, WQSlots
<1> QED  BY <1>1, WaitQueueAssumption DEF WQSlots

\* After waitq_pop has moved the head, every position has moved up by one and
\* the last one is the slot that was popped.
LEMMA SlotsMoveUp ==
  ASSUME waitq_head \in WQSlots, waitq_head' = (waitq_head + 1) % WAITQ_CAP
  PROVE  /\ waitq_head' \in WQSlots
         /\ \A i \in 0 .. WAITQ_CAP - 2 : Slot(i)' = Slot(i + 1)
         /\ Slot(WAITQ_CAP - 1)' = waitq_head
<1> USE WaitQueueAssumption
<1>1. waitq_head' = IF waitq_head + 1 < WAITQ_CAP THEN waitq_head + 1
                                                  ELSE waitq_head + 1 - WAITQ_CAP
  BY Wrap DEF WQSlots
<1>2. waitq_head' \in WQSlots
  BY <1>1 DEF WQSlots
<1> DEFINE At(h, i) == IF h + i < WAITQ_CAP THEN h + i ELSE h + i - WAITQ_CAP
<1>3. ASSUME NEW h \in WQSlots, NEW i \in WQSlots
      PROVE  (h + i) % WAITQ_CAP = At(h, i)
  BY Wrap DEF WQSlots
<1>4. \A i \in 0 .. WAITQ_CAP - 2 : Slot(i)' = Slot(i + 1)
  <2> TAKE i \in 0 .. WAITQ_CAP - 2
  <2>1. i \in WQSlots /\ i + 1 \in WQSlots
    BY DEF WQSlots
  <2>2. Slot(i)' = At(waitq_head', i) /\ Slot(i + 1) = At(waitq_head, i + 1)
    <3> HIDE DEF At
    <3> QED  BY <1>2, <1>3, <2>1 DEF Slot
  <2>3. At(waitq_head', i) = At(waitq_head, i + 1)
    BY <1>1, <2>1 DEF WQSlots
  <2> QED  BY <2>2, <2>3
<1>5. Slot(WAITQ_CAP - 1)' = waitq_head
  <2>1. WAITQ_CAP - 1 \in WQSlots
    BY DEF WQSlots
  <2>2. Slot(WAITQ_CAP - 1)' = At(waitq_head', WAITQ_CAP - 1)
    <3> HIDE DEF At
    <3> QED  BY <1>2, <1>3, <2>1 DEF Slot
  <2>3. At(waitq_head', WAITQ_CAP - 1) = waitq_head
    BY <1>1, <2>1 DEF WQSlots
  <2> QED  BY <2>2, <2>3
<1> QED  BY <1>2, <1>4, <1>5

-----------------------------------------------------------------------------
(* The steps.                                                              *)

\* The entries in order of age.
Shaped ==
  /\ Contents \in Seq(Threads)
  /\ Len(Contents) = waitq_count
  /\ \A i \in 1 .. waitq_count : Contents[i] = uart_waitq[Slot(i - 1)]

\* The slots from head on are a sequence of threads.
LEMMA ContentsShape == WInv => Shaped
<1> SUFFICES ASSUME WInv PROVE Shaped
  OBVIOUS
<1>1. \A i \in 1 .. waitq_count : i - 1 \in WQSlots /\ i - 1 < waitq_count
  BY WaitQueueAssumption DEF WQSlots, WInv, RingShape
<1> QED  BY <1>1, WaitQueueAssumption DEF Shaped, Contents, WInv, RingShape, WQSlots

\* A push fills the slot behind the last entry and no other.
LEMMA PushStep ==
  ASSUME WInv, NEW t \in Threads, ~Queued(t), waitq_count < WAITQ_CAP,
         waitq_push(t), UNCHANGED waitq_head
  PROVE  WInv' /\ Contents' = Append(Contents, t)
<1> USE WaitQueueAssumption
<1>1. /\ waitq_head \in WQSlots /\ waitq_count \in WQSlots
      /\ waitq_count' = waitq_count + 1
      /\ uart_waitq' = [uart_waitq EXCEPT ![Slot(waitq_count)] = t]
  BY DEF WInv, RingShape, waitq_push, WQSlots
<1>2. \A i \in WQSlots : Slot(i)' = Slot(i)
  BY DEF Slot
<1>3. \A i \in WQSlots : i # waitq_count => uart_waitq'[Slot(i)] = uart_waitq[Slot(i)]
  BY <1>1, SlotFacts DEF WInv
<1>4. uart_waitq'[Slot(waitq_count)] = t
  BY <1>1, SlotFacts DEF WInv
<1>5. \A i \in 0 .. waitq_count - 1 : i \in WQSlots /\ i # waitq_count /\ uart_waitq[Slot(i)] # t
  BY <1>1 DEF Queued, WQSlots
<1>6. uart_waitq' \in [WQSlots -> Threads \cup {NULL}]
  BY <1>1, SlotFacts DEF WInv
<1>7. ASSUME NEW i \in WQSlots
      PROVE  IF i < waitq_count' THEN uart_waitq'[Slot(i)'] \in Threads
                                 ELSE uart_waitq'[Slot(i)'] = NULL
  <2>1. i < waitq_count' <=> (i < waitq_count \/ i = waitq_count)
    BY <1>1 DEF WQSlots
  <2> QED  BY <1>1, <1>2, <1>3, <1>4, <2>1 DEF WInv, RingShape
<1>8. ASSUME NEW i \in 0 .. waitq_count' - 1, NEW j \in 0 .. waitq_count' - 1,
             uart_waitq'[Slot(i)'] = uart_waitq'[Slot(j)']
      PROVE  i = j
  <2>1. /\ i \in 0 .. waitq_count - 1 \/ i = waitq_count
        /\ j \in 0 .. waitq_count - 1 \/ j = waitq_count
    BY <1>1 DEF WQSlots
  <2> QED  BY <1>1, <1>2, <1>3, <1>4, <1>5, <1>8, <2>1 DEF WInv, RingShape
<1>9. WInv'
  BY <1>1, <1>6, <1>7, <1>8 DEF WInv, RingShape, WQSlots
<1>10. Contents' = Append(Contents, t)
  <2>1. Shaped /\ Shaped'
    BY <1>9, ContentsShape, PTL
  <2>2. /\ Append(Contents, t) \in Seq(Threads) /\ Len(Append(Contents, t)) = waitq_count + 1
        /\ \A i \in 1 .. waitq_count : Append(Contents, t)[i] = Contents[i]
        /\ Append(Contents, t)[waitq_count + 1] = t
    <3> DEFINE c == Contents
    <3>1. c \in Seq(Threads) /\ Len(c) = waitq_count
      BY <2>1 DEF Shaped
    <3> HIDE DEF c
    <3>2. /\ Append(c, t) \in Seq(Threads) /\ Len(Append(c, t)) = Len(c) + 1
          /\ \A i \in 1 .. Len(c) : Append(c, t)[i] = c[i]
          /\ Append(c, t)[Len(c) + 1] = t
      BY <3>1
    <3> QED  BY <3>1, <3>2 DEF c
  <2>3. ASSUME NEW i \in 1 .. waitq_count + 1
        PROVE  Contents'[i] = Append(Contents, t)[i]
    <3>1. CASE i = waitq_count + 1
      <4>1. i - 1 = waitq_count
        BY <1>1, <3>1 DEF WQSlots
      <4> QED  BY <1>1, <1>2, <1>4, <2>1, <2>2, <3>1, <4>1 DEF Shaped
    <3>2. CASE i # waitq_count + 1
      <4>1. i - 1 \in WQSlots /\ i - 1 # waitq_count /\ i \in 1 .. waitq_count
        BY <1>1, <3>2 DEF WQSlots
      <4> QED  BY <1>1, <1>2, <1>3, <2>1, <2>2, <4>1 DEF Shaped
    <3> QED  BY <3>1, <3>2, Zenon
  <2>4. Contents' \in Seq(Threads) /\ Len(Contents') = waitq_count + 1
    BY <1>1, <2>1 DEF Shaped
  <2> QED  BY <2>2, <2>3, <2>4, SeqEqual
<1> QED  BY <1>9, <1>10

\* A pop clears the slot of the oldest entry and moves every other one up.
LEMMA PopStep ==
  ASSUME WInv, waitq_count # 0, waitq_pop
  PROVE  WInv' /\ Contents # <<>> /\ Contents' = Tail(Contents)
<1> USE WaitQueueAssumption
<1>1. /\ waitq_head \in WQSlots /\ waitq_count \in 1 .. WAITQ_CAP
      /\ waitq_count' = waitq_count - 1
      /\ waitq_head' = (waitq_head + 1) % WAITQ_CAP
      /\ uart_waitq' = [uart_waitq EXCEPT ![waitq_head] = NULL]
  BY DEF WInv, RingShape, waitq_pop, WQSlots
<1>2. /\ waitq_head' \in WQSlots
      /\ \A i \in 0 .. WAITQ_CAP - 2 : Slot(i)' = Slot(i + 1)
      /\ Slot(WAITQ_CAP - 1)' = waitq_head
  BY <1>1, SlotsMoveUp
<1>3. \A i \in 0 .. WAITQ_CAP - 2 : i + 1 \in WQSlots /\ i + 1 # 0 /\ 0 \in WQSlots
  BY DEF WQSlots
<1>4. \A i \in 0 .. WAITQ_CAP - 2 : Slot(i + 1) \in WQSlots /\ Slot(i + 1) # waitq_head
  BY <1>1, <1>3, SlotFacts
<1>5. \A i \in 0 .. WAITQ_CAP - 2 : uart_waitq'[Slot(i)'] = uart_waitq[Slot(i + 1)]
  BY <1>1, <1>2, <1>4 DEF WInv
<1>6. uart_waitq'[Slot(WAITQ_CAP - 1)'] = NULL
  BY <1>1, <1>2 DEF WInv
<1>7. \A i \in WQSlots : i \in 0 .. WAITQ_CAP - 2 \/ i = WAITQ_CAP - 1
  BY DEF WQSlots
<1>8. ASSUME NEW i \in WQSlots
      PROVE  IF i < waitq_count' THEN uart_waitq'[Slot(i)'] \in Threads
                                 ELSE uart_waitq'[Slot(i)'] = NULL
  <2>1. CASE i \in 0 .. WAITQ_CAP - 2
    <3>1. i < waitq_count' <=> i + 1 < waitq_count
      BY <1>1 DEF WQSlots
    <3> QED  BY <1>3, <1>5, <2>1, <3>1 DEF WInv, RingShape
  <2>2. CASE i = WAITQ_CAP - 1
    <3>1. ~(i < waitq_count')
      BY <1>1, <2>2 DEF WQSlots
    <3> QED  BY <1>6, <2>2, <3>1
  <2> QED  BY <1>7, <2>1, <2>2
<1>9. ASSUME NEW i \in 0 .. waitq_count' - 1, NEW j \in 0 .. waitq_count' - 1,
             uart_waitq'[Slot(i)'] = uart_waitq'[Slot(j)']
      PROVE  i = j
  <2>1. /\ i \in 0 .. WAITQ_CAP - 2 /\ i + 1 \in 0 .. waitq_count - 1
        /\ j \in 0 .. WAITQ_CAP - 2 /\ j + 1 \in 0 .. waitq_count - 1
    BY <1>1 DEF WQSlots
  <2>2. i + 1 = j + 1
    BY <1>5, <1>9, <2>1 DEF WInv, RingShape
  <2> QED  BY <2>1, <2>2
<1>10. WInv'
  <2>1. uart_waitq' \in [WQSlots -> Threads \cup {NULL}]
    BY <1>1 DEF WInv
  <2>2. waitq_count' \in 0 .. WAITQ_CAP
    BY <1>1
  <2>3. RingShape'
    BY <1>2, <1>8, <1>9, <2>2 DEF RingShape
  <2> QED  BY <2>1, <2>3 DEF WInv
<1>11. Contents # <<>> /\ Contents' = Tail(Contents)
  <2>1. Shaped /\ Shaped'
    BY <1>10, ContentsShape, PTL
  <2>2. Contents # <<>>
    BY <1>1, <2>1 DEF Shaped
  <2>3. /\ Tail(Contents) \in Seq(Threads) /\ Len(Tail(Contents)) = waitq_count - 1
        /\ \A i \in 1 .. waitq_count - 1 : Tail(Contents)[i] = Contents[i + 1]
    BY <1>1, <2>1, <2>2, HeadTailProperties DEF Shaped
  <2>4. ASSUME NEW i \in 1 .. waitq_count - 1
        PROVE  Contents'[i] = Tail(Contents)[i]
    <3>1. /\ i - 1 \in 0 .. WAITQ_CAP - 2 /\ (i - 1) + 1 = i
          /\ i + 1 \in 1 .. waitq_count /\ (i + 1) - 1 = i
      BY <1>1 DEF WQSlots
    <3>2. Contents'[i] = uart_waitq'[Slot(i - 1)']
      BY <1>1, <2>1 DEF Shaped
    <3>3. uart_waitq'[Slot(i - 1)'] = uart_waitq[Slot(i)]
      BY <1>5, <3>1
    <3>4. Contents[i + 1] = uart_waitq[Slot(i)]
      BY <2>1, <3>1 DEF Shaped
    <3> QED  BY <2>3, <3>2, <3>3, <3>4
  <2>5. Contents' \in Seq(Threads) /\ Len(Contents') = waitq_count - 1
    BY <1>1, <2>1 DEF Shaped
  <2> QED  BY <2>2, <2>3, <2>4, <2>5, SeqEqual
<1> QED  BY <1>10, <1>11

\* With as many entries as threads, every thread is one of them.
LEMMA FullRing ==
  ASSUME WInv, waitq_count = WAITQ_CAP
  PROVE  \A t \in Threads : Queued(t)
<1> DEFINE f == [i \in 1 .. WAITQ_CAP |-> uart_waitq[Slot(i - 1)]]
<1>1. \A i \in 1 .. WAITQ_CAP : i - 1 \in WQSlots /\ i - 1 \in 0 .. waitq_count - 1
                                /\ i - 1 < waitq_count
  BY WaitQueueAssumption DEF WQSlots
<1>2. f \in [1 .. WAITQ_CAP -> Threads]
  BY <1>1 DEF WInv, RingShape
<1>3. f \in Injection(1 .. WAITQ_CAP, Threads)
  <2>1. ASSUME NEW i \in 1 .. WAITQ_CAP, NEW j \in 1 .. WAITQ_CAP, f[i] = f[j]
        PROVE  i = j
    <3>1. i - 1 = j - 1
      BY <1>1, <2>1 DEF WInv, RingShape
    <3> QED  BY <3>1
  <2> QED  BY <1>2, <2>1 DEF Injection, IsInjective
<1>4. f \in Surjection(1 .. WAITQ_CAP, Threads)
  <2>1. IsFiniteSet(1 .. WAITQ_CAP) /\ Cardinality(1 .. WAITQ_CAP) = WAITQ_CAP
    BY WaitQueueAssumption, FS_Interval
  <2> HIDE DEF f
  <2> QED  BY <1>3, <2>1, WaitQueueAssumption, FS_Injection
<1> QED  BY <1>1, <1>4, Zenon DEF Queued, Surjection

-----------------------------------------------------------------------------
(* The theorems.                                                           *)

\* The empty ring satisfies the invariant.
LEMMA WInit == WQInit => WInv
<1> SUFFICES ASSUME WQInit PROVE WInv
  OBVIOUS
<1>1. waitq_head \in WQSlots /\ 0 \in WQSlots /\ 0 \in 0 .. WAITQ_CAP /\ 0 .. 0 - 1 = {}
  BY WaitQueueAssumption DEF WQInit, WQSlots
<1>2. waitq_count = 0 /\ uart_waitq = [i \in WQSlots |-> NULL]
  BY DEF WQInit
<1>3. \A i \in WQSlots : ~(i < 0) /\ Slot(i) \in WQSlots
  BY <1>1, SlotFacts, WaitQueueAssumption DEF WQSlots
<1>4. RingShape
  BY <1>1, <1>2, <1>3 DEF RingShape
<1> QED  BY <1>2, <1>4 DEF WInv

\* What a step may do to the entries: append one, take the oldest, or nothing.
Moves ==
  \/ Contents' = Contents
  \/ \E t \in Threads : Contents' = Append(Contents, t)
  \/ Contents # <<>> /\ Contents' = Tail(Contents)

\* A step that leaves the ring alone leaves its contents alone.
LEMMA Unmoved ==
  ASSUME WInv, UNCHANGED <<uart_waitq, waitq_head, waitq_count>>
  PROVE  WInv' /\ Contents' = Contents
BY DEF WInv, RingShape, Contents, Slot, WQSlots

\* A pop moves the contents up by one.
LEMMA PopMoves ==
  ASSUME WInv, waitq_pop
  PROVE  WInv' /\ Moves
<1>1. CASE waitq_count = 0
  BY <1>1, Unmoved DEF waitq_pop, Moves
<1>2. CASE waitq_count # 0
  BY <1>2, PopStep DEF Moves
<1> QED  BY <1>1, <1>2

\* Every step keeps the invariant and moves the contents like a queue.
LEMMA WStep ==
  ASSUME WInv, [WQNext]_wqVars
  PROVE  WInv' /\ Moves
<1>1. ASSUME NEW t \in Threads, scheduler_block_on_input(t)
      PROVE  WInv' /\ Moves
  <2>1. waitq_push(t) /\ UNCHANGED waitq_head
    BY <1>1 DEF scheduler_block_on_input
  <2>2. CASE Queued(t) \/ waitq_count >= WAITQ_CAP
    BY <2>1, <2>2, Unmoved DEF waitq_push, Moves
  <2>3. CASE ~Queued(t) /\ ~(waitq_count >= WAITQ_CAP)
    <3>1. waitq_count < WAITQ_CAP
      BY <2>3, WaitQueueAssumption DEF WInv, RingShape
    <3> QED  BY <2>1, <2>3, <3>1, PushStep DEF Moves
  <2> QED  BY <2>2, <2>3
<1>2. ASSUME NEW t \in Threads, Kill(t)
      PROVE  WInv' /\ Moves
  BY <1>2, Unmoved DEF Kill, Moves
<1>3. CASE WakeStart
  BY <1>3, Unmoved DEF WakeStart, Moves
<1>4. CASE WakeSkip
  BY <1>4, PopMoves DEF WakeSkip
<1>5. CASE WakeReader
  BY <1>5, PopMoves DEF WakeReader
<1>6. CASE WakeNobody
  BY <1>6, PopMoves DEF WakeNobody
<1>7. CASE UNCHANGED wqVars
  BY <1>7, Unmoved DEF wqVars, Moves
<1> QED  BY <1>1, <1>2, <1>3, <1>4, <1>5, <1>6, <1>7 DEF WQNext

\* The invariant of the wait ring holds at every step.
LEMMA WInvariance == WQSpec => []WInv
<1>1. WInv /\ [WQNext]_wqVars => WInv'
  BY WStep
<1> QED  BY <1>1, WInit, PTL DEF WQSpec

\* uart_waitq is always well formed, for any number of threads and wherever
\* waitq_push and waitq_pop have moved the head to.
THEOREM RingShapeCorrect == WQSpec => []RingShape
<1>1. WInv => RingShape
  BY DEF WInv
<1> QED  BY <1>1, WInvariance, PTL

\* What the ring holds, read from head to tail, changes like a first-in
\* first-out queue: waitq_push adds behind, waitq_pop takes in front, and no
\* kill, wakeup or wrap of the indices reorders or loses an entry.  This is
\* the sequence that Kernel uses for uart_waitq.
THEOREM RingIsFifo == WQSpec => [][Moves]_wqVars
<1>1. WInv /\ [WQNext]_wqVars => [Moves]_wqVars
  BY WStep
<1> QED  BY <1>1, WInvariance, PTL DEF WQSpec

\* A full ring turns nobody away: when waitq_push finds WAITQ_CAP entries, the
\* caller is one of them, so its silent return loses no reader.
THEOREM FullRingHoldsAll ==
  WQSpec => [](waitq_count = WAITQ_CAP => \A t \in Threads : Queued(t))
<1>1. WInv => (waitq_count = WAITQ_CAP => \A t \in Threads : Queued(t))
  BY FullRing
<1> QED  BY <1>1, WInvariance, PTL

-----------------------------------------------------------------------------
(* The queue of live readers.                                              *)

Held(t) == \E i \in 1 .. waitq_count : Contents[i] = t

\* A sleeping thread is in the ring and a running one is not: a wakeup that
\* makes a thread READY has taken it out, and whoever died in it does not run.
RInv ==
  /\ WInv
  /\ state \in [Threads -> {"RUNNING", "BLOCKED", "DEAD"}]
  /\ waking \in BOOLEAN
  /\ \A t \in Threads : /\ state[t] = "BLOCKED" => Held(t)
                        /\ state[t] = "RUNNING" => ~Held(t)

\* Positions in the contents and slots of the ring tell the same story.
LEMMA HeldQueued ==
  ASSUME WInv
  PROVE  /\ \A t \in Threads : Held(t) <=> Queued(t)
         /\ \A i, j \in 1 .. waitq_count : Contents[i] = Contents[j] => i = j
         /\ waitq_count \in Nat
<1>1. Shaped
  BY ContentsShape
<1>2. waitq_count \in Nat /\ \A i \in 1 .. waitq_count : i - 1 \in 0 .. waitq_count - 1
  BY WaitQueueAssumption DEF WInv, RingShape
<1>3. \A i \in 0 .. waitq_count - 1 : i + 1 \in 1 .. waitq_count /\ (i + 1) - 1 = i
  BY <1>2
<1>4. \A t \in Threads : Held(t) <=> Queued(t)
  <2>1. ASSUME NEW t \in Threads, Held(t)
        PROVE  Queued(t)
    <3>1. PICK i \in 1 .. waitq_count : Contents[i] = t
      BY <1>1, <2>1, Zenon DEF Held, Shaped
    <3> QED  BY <1>1, <1>2, <3>1 DEF Queued, Shaped
  <2>2. ASSUME NEW t \in Threads, Queued(t)
        PROVE  Held(t)
    <3>1. PICK i \in 0 .. waitq_count - 1 : uart_waitq[Slot(i)] = t
      BY <2>2, Zenon DEF Queued
    <3> QED  BY <1>1, <1>3, <3>1 DEF Held, Shaped
  <2> QED  BY <2>1, <2>2
<1>5. ASSUME NEW i \in 1 .. waitq_count, NEW j \in 1 .. waitq_count, Contents[i] = Contents[j]
      PROVE  i = j
  <2>1. uart_waitq[Slot(i - 1)] = uart_waitq[Slot(j - 1)]
    BY <1>1, <1>5 DEF Shaped
  <2>2. i - 1 = j - 1
    BY <1>2, <2>1 DEF WInv, RingShape
  <2> QED  BY <2>2
<1> QED  BY <1>2, <1>4, <1>5

\* A new entry is behind every other.
LEMMA AppendOrder ==
  ASSUME WInv, WInv', NEW t \in Threads, Contents' = Append(Contents, t)
  PROVE  /\ \A u : Held(u)' <=> (Held(u) \/ u = t)
         /\ \A u, v : Before(u, v)' <=> (Before(u, v) \/ (Held(u) /\ v = t))
<1>1. Shaped /\ Shaped'
  BY ContentsShape, PTL
<1> DEFINE k == waitq_count
<1>2. k \in Nat
  BY HeldQueued
<1>3. /\ Len(Contents') = k + 1 /\ waitq_count' = k + 1
      /\ \A i \in 1 .. k : Contents'[i] = Contents[i]
      /\ Contents'[k + 1] = t
  <2>1. Contents \in Seq(Threads) /\ Len(Contents) = k /\ Len(Contents') = waitq_count'
    BY <1>1 DEF Shaped
  <2> QED  BY <2>1, AppendProperties
<1>4. \A i \in 1 .. k + 1 : i \in 1 .. k \/ i = k + 1
  BY <1>2
<1>5. \A i \in 1 .. k : i \in 1 .. k + 1 /\ i < k + 1
  BY <1>2
<1>6. k + 1 \in 1 .. k + 1 /\ \A i \in 1 .. k + 1 : ~(k + 1 < i)
  BY <1>2
<1> HIDE DEF k
<1>7. \A u : Held(u)' <=> (Held(u) \/ u = t)
  BY <1>3, <1>4, <1>5, <1>6 DEF Held, k
<1>8. \A u, v : Before(u, v)' <=> (Before(u, v) \/ (Held(u) /\ v = t))
  BY <1>3, <1>4, <1>5, <1>6 DEF Held, Before, k
<1> QED  BY <1>7, <1>8

\* Taking the oldest entry leaves the order of the others.
LEMMA TailOrder ==
  ASSUME WInv, WInv', Contents # <<>>, Contents' = Tail(Contents)
  PROVE  /\ Held(Contents[1])
         /\ \A u : Held(u)' <=> (Held(u) /\ u # Contents[1])
         /\ \A u, v : Before(u, v)' <=> (Before(u, v) /\ u # Contents[1])
         /\ \A u : (Held(u) /\ u # Contents[1]) => Before(Contents[1], u)
         /\ \A u : ~Before(u, Contents[1])
<1>1. Shaped /\ Shaped'
  BY ContentsShape, PTL
<1> DEFINE k == waitq_count
<1>2. k \in Nat \ {0}
  <2>1. k \in Nat
    BY HeldQueued
  <2>2. Contents \in Seq(Threads) /\ Len(Contents) = k
    BY <1>1 DEF Shaped
  <2>3. k # 0
    BY <2>2, EmptySeq
  <2> QED  BY <2>1, <2>3
<1>3. /\ waitq_count' = k - 1
      /\ \A i \in 1 .. k - 1 : Contents'[i] = Contents[i + 1]
  BY <1>1, HeadTailProperties DEF Shaped
<1>4. \A i, j \in 1 .. k : Contents[i] = Contents[j] => i = j
  BY HeldQueued
<1>5. 1 \in 1 .. k /\ \A i \in 1 .. k : (1 < i <=> i # 1) /\ ~(i < 1)
  BY <1>2
<1>6. \A i \in 1 .. k - 1 : i + 1 \in 1 .. k /\ i + 1 # 1
  BY <1>2
<1>7. \A i \in 1 .. k : i # 1 => \E j \in 1 .. k - 1 : i = j + 1
  <2> TAKE i \in 1 .. k
  <2> HAVE i # 1
  <2>1. i - 1 \in 1 .. k - 1 /\ i = (i - 1) + 1
    BY <1>2
  <2> QED  BY <2>1
<1>8. \A i, j \in 1 .. k - 1 : i < j <=> i + 1 < j + 1
  BY <1>2
<1> HIDE DEF k
<1>9. Held(Contents[1])
  BY <1>5 DEF Held, k
<1>10. ASSUME NEW u
       PROVE  Held(u)' <=> (Held(u) /\ u # Contents[1])
  <2>1. ASSUME NEW i \in 1 .. k - 1
        PROVE  i + 1 \in 1 .. k /\ Contents'[i] = Contents[i + 1] /\ Contents[i + 1] # Contents[1]
    BY <1>3, <1>4, <1>5, <1>6, Zenon
  <2>2. Held(u)' => Held(u) /\ u # Contents[1]
    BY <1>3, <2>1, Zenon DEF Held, k
  <2>3. Held(u) /\ u # Contents[1] => Held(u)'
    BY <1>3, <1>7, Zenon DEF Held, k
  <2> QED  BY <2>2, <2>3
<1>11. ASSUME NEW u, NEW v
       PROVE  Before(u, v)' <=> (Before(u, v) /\ u # Contents[1])
  <2>1. ASSUME Before(u, v)'
        PROVE  Before(u, v) /\ u # Contents[1]
    <3>1. PICK i \in 1 .. k - 1, j \in 1 .. k - 1 : i < j /\ Contents'[i] = u /\ Contents'[j] = v
      BY <1>3, <2>1, Zenon DEF Before, k
    <3>2. i + 1 < j + 1 /\ Contents[i + 1] = u /\ Contents[j + 1] = v
      BY <1>3, <1>8, <3>1, Zenon
    <3>3. u # Contents[1]
      BY <1>4, <1>5, <1>6, <3>2
    <3> QED  BY <1>6, <3>2, <3>3 DEF Before, k
  <2>2. ASSUME Before(u, v), u # Contents[1]
        PROVE  Before(u, v)'
    <3>1. PICK i \in 1 .. k, j \in 1 .. k : i < j /\ Contents[i] = u /\ Contents[j] = v
      BY <2>2 DEF Before, k
    <3>2. i # 1 /\ j # 1
      BY <1>5, <2>2, <3>1
    <3>3. PICK a \in 1 .. k - 1, b \in 1 .. k - 1 : i = a + 1 /\ j = b + 1
      BY <1>7, <3>2
    <3> QED  BY <1>3, <1>8, <3>1, <3>3, Zenon DEF Before, k
  <2> QED  BY <2>1, <2>2
<1>12. \A u : (Held(u) /\ u # Contents[1]) => Before(Contents[1], u)
  BY <1>5 DEF Held, Before, k
<1>13. \A u : ~Before(u, Contents[1])
  BY <1>4, <1>5 DEF Before, k
<1> QED  BY <1>9, <1>10, <1>11, <1>12, <1>13

\* A step that leaves the ring alone leaves the order of its entries alone.
LEMMA SameOrder ==
  ASSUME WInv, UNCHANGED <<uart_waitq, waitq_head, waitq_count>>
  PROVE  /\ \A u : Held(u)' <=> Held(u)
         /\ \A u, v : Before(u, v)' <=> Before(u, v)
BY Unmoved DEF Held, Before

\* scheduler_block_on_input: a thread that was not asleep goes behind all the
\* others, one that still sleeps keeps its place.
LEMMA BlockStep ==
  ASSUME RInv, NEW t \in Threads, scheduler_block_on_input(t)
  PROVE  RInv' /\ Promise!Sleep(t)
<1>1. /\ WInv /\ ~waking /\ waking \in BOOLEAN /\ waking' = waking /\ waitq_push(t) /\ UNCHANGED waitq_head
      /\ state' = [state EXCEPT ![t] = "BLOCKED"] /\ (Queued(t) => state[t] = "BLOCKED")
      /\ state \in [Threads -> {"RUNNING", "BLOCKED", "DEAD"}]
  BY DEF RInv, scheduler_block_on_input
<1>2. Readers' = Readers \cup {t}
  BY <1>1 DEF Readers
<1>4. state' \in [Threads -> {"RUNNING", "BLOCKED", "DEAD"}] /\ waking' \in BOOLEAN
  BY <1>1
<1>5. CASE state[t] = "BLOCKED"
  <2>1. Held(t) /\ Queued(t)
    BY <1>1, <1>5, HeldQueued DEF RInv
  <2>2. UNCHANGED <<uart_waitq, waitq_head, waitq_count>> /\ state' = state
    BY <1>1, <1>5, <2>1 DEF waitq_push
  <2>3. WInv' /\ Contents' = Contents
    BY <1>1, <2>2, Unmoved
  <2>4. RInv'
    BY <1>1, <1>4, <2>2, <2>3, SameOrder DEF RInv
  <2>5. t \in Readers /\ Readers' = Readers /\ Ahead' = Ahead
    BY <1>5, <2>2, <2>3 DEF Readers, Ahead, Before
  <2> QED  BY <1>1, <2>4, <2>5 DEF Promise!Sleep
<1>6. CASE state[t] # "BLOCKED"
  <2>1. ~Held(t) /\ ~Queued(t)
    BY <1>1, <1>6, HeldQueued DEF RInv
  <2>2. waitq_count < WAITQ_CAP
    BY <1>1, <2>1, FullRing, WaitQueueAssumption DEF WInv, RingShape
  <2>3. WInv' /\ Contents' = Append(Contents, t)
    BY <1>1, <2>1, <2>2, PushStep
  <2>4. /\ \A u : Held(u)' <=> (Held(u) \/ u = t)
        /\ \A u, v : Before(u, v)' <=> (Before(u, v) \/ (Held(u) /\ v = t))
    BY <1>1, <2>3, AppendOrder
  <2>5. RInv'
    BY <1>1, <1>4, <2>3, <2>4 DEF RInv
  <2>6. t \notin Readers /\ \A u \in Readers : Held(u) /\ u # t
    BY <1>6, <2>1 DEF Readers, RInv
  <2>7. \A u : ~Before(u, t) /\ ~Before(t, u)
    BY <2>1 DEF Before, Held
  <2>8. Ahead' = Ahead \cup (Readers \X {t})
    <3>1. ASSUME NEW u, NEW v
          PROVE  <<u, v>> \in Ahead' <=> <<u, v>> \in Ahead \cup (Readers \X {t})
      BY <1>2, <2>1, <2>4, <2>6, <2>7 DEF Ahead
    <3>2. /\ Ahead' \subseteq Readers' \X Readers'
          /\ Ahead \cup (Readers \X {t}) \subseteq Readers' \X Readers'
      BY <1>2 DEF Ahead
    <3> QED  BY <3>1, <3>2
  <2> QED  BY <1>1, <1>2, <2>5, <2>6, <2>8 DEF Promise!Sleep
<1> QED  BY <1>1, <1>5, <1>6

\* A kill takes the thread out of the readers and leaves its entry.
LEMMA KillStep ==
  ASSUME RInv, NEW t \in Threads, Kill(t)
  PROVE  RInv' /\ Promise!Die(t)
<1>1. /\ WInv /\ ~waking /\ waking \in BOOLEAN /\ waking' = waking /\ UNCHANGED <<uart_waitq, waitq_head, waitq_count>>
      /\ state' = [state EXCEPT ![t] = "DEAD"]
      /\ state \in [Threads -> {"RUNNING", "BLOCKED", "DEAD"}]
  BY DEF RInv, Kill
<1>2. Readers' = Readers \ {t}
  BY <1>1 DEF Readers
<1>4. WInv'
  BY <1>1, Unmoved
<1>5. RInv'
  BY <1>1, <1>4, SameOrder DEF RInv
<1>6. Ahead' = {p \in Ahead : p[1] # t /\ p[2] # t}
  BY <1>1, <1>2, SameOrder DEF Ahead
<1> QED  BY <1>1, <1>2, <1>5, <1>6 DEF Promise!Die, Promise!Leave

\* waitq_pop of a ring with an entry returns and removes the oldest.
LEMMA PopFacts ==
  ASSUME RInv, waitq_pop, waitq_count # 0
  PROVE  /\ WInv' /\ Popped = Contents[1] /\ Popped \in Threads /\ Popped # NULL
         /\ Held(Popped)
         /\ \A u : Held(u)' <=> (Held(u) /\ u # Popped)
         /\ \A u, v : Before(u, v)' <=> (Before(u, v) /\ u # Popped)
         /\ \A u : (Held(u) /\ u # Popped) => Before(Popped, u)
         /\ \A u : ~Before(u, Popped)
<1>1. WInv' /\ Contents # <<>> /\ Contents' = Tail(Contents)
  BY PopStep DEF RInv
<1>2. waitq_count \in 1 .. WAITQ_CAP /\ waitq_head \in WQSlots /\ 0 \in WQSlots
  <2>1. waitq_head \in WQSlots /\ waitq_count \in 0 .. WAITQ_CAP
    BY Zenon DEF RInv, WInv, RingShape
  <2> QED  BY <2>1, WaitQueueAssumption DEF WQSlots
<1>3. 1 \in 1 .. waitq_count /\ 1 - 1 = 0 /\ 0 < waitq_count
  BY <1>2, WaitQueueAssumption
<1>4. Contents[1] = uart_waitq[Slot(0)]
  BY <1>3, ContentsShape DEF RInv, Shaped
<1>5. Popped = Contents[1]
  BY <1>2, <1>4, SlotFacts DEF Popped
<1>6. Popped \in Threads
  BY <1>2, <1>3, <1>4, <1>5 DEF RInv, WInv, RingShape
<1>7. Popped # NULL
  BY <1>6, WaitQueueAssumption
<1> QED  BY <1>1, <1>5, <1>6, <1>7, TailOrder DEF RInv

\* The wake loop drops a corpse: nothing changes for the readers.
LEMMA SkipStep ==
  ASSUME RInv, WakeSkip
  PROVE  RInv' /\ UNCHANGED Promise!rqVars
<1>1. waitq_count # 0
  BY DEF WakeSkip, Popped
<1>2. /\ waitq_pop /\ state' = state /\ waking' = waking
      /\ state[Popped] # "BLOCKED"
  BY DEF WakeSkip
<1>3. RInv'
  BY <1>1, <1>2, PopFacts DEF RInv
<1>4. Readers' = Readers /\ Popped \notin Readers
  BY <1>2 DEF Readers
<1>5. Ahead' = Ahead
  BY <1>1, <1>2, <1>4, PopFacts DEF Ahead
<1> QED  BY <1>2, <1>3, <1>4, <1>5 DEF Promise!rqVars

\* The wake loop finds a sleeper: it is the oldest of them.
LEMMA ReaderStep ==
  ASSUME RInv, WakeReader
  PROVE  RInv' /\ \E t \in Threads : Promise!Deliver(t)
<1>1. waitq_count # 0
  BY DEF WakeReader, Popped
<1>2. /\ waitq_pop /\ waking /\ waking' = FALSE /\ state[Popped] = "BLOCKED"
      /\ state' = [state EXCEPT ![Popped] = "RUNNING"]
      /\ state \in [Threads -> {"RUNNING", "BLOCKED", "DEAD"}]
  BY DEF WakeReader, RInv
<1> DEFINE p == Popped
<1>3. p \in Threads
  BY <1>1, <1>2, PopFacts
<1>4. RInv'
  BY <1>1, <1>2, <1>3, PopFacts, Zenon DEF RInv
<1>5. Readers' = Readers \ {p} /\ p \in Readers
  BY <1>2, <1>3 DEF Readers
<1>7. \A u \in Readers : Held(u)
  BY DEF RInv, Readers
<1>8. \A u \in Readers \ {p} : <<p, u>> \in Ahead /\ <<u, p>> \notin Ahead
  BY <1>1, <1>2, <1>5, <1>7, PopFacts DEF Ahead
<1>9. Ahead' = {q \in Ahead : q[1] # p /\ q[2] # p}
  BY <1>1, <1>2, <1>5, PopFacts DEF Ahead
<1>10. Promise!Deliver(p)
  <2> HIDE DEF p
  <2> QED  BY <1>2, <1>5, <1>8, <1>9 DEF Promise!Deliver, Promise!Leave
<1> QED  BY <1>3, <1>4, <1>10

\* The wake loop finds the ring empty: nobody sleeps.
LEMMA NobodyStep ==
  ASSUME RInv, WakeNobody
  PROVE  RInv' /\ Promise!DeliverToNobody
<1>1. /\ waitq_pop /\ waking /\ waking' = FALSE /\ state' = state /\ Popped = NULL
  BY DEF WakeNobody
<1>2. waitq_count = 0
  BY <1>1, PopFacts
<1>3. UNCHANGED <<uart_waitq, waitq_head, waitq_count>>
  BY <1>1, <1>2 DEF waitq_pop
<1>4. RInv'
  BY <1>1, <1>3, Unmoved, SameOrder, Zenon DEF RInv
<1>5. Readers = {}
  <2>1. \A u : ~Held(u)
    BY <1>2 DEF Held
  <2> QED  BY <2>1 DEF Readers, RInv
<1>6. Readers' = Readers /\ Ahead' = Ahead
  BY <1>1, <1>5 DEF Readers, Ahead
<1> QED  BY <1>1, <1>4, <1>5, <1>6 DEF Promise!DeliverToNobody

\* Every step keeps the invariant and is a step of the queue of live readers.
LEMMA RStep ==
  ASSUME RInv, [WQNext]_wqVars
  PROVE  RInv' /\ [Promise!RQNext]_(Promise!rqVars)
<1>1. ASSUME NEW t \in Threads, scheduler_block_on_input(t)
      PROVE  RInv' /\ Promise!RQNext
  BY <1>1, BlockStep DEF Promise!RQNext
<1>2. ASSUME NEW t \in Threads, Kill(t)
      PROVE  RInv' /\ Promise!RQNext
  BY <1>2, KillStep DEF Promise!RQNext
<1>3. CASE WakeStart
  <2>1. /\ ~waking /\ waking' = TRUE /\ state' = state
        /\ UNCHANGED <<uart_waitq, waitq_head, waitq_count>>
    BY <1>3 DEF WakeStart
  <2>2. RInv'
    BY <2>1, Unmoved, SameOrder DEF RInv
  <2>3. Readers' = Readers /\ Ahead' = Ahead
    BY <2>1, SameOrder DEF Readers, Ahead, RInv
  <2>4. Promise!Request
    BY <2>1, <2>3 DEF Promise!Request
  <2> QED  BY <2>2, <2>4 DEF Promise!RQNext
<1>4. CASE WakeSkip
  BY <1>4, SkipStep
<1>5. CASE WakeReader
  BY <1>5, ReaderStep DEF Promise!RQNext
<1>6. CASE WakeNobody
  BY <1>6, NobodyStep DEF Promise!RQNext
<1>7. CASE UNCHANGED wqVars
  <2>1. /\ state' = state /\ waking' = waking
        /\ UNCHANGED <<uart_waitq, waitq_head, waitq_count>>
    BY <1>7 DEF wqVars
  <2>2. RInv'
    BY <2>1, Unmoved, SameOrder DEF RInv
  <2>3. Readers' = Readers /\ Ahead' = Ahead
    BY <2>1, SameOrder DEF Readers, Ahead, RInv
  <2> QED  BY <2>1, <2>2, <2>3 DEF Promise!rqVars
<1> QED  BY <1>1, <1>2, <1>3, <1>4, <1>5, <1>6, <1>7 DEF WQNext

\* uart_waitq, with its wrapping indices and the corpses sys_kill leaves in it,
\* implements the first-come first-served queue of live readers for any number
\* of threads: every wakeup goes to the reader that has slept longest, however
\* many corpses scheduler_wake_reader has to pop on the way, and comes to
\* nothing only when nobody sleeps.
THEOREM WaitQueueRefinement == WQSpec => ImplementsReaderQueue
<1>1. WQInit => RInv /\ Promise!RQInit
  <2> SUFFICES ASSUME WQInit PROVE RInv /\ Promise!RQInit
    OBVIOUS
  <2>1. WInv /\ waitq_count = 0 /\ waking = FALSE /\ state = [t \in Threads |-> "RUNNING"]
    BY WInit DEF WQInit
  <2>2. \A u : ~Held(u)
    BY <2>1 DEF Held
  <2>3. Readers = {}
    BY <2>1 DEF Readers
  <2> QED  BY <2>1, <2>2, <2>3, Zenon DEF RInv, Promise!RQInit, Ahead
<1>2. RInv /\ [WQNext]_wqVars => RInv' /\ [Promise!RQNext]_(Promise!rqVars)
  BY RStep
<1> QED  BY <1>1, <1>2, PTL DEF WQSpec, ImplementsReaderQueue, Promise!RQSpec

-----------------------------------------------------------------------------
(* The interrupt path.                                                     *)

InHandler == {"timer_irq", "timer_tick", "uart_irq", "uart_read", "uart_ack",
              "uart_wake", "eoi"}

BeforeTables == {"uart_init", "irq_init"}

PCs == BeforeTables \cup {"timer_init", "enable_timer", "enable_uart", "user", "irq_dispatch"}
         \cup InHandler

-----------------------------------------------------------------------------
(* The invariants, one for each of the three questions.                    *)

\* The lines that may be left enabled without a handler.
Spare == IF board = "qemu" THEN Private ELSE {}

\* From irq_init on any other line is enabled only after its handler was
\* registered, and only two ever are; the line in service is one of them.
LineInv ==
  /\ pc \in PCs
  /\ pc \notin BeforeTables => enabled \subseteq irq_table \cup Spare
  /\ irq_table \subseteq {"timer", "uart"}
  /\ pc \in InHandler => n \in irq_table \cup Spare \cup {MAX_IRQS}

\* The timer's handler runs only with the latch set, which nobody else clears.
Latched == IF overflow = TRUE THEN 1 ELSE 0

TickInv ==
  /\ overflow \in BOOLEAN
  /\ owed = Latched + (IF pc = "timer_tick" THEN 1 ELSE 0)
  /\ pc = "timer_irq" => overflow = TRUE

\* The PL011 asserts nothing over an empty FIFO; so the handler starts with a
\* byte to fetch, and what it pushed it announces before it ends.
ByteInv ==
  /\ board \in Boards
  /\ fifo \in Nat
  /\ ris \subseteq {"RX", "RT"}
  /\ ris # {} => board = "qemu" /\ fifo > 0
  /\ pushed \in BOOLEAN
  /\ pc \in {"uart_irq", "uart_read", "uart_ack", "uart_wake"} \/ pushed = FALSE
  /\ pc = "uart_read" => fifo > 0
  /\ pc = "uart_irq" => pushed = TRUE \/ fifo > 0
  /\ pc \in {"uart_ack", "uart_wake"} => pushed = TRUE

\* No step leaves the UART's handler with an unannounced byte, or starts it
\* without one.
LEMMA ByteStep == ByteInv /\ [Next]_vars => ByteInv'
<1> SUFFICES ASSUME ByteInv, [Next]_vars PROVE ByteInv'
  OBVIOUS
<1> USE DEF ByteInv, Boards, uartVars, timerVars, intcVars
<1>1. CASE BringUp
  <2>1. CASE uart_init
    <3>1. /\ pc = "uart_init" /\ pc' = "irq_init"
          /\ board' = board /\ ris' = ris /\ pushed' = pushed
      BY <2>1, Zenon DEF uart_init, pl011_init, ns16550_init
    <3>2. fifo' = fifo \/ (fifo' = 0 /\ board # "qemu")
      BY <2>1, Zenon DEF uart_init, pl011_init, ns16550_init
    <3> QED  BY <3>1, <3>2
  <2>2. CASE irq_init \/ timer_init \/ EnableTimer \/ EnableUart
    BY <2>2, Zenon DEF irq_init, timer_init, EnableTimer, EnableUart
  <2> QED  BY <1>1, <2>1, <2>2, Zenon DEF BringUp
<1>2. CASE IrqEntry \/ Glitch
  BY <1>2, Zenon DEF IrqEntry, Glitch, EnterHandler
<1>3. CASE Dispatch
  <2>1. PICK line \in Lines \cup {MAX_IRQS} : get_active(line)
    BY <1>3 DEF Dispatch
  <2>2. line = "uart" => fifo > 0
    BY <2>1 DEF get_active, Pending, Asserted, UartLine, MAX_IRQS
  <2> QED  BY <2>1, <2>2 DEF get_active, MAX_IRQS
<1>4. CASE Drivers
  <2>1. CASE TimerAck \/ timer_tick
    BY <2>1, Zenon DEF TimerAck, timer_tick
  <2>2. CASE UartPoll
    BY <2>2 DEF UartPoll
  <2>3. CASE UartRead
    <3>1. fifo' \in Nat /\ fifo' = fifo - 1
      BY <2>3 DEF UartRead
    <3>2. fifo' = 0 => fifo' < RX_TRIGGER
      BY <3>1, IrqPathAssumption
    <3>3. fifo' = 0 => ris' = {}
      BY <2>3, <3>2 DEF UartRead
    <3>4. ris' \subseteq ris /\ (ris' # {} => ris # {})
      BY <2>3 DEF UartRead
    <3>5. pushed' = TRUE /\ pc' = "uart_irq" /\ board' = board
      BY <2>3, Zenon DEF UartRead
    <3>6. /\ pushed' \in BOOLEAN
          /\ (pc \in {"uart_irq", "uart_read", "uart_ack", "uart_wake"})' \/ pushed' = FALSE
          /\ pushed' = TRUE \/ fifo' > 0
      BY <3>5, Zenon
    <3>7. pc' # "uart_read" /\ (pc \notin {"uart_ack", "uart_wake"})'
      BY <3>5
    <3>8. ris' # {} => board' = "qemu" /\ fifo' > 0
      <4>1. fifo' = 0 \/ fifo' > 0
        BY <3>1
      <4>2. board' = board
        BY <3>5
      <4> QED  BY <3>3, <3>4, <4>1, <4>2, Zenon
    <3>9. board' \in Boards /\ ris' \subseteq {"RX", "RT"}
      BY <3>4, <3>5, Zenon
    <3> QED  BY <3>1, <3>6, <3>7, <3>8, <3>9, Zenon
  <2>4. CASE UartAck
    BY <2>4 DEF UartAck
  <2>5. CASE UartWake
    BY <2>5, Zenon DEF UartWake
  <2> QED  BY <1>4, <2>1, <2>2, <2>3, <2>4, <2>5, Zenon DEF Drivers
<1>5. CASE Eoi
  BY <1>5 DEF Eoi
<1>6. CASE UartReceive
  BY <1>6 DEF UartReceive
<1>7. CASE ReceiveTimeout
  BY <1>7 DEF ReceiveTimeout
<1>8. CASE TimerExpire
  BY <1>8 DEF TimerExpire
<1>9. CASE UNCHANGED vars
  BY <1>9 DEF vars
<1> QED  BY <1>1, <1>2, <1>3, <1>4, <1>5, <1>6, <1>7, <1>8, <1>9, Zenon DEF Next

\* No step changes the board.
LEMMA SameBoard == [Next]_vars => Spare' = Spare
<1>1. [Next]_vars => board' = board
  BY Zenon DEF Next, vars, BringUp, uart_init, irq_init, timer_init, EnableTimer, EnableUart,
     IrqEntry, Glitch, EnterHandler, Dispatch, get_active, Drivers, TimerAck, timer_tick, UartPoll,
     UartRead, UartAck, UartWake, Eoi, UartReceive, ReceiveTimeout, TimerExpire
<1> QED  BY <1>1, Zenon DEF Spare

\* No step of bring-up, dispatch, drivers or devices leaves a shared line enabled
\* without a handler.
LEMMA LineStep == LineInv /\ ByteInv /\ [Next]_vars => LineInv'
<1> SUFFICES ASSUME LineInv, ByteInv, [Next]_vars, Spare' = Spare PROVE LineInv'
  BY SameBoard
<1> USE DEF LineInv, PCs, BeforeTables, InHandler, uartVars, timerVars, intcVars
<1>1. CASE BringUp
  <2>1. CASE uart_init
    BY <2>1 DEF uart_init
  <2>2. CASE irq_init
    <3>1. enabled' \subseteq Spare
      BY <2>2, Zenon DEF irq_init, gicv1_init, am335x_intc_init, Spare
    <3> QED  BY <2>2, <3>1 DEF irq_init
  <2>3. CASE timer_init
    BY <2>3 DEF timer_init
  <2>4. CASE EnableTimer
    BY <2>4 DEF EnableTimer, RegisterAndEnable
  <2>5. CASE EnableUart
    BY <2>5 DEF EnableUart, RegisterAndEnable
  <2> QED  BY <1>1, <2>1, <2>2, <2>3, <2>4, <2>5 DEF BringUp
<1>2. CASE IrqEntry \/ Glitch
  BY <1>2, Zenon DEF IrqEntry, Glitch, EnterHandler
<1>3. CASE Dispatch
  <2>1. PICK line \in Lines \cup {MAX_IRQS} : get_active(line)
    BY <1>3 DEF Dispatch
  <2>2. line \in irq_table \cup Spare \/ line = MAX_IRQS
    BY <2>1 DEF get_active, Pending
  <2> QED  BY <2>1, <2>2 DEF get_active
<1>4. CASE Drivers
  <2>1. CASE UartPoll
    BY <2>1 DEF UartPoll, ByteInv, Boards
  <2>2. CASE TimerAck \/ timer_tick \/ UartRead \/ UartAck \/ UartWake
    BY <2>2, Zenon DEF TimerAck, timer_tick, UartRead, UartAck, UartWake
  <2> QED  BY <1>4, <2>1, <2>2 DEF Drivers
<1>5. CASE Eoi
  BY <1>5 DEF Eoi
<1>6. CASE UartReceive \/ ReceiveTimeout \/ TimerExpire
  BY <1>6, Zenon DEF UartReceive, ReceiveTimeout, TimerExpire
<1>7. CASE UNCHANGED vars
  BY <1>7 DEF vars
<1> QED  BY <1>1, <1>2, <1>3, <1>4, <1>5, <1>6, <1>7 DEF Next

\* No step loses or invents a timer period.
LEMMA TickStep == TickInv /\ ByteInv /\ [Next]_vars => TickInv'
<1> SUFFICES ASSUME TickInv, ByteInv, [Next]_vars PROVE TickInv'
  OBVIOUS
<1> USE DEF TickInv, Latched, uartVars, timerVars, intcVars
<1>1. CASE BringUp
  <2>1. CASE uart_init
    BY <2>1 DEF uart_init
  <2>2. CASE irq_init
    BY <2>2 DEF irq_init
  <2>3. CASE timer_init
    <3>1. pc = "timer_init" /\ pc' = "enable_timer"
      BY <2>3 DEF timer_init
    <3>2. /\ overflow' \in BOOLEAN
          /\ (Latched' = Latched /\ owed' = owed) \/ (Latched' = 0 /\ owed' = 0)
      BY <2>3, Zenon DEF timer_init, sp804_init, dmtimer_init
    <3>3. Latched \in {0, 1}
      OBVIOUS
    <3> HIDE DEF Latched
    <3> QED  BY <3>1, <3>2, <3>3
  <2>4. CASE EnableTimer \/ EnableUart
    BY <2>4 DEF EnableTimer, EnableUart
  <2> QED  BY <1>1, <2>1, <2>2, <2>3, <2>4, Zenon DEF BringUp
<1>2. CASE IrqEntry \/ Glitch
  BY <1>2 DEF IrqEntry, Glitch, EnterHandler
<1>3. CASE Dispatch
  <2>1. PICK line \in Lines \cup {MAX_IRQS} : get_active(line)
    BY <1>3 DEF Dispatch
  <2>2. line = "timer" => overflow = TRUE
    BY <2>1 DEF get_active, Pending, Asserted, MAX_IRQS
  <2> QED  BY <2>1, <2>2 DEF get_active, MAX_IRQS
<1>4. CASE Drivers
  <2>1. CASE TimerAck
    <3>1. /\ pc = "timer_irq" /\ pc' = "timer_tick" /\ owed' = owed
          /\ overflow' \in BOOLEAN /\ Latched' = 0
      BY <2>1, Zenon DEF TimerAck
    <3>2. owed = 1
      BY <3>1
    <3> HIDE DEF Latched
    <3> QED  BY <3>1, <3>2
  <2>2. CASE timer_tick
    BY <2>2 DEF timer_tick
  <2>3. CASE UartPoll
    BY <2>3 DEF UartPoll, ByteInv, Boards
  <2>4. CASE UartRead \/ UartAck \/ UartWake
    BY <2>4 DEF UartRead, UartAck, UartWake
  <2> QED  BY <1>4, <2>1, <2>2, <2>3, <2>4, Zenon DEF Drivers
<1>5. CASE Eoi
  BY <1>5 DEF Eoi
<1>6. CASE UartReceive \/ ReceiveTimeout
  BY <1>6 DEF UartReceive, ReceiveTimeout
<1>7. CASE TimerExpire
  BY <1>7 DEF TimerExpire
<1>8. CASE UNCHANGED vars
  BY <1>8 DEF vars
<1> QED  BY <1>1, <1>2, <1>3, <1>4, <1>5, <1>6, <1>7, <1>8, Zenon DEF Next

-----------------------------------------------------------------------------
(* The theorems.                                                           *)

\* The invariant of the UART's side, which the two others lean on.
LEMMA ByteInvariance == Spec => []ByteInv
<1>1. Init => ByteInv
  <2> SUFFICES ASSUME Init PROVE ByteInv
    OBVIOUS
  <2>1. board \in Boards /\ ris = {} /\ pc = "uart_init" /\ pushed = FALSE
    BY Zenon DEF Init
  <2>2. fifo \in Nat
    BY DEF Init
  <2> QED  BY <2>1, <2>2, Zenon DEF ByteInv
<1> QED  BY <1>1, ByteStep, PTL DEF Spec

\* Whatever lines were enabled or raised when the kernel started, irq_dispatch
\* meets no shared line without a handler: only a private line of the GIC, which
\* gicv1_init leaves as it was, can come to it unregistered.
THEOREM HandlersCorrect == Spec => []SharedLinesHaveHandlers
<1>1. Init => LineInv
  BY DEF Init, LineInv, PCs, BeforeTables, InHandler
<1>2. LineInv => SharedLinesHaveHandlers
  <2> SUFFICES ASSUME LineInv, pc = "eoi"
               PROVE  n \in irq_table \cup {MAX_IRQS} \/ (board = "qemu" /\ n \in Private)
    BY DEF SharedLinesHaveHandlers
  <2>1. n \in irq_table \cup Spare \cup {MAX_IRQS}
    BY DEF LineInv, InHandler
  <2> QED  BY <2>1, Zenon DEF Spare
<1> QED  BY <1>1, <1>2, LineStep, ByteInvariance, PTL DEF Spec

\* tick_count falls behind the timer by the latched period and the one being
\* counted, and by nothing else, however expiries and acknowledges interleave.
THEOREM TicksCorrect == Spec => []TicksAccounted
<1>1. Init => TickInv
  BY DEF Init, TickInv, Latched
<1>2. TickInv => TicksAccounted
  BY DEF TickInv, Latched, TicksAccounted
<1> QED  BY <1>1, <1>2, TickStep, ByteInvariance, PTL DEF Spec

\* scheduler_wake_reader is called after the last byte of every receive
\* interrupt, and only then.
THEOREM WakeupsCorrect == Spec => []WakeupFollowsBytes
<1>1. ByteInv => WakeupFollowsBytes
  BY DEF ByteInv, WakeupFollowsBytes
<1> QED  BY <1>1, ByteInvariance, PTL

=============================================================================
