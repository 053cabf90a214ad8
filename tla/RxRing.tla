------------------------------- MODULE RxRing -------------------------------
(***************************************************************************)
(* rx_buf, the ring between the UART interrupt and sys_read.               *)
(*                                                                         *)
(* rx_head and rx_tail are free-running uint32_t counters that wrap at     *)
(* WORD; only their low bits index the array.  One slot stays unused so    *)
(* that full and empty differ.  Producer and consumer never interleave:    *)
(* the interrupt is masked while sys_read pops.                            *)
(***************************************************************************)
EXTENDS Integers, Sequences

CONSTANTS
  UART_RX_BUF_SIZE,  \* slots, 128 in the code
  WORD,              \* 2^32 in the code: where the counters wrap
  CHAR,              \* 2^8 in the code: values of an unsigned char
  CHAR_SIGNED        \* whether the compiler's plain char is signed

ASSUME RxRingAssumption ==
  /\ UART_RX_BUF_SIZE \in Nat \ {0}
  /\ WORD \in Nat \ {0}
  /\ WORD % UART_RX_BUF_SIZE = 0
  /\ WORD > UART_RX_BUF_SIZE
  /\ CHAR \in Nat \ {0}
  /\ CHAR % 2 = 0
  /\ CHAR_SIGNED \in BOOLEAN

VARIABLES
  rx_buf,   \* the array, of plain char
  rx_head,  \* bytes ever accepted, modulo WORD
  rx_tail,  \* bytes ever popped, modulo WORD
  popped    \* what uart_rx_pop returned last

rxVars == <<rx_buf, rx_head, rx_tail, popped>>

RxSlots == 0 .. UART_RX_BUF_SIZE - 1

Bytes == 0 .. CHAR - 1

Mask(n) == n % UART_RX_BUF_SIZE

\* (char)(reg & 0xFF), and (unsigned char)c.
ToChar(b) == IF CHAR_SIGNED /\ 2 * b >= CHAR THEN b - CHAR ELSE b

ToUnsigned(c) == c % CHAR

RxInit ==
  /\ rx_buf = [s \in RxSlots |-> 0]
  /\ rx_head = 0
  /\ rx_tail = 0
  /\ popped = -1

uart_rx_push(b) ==
  /\ LET next == (rx_head + 1) % WORD
     IN  IF Mask(next) # Mask(rx_tail)
         THEN /\ rx_buf' = [rx_buf EXCEPT ![Mask(rx_head)] = ToChar(b)]
              /\ rx_head' = next
         ELSE UNCHANGED <<rx_buf, rx_head>>
  /\ UNCHANGED <<rx_tail, popped>>

uart_rx_empty == rx_head = rx_tail

\* Mutant: the value is returned as the plain char it is stored as.
MutantPopPlainChar ==
  /\ IF uart_rx_empty
     THEN /\ popped' = -1
          /\ UNCHANGED rx_tail
     ELSE /\ popped' = rx_buf[Mask(rx_tail)]
          /\ rx_tail' = (rx_tail + 1) % WORD
  /\ UNCHANGED <<rx_buf, rx_head>>

uart_rx_pop ==
  /\ IF uart_rx_empty
     THEN /\ popped' = -1
          /\ UNCHANGED rx_tail
     ELSE /\ popped' = ToUnsigned(rx_buf[Mask(rx_tail)])
          /\ rx_tail' = (rx_tail + 1) % WORD
  /\ UNCHANGED <<rx_buf, rx_head>>

RxNext == (\E b \in Bytes : uart_rx_push(b)) \/ uart_rx_pop

RxSpec == RxInit /\ [][RxNext]_rxVars

-----------------------------------------------------------------------------
(* Properties.                                                             *)

\* Bytes in the ring, through the wrap of the counters.
Used == (rx_head - rx_tail) % WORD

\* The counters never drift apart by more than the usable slots, also when
\* one of them has wrapped at WORD and the other has not; so distinct counters
\* always mean distinct slots and uart_rx_empty is exact.
NeverOverrun == Used <= UART_RX_BUF_SIZE - 1

\* The bytes between tail and head.
Queue == [i \in 1 .. Used |-> ToUnsigned(rx_buf[Mask(rx_tail + i - 1)])]

Ring == INSTANCE ByteQueue WITH
  Capacity <- UART_RX_BUF_SIZE - 1,
  queue    <- Queue,
  result   <- popped

\* The ring is the bounded queue: no byte is lost except a new one when
\* UART_RX_BUF_SIZE - 1 are waiting, none is duplicated or reordered, and
\* every byte comes out as itself, never as the -1 that means empty.
ImplementsByteQueue == Ring!BQSpec

=============================================================================
