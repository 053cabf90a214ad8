-------------------------------- MODULE Delay --------------------------------
(***************************************************************************)
(* ulib_delay_ticks: a user thread polls sys_ticks and yields until enough *)
(* ticks have passed.                                                      *)
(*                                                                         *)
(* tick_count is a uint32_t that wraps at WORD, and the timer interrupt    *)
(* can fall between any two instructions of the loop: a value read before  *)
(* the thread is preempted is compared after it runs again.  How long that *)
(* takes is the scheduler's business; here it is POLL_GAP ticks at most.   *)
(***************************************************************************)
EXTENDS Integers

CONSTANTS
  WORD,       \* 2^32 in the code: where tick_count wraps
  DELAYS,     \* the arguments ulib_delay_ticks is called with
  POLL_GAP    \* most ticks between two reads of the clock by the loop

ASSUME DelayAssumption ==
  /\ WORD \in Nat \ {0}
  /\ DELAYS \subseteq Nat
  /\ POLL_GAP \in Nat \ {0}
  /\ \A d \in DELAYS : d + POLL_GAP < WORD

VARIABLES
  tick_count,  \* the kernel's counter
  pc,          \* "run" outside the loop; "poll", "test", "yield" inside
  ticks,       \* the argument
  start,       \* the clock when the call began
  now,         \* what sys_ticks returned last
  waited,      \* history: ticks since start was read
  unseen       \* history: ticks since the loop last read the clock

delayVars == <<tick_count, pc, ticks, start, now, waited, unseen>>

Words == 0 .. WORD - 1

DelayInit ==
  /\ tick_count = 0
  /\ pc = "run"
  /\ ticks = 0
  /\ start = 0
  /\ now = 0
  /\ waited = 0
  /\ unseen = 0

\* Outside the loop nobody measures; inside, the scheduler lets the loop poll
\* at least once in POLL_GAP ticks.
timer_tick ==
  /\ tick_count' = (tick_count + 1) % WORD
  /\ IF pc = "run"
     THEN UNCHANGED <<waited, unseen>>
     ELSE /\ unseen < POLL_GAP
          /\ waited' = waited + 1
          /\ unseen' = unseen + 1
  /\ UNCHANGED <<pc, ticks, start, now>>

\* unsigned int start = sys_ticks();
DelayStart(d) ==
  /\ pc = "run"
  /\ pc' = "poll"
  /\ ticks' = d
  /\ start' = tick_count
  /\ waited' = 0
  /\ unseen' = 0
  /\ UNCHANGED <<tick_count, now>>

\* The call of sys_ticks in the loop's condition.
DelayPoll ==
  /\ pc = "poll"
  /\ pc' = "test"
  /\ now' = tick_count
  /\ unseen' = 0
  /\ UNCHANGED <<tick_count, ticks, start, waited>>

\* Mutant: sys_yield puts the caller to sleep and nobody wakes it.
MutantYieldSleeps ==
  /\ pc = "yield"
  /\ UNCHANGED delayVars

\* Mutant: the wait goes on at the tick it should end with.
MutantOneMore == (now - start) % WORD <= ticks

\* Mutant: the end of the wait is computed first and compared with the clock.
MutantCompareWithEnd == now < (start + ticks) % WORD

\* Unsigned subtraction: (sys_ticks() - start) < ticks.
StillWaiting == (now - start) % WORD < ticks

\* The call returns, and its variables are gone.
DelayTest ==
  /\ pc = "test"
  /\ IF StillWaiting
     THEN /\ pc' = "yield"
          /\ UNCHANGED <<tick_count, ticks, start, now, waited, unseen>>
     ELSE /\ pc' = "run"
          /\ ticks' = 0
          /\ start' = 0
          /\ now' = 0
          /\ waited' = 0
          /\ unseen' = 0
          /\ UNCHANGED tick_count

\* sys_yield comes back when the scheduler has gone round.
DelayYield ==
  /\ pc = "yield"
  /\ pc' = "poll"
  /\ UNCHANGED <<tick_count, ticks, start, now, waited, unseen>>

DelayLoop == DelayPoll \/ DelayTest \/ DelayYield

DelayNext ==
  \/ timer_tick
  \/ \E d \in DELAYS : DelayStart(d)
  \/ DelayLoop

-----------------------------------------------------------------------------
DelayTypeOK ==
  /\ tick_count \in Words
  /\ pc \in {"run", "poll", "test", "yield"}
  /\ ticks \in IF pc = "run" THEN {0} ELSE DELAYS
  /\ start \in Words
  /\ now \in Words
  /\ waited \in Nat
  /\ unseen \in 0 .. POLL_GAP

\* What the comparison rests on: inside the loop the clock is start plus the
\* ticks waited, wrapped at most once, and so is the value read last.
ClockFromStart ==
  pc # "run" =>
    /\ unseen <= waited
    /\ tick_count = (start + waited) % WORD
    /\ pc = "test" => now = (start + waited - unseen) % WORD

\* ulib_delay_ticks never returns early, wherever the counter stood when it
\* began: when the loop is about to end, at least `ticks` ticks have come.
DelayNeverEarly ==
  pc = "test" /\ ~StillWaiting => waited >= ticks

\* Nor does it miss its end and go round the counter once more: the wait is
\* over at the first reading of the clock that comes late enough, and the
\* next reading is at most POLL_GAP ticks away.
DelayOnTime ==
  /\ pc \in {"poll", "yield"} => waited - unseen < ticks \/ waited = unseen
  /\ pc = "test" => waited - unseen <= ticks + POLL_GAP

\* Every delay ends, on a board that ticks and a scheduler that is fair.
DelayEnds == pc # "run" ~> pc = "run"

=============================================================================
