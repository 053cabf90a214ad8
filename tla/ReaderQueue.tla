----------------------------- MODULE ReaderQueue -----------------------------
(***************************************************************************)
(* What the scheduler promises readers: one wakeup serves exactly one      *)
(* reader, the one that has slept longest among those still alive.  There  *)
(* are no slots, no indices and no dead entries here; module WaitQueue     *)
(* implements this with uart_waitq.                                        *)
(***************************************************************************)
CONSTANT Threads

VARIABLES
  sleepers,   \* live sleeping readers
  ahead,      \* <<u, t>>: the sleeper u fell asleep before the sleeper t
  wakeup      \* a wakeup was requested and not yet delivered

rqVars == <<sleepers, ahead, wakeup>>

RQInit ==
  /\ sleepers = {}
  /\ ahead = {}
  /\ wakeup = FALSE

Sleep(t) ==
  /\ ~wakeup
  /\ sleepers' = sleepers \cup {t}
  /\ ahead' = IF t \in sleepers THEN ahead ELSE ahead \cup (sleepers \X {t})
  /\ UNCHANGED wakeup

Leave(t) ==
  /\ sleepers' = sleepers \ {t}
  /\ ahead' = {p \in ahead : p[1] # t /\ p[2] # t}

Die(t) ==
  /\ ~wakeup
  /\ Leave(t)
  /\ UNCHANGED wakeup

Request ==
  /\ ~wakeup
  /\ wakeup' = TRUE
  /\ UNCHANGED <<sleepers, ahead>>

\* A delivered wakeup serves the oldest sleeper.
Deliver(t) ==
  /\ wakeup
  /\ t \in sleepers
  /\ \A u \in sleepers \ {t} : <<t, u>> \in ahead /\ <<u, t>> \notin ahead
  /\ Leave(t)
  /\ wakeup' = FALSE

\* It is lost only when nobody sleeps.
DeliverToNobody ==
  /\ wakeup
  /\ sleepers = {}
  /\ wakeup' = FALSE
  /\ UNCHANGED <<sleepers, ahead>>

RQNext ==
  \/ \E t \in Threads : Sleep(t) \/ Die(t) \/ Deliver(t)
  \/ Request \/ DeliverToNobody

RQSpec == RQInit /\ [][RQNext]_rqVars

=============================================================================
