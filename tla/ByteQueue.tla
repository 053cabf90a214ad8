------------------------------ MODULE ByteQueue ------------------------------
(***************************************************************************)
(* What the receive ring promises: a first-in first-out queue of bytes     *)
(* that holds at most Capacity of them, refuses a byte when full and       *)
(* answers -1, which is no byte, when empty.                               *)
(***************************************************************************)
EXTENDS Integers, Sequences

CONSTANTS Bytes, Capacity

VARIABLES
  queue,    \* bytes received and not yet read, oldest first
  result    \* the last answer to a reader

bqVars == <<queue, result>>

BQInit ==
  /\ queue = <<>>
  /\ result = -1

Put(b) ==
  /\ queue' = IF Len(queue) < Capacity THEN Append(queue, b) ELSE queue
  /\ UNCHANGED result

Get ==
  /\ result' = IF queue = <<>> THEN -1 ELSE Head(queue)
  /\ queue' = IF queue = <<>> THEN queue ELSE Tail(queue)

BQNext == (\E b \in Bytes : Put(b)) \/ Get

BQSpec == BQInit /\ [][BQNext]_bqVars

=============================================================================
