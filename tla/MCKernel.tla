------------------------------ MODULE MCKernel ------------------------------
(***************************************************************************)
(* Small instances of Kernel.                                              *)
(***************************************************************************)
EXTENDS Kernel

\* Programs that do anything a user program can.
AnyProgram == [t \in Threads |-> Ops]

\* Thread 0 computes and yields, like runaway and counter; the others do
\* anything.
OneNeverSleeps == [t \in Threads |-> IF t = 0 THEN {"other", "yield"} ELSE Ops]

\* Every thread only reads.
Readers == [t \in Threads |-> {"read"}]

=============================================================================
