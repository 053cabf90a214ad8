----------------------------- MODULE MCWaitQueue -----------------------------
(***************************************************************************)
(* uart_waitq with four threads: the ring wraps at every offset, with and  *)
(* without corpses in it.                                                  *)
(***************************************************************************)
EXTENDS WaitQueue

CONSTANTS t1, t2, t3, t4

FourThreads == {t1, t2, t3, t4}

=============================================================================
