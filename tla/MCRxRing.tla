------------------------------ MODULE MCRxRing ------------------------------
(***************************************************************************)
(* A ring of four slots whose counters wrap after eight bytes, with a     *)
(* signed plain char of two bits.                                          *)
(***************************************************************************)
EXTENDS RxRing

=============================================================================
