------------------------------ MODULE MCIrqPath ------------------------------
(***************************************************************************)
(* IrqPath with both boards in one run.                                    *)
(***************************************************************************)
EXTENDS IrqPath

=============================================================================
