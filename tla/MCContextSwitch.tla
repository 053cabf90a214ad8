--------------------------- MODULE MCContextSwitch ---------------------------
(***************************************************************************)
(* Two siblings and a thread of another process.                           *)
(***************************************************************************)
EXTENDS ContextSwitch

=============================================================================
