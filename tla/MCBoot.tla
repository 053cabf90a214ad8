------------------------------- MODULE MCBoot -------------------------------
(***************************************************************************)
(* Boot in an address space of twelve sections: the NULL guard, one        *)
(* device, three sections of RAM (the kernel and two slots), the user      *)
(* window and the alias, in the order the QEMU board has them.             *)
(***************************************************************************)
EXTENDS Boot

OneDevice == {1}

=============================================================================
