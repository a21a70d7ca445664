----------------------------- MODULE MCService ------------------------------
(***************************************************************************)
(* The service of interrupts for TLC: two devices on neighbouring lines, a *)
(* program that initialises the controller with and without automatic end, *)
(* writes an empty mask and one of the more urgent device, and uses one    *)
(* software interrupt.                                                     *)
(***************************************************************************)
EXTENDS Service

Commands0 == {19, 32}
Commands1 == {1, 3, 64, 176}
TwoLines == {6, 7}
Software == {5}
=============================================================================
