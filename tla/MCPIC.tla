------------------------------- MODULE MCPIC --------------------------------
(***************************************************************************)
(* The interrupt controller for TLC.  At port 0x20 the bytes are ICW1 in   *)
(* single and in cascade mode, an ICW1 without ICW4, a non-specific and a  *)
(* specific end of interrupt, a rotation (ignored) and the two OCW3 reads; *)
(* at port 0x21 they are, by the state they meet, ICW1, vector bases,      *)
(* ICW4s (normal, automatic end, special mode, refused) and masks.         *)
(***************************************************************************)
EXTENDS PIC, TLC

Commands0 == {19, 17, 18, 32, 102, 160, 10, 11}
Commands1 == {1, 3, 17, 64, 176}
ThreeLines == {1, 6, 7}
=============================================================================
