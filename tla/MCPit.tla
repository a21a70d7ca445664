------------------------------- MODULE MCPit --------------------------------
(***************************************************************************)
(* The interval timer for TLC.  The ports are the one below the timer (a   *)
(* word there spills into counter 0), the counters and the control         *)
(* register (a word at counter 2 spills into it); reads go to counters 0   *)
(* and 2.  The control words are, for counter 0, pairs, latch, the low     *)
(* byte and the high byte alone, and for counter 2 pairs and latch.  What  *)
(* the latch is left with and what the count is left with differ in both   *)
(* bytes, and a count written differs from both.                           *)
(***************************************************************************)
EXTENDS Pit, TLC

SixControlWords == {48, 0, 16, 32, 176, 128}
OneCount == {2}
AllPorts == {63, 64, 65, 66, 67}
CounterPorts == {64, 66, 67}
Left(access, read, write, latched) ==
  [access |-> access, readStatus |-> read, writeStatus |-> write,
   latchedValueIsAvailable |-> latched,
   value |-> [low |-> 0, high |-> 1], latchedValue |-> [low |-> 1, high |-> 0]]
TwoLeftovers ==
  {Left("LSB_MSB", "MSB", "LSB", TRUE), Left("LSB_ONLY", "LSB", "MSB", FALSE)}
=============================================================================
