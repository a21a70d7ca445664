-------------------------------- MODULE Bits --------------------------------
(***************************************************************************)
(* Bytes as the devices see them: numbers in 0 .. 255.  `Bit(b, i)' tests  *)
(* one bit, as `b & (1 << i)' does; a field is taken with \div and %.      *)
(***************************************************************************)
EXTENDS Integers

Byte == 0 .. 255

Bit(b, i) == (b \div 2^i) % 2 = 1
=============================================================================
