------------------------------ MODULE MCMachine -------------------------------
(***************************************************************************)
(* The machine with its test program, for TLC.  The program writes to the  *)
(* controller the bytes that its macros make of its operands; besides the  *)
(* cylinder 150 of the file, which no disk has, it seeks the first and the *)
(* last one of a disk of three cylinders.                                  *)
(***************************************************************************)
EXTENDS Machine, TLC

ProgramCommands == {3, 15, 8}
ProgramParameters == {191, 2, 0, 150}
ProgramBytes == ProgramCommands \cup ProgramParameters
Cylinders0And2And150 == {0, 2, 150}
=============================================================================
