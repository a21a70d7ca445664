----------------------------- MODULE MCFDCHost ------------------------------
(***************************************************************************)
(* The controller with its driver, for TLC.  The commands are one of each  *)
(* kind: 15 SEEK, 7 RECALIBRATE, 74 READ ID in MFM mode and 10 in FM mode  *)
(* (refused), 8 SENSE INTERRUPT STATUS, 4 SENSE DRIVE STATUS, 3 SPECIFY,   *)
(* 6 READ DATA, 66 READ A TRACK (it hangs) and 0, invalid.  The parameters *)
(* are drive 0 and the drives 2 and 3, which hold no disk, and cylinders:  *)
(* the first, the last of three, and one that the disk does not have.      *)
(***************************************************************************)
EXTENDS FDCHost, TLC

CommandBytesOfAllKinds == {15, 7, 74, 10, 8, 4, 3, 6, 66, 0}
SomeParameterBytes == {0, 2, 3}
AllBytes == CommandBytesOfAllKinds \cup SomeParameterBytes
=============================================================================
