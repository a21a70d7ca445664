------------------------------- MODULE MCFDC --------------------------------
(***************************************************************************)
(* The controller under an arbitrary processor, for TLC.  Every byte of    *)
(* Bytes serves in any place, as a command and as its parameters: 15 is    *)
(* SEEK, 7 RECALIBRATE, 8 SENSE INTERRUPT STATUS, 4 SENSE DRIVE STATUS,    *)
(* 74 READ ID in MFM mode, 1 a command of the base class in FM mode        *)
(* (refused); and as parameters they name drives 0, 1, 2 and 3, heads 0    *)
(* and 1, and cylinders on and off a disk of a few cylinders.              *)
(***************************************************************************)
EXTENDS FDC, TLC

SeekBytes == {15, 7, 8}
AnswerBytes == {74, 4, 1}

\* Motor 0 on and drive 0 selected.
OneDrive == {16}
\* The same, and drive 1 selected with both motors on.
TwoDrives == {16, 49}
=============================================================================
