------------------------------- MODULE Floppy -------------------------------
(***************************************************************************)
(* One drive of the adapter: Floppy100 (src/floppy/floppy.cpp).  A drive   *)
(* has no thread of its own; it is a record that the controller's calls    *)
(* transform, so the module defines the value and its operations and the   *)
(* controller's module holds the four drives as a variable.                *)
(*                                                                         *)
(* The code measures the spin-up of the motor (500 ms) and the loading of  *)
(* the heads (35 ms) against the wall clock.  A request starts a delay and *)
(* clears the matching `elapsed' field; the environment sets it again at   *)
(* any later moment (WallClock).  A drive that never made a request has a  *)
(* time point at the epoch, hence an elapsed delay.                        *)
(***************************************************************************)
EXTENDS Bits

CONSTANT Cylinders      \* geometry.cylinders, 40 in the code

ASSUME FloppyAssumption == Cylinders \in Nat /\ Cylinders > 1

TrackToTrack == 8       \* timers.trackToTrack, in milliseconds

Drive == [inserted          : BOOLEAN,
          motorStoped       : BOOLEAN,
          selected          : BOOLEAN,
          headUnloaded      : BOOLEAN,
          headAddress       : {0, 1},
          cylinder          : 0 .. Cylinders - 1,
          headLoadElapsed   : BOOLEAN,
          motorStartElapsed : BOOLEAN]

\* The constructor with its default, empty path: no disk, and the identifier
\* {1,0,0,0}, which puts the heads over cylinder 1.
NewDrive == [inserted          |-> FALSE,
             motorStoped       |-> TRUE,
             selected          |-> FALSE,
             headUnloaded      |-> FALSE,
             headAddress       |-> 0,
             cylinder          |-> 1,
             headLoadElapsed   |-> TRUE,
             motorStartElapsed |-> TRUE]

-----------------------------------------------------------------------------
(* Operations.                                                             *)

\* `open' with a path that does (opened) or does not name a readable image.
Open(drive, opened) == [drive EXCEPT !.inserted = opened]

\* Starting a spinning motor again does not restart its delay.
MotorOn(drive) ==
  [drive EXCEPT !.motorStoped = FALSE,
                !.motorStartElapsed = @ /\ ~drive.motorStoped]

MotorOff(drive) == [drive EXCEPT !.motorStoped = TRUE]

SetMotorSpinning(drive, spinning) ==
  IF ~drive.inserted THEN drive
  ELSE IF spinning THEN MotorOn(drive) ELSE MotorOff(drive)

\* Only called by Select below, for a drive that was just selected.
LoadHeads(drive) == [drive EXCEPT !.headUnloaded = FALSE, !.headLoadElapsed = FALSE]

CanSelect(drive) == ~drive.motorStoped

Select(drive) ==
  LET selected == [drive EXCEPT !.selected = TRUE]
  IN  IF drive.headUnloaded THEN LoadHeads(selected) ELSE selected

Unselect(drive) == [drive EXCEPT !.selected = FALSE, !.headUnloaded = TRUE]

SetHeadAddress(drive, head) == [drive EXCEPT !.headAddress = head]

HeadLoaded(drive) == drive.inserted /\ ~drive.headUnloaded /\ drive.headLoadElapsed

MotorAtFullSpeed(drive) == ~drive.motorStoped /\ drive.motorStartElapsed

IsReady(drive) == /\ drive.inserted
                  /\ drive.selected
                  /\ HeadLoaded(drive)
                  /\ MotorAtFullSpeed(drive)
                  /\ drive.headAddress = 0

StepHead(drive, up) == [drive EXCEPT !.cylinder = IF up THEN @ + 1 ELSE @ - 1]

\* Mutants: the stop one cylinder too far, and one too early.
AtLastCylinderLate(drive, up) == drive.cylinder = IF up THEN Cylinders ELSE 0
AtLastCylinderEarly(drive, up) == drive.cylinder = IF up THEN Cylinders - 2 ELSE 0

AtLastCylinder(drive, up) == drive.cylinder = IF up THEN Cylinders - 1 ELSE 0

\* Whether `step' succeeds; an empty drive takes the step and does not move.
StepSucceeds(drive, up, milliseconds, first) ==
  \/ ~drive.inserted
  \/ (first \/ milliseconds >= TrackToTrack) /\ ~AtLastCylinder(drive, up)

\* The drive after `step'.
Stepped(drive, up, milliseconds, first) ==
  IF drive.inserted /\ StepSucceeds(drive, up, milliseconds, first)
  THEN StepHead(drive, up)
  ELSE drive

\* ST3 of the drive numbered d; the write-protect bit is never set.
StatusRegister3(drive, d) ==
  LET ready  == IF IsReady(drive) THEN 32 ELSE 0
      track0 == IF drive.cylinder = 0 THEN 16 ELSE 0
  IN  ready + track0 + 4 * drive.headAddress + d

\* The cylinder `getID' reports.
IDCylinder(drive) == IF drive.inserted THEN drive.cylinder ELSE 0
=============================================================================
