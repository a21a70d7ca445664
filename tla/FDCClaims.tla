------------------------------ MODULE FDCClaims ------------------------------
(***************************************************************************)
(* What a comment and a test macro of the repository say of the controller *)
(* and the code does not do.  Neither formula holds; each has a run that   *)
(* shows why.                                                              *)
(***************************************************************************)
EXTENDS FDC

\* "{0,1} select one drive if its motor is on" (fdc.hpp:96): after a write of the
\* register, a named drive whose motor is on is selected.  The second write with
\* the same number deselects it, for it is also the drive selected before
\* (fdc.cpp:140-144).
NamedDriveIsSelected ==
  [][\A data \in DORBytes :
       WriteDOR(data) /\ ~floppyDrives'[DriveOf(data)].motorStoped
         => floppyDrives'[DriveOf(data)].selected]_vars

\* The drive whose status is sensed is named by the second word, which the test
\* macro sends after the command (test/util.inc:46-48).  The code reads it from
\* the third word (command.cpp:263), which this command does not have.
SensesNamedDrive ==
  [][phase = "COMMAND" /\ phase' = "RESULT" /\ selectedCommand' = "SenseDriveStatus"
       => resultDatas'[1] % 4 = DriveOf(configurationDatas'[1])]_vars
=============================================================================
