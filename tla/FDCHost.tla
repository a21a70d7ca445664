------------------------------ MODULE FDCHost -------------------------------
(***************************************************************************)
(* The controller with a driver that follows its documentation: the status *)
(* register is read before every access of the data register (the macros   *)
(* of test/util.inc), a word is written only after a status with RQM set   *)
(* and DIO clear, one is read only after RQM and DIO set (fdc.hpp:103-109),*)
(* and a command is given as many words as it has.  The driver knows of    *)
(* the controller only what it read.                                       *)
(*                                                                         *)
(* The output register, the disks and the wall clock stay arbitrary.       *)
(***************************************************************************)
EXTENDS FDC

CONSTANTS CommandBytes, ParameterBytes

ASSUME HostAssumption == CommandBytes \subseteq Bytes /\ ParameterBytes \subseteq Bytes

VARIABLES
  seen,      \* what the last status read allows: "write", "read" or "nothing"
  toSend     \* words of the current command still to be written

hostVars == <<vars, seen, toSend>>

HostInit == Init /\ seen = "nothing" /\ toSend = 0

PollStatus ==
  /\ ReadStatusRegister
  /\ seen' = IF ~rqm THEN "nothing" ELSE IF dio THEN "read" ELSE "write"
  /\ UNCHANGED toSend

\* After READ DATA the byte returned is readFromFloppy, which stays 0.
PollCaptured ==
  /\ ReadDuringReadData
  /\ seen' = "nothing"
  /\ UNCHANGED toSend

SendCommand(b) ==
  /\ seen = "write" /\ toSend = 0
  /\ WriteDataRegister(b)
  /\ toSend' = ConfigurationWords(commands(CommandIndex(b))) - 1
  /\ seen' = "nothing"

SendParameter(b) ==
  /\ seen = "write" /\ toSend > 0
  /\ WriteDataRegister(b)
  /\ toSend' = toSend - 1
  /\ seen' = "nothing"

FetchResult ==
  /\ seen = "read"
  /\ ReadResultWord \/ ReadLastResultWord
  /\ seen' = "nothing"
  /\ UNCHANGED toSend

HostAccess ==
  \/ \E b \in CommandBytes : SendCommand(b)
  \/ \E b \in ParameterBytes : SendParameter(b)
  \/ PollStatus
  \/ PollCaptured
  \/ FetchResult

ControlDrives == \E b \in DORBytes : WriteDOR(b) /\ UNCHANGED <<seen, toSend>>

HostClock == ~quit /\ Clock /\ UNCHANGED <<seen, toSend>>

HostNext ==
  \/ ~quit /\ HostAccess
  \/ ~quit /\ ControlDrives
  \/ HostClock
  \/ ~quit /\ Environment /\ UNCHANGED <<seen, toSend>>

HostSpec == HostInit /\ [][HostNext]_hostVars

\* The main loop clocks the controller for as long as it runs; the driver need
\* do nothing.
FairHostSpec == HostSpec /\ WF_hostVars(HostClock)

-----------------------------------------------------------------------------
(* Where the controller stands, as its driver should see it.               *)

Stage == IF quit                          THEN "stopped"
         ELSE IF phase = "EXECUTION"      THEN "execution"
         ELSE IF phase = "RESULT"         THEN "result"
         ELSE IF readCommandInProcess     THEN "captured"
         ELSE IF selectedCommand = "None" THEN "idle"
         ELSE "configuration"

-----------------------------------------------------------------------------
(* Properties.                                                             *)

\* What the driver read stays true until it acts on it: the write or the read
\* it prepares is never refused, although seeks end, answers appear and drives
\* change in between (fdc.cpp:197-203 and 276-279).
StatusReadStaysTrue ==
  /\ seen = "write" => AcceptsWord /\ phase = "COMMAND"
  /\ seen = "read" => AllowsReading

\* Driver and controller count the same words: the controller is waiting for
\* exactly the words the driver has still to send, and between commands no
\* position is left over from an earlier one (writePos and resultWordPos are
\* statics nothing resets, fdc.cpp:150 and 238).
HostInStep ==
  IF Stage = "configuration"
  THEN toSend > 0 /\ toSend + writePos = ConfigurationWords(selectedCommand)
  ELSE toSend = 0 /\ writePos = 0

\* During a seek the one drive marked as seeking is the one the command names,
\* and no mark outlives its seek (command.cpp:159, 166, 288, 296).
SeekMarkIsRight ==
  seeking = IF busy /\ phase = "EXECUTION" THEN {DriveOf(configurationDatas[1])} ELSE {}

\* The two abnormal ends of a seek tell the driver where the head is.  A seek to
\* a cylinder the drive has never gives up on the way: it arrives or the drive
\* was not ready.  A seek to one it does not have ends over the last cylinder.
SeekEndIsTruthful ==
  [][irq' /\ selectedCommand = "Seek" =>
       LET flags    == STRegisters'[0] - UnitOf(configurationDatas[1])
           cylinder == floppyDrives'[DriveOf(configurationDatas[1])].cylinder
       IN  \/ flags = NR + IC1 + IC2
           \/ flags = SE /\ cylinder = configurationDatas[2]
           \/ /\ flags = SE + IC1
              /\ cylinder = Cylinders - 1 /\ configurationDatas[2] >= Cylinders]_hostVars

\* A recalibrate that ends without "not ready" has found track 0 and did not
\* run out of steps, whatever cylinder it started from.
RecalibrateFindsTrack0 ==
  [][irq' /\ selectedCommand = "Recalibrate" =>
       LET flags    == STRegisters'[0] - UnitOf(configurationDatas[1])
           cylinder == floppyDrives'[DriveOf(configurationDatas[1])].cylinder
       IN  flags = NR + IC1 + IC2 \/ (flags = SE /\ cylinder = 0)]_hostVars

-----------------------------------------------------------------------------
(* The controller, used this way, keeps the promise of FDCProtocol.        *)

WordsLeft == CASE Stage = "configuration" -> ConfigurationWords(selectedCommand) - writePos
               [] Stage = "result"        -> ResultWords(selectedCommand) - resultWordPos
               [] OTHER                   -> 0

Protocol == INSTANCE FDCProtocol WITH
  Seeking     <- SeekCommands,
  Identifying <- {"ReadID"},
  Hanging     <- {"BaseCommand"},
  Capturing   <- {"ReadData"},
  Immediate   <- {"Specify"},
  Answering   <- AnsweringCommands \ {"ReadID"},
  Words       <- ConfigurationWords,
  Answer      <- ResultWords,
  stage       <- Stage,
  command     <- IF quit THEN "None" ELSE selectedCommand,
  left        <- WordsLeft,
  interrupt   <- irq

\* Every step of the controller and of its driver is a step of the protocol, and
\* every execution that the protocol ends is one the controller ends.
ImplementsProtocol == Protocol!ProtocolSpec
=============================================================================
