-------------------------------- MODULE FDC ---------------------------------
(***************************************************************************)
(* The floppy disk controller of the adapter, driven by a processor of     *)
(* which nothing is assumed: it may read and write the ports in any order  *)
(* (src/floppy/fdc.cpp, src/floppy/command.cpp).                           *)
(*                                                                         *)
(* Every action is one call of the emulator's single thread: FDC::read and *)
(* FDC::write from an IN or OUT instruction, FDC::clock from the main      *)
(* loop, and the wall clock and the disks of the drives from outside.  A   *)
(* call that leaves the state alone (a refused write, a read at an unused  *)
(* address, a clock of an idle controller) is a stuttering step and has no *)
(* action.                                                                 *)
(*                                                                         *)
(* A command travels through COMMAND (its words arrive one by one),        *)
(* EXECUTION (its exec method runs on every clock) and RESULT (its answer  *)
(* is read word by word).  The eight commands that override nothing of     *)
(* their base class (command.cpp:44-46) are one value, "BaseCommand".      *)
(***************************************************************************)
EXTENDS Sequences, Floppy

CONSTANTS
  Bytes,          \* the bytes the processor writes to the data register
  DORBytes,       \* ... and to the digital output register
  Garbage,        \* what an array nobody initialised may hold
  Loadable,       \* the drives in which images are put and removed
  StepClocks,     \* waitMilli(16), 128000 clocks in the code
  ReadIDClocks,   \* waitClock(7)
  MaxSteps        \* steps a RECALIBRATE may take, 77 in the code

Drives == 0 .. 3
NoDrive == 4

ASSUME FDCAssumption ==
  /\ Bytes \subseteq Byte /\ DORBytes \subseteq Byte
  /\ Garbage \subseteq Byte /\ Garbage # {}
  /\ Loadable \subseteq Drives
  /\ StepClocks \in Nat /\ ReadIDClocks \in Nat /\ MaxSteps \in Nat

VARIABLES
  phase, selectedCommand,
  configurationDatas,     \* its first three words: no code reads the others
  writePos,
  resultDatas,            \* the words of the answer being read
  resultWordPos,
  rqm, dio, busy, seeking,     \* bits 7, 6, 4 and 0-3 of statusRegister
  statusRegisterRead, readCommandInProcess,
  STRegisters,
  stepRateTimer,          \* timers[STEP_RATE_TIME]
  passClock,
  floppyToApply, m_direction, m_firstStep, stepCount,
  floppyDrives, previouslySelected,
  irq,                    \* the last step asserted line IR6 of the PIC
  quit                    \* an exception ended the simulation (arch.cpp:117)

config  == <<configurationDatas, writePos>>
answer  == <<resultDatas, resultWordPos>>
status  == <<rqm, dio, busy, seeking>>
seek    == <<floppyToApply, m_direction, m_firstStep, stepCount>>
drives  == <<floppyDrives, previouslySelected>>
latches == <<statusRegisterRead, readCommandInProcess>>

vars == <<phase, selectedCommand, config, answer, status, latches, STRegisters,
          stepRateTimer, passClock, seek, drives, irq, quit>>

-----------------------------------------------------------------------------
(* The commands.                                                           *)

Commands == {"Invalid", "Specify", "SenseDriveStatus", "ReadData", "Recalibrate",
             "SenseInterruptStatus", "ReadID", "Seek", "BaseCommand"}

SeekCommands == {"Seek", "Recalibrate"}
ExecutingCommands == SeekCommands \cup {"ReadID", "BaseCommand"}
AnsweringCommands == {"ReadID", "SenseInterruptStatus", "SenseDriveStatus", "Invalid"}

ConfigurationWords(c) ==
  CASE c \in {"Invalid", "SenseInterruptStatus"}               -> 1
    [] c \in {"SenseDriveStatus", "Recalibrate", "ReadID"}     -> 2
    [] c \in {"Specify", "Seek"}                               -> 3
    [] OTHER                                                   -> 9

ResultWords(c) ==
  CASE c \in {"Specify", "Recalibrate", "Seek"}   -> 0
    [] c \in {"SenseDriveStatus", "Invalid"}      -> 1
    [] c = "SenseInterruptStatus"                 -> 2
    [] OTHER                                      -> 7

\* Bit 4 tells the two commands that share the index 9, or 13, apart.
CommandIndex(b) ==
  LET index == b % 16
  IN  CASE index = 9 /\ Bit(b, 4)  -> 11
        [] index = 13 /\ Bit(b, 4) -> 14
        [] OTHER                   -> index

commands(index) ==
  CASE index = 0  -> "Invalid"
    [] index = 3  -> "Specify"
    [] index = 4  -> "SenseDriveStatus"
    [] index = 6  -> "ReadData"
    [] index = 7  -> "Recalibrate"
    [] index = 8  -> "SenseInterruptStatus"
    [] index = 10 -> "ReadID"
    [] index = 15 -> "Seek"
    [] OTHER      -> "BaseCommand"

DriveOf(word) == word % 4
HeadOf(word) == (word \div 4) % 2
UnitOf(word) == word % 8        \* drive and head, as ST0 repeats them

\* ST0_FLAGS.
NR == 8
EC == 16
SE == 32
IC1 == 64
IC2 == 128

MillisecondsFromSRTTimer == 15 - stepRateTimer + 1

-----------------------------------------------------------------------------
(* Phases.                                                                 *)

\* Mutants: the end of a command forgets to turn the register around, or to forget
\* the command.
SwitchToCommandModeKeepsDIO ==
  phase' = "COMMAND" /\ selectedCommand' = "None" /\ rqm' = TRUE /\ UNCHANGED dio

SwitchToCommandModeKeepsCommand ==
  phase' = "COMMAND" /\ UNCHANGED selectedCommand /\ rqm' = TRUE /\ dio' = FALSE

SwitchToCommandMode ==
  /\ phase' = "COMMAND"
  /\ selectedCommand' = "None"
  /\ rqm' = TRUE
  /\ dio' = FALSE

\* Mutant: the register stays ready during the execution.
SwitchToExecutionModeReady == phase' = "EXECUTION" /\ UNCHANGED <<rqm, dio>>

SwitchToExecutionMode ==
  /\ phase' = "EXECUTION"
  /\ rqm' = FALSE
  /\ UNCHANGED dio

\* Mutant: the register is not made ready for the answer.
SwitchToResultModeNotReady == phase' = "RESULT" /\ dio' = TRUE /\ UNCHANGED rqm

SwitchToResultMode ==
  /\ phase' = "RESULT"
  /\ rqm' = TRUE
  /\ dio' = TRUE

\* reinit, run by the constructor.  The arrays are left as the allocation
\* finds them, except the timers.
Init ==
  /\ phase = "COMMAND" /\ selectedCommand = "None"
  /\ configurationDatas \in [0 .. 2 -> Garbage] /\ writePos = 0
  /\ resultDatas = <<>> /\ resultWordPos = 0
  /\ rqm = TRUE /\ dio = FALSE /\ busy = FALSE /\ seeking = {}
  /\ statusRegisterRead = FALSE /\ readCommandInProcess = FALSE
  /\ STRegisters \in [0 .. 2 -> Garbage]
  /\ stepRateTimer = 0 /\ passClock = 0
  /\ floppyToApply = NoDrive /\ m_direction = FALSE /\ m_firstStep = FALSE
  /\ stepCount = 0
  /\ floppyDrives = [d \in Drives |-> NewDrive] /\ previouslySelected = NoDrive
  /\ irq = FALSE /\ quit = FALSE

-----------------------------------------------------------------------------
(* Writes of the data register.                                            *)

\* Mutant: a word is accepted while an answer is being read.
AcceptsWordInReadMode == statusRegisterRead /\ ~(selectedCommand = "None" /\ busy)

\* The word is refused unless the status register was read since the last
\* access and the register is in write mode; RQM is not looked at.
AcceptsWord == /\ statusRegisterRead
               /\ ~dio
               /\ ~(selectedCommand = "None" /\ busy)

Addressed(b) == IF selectedCommand = "None" THEN commands(CommandIndex(b))
                                            ELSE selectedCommand

\* configurationBegin, of the two commands that have one.
BeginsSeek(c) == selectedCommand = "None" /\ c \in SeekCommands

\* The part of writeDataRegister common to all the words of command c.
StoreWord(b, c) ==
  /\ AcceptsWord
  /\ c = Addressed(b)
  /\ configurationDatas' = IF writePos \in 0 .. 2
                           THEN [configurationDatas EXCEPT ![writePos] = b]
                           ELSE configurationDatas
  /\ writePos' = (writePos + 1) % ConfigurationWords(c)
  /\ statusRegisterRead' = FALSE
  /\ busy' = (busy \/ BeginsSeek(c))
  /\ m_firstStep' = (m_firstStep \/ BeginsSeek(c))
  /\ irq' = FALSE
  /\ UNCHANGED <<resultWordPos, STRegisters, stepRateTimer, passClock, stepCount,
                 previouslySelected>>

SetHead(word) ==
  floppyDrives' = [floppyDrives EXCEPT ![DriveOf(word)] = SetHeadAddress(@, HeadOf(word))]

\* What makes configurationEnd throw: FM mode, or a null HUT or HLT.
Rejects(c, conf) ==
  \/ c \in {"ReadID", "BaseCommand"} /\ ~Bit(conf[0], 6)
  \/ c = "Specify" /\ (conf[1] % 16 = 0 \/ conf[2] \div 2 = 0)

\* A word of the command that is not its last.
WriteWord(b) ==
  \E c \in Commands :
    /\ StoreWord(b, c)
    /\ writePos' # 0
    /\ selectedCommand' = c
    /\ UNCHANGED <<phase, rqm, dio, seeking, readCommandInProcess, resultDatas,
                   floppyToApply, m_direction, floppyDrives, quit>>

\* The last word of command c, whose configurationEnd returns.
WriteLastWord(b, c) ==
  /\ StoreWord(b, c)
  /\ writePos' = 0
  /\ ~Rejects(c, configurationDatas')
  /\ UNCHANGED quit

\* ... or throws, and nothing runs any more.
WriteRejectedWord(b) ==
  \E c \in Commands :
    /\ StoreWord(b, c)
    /\ writePos' = 0
    /\ Rejects(c, configurationDatas')
    /\ selectedCommand' = c
    /\ quit' = TRUE
    /\ UNCHANGED <<phase, rqm, dio, seeking, readCommandInProcess, resultDatas,
                   floppyToApply, m_direction, floppyDrives>>

StartSeek(b) ==
  /\ WriteLastWord(b, "Seek")
  /\ selectedCommand' = "Seek"
  /\ floppyToApply' = DriveOf(configurationDatas'[1])
  /\ m_direction' = (configurationDatas'[2] > floppyDrives[floppyToApply'].cylinder)
  /\ seeking' = seeking \cup {floppyToApply'}
  /\ SetHead(configurationDatas'[1])
  /\ SwitchToExecutionMode
  /\ UNCHANGED <<readCommandInProcess, resultDatas>>

StartRecalibrate(b) ==
  /\ WriteLastWord(b, "Recalibrate")
  /\ selectedCommand' = "Recalibrate"
  /\ SwitchToExecutionMode
  /\ floppyToApply' = DriveOf(configurationDatas'[1])
  /\ seeking' = seeking \cup {floppyToApply'}
  /\ UNCHANGED <<readCommandInProcess, resultDatas, m_direction, floppyDrives>>

\* ReadID and the commands of the base class.
StartTransfer(b) ==
  \E c \in {"ReadID", "BaseCommand"} :
    /\ WriteLastWord(b, c)
    /\ selectedCommand' = c
    /\ SetHead(configurationDatas'[1])
    /\ SwitchToExecutionMode
    /\ UNCHANGED <<seeking, readCommandInProcess, resultDatas, floppyToApply, m_direction>>

\* ReadData does not enter EXECUTION: it only turns the register around.
StartReadData(b) ==
  /\ WriteLastWord(b, "ReadData")
  /\ selectedCommand' = "ReadData"
  /\ readCommandInProcess' = TRUE
  /\ dio' = TRUE
  /\ UNCHANGED <<phase, rqm, seeking, resultDatas, floppyToApply, m_direction,
                 floppyDrives>>

EndSpecify(b) ==
  /\ WriteLastWord(b, "Specify")
  /\ SwitchToCommandMode
  /\ UNCHANGED <<seeking, readCommandInProcess, resultDatas, floppyToApply, m_direction,
                 floppyDrives>>

\* The answer of the commands that go straight to RESULT.  SenseInterruptStatus
\* has no second word of its own: the drive is that of an earlier command.
AnswerSenseInterruptStatus(b) ==
  /\ WriteLastWord(b, "SenseInterruptStatus")
  /\ selectedCommand' = "SenseInterruptStatus"
  /\ SwitchToResultMode
  /\ resultDatas' = <<STRegisters[0],
                      floppyDrives[DriveOf(configurationDatas'[1])].cylinder % 256>>
  /\ UNCHANGED <<seeking, readCommandInProcess, floppyToApply, m_direction, floppyDrives>>

\* The drive sensed is taken from the third word, which the command lacks.
SensedDrive(conf) == DriveOf(conf[2])

AnswerSenseDriveStatus(b) ==
  LET d == SensedDrive(configurationDatas')
  IN  /\ WriteLastWord(b, "SenseDriveStatus")
      /\ selectedCommand' = "SenseDriveStatus"
      /\ resultDatas' = <<StatusRegister3(floppyDrives[d], d)>>
      /\ SetHead(configurationDatas'[1])
      /\ SwitchToResultMode
      /\ UNCHANGED <<seeking, readCommandInProcess, floppyToApply, m_direction>>

AnswerInvalid(b) ==
  /\ WriteLastWord(b, "Invalid")
  /\ selectedCommand' = "Invalid"
  /\ resultDatas' = <<128>>
  /\ SwitchToResultMode
  /\ UNCHANGED <<seeking, readCommandInProcess, floppyToApply, m_direction, floppyDrives>>

WriteDataRegister(b) ==
  \/ WriteWord(b)
  \/ WriteRejectedWord(b)
  \/ StartSeek(b)
  \/ StartRecalibrate(b)
  \/ StartTransfer(b)
  \/ StartReadData(b)
  \/ EndSpecify(b)
  \/ AnswerSenseInterruptStatus(b)
  \/ AnswerSenseDriveStatus(b)
  \/ AnswerInvalid(b)

-----------------------------------------------------------------------------
(* Reads.                                                                  *)

\* Mutant: the status register stays readable during READ DATA.
ReadStatusRegisterAlways ==
  /\ statusRegisterRead' = TRUE
  /\ irq' = FALSE
  /\ UNCHANGED <<phase, selectedCommand, config, answer, status, readCommandInProcess,
                 STRegisters, stepRateTimer, passClock, seek, drives, quit>>

ReadStatusRegister ==
  /\ ~readCommandInProcess
  /\ statusRegisterRead' = TRUE
  /\ irq' = FALSE
  /\ UNCHANGED <<phase, selectedCommand, config, answer, status, readCommandInProcess,
                 STRegisters, stepRateTimer, passClock, seek, drives, quit>>

\* Once READ DATA is configured a read of any address, the status register's
\* included, lowers RQM and returns the byte of the disk.
ReadDuringReadData ==
  /\ readCommandInProcess
  /\ rqm' = FALSE
  /\ irq' = FALSE
  /\ UNCHANGED <<phase, selectedCommand, config, answer, dio, busy, seeking, latches,
                 STRegisters, stepRateTimer, passClock, seek, drives, quit>>

\* Mutant: the direction of the register is not checked.
AllowsReadingInWriteMode == ~readCommandInProcess /\ statusRegisterRead

AllowsReading == ~readCommandInProcess /\ statusRegisterRead /\ dio

ReadResultWord ==
  /\ AllowsReading
  /\ resultWordPos' = (resultWordPos + 1) % ResultWords(selectedCommand)
  /\ resultWordPos' # 0
  /\ statusRegisterRead' = FALSE
  /\ irq' = FALSE
  /\ UNCHANGED <<phase, selectedCommand, config, resultDatas, status,
                 readCommandInProcess, STRegisters, stepRateTimer, passClock, seek,
                 drives, quit>>

\* The last word ends the phase.  switchPhase is only ever called in RESULT.
ReadLastResultWord ==
  /\ AllowsReading
  /\ resultWordPos' = (resultWordPos + 1) % ResultWords(selectedCommand)
  /\ resultWordPos' = 0
  /\ SwitchToCommandMode
  /\ resultDatas' = <<>>
  /\ statusRegisterRead' = FALSE
  /\ irq' = FALSE
  /\ UNCHANGED <<config, busy, seeking, readCommandInProcess, STRegisters,
                 stepRateTimer, passClock, seek, drives, quit>>

-----------------------------------------------------------------------------
(* The digital output register.  Its low bits name the drive to select; a  *)
(* drive whose motor stands still is not selected, and changes nothing.    *)

Motors(data) ==
  [d \in Drives |-> SetMotorSpinning(floppyDrives[d], Bit(data, 4 + d))]

\* Mutant: the drive selected before stays selected.
UnselectPreviousNever(ds) == ds

UnselectPrevious(ds) ==
  IF previouslySelected = NoDrive THEN ds
  ELSE [ds EXCEPT ![previouslySelected] = Unselect(@)]

WriteDOR(data) ==
  LET d     == DriveOf(data)
      spun  == Motors(data)
  IN  /\ IF CanSelect(spun[d])
         THEN /\ floppyDrives' = UnselectPrevious([spun EXCEPT ![d] = Select(@)])
              /\ previouslySelected' = d
         ELSE /\ floppyDrives' = spun
              /\ UNCHANGED previouslySelected
      /\ irq' = FALSE
      /\ UNCHANGED <<phase, selectedCommand, config, answer, status, latches,
                     STRegisters, stepRateTimer, passClock, seek, quit>>

-----------------------------------------------------------------------------
(* The clock.                                                              *)

Countdown ==
  /\ passClock > 0
  /\ passClock' = passClock - 1
  /\ irq' = FALSE
  /\ UNCHANGED <<phase, selectedCommand, config, answer, status, latches, STRegisters,
                 stepRateTimer, seek, drives, quit>>

Executing(c) == phase = "EXECUTION" /\ selectedCommand = c /\ passClock = 0

TargetDrive == floppyDrives[floppyToApply]

KeepExecuting ==
  /\ irq' = FALSE
  /\ UNCHANGED <<phase, selectedCommand, rqm, dio, busy, seeking, STRegisters>>

\* Mutants: the end of a seek leaves the controller busy, asserts no interrupt,
\* or leaves the mark of the drive.
FinishKeepsBusy(st) ==
  /\ STRegisters' = st
  /\ seeking' = seeking \ {floppyToApply}
  /\ UNCHANGED busy
  /\ irq' = TRUE
  /\ SwitchToCommandMode

FinishWithoutInterrupt(st) ==
  /\ STRegisters' = st
  /\ seeking' = seeking \ {floppyToApply}
  /\ busy' = FALSE
  /\ irq' = FALSE
  /\ SwitchToCommandMode

FinishKeepsMark(st) ==
  /\ STRegisters' = st
  /\ UNCHANGED seeking
  /\ busy' = FALSE
  /\ irq' = TRUE
  /\ SwitchToCommandMode

\* finish, of Seek and of Recalibrate.
Finish(st) ==
  /\ STRegisters' = st
  /\ seeking' = seeking \ {floppyToApply}
  /\ busy' = FALSE
  /\ irq' = TRUE
  /\ SwitchToCommandMode

\* Mutant: every seek reports a normal end.
FinishSeekAlwaysWell(flags) ==
  Finish([STRegisters EXCEPT ![0] = SE + UnitOf(configurationDatas[1]), ![1] = 0])

FinishSeek(flags) ==
  Finish([STRegisters EXCEPT ![0] = flags + UnitOf(configurationDatas[1]), ![1] = 0])

FinishRecalibrate(flags) ==
  Finish([STRegisters EXCEPT ![0] = flags + UnitOf(configurationDatas[1])])

\* Mutant: a seek waits for a drive that is not ready.
SeekEndsWhenReady ==
  /\ Executing("Seek")
  /\ IsReady(TargetDrive)
  /\ TargetDrive.cylinder = configurationDatas[2]
  /\ FinishSeek(SE)
  /\ UNCHANGED <<config, answer, latches, stepRateTimer, passClock, seek, drives, quit>>

\* The seeks end here when the drive stopped being ready or the head is there.
SeekEnds ==
  /\ Executing("Seek")
  /\ \/ ~IsReady(TargetDrive) /\ FinishSeek(NR + IC1 + IC2)
     \/ /\ IsReady(TargetDrive)
        /\ TargetDrive.cylinder = configurationDatas[2]
        /\ FinishSeek(SE)
  /\ UNCHANGED <<config, answer, latches, stepRateTimer, passClock, seek, drives, quit>>

StepHeadOf(d, up) ==
  floppyDrives' = [floppyDrives EXCEPT ![d] = Stepped(@, up, 2 * MillisecondsFromSRTTimer,
                                                      m_firstStep)]

StepTaken(up) == StepSucceeds(TargetDrive, up, 2 * MillisecondsFromSRTTimer, m_firstStep)

WaitAfterStep(taken) ==
  passClock' = IF taken THEN passClock + StepClocks ELSE passClock

\* One step of the heads; a step that fails ends the seek abnormally.
SeekStep ==
  /\ Executing("Seek")
  /\ IsReady(TargetDrive)
  /\ TargetDrive.cylinder # configurationDatas[2]
  /\ StepHeadOf(floppyToApply, m_direction)
  /\ WaitAfterStep(StepTaken(m_direction))
  /\ IF StepTaken(m_direction) THEN KeepExecuting ELSE FinishSeek(SE + IC1)
  /\ m_firstStep' = FALSE
  /\ UNCHANGED <<config, answer, latches, stepRateTimer, floppyToApply, m_direction,
                 stepCount, previouslySelected, quit>>

\* Mutant: the steps of earlier commands count.
StepsIssuedEver == stepCount

StepsIssued == IF m_firstStep THEN 0 ELSE stepCount

RecalibrateEnds ==
  /\ Executing("Recalibrate")
  /\ \/ ~IsReady(TargetDrive) /\ FinishRecalibrate(NR + IC1 + IC2)
     \/ IsReady(TargetDrive) /\ TargetDrive.cylinder = 0 /\ FinishRecalibrate(SE)
  /\ stepCount' = StepsIssued
  /\ UNCHANGED <<config, answer, latches, stepRateTimer, passClock, floppyToApply,
                 m_direction, m_firstStep, drives, quit>>

\* After MaxSteps steps the command finishes and, for want of a return, takes
\* one more step and waits for it.
RecalibrateStep ==
  /\ Executing("Recalibrate")
  /\ IsReady(TargetDrive)
  /\ TargetDrive.cylinder # 0
  /\ StepHeadOf(floppyToApply, FALSE)
  /\ WaitAfterStep(StepTaken(FALSE))
  /\ IF ~StepTaken(FALSE) THEN FinishRecalibrate(SE + IC1)
     ELSE IF StepsIssued = MaxSteps THEN FinishRecalibrate(SE + EC)
     ELSE KeepExecuting
  /\ m_firstStep' = FALSE
  /\ stepCount' = StepsIssued + 1
  /\ UNCHANGED <<config, answer, latches, stepRateTimer, floppyToApply, m_direction,
                 previouslySelected, quit>>

\* The drive is indexed by the head bit of the second word.
IdentifiedDrive == HeadOf(configurationDatas[1])

ExecReadID ==
  /\ Executing("ReadID")
  /\ resultDatas' = <<STRegisters[0], STRegisters[1], STRegisters[2],
                      IDCylinder(floppyDrives[IdentifiedDrive]) % 256, 0, 1, 0>>
  /\ passClock' = passClock + ReadIDClocks
  /\ SwitchToResultMode
  /\ irq' = FALSE
  /\ UNCHANGED <<selectedCommand, config, resultWordPos, busy, seeking, latches,
                 STRegisters, stepRateTimer, seek, drives, quit>>

\* The base class has an empty exec: in "BaseCommand" the clock does nothing.
Clock ==
  \/ Countdown
  \/ SeekEnds
  \/ SeekStep
  \/ RecalibrateEnds
  \/ RecalibrateStep
  \/ ExecReadID

-----------------------------------------------------------------------------
(* Outside the emulation: images put in and taken out of the drives, and   *)
(* the wall clock reaching the end of a delay.                             *)

OtherThanDrives ==
  /\ irq' = FALSE
  /\ UNCHANGED <<phase, selectedCommand, config, answer, status, latches, STRegisters,
                 stepRateTimer, passClock, seek, previouslySelected, quit>>

OpenImage(d, opened) ==
  /\ floppyDrives[d].inserted # opened
  /\ floppyDrives' = [floppyDrives EXCEPT ![d] = Open(@, opened)]
  /\ OtherThanDrives

HeadLoadDelayEnds(d) ==
  /\ ~floppyDrives[d].headLoadElapsed
  /\ floppyDrives' = [floppyDrives EXCEPT ![d].headLoadElapsed = TRUE]
  /\ OtherThanDrives

MotorStartDelayEnds(d) ==
  /\ ~floppyDrives[d].motorStartElapsed
  /\ floppyDrives' = [floppyDrives EXCEPT ![d].motorStartElapsed = TRUE]
  /\ OtherThanDrives

WallClock(d) == HeadLoadDelayEnds(d) \/ MotorStartDelayEnds(d)

Environment ==
  \/ \E d \in Loadable : \E opened \in BOOLEAN : OpenImage(d, opened)
  \/ \E d \in Drives : WallClock(d)

-----------------------------------------------------------------------------
(* The processor's accesses, whatever their order.                         *)

Access ==
  \/ \E b \in Bytes : WriteDataRegister(b)
  \/ \E b \in DORBytes : WriteDOR(b)
  \/ ReadStatusRegister
  \/ ReadDuringReadData
  \/ ReadResultWord
  \/ ReadLastResultWord

Next == ~quit /\ (Access \/ Clock \/ Environment)

Spec == Init /\ [][Next]_vars

-----------------------------------------------------------------------------
(* Properties that hold whatever the processor does.                       *)

\* Every variable holds a value of its type in the code; in particular no
\* index leaves its array and no counter goes below zero.
TypeOK ==
  /\ phase \in {"COMMAND", "EXECUTION", "RESULT"}
  /\ selectedCommand \in Commands \cup {"None"}
  /\ configurationDatas \in [0 .. 2 -> Byte] /\ writePos \in 0 .. 8
  /\ resultDatas \in Seq(Byte) /\ resultWordPos \in 0 .. 6
  /\ rqm \in BOOLEAN /\ dio \in BOOLEAN /\ busy \in BOOLEAN
  /\ seeking \subseteq Drives
  /\ statusRegisterRead \in BOOLEAN /\ readCommandInProcess \in BOOLEAN
  /\ STRegisters \in [0 .. 2 -> Byte]
  /\ stepRateTimer = 0 /\ passClock \in Nat
  /\ floppyToApply \in Drives \cup {NoDrive}
  /\ m_direction \in BOOLEAN /\ m_firstStep \in BOOLEAN /\ stepCount \in Nat
  /\ floppyDrives \in [Drives -> Drive]
  /\ previouslySelected \in Drives \cup {NoDrive}
  /\ irq \in BOOLEAN /\ quit \in BOOLEAN

\* The phase, the selected command, the direction and readiness of the data
\* register and the position in the answer always agree, although words are
\* accepted in every phase.  A clock in EXECUTION finds a command whose exec it can
\* call, and a seek its drive: neither pointer is null (fdc.cpp:122-123,
\* command.cpp:180 and 306).  Every step carries this forward; the two invariants
\* after it are what a read and a look at the status register rely on.
Coherent ==
  /\ phase = "EXECUTION" =>
       /\ selectedCommand \in ExecutingCommands /\ ~rqm /\ ~dio
       /\ selectedCommand \in SeekCommands => floppyToApply \in Drives
  /\ phase = "RESULT" =>
       /\ selectedCommand \in AnsweringCommands /\ rqm /\ dio
       /\ Len(resultDatas) = ResultWords(selectedCommand)
       /\ resultWordPos < Len(resultDatas)
  /\ phase = "COMMAND" /\ ~readCommandInProcess => rqm /\ ~dio
  /\ readCommandInProcess =>
       /\ phase = "COMMAND" /\ selectedCommand = "ReadData"
       /\ dio /\ ~statusRegisterRead
  /\ phase # "RESULT" => resultWordPos = 0

\* Whenever a read of the data register is let through there is an answer
\* with a word at the position read (fdc.cpp:240-242: no null pointer, no
\* modulo by the zero words a seek answers, no word of an earlier answer).
ReadFindsAnswer ==
  AllowsReading =>
    /\ phase = "RESULT"
    /\ selectedCommand \in AnsweringCommands
    /\ Len(resultDatas) = ResultWords(selectedCommand)
    /\ resultWordPos < Len(resultDatas)

\* The status register never lies to a processor that follows it: RQM and
\* DIO together tell the phase, unless READ DATA has captured the ports.
StatusTellsPhase ==
  ~readCommandInProcess =>
    /\ rqm <=> phase # "EXECUTION"
    /\ dio <=> phase = "RESULT"

\* The busy bit is set exactly while a seek or a recalibrate is the selected
\* command, so the test of fdc.cpp:154 (no command selected, and busy) never
\* succeeds and a bit left behind can never lock the controller.
BusyIsSeek == busy <=> selectedCommand \in SeekCommands

\* However the output register is rewritten, while motors and disks come and
\* go, no two drives are selected together, and one selected is the one
\* remembered for the next deselection (fdc.cpp:140-145).
OneDriveSelected ==
  \A d \in Drives : floppyDrives[d].selected => previouslySelected = d

\* READ DATA keeps the ports for ever: it never leaves COMMAND, and no read
\* can set the flag that writes need (fdc.cpp:260-264).
ReadDataIsFinal ==
  readCommandInProcess =>
    /\ phase = "COMMAND" /\ selectedCommand = "ReadData"
    /\ dio /\ ~statusRegisterRead

\* Line IR6 is asserted by the end of a seek and by nothing else, and no seek
\* ends without it (command.cpp:162-171, 292-301).
InterruptIsSeekEnd ==
  [][irq' <=> busy /\ ~busy']_vars

\* An answer is delivered whole: nothing the processor, the clock or a drive
\* does changes its words, and only the read of its last word ends it.
AnswerIsDelivered ==
  [][phase = "RESULT" =>
       \/ /\ phase' = "RESULT"
          /\ resultDatas' = resultDatas
          /\ resultWordPos' \in {resultWordPos, resultWordPos + 1}
       \/ phase' = "COMMAND" /\ resultWordPos + 1 = Len(resultDatas)]_vars
=============================================================================
