----------------------------- MODULE FDCProofs ------------------------------
(***************************************************************************)
(* The properties of the controller under an arbitrary processor, for every*)
(* geometry, every delay, every set of bytes written and every use of the  *)
(* drives.                                                                 *)
(***************************************************************************)
EXTENDS FDC, TLAPS

-----------------------------------------------------------------------------
(* The drives.                                                             *)

\* What a word says of the drive, the head and the unit is in range.
LEMMA WordFields ==
  ASSUME NEW w \in Byte
  PROVE  DriveOf(w) \in Drives /\ HeadOf(w) \in {0, 1} /\ UnitOf(w) \in 0 .. 7
BY SMT DEF Byte, DriveOf, HeadOf, UnitOf, Drives

\* A drive as the constructor leaves it is a drive (floppy.cpp:8-14).
LEMMA NewDriveIsDrive == NewDrive \in Drive
BY FloppyAssumption, SMT DEF NewDrive, Drive

\* Writing a flag of a drive gives a drive.
LEMMA FlagUpdates ==
  ASSUME NEW drive \in Drive, NEW b \in BOOLEAN
  PROVE  /\ [drive EXCEPT !.motorStoped = b] \in Drive
         /\ [drive EXCEPT !.motorStartElapsed = b] \in Drive
         /\ [drive EXCEPT !.selected = b] \in Drive
         /\ [drive EXCEPT !.headUnloaded = b] \in Drive
         /\ [drive EXCEPT !.headLoadElapsed = b] \in Drive
BY SMT DEF Drive

\* Every operation of a drive gives a drive; in particular the heads stay over
\* the disk, for a step at either end does not move them (floppy.cpp:165-181).
LEMMA DriveOperations ==
  ASSUME NEW drive \in Drive, NEW b \in BOOLEAN, NEW head \in {0, 1},
         NEW ms, NEW first
  PROVE  /\ Open(drive, b) \in Drive
         /\ SetMotorSpinning(drive, b) \in Drive
         /\ Select(drive) \in Drive
         /\ Unselect(drive) \in Drive
         /\ SetHeadAddress(drive, head) \in Drive
         /\ Stepped(drive, b, ms, first) \in Drive
<1>1. Open(drive, b) \in Drive
  BY SMT DEF Drive, Open
<1>2. SetMotorSpinning(drive, b) \in Drive
  <2>1. MotorOn(drive) \in Drive
    <3> DEFINE spinning == [drive EXCEPT !.motorStoped = FALSE]
               e == spinning.motorStartElapsed /\ ~drive.motorStoped
    <3>1. spinning \in Drive
      BY FlagUpdates
    <3>2. [spinning EXCEPT !.motorStartElapsed = e] \in Drive
      <4> HIDE DEF spinning
      <4> QED BY <3>1, FlagUpdates
    <3> QED
      BY <3>2 DEF MotorOn
  <2>2. MotorOff(drive) \in Drive
    BY FlagUpdates DEF MotorOff
  <2> QED
    BY <2>1, <2>2 DEF SetMotorSpinning
<1>3. Select(drive) \in Drive
  <2> DEFINE s == [drive EXCEPT !.selected = TRUE]
             t == [s EXCEPT !.headUnloaded = FALSE]
  <2>1. s \in Drive
    BY FlagUpdates
  <2>2. t \in Drive
    <3> HIDE DEF s
    <3> QED BY <2>1, FlagUpdates
  <2>3. [t EXCEPT !.headLoadElapsed = FALSE] \in Drive
    <3> HIDE DEF t
    <3> QED BY <2>2, FlagUpdates
  <2> QED
    BY <2>1, <2>3 DEF Select, LoadHeads
<1>4. Unselect(drive) \in Drive
  <2> DEFINE s == [drive EXCEPT !.selected = FALSE]
  <2>1. s \in Drive
    BY FlagUpdates
  <2>2. [s EXCEPT !.headUnloaded = TRUE] \in Drive
    <3> HIDE DEF s
    <3> QED BY <2>1, FlagUpdates
  <2> QED
    BY <2>2 DEF Unselect
<1>5. SetHeadAddress(drive, head) \in Drive
  BY SMT DEF Drive, SetHeadAddress
<1>6. Stepped(drive, b, ms, first) \in Drive
  <2>1. CASE ~AtLastCylinder(drive, b)
    <3>1. StepHead(drive, b) \in Drive
      BY <2>1, FloppyAssumption, SMT DEF Drive, StepHead, AtLastCylinder
    <3> QED
      BY <3>1 DEF Stepped
  <2>2. CASE AtLastCylinder(drive, b)
    BY <2>2 DEF Stepped, StepSucceeds
  <2> QED
    BY <2>1, <2>2
<1> QED
  BY <1>1, <1>2, <1>3, <1>4, <1>5, <1>6

\* Selection is touched by Select and Unselect only.
LEMMA SelectedAfter ==
  ASSUME NEW drive \in Drive, NEW b \in BOOLEAN, NEW head, NEW ms, NEW first
  PROVE  /\ Open(drive, b).selected = drive.selected
         /\ SetMotorSpinning(drive, b).selected = drive.selected
         /\ SetHeadAddress(drive, head).selected = drive.selected
         /\ Stepped(drive, b, ms, first).selected = drive.selected
BY SMT DEF Drive, Open, SetMotorSpinning, MotorOn, MotorOff, SetHeadAddress, Stepped,
           StepHead

\* A deselected drive is not selected, and stays a drive (floppy.cpp:75-81).
LEMMA UnselectedAfter ==
  ASSUME NEW drive \in Drive
  PROVE  ~Unselect(drive).selected
BY SMT DEF Drive, Unselect

\* ST3 is a byte.
LEMMA StatusRegister3IsByte ==
  ASSUME NEW drive \in Drive, NEW d \in Drives
  PROVE  StatusRegister3(drive, d) \in Byte
<1>1. drive.headAddress \in {0, 1}
  BY SMT DEF Drive
<1> QED
  BY <1>1, SMT DEF StatusRegister3, Byte, Drives

-----------------------------------------------------------------------------
(* The commands.                                                           *)

\* Every first word selects a command, and every command has its words: the
\* table and the two counts are never used outside their range.
LEMMA CommandTable ==
  /\ \A i : commands(i) \in Commands
  /\ \A c \in Commands : ConfigurationWords(c) \in 1 .. 9
  /\ \A c \in AnsweringCommands : ResultWords(c) \in 1 .. 7
<1>1. \A i : commands(i) \in Commands
  BY DEF commands, Commands
<1>2. \A c \in Commands : ConfigurationWords(c) \in 1 .. 9
  BY SMT DEF ConfigurationWords
<1>3. \A c \in AnsweringCommands : ResultWords(c) \in 1 .. 7
  BY SMT DEF ResultWords, AnsweringCommands
<1> QED
  BY <1>1, <1>2, <1>3
-----------------------------------------------------------------------------
(* The inductive invariant.                                                *)

IInv == TypeOK /\ Coherent /\ BusyIsSeek /\ OneDriveSelected

\* The constructor establishes the invariant, whatever the arrays held.
THEOREM InitIInv == Init => IInv
<1> SUFFICES ASSUME Init PROVE IInv
  OBVIOUS
<1>1. floppyDrives \in [Drives -> Drive] /\ previouslySelected \in Drives \cup {NoDrive}
  BY NewDriveIsDrive DEF Init
<1>2. configurationDatas \in [0 .. 2 -> Byte] /\ STRegisters \in [0 .. 2 -> Byte]
  BY FDCAssumption DEF Init
<1>3. resultDatas \in Seq(Byte)
  BY DEF Init
<1>4. TypeOK
  <2>1. /\ phase \in {"COMMAND", "EXECUTION", "RESULT"}
        /\ selectedCommand \in Commands \cup {"None"}
        /\ rqm \in BOOLEAN /\ dio \in BOOLEAN /\ busy \in BOOLEAN
        /\ statusRegisterRead \in BOOLEAN /\ readCommandInProcess \in BOOLEAN
        /\ m_direction \in BOOLEAN /\ m_firstStep \in BOOLEAN
        /\ irq \in BOOLEAN /\ quit \in BOOLEAN
    BY DEF Init
  <2>2. /\ writePos \in 0 .. 8 /\ resultWordPos \in 0 .. 6
        /\ stepRateTimer = 0 /\ passClock \in Nat /\ stepCount \in Nat
    BY DEF Init
  <2>3. seeking \subseteq Drives /\ floppyToApply \in Drives \cup {NoDrive}
    BY DEF Init
  <2> QED
    BY <1>1, <1>2, <1>3, <2>1, <2>2, <2>3 DEF TypeOK
<1>5. Coherent /\ BusyIsSeek
  BY DEF Init, Coherent, BusyIsSeek, SeekCommands
<1>6. OneDriveSelected
  BY DEF Init, OneDriveSelected, NewDrive
<1> QED
  BY <1>4, <1>5, <1>6 DEF IInv

\* What every accepted word does, whichever command it belongs to.
LEMMA StoredWord ==
  ASSUME IInv, NEW b \in Byte, NEW c, StoreWord(b, c)
  PROVE  /\ c \in Commands
         /\ configurationDatas' \in [0 .. 2 -> Byte]
         /\ writePos' \in 0 .. 8
         /\ configurationDatas'[1] \in Byte
         /\ DriveOf(configurationDatas'[1]) \in Drives
         /\ busy' \in BOOLEAN /\ m_firstStep' \in BOOLEAN
         /\ busy' <=> c \in SeekCommands
         /\ ~readCommandInProcess /\ phase # "RESULT"
         /\ phase = "EXECUTION" => c = selectedCommand
<1> USE DEF IInv, TypeOK, StoreWord
<1>1. c \in Commands
  BY CommandTable DEF Addressed
<1>2. configurationDatas' \in [0 .. 2 -> Byte]
  OBVIOUS
<1>3. writePos' \in 0 .. 8
  <2>1. ConfigurationWords(c) \in 1 .. 9
    BY <1>1, CommandTable
  <2>2. writePos' = (writePos + 1) % ConfigurationWords(c) /\ writePos \in Nat
    OBVIOUS
  <2> QED
    BY <2>1, <2>2, SMT
<1>4. configurationDatas'[1] \in Byte /\ DriveOf(configurationDatas'[1]) \in Drives
  BY <1>2, WordFields
<1>5. busy' <=> c \in SeekCommands
  BY DEF Addressed, BeginsSeek, BusyIsSeek, SeekCommands
<1>6. phase # "RESULT" /\ (phase = "EXECUTION" => c = selectedCommand)
  BY DEF Coherent, AcceptsWord, Addressed, ExecutingCommands, SeekCommands
<1>7. ~readCommandInProcess
  BY DEF Coherent, AcceptsWord
<1> QED
  BY <1>1, <1>2, <1>3, <1>4, <1>5, <1>6, <1>7

\* Positioning a head changes neither the type nor the selection of the drives.
LEMMA HeadSet ==
  ASSUME IInv, NEW w \in Byte, SetHead(w), UNCHANGED previouslySelected
  PROVE  floppyDrives' \in [Drives -> Drive] /\ OneDriveSelected'
<1>1. DriveOf(w) \in Drives /\ HeadOf(w) \in {0, 1}
  BY WordFields
<1>2. \A drive \in Drive : /\ SetHeadAddress(drive, HeadOf(w)) \in Drive
                           /\ SetHeadAddress(drive, HeadOf(w)).selected = drive.selected
  BY <1>1, DriveOperations, SelectedAfter
<1> QED
  BY <1>1, <1>2 DEF SetHead, IInv, TypeOK, OneDriveSelected

-----------------------------------------------------------------------------
(* One lemma per group of actions.                                         *)

\* A word that is not the last of its command only moves the position
\* (fdc.cpp:179-184).
LEMMA WordKept ==
  ASSUME IInv, NEW b \in Byte, WriteWord(b) \/ WriteRejectedWord(b)
  PROVE  IInv'
<1>1. PICK c : /\ StoreWord(b, c) /\ selectedCommand' = c /\ quit' \in BOOLEAN
               /\ UNCHANGED <<phase, rqm, dio, seeking, readCommandInProcess, resultDatas,
                              floppyToApply, m_direction, floppyDrives>>
  BY DEF WriteWord, WriteRejectedWord, IInv, TypeOK
<1> USE <1>1, StoredWord DEF IInv
<1>2. TypeOK'
  BY DEF TypeOK, StoreWord
<1>3. Coherent'
  BY DEF Coherent, StoreWord, AcceptsWord
<1>4. BusyIsSeek'
  BY DEF BusyIsSeek
<1>5. OneDriveSelected'
  BY DEF OneDriveSelected, StoreWord
<1> QED
  BY <1>2, <1>3, <1>4, <1>5

\* The commands that end their configuration by entering EXECUTION keep the
\* invariant (command.cpp:45, 154-160, 280-290).
LEMMA ExecutionStarted ==
  ASSUME IInv, NEW b \in Byte,
         StartSeek(b) \/ StartRecalibrate(b) \/ StartTransfer(b) \/ StartReadData(b)
  PROVE  IInv'
<1> USE DEF IInv
<1>1. CASE StartSeek(b)
  <2> USE <1>1, StoredWord DEF StartSeek, WriteLastWord
  <2>1. floppyDrives' \in [Drives -> Drive] /\ OneDriveSelected'
    <3>1. configurationDatas'[1] \in Byte /\ UNCHANGED previouslySelected
      BY DEF StoreWord
    <3> QED
      BY <3>1, HeadSet
  <2>2. m_direction' \in BOOLEAN
    OBVIOUS
  <2>3. TypeOK'
    BY <2>1, <2>2 DEF TypeOK, StoreWord, SwitchToExecutionMode, Commands
  <2>4. Coherent'
    BY DEF Coherent, StoreWord, AcceptsWord, SwitchToExecutionMode, ExecutingCommands,
           SeekCommands
  <2>5. BusyIsSeek'
    BY DEF BusyIsSeek
  <2> QED
    BY <2>1, <2>3, <2>4, <2>5
<1>2. CASE StartRecalibrate(b)
  <2> USE <1>2, StoredWord DEF StartRecalibrate, WriteLastWord
  <2>1. TypeOK'
    BY DEF TypeOK, StoreWord, SwitchToExecutionMode, Commands
  <2>2. Coherent'
    BY DEF Coherent, StoreWord, AcceptsWord, SwitchToExecutionMode, ExecutingCommands,
           SeekCommands
  <2>3. BusyIsSeek' /\ OneDriveSelected'
    BY DEF BusyIsSeek, OneDriveSelected, StoreWord
  <2> QED
    BY <2>1, <2>2, <2>3
<1>3. CASE StartTransfer(b)
  <2>1. PICK c \in {"ReadID", "BaseCommand"} :
          /\ WriteLastWord(b, c)
          /\ selectedCommand' = c
          /\ SetHead(configurationDatas'[1])
          /\ SwitchToExecutionMode
          /\ UNCHANGED <<seeking, readCommandInProcess, resultDatas, floppyToApply,
                         m_direction>>
    BY <1>3 DEF StartTransfer
  <2> USE <2>1, StoredWord DEF WriteLastWord
  <2>2. floppyDrives' \in [Drives -> Drive] /\ OneDriveSelected'
    <3>1. configurationDatas'[1] \in Byte /\ UNCHANGED previouslySelected
      BY DEF StoreWord
    <3> QED
      BY <3>1, HeadSet
  <2>3. TypeOK'
    BY <2>2 DEF TypeOK, StoreWord, SwitchToExecutionMode, Commands
  <2>4. Coherent'
    BY DEF Coherent, StoreWord, AcceptsWord, SwitchToExecutionMode, ExecutingCommands,
           SeekCommands
  <2>5. BusyIsSeek'
    BY DEF BusyIsSeek
  <2> QED
    BY <2>2, <2>3, <2>4, <2>5
<1>4. CASE StartReadData(b)
  <2> USE <1>4, StoredWord DEF StartReadData, WriteLastWord
  <2>1. TypeOK'
    BY DEF TypeOK, StoreWord, Commands
  <2>2. phase = "COMMAND"
    BY DEF Coherent, TypeOK, ExecutingCommands, SeekCommands
  <2>3. Coherent'
    BY <2>2 DEF Coherent, StoreWord, AcceptsWord
  <2>4. BusyIsSeek' /\ OneDriveSelected'
    BY DEF BusyIsSeek, OneDriveSelected, StoreWord
  <2> QED
    BY <2>1, <2>3, <2>4
<1> QED
  BY <1>1, <1>2, <1>3, <1>4

\* So do READ DATA, SPECIFY, and the commands that answer at once
\* (command.cpp:55-63, 220-266, 342-349).
LEMMA CommandEndedAtOnce ==
  ASSUME IInv, NEW b \in Byte,
         \/ EndSpecify(b) \/ AnswerInvalid(b)
         \/ AnswerSenseInterruptStatus(b) \/ AnswerSenseDriveStatus(b)
  PROVE  IInv'
<1> USE DEF IInv
<1>1. CASE EndSpecify(b)
  <2> USE <1>1, StoredWord DEF EndSpecify, WriteLastWord
  <2>1. TypeOK'
    BY DEF TypeOK, StoreWord, SwitchToCommandMode
  <2>2. Coherent'
    BY DEF Coherent, StoreWord, SwitchToCommandMode
  <2>3. BusyIsSeek' /\ OneDriveSelected'
    BY DEF BusyIsSeek, OneDriveSelected, StoreWord, SeekCommands, SwitchToCommandMode
  <2> QED
    BY <2>1, <2>2, <2>3
<1>2. ASSUME NEW c \in AnsweringCommands, StoreWord(b, c), selectedCommand' = c,
             SwitchToResultMode, resultDatas' \in Seq(Byte),
             Len(resultDatas') = ResultWords(c), quit' = quit,
             floppyDrives' \in [Drives -> Drive], OneDriveSelected',
             UNCHANGED <<seeking, readCommandInProcess, floppyToApply, m_direction>>
      PROVE  IInv'
  <2> USE <1>2, StoredWord
  <2>1. TypeOK'
    BY DEF TypeOK, StoreWord, SwitchToResultMode
  <2>2. resultWordPos' = 0 /\ ResultWords(c) \in 1 .. 7
    BY CommandTable DEF StoreWord, Coherent
  <2>3. Coherent'
    <3>1. resultWordPos' < Len(resultDatas')
      BY <2>2, SMT
    <3>2. /\ phase' = "RESULT" /\ rqm' /\ dio' /\ ~readCommandInProcess'
          /\ Len(resultDatas') = ResultWords(selectedCommand')
          /\ selectedCommand' \in AnsweringCommands
      BY DEF SwitchToResultMode
    <3> QED
      BY <3>1, <3>2 DEF Coherent
  <2>4. BusyIsSeek'
    BY DEF BusyIsSeek
  <2> QED
    BY <2>1, <2>3, <2>4
<1>3. CASE AnswerInvalid(b)
  <2>1. StoreWord(b, "Invalid") /\ "Invalid" \in AnsweringCommands
    BY <1>3 DEF AnswerInvalid, WriteLastWord, AnsweringCommands
  <2>2. resultDatas' \in Seq(Byte) /\ Len(resultDatas') = ResultWords("Invalid")
    BY <1>3 DEF AnswerInvalid, ResultWords, Byte
  <2>3. OneDriveSelected'
    BY <1>3, <2>1 DEF AnswerInvalid, StoreWord, OneDriveSelected
  <2> QED
    BY <1>3, <2>1, <2>2, <2>3, <1>2 DEF AnswerInvalid, WriteLastWord, TypeOK
<1>4. CASE AnswerSenseInterruptStatus(b)
  <2>1. /\ StoreWord(b, "SenseInterruptStatus")
        /\ "SenseInterruptStatus" \in AnsweringCommands
    BY <1>4 DEF AnswerSenseInterruptStatus, WriteLastWord, AnsweringCommands
  <2>2. resultDatas' \in Seq(Byte) /\ Len(resultDatas') = ResultWords("SenseInterruptStatus")
    <3>1. resultDatas' = <<STRegisters[0],
                           floppyDrives[DriveOf(configurationDatas'[1])].cylinder % 256>>
      BY <1>4 DEF AnswerSenseInterruptStatus
    <3>2. DriveOf(configurationDatas'[1]) \in Drives
      BY <2>1, StoredWord
    <3>3. STRegisters[0] \in Byte
      BY DEF TypeOK
    <3>4. floppyDrives[DriveOf(configurationDatas'[1])].cylinder \in Nat
      BY <3>2, FloppyAssumption DEF TypeOK, Drive
    <3>5. floppyDrives[DriveOf(configurationDatas'[1])].cylinder % 256 \in Byte
      BY <3>4, SMT DEF Byte
    <3> QED
      BY <3>1, <3>3, <3>5 DEF ResultWords
  <2>3. OneDriveSelected'
    BY <1>4, <2>1 DEF AnswerSenseInterruptStatus, StoreWord, OneDriveSelected
  <2> QED
    BY <1>4, <2>1, <2>2, <2>3, <1>2 DEF AnswerSenseInterruptStatus, WriteLastWord, TypeOK
<1>5. CASE AnswerSenseDriveStatus(b)
  <2>1. StoreWord(b, "SenseDriveStatus") /\ "SenseDriveStatus" \in AnsweringCommands
    BY <1>5 DEF AnswerSenseDriveStatus, WriteLastWord, AnsweringCommands
  <2>2. resultDatas' \in Seq(Byte) /\ Len(resultDatas') = ResultWords("SenseDriveStatus")
    <3> DEFINE d == SensedDrive(configurationDatas')
    <3>1. resultDatas' = <<StatusRegister3(floppyDrives[d], d)>>
      BY <1>5 DEF AnswerSenseDriveStatus
    <3>2. d \in Drives /\ floppyDrives[d] \in Drive
      BY <2>1, StoredWord, WordFields DEF SensedDrive, TypeOK
    <3>3. StatusRegister3(floppyDrives[d], d) \in Byte
      BY <3>2, StatusRegister3IsByte
    <3> QED
      BY <3>1, <3>3 DEF ResultWords
  <2>3. floppyDrives' \in [Drives -> Drive] /\ OneDriveSelected'
    <3>1. /\ configurationDatas'[1] \in Byte /\ UNCHANGED previouslySelected
          /\ SetHead(configurationDatas'[1])
      BY <1>5, <2>1, StoredWord DEF AnswerSenseDriveStatus, StoreWord
    <3> QED
      BY <3>1, HeadSet
  <2> QED
    BY <1>5, <2>1, <2>2, <2>3, <1>2 DEF AnswerSenseDriveStatus, WriteLastWord, TypeOK
<1> QED
  BY <1>1, <1>3, <1>4, <1>5

\* Reads of the two registers keep the invariant (fdc.cpp:236-293).
LEMMA RegisterRead ==
  ASSUME IInv,
         ReadStatusRegister \/ ReadDuringReadData \/ ReadResultWord \/ ReadLastResultWord
  PROVE  IInv'
<1> USE DEF IInv, config, answer, status, latches, seek, drives
<1>1. CASE ReadStatusRegister
  BY <1>1 DEF ReadStatusRegister, TypeOK, Coherent, BusyIsSeek, OneDriveSelected
<1>2. CASE ReadDuringReadData
  BY <1>2 DEF ReadDuringReadData, TypeOK, Coherent, BusyIsSeek, OneDriveSelected,
              ExecutingCommands, SeekCommands, AnsweringCommands
<1>3. CASE ReadResultWord
  <2>1. /\ phase = "RESULT" /\ ResultWords(selectedCommand) \in 1 .. 7
        /\ resultWordPos \in Nat
    BY <1>3, CommandTable DEF ReadResultWord, AllowsReading, Coherent, TypeOK
  <2>2. resultWordPos' \in 0 .. 6 /\ resultWordPos' < ResultWords(selectedCommand)
    BY <1>3, <2>1, SMT DEF ReadResultWord
  <2>3. TypeOK'
    <3>1. /\ phase' = phase /\ selectedCommand' = selectedCommand
          /\ configurationDatas' = configurationDatas /\ writePos' = writePos
          /\ resultDatas' = resultDatas
          /\ rqm' = rqm /\ dio' = dio /\ busy' = busy /\ seeking' = seeking
          /\ readCommandInProcess' = readCommandInProcess
          /\ STRegisters' = STRegisters /\ stepRateTimer' = stepRateTimer
          /\ passClock' = passClock /\ floppyToApply' = floppyToApply
          /\ m_direction' = m_direction /\ m_firstStep' = m_firstStep
          /\ stepCount' = stepCount /\ floppyDrives' = floppyDrives
          /\ previouslySelected' = previouslySelected /\ quit' = quit
      BY <1>3 DEF ReadResultWord
    <3>2. statusRegisterRead' \in BOOLEAN /\ irq' \in BOOLEAN
      BY <1>3 DEF ReadResultWord
    <3>3. TypeOK
      OBVIOUS
    <3> HIDE DEF IInv
    <3> QED
      BY <2>2, <3>1, <3>2, <3>3, ZenonT(60) DEF TypeOK
  <2>4. Coherent'
    BY <1>3, <2>1, <2>2 DEF ReadResultWord, AllowsReading, Coherent
  <2>5. BusyIsSeek' /\ OneDriveSelected'
    BY <1>3 DEF ReadResultWord, BusyIsSeek, OneDriveSelected
  <2> QED
    BY <2>3, <2>4, <2>5
<1>4. CASE ReadLastResultWord
  <2>1. ~busy
    BY <1>4 DEF ReadLastResultWord, AllowsReading, Coherent, BusyIsSeek, SeekCommands,
                AnsweringCommands, TypeOK
  <2>2. resultDatas' \in Seq(Byte)
    BY <1>4 DEF ReadLastResultWord
  <2>3. TypeOK'
    <3>1. resultWordPos' \in 0 .. 6
      BY <1>4 DEF ReadLastResultWord
    <3>2. /\ phase' = "COMMAND" /\ selectedCommand' = "None" /\ rqm' /\ ~dio'
          /\ rqm' \in BOOLEAN /\ dio' \in BOOLEAN
          /\ ~statusRegisterRead' /\ statusRegisterRead' \in BOOLEAN /\ irq' \in BOOLEAN
          /\ UNCHANGED <<config, busy, seeking, readCommandInProcess, STRegisters,
                         stepRateTimer, passClock, seek, drives, quit>>
      BY <1>4 DEF ReadLastResultWord, SwitchToCommandMode
    <3> QED
      BY <2>2, <3>1, <3>2 DEF TypeOK
  <2>4. Coherent'
    BY <1>4 DEF ReadLastResultWord, AllowsReading, SwitchToCommandMode, Coherent
  <2>5. BusyIsSeek' /\ OneDriveSelected'
    BY <1>4, <2>1 DEF ReadLastResultWord, SwitchToCommandMode, BusyIsSeek, SeekCommands,
                      OneDriveSelected
  <2> QED
    BY <2>3, <2>4, <2>5
<1> QED
  BY <1>1, <1>2, <1>3, <1>4

\* A step that only changes the drives, and keeps their type and their selection.
LEMMA OnlyDrives ==
  ASSUME IInv, floppyDrives' \in [Drives -> Drive], OneDriveSelected',
         previouslySelected' \in Drives \cup {NoDrive}, irq' = FALSE,
         UNCHANGED <<phase, selectedCommand, config, answer, status, latches, STRegisters,
                     stepRateTimer, passClock, seek, quit>>
  PROVE  IInv'
<1> USE DEF IInv, config, answer, status, latches, seek
<1>1. TypeOK'
  <2>1. /\ phase' = phase /\ selectedCommand' = selectedCommand
        /\ configurationDatas' = configurationDatas /\ writePos' = writePos
        /\ resultDatas' = resultDatas /\ resultWordPos' = resultWordPos
        /\ rqm' = rqm /\ dio' = dio /\ busy' = busy /\ seeking' = seeking
        /\ statusRegisterRead' = statusRegisterRead
        /\ readCommandInProcess' = readCommandInProcess
        /\ STRegisters' = STRegisters /\ stepRateTimer' = stepRateTimer
        /\ passClock' = passClock /\ floppyToApply' = floppyToApply
        /\ m_direction' = m_direction /\ m_firstStep' = m_firstStep
        /\ stepCount' = stepCount /\ quit' = quit
    OBVIOUS
  <2>2. irq' \in BOOLEAN
    OBVIOUS
  <2>3. TypeOK
    OBVIOUS
  <2> HIDE DEF IInv
  <2> QED
    BY <2>1, <2>2, <2>3, ZenonT(60) DEF TypeOK
<1>2. Coherent' /\ BusyIsSeek'
  BY DEF Coherent, BusyIsSeek
<1> QED
  BY <1>1, <1>2

\* A write of the output register keeps the invariant: the drive selected before
\* is deselected after the new one is selected (fdc.cpp:131-146).
LEMMA OutputRegisterWritten ==
  ASSUME IInv, NEW data \in Byte, WriteDOR(data)
  PROVE  IInv'
<1> DEFINE d == DriveOf(data)
           spun == Motors(data)
           chosen == [spun EXCEPT ![d] = Select(@)]
<1>1. d \in Drives
  BY WordFields
<1>2. spun \in [Drives -> Drive] /\ \A e \in Drives : spun[e].selected = floppyDrives[e].selected
  <2>1. \A e \in Drives : Bit(data, 4 + e) \in BOOLEAN
    BY DEF Bit
  <2> QED
    BY <2>1, DriveOperations, SelectedAfter DEF Motors, IInv, TypeOK
<1>3. CASE ~CanSelect(spun[d])
  <2>1. floppyDrives' = spun /\ UNCHANGED previouslySelected
    BY <1>3 DEF WriteDOR
  <2>2. OneDriveSelected'
    BY <1>2, <2>1 DEF OneDriveSelected, IInv
  <2> HIDE DEF spun
  <2> QED
    BY <1>2, <2>1, <2>2, OnlyDrives DEF WriteDOR, IInv, TypeOK
<1>4. CASE CanSelect(spun[d])
  <2>1. floppyDrives' = UnselectPrevious(chosen) /\ previouslySelected' = d
    BY <1>4 DEF WriteDOR
  <2> HIDE DEF spun
  <2>2. chosen \in [Drives -> Drive]
    BY <1>1, <1>2, DriveOperations
  <2>3. \A e \in Drives \ {d} : chosen[e].selected = floppyDrives[e].selected
    BY <1>2
  <2> HIDE DEF chosen
  <2>4. UnselectPrevious(chosen) \in [Drives -> Drive]
    BY <2>2, DriveOperations DEF UnselectPrevious
  <2>5. \A e \in Drives \ {d} : ~UnselectPrevious(chosen)[e].selected
    <3> TAKE e \in Drives \ {d}
    <3>1. CASE e = previouslySelected
      <4>1. previouslySelected # NoDrive
        BY <3>1, SMT DEF Drives, NoDrive
      <4>2. UnselectPrevious(chosen)[e] = Unselect(chosen[e])
        BY <3>1, <4>1, <2>2 DEF UnselectPrevious
      <4> QED
        BY <4>2, <2>2, UnselectedAfter
    <3>2. CASE e # previouslySelected
      <4>1. UnselectPrevious(chosen)[e] = chosen[e]
        BY <3>2, <2>2 DEF UnselectPrevious
      <4> QED
        BY <3>2, <4>1, <2>3 DEF IInv, TypeOK, OneDriveSelected, Drive
    <3> QED
      BY <3>1, <3>2
  <2>6. OneDriveSelected'
    BY <2>1, <2>5 DEF OneDriveSelected
  <2> QED
    BY <1>1, <2>1, <2>4, <2>6, OnlyDrives DEF WriteDOR
<1> QED
  BY <1>3, <1>4

\* Disks put in and removed, and delays that end, keep the invariant.
LEMMA OutsideChanged ==
  ASSUME IInv, Environment
  PROVE  IInv'
<1> USE DEF IInv, TypeOK
<1>1. ASSUME NEW d \in Drives, NEW r \in Drive, r.selected = floppyDrives[d].selected,
             floppyDrives' = [floppyDrives EXCEPT ![d] = r], OtherThanDrives
      PROVE  IInv'
  <2>1. floppyDrives' \in [Drives -> Drive] /\ OneDriveSelected'
    BY <1>1 DEF OneDriveSelected, OtherThanDrives
  <2> QED
    BY <1>1, <2>1, OnlyDrives DEF OtherThanDrives
<1>2. ASSUME NEW d \in Loadable, NEW opened \in BOOLEAN, OpenImage(d, opened) PROVE IInv'
  BY <1>2, <1>1, FDCAssumption, DriveOperations, SelectedAfter DEF OpenImage
<1>3. ASSUME NEW d \in Drives, WallClock(d) PROVE IInv'
  <2>1. \A r \in Drive : /\ [r EXCEPT !.headLoadElapsed = TRUE] \in Drive
                         /\ [r EXCEPT !.headLoadElapsed = TRUE].selected = r.selected
                         /\ [r EXCEPT !.motorStartElapsed = TRUE] \in Drive
                         /\ [r EXCEPT !.motorStartElapsed = TRUE].selected = r.selected
    <3> TAKE r \in Drive
    <3>1. /\ [r EXCEPT !.headLoadElapsed = TRUE].selected = r.selected
          /\ [r EXCEPT !.motorStartElapsed = TRUE].selected = r.selected
      BY DEF Drive
    <3> QED
      BY <3>1, FlagUpdates
  <2>2. CASE HeadLoadDelayEnds(d)
    <3>1. floppyDrives' = [floppyDrives EXCEPT ![d] =
                             [floppyDrives[d] EXCEPT !.headLoadElapsed = TRUE]]
      BY <2>2 DEF HeadLoadDelayEnds
    <3> QED
      BY <2>1, <2>2, <3>1, <1>1 DEF HeadLoadDelayEnds
  <2>3. CASE MotorStartDelayEnds(d)
    <3>1. floppyDrives' = [floppyDrives EXCEPT ![d] =
                             [floppyDrives[d] EXCEPT !.motorStartElapsed = TRUE]]
      BY <2>3 DEF MotorStartDelayEnds
    <3> QED
      BY <2>1, <2>3, <3>1, <1>1 DEF MotorStartDelayEnds
  <2> QED
    BY <1>3, <2>2, <2>3 DEF WallClock
<1> QED
  BY <1>2, <1>3 DEF Environment

-----------------------------------------------------------------------------
(* The clock.                                                              *)

EndFlags == {NR + IC1 + IC2, SE, SE + IC1, SE + EC}

\* What a step of a seek or of a recalibrate may change, however it ends.
HeadsMayMove ==
  /\ floppyDrives' \in [Drives -> Drive] /\ OneDriveSelected'
  /\ passClock' \in Nat /\ stepCount' \in Nat /\ m_firstStep' \in BOOLEAN
  /\ UNCHANGED <<config, answer, latches, stepRateTimer, floppyToApply, m_direction,
                 previouslySelected, quit>>

\* The end of a seek clears busy and the command together (command.cpp:292-301).
LEMMA SeekFinished ==
  ASSUME IInv, phase = "EXECUTION", NEW flags \in EndFlags,
         FinishSeek(flags) \/ FinishRecalibrate(flags), HeadsMayMove
  PROVE  IInv'
<1> USE DEF IInv, config, answer, latches, HeadsMayMove
<1>1. flags + UnitOf(configurationDatas[1]) \in Byte
  <2>1. UnitOf(configurationDatas[1]) \in 0 .. 7
    BY WordFields DEF TypeOK
  <2>2. flags \in {200, 32, 96, 48}
    BY DEF EndFlags, NR, IC1, IC2, SE, EC
  <2> QED
    BY <2>1, <2>2 DEF Byte
<1>2. PICK st \in [0 .. 2 -> Byte] : Finish(st)
  <2>1. 0 \in Byte
    BY DEF Byte
  <2> QED
    BY <1>1, <2>1 DEF FinishSeek, FinishRecalibrate, TypeOK
<1> USE <1>2 DEF Finish, SwitchToCommandMode
<1>3. TypeOK'
  BY DEF TypeOK
<1>4. Coherent' /\ BusyIsSeek'
  BY DEF Coherent, BusyIsSeek, SeekCommands
<1> QED
  BY <1>3, <1>4

\* A step that does not end the seek leaves phase and command alone.
LEMMA SeekContinued ==
  ASSUME IInv, phase = "EXECUTION", KeepExecuting, HeadsMayMove
  PROVE  IInv'
<1> USE DEF IInv, config, answer, latches, HeadsMayMove, KeepExecuting
<1>1. TypeOK'
  BY DEF TypeOK
<1>2. Coherent' /\ BusyIsSeek'
  BY DEF Coherent, BusyIsSeek
<1> QED
  BY <1>1, <1>2

\* One step of the heads of the drive that seeks.
LEMMA HeadStepped ==
  ASSUME IInv, NEW d \in Drives, NEW up \in BOOLEAN, StepHeadOf(d, up),
         UNCHANGED previouslySelected
  PROVE  floppyDrives' \in [Drives -> Drive] /\ OneDriveSelected'
<1> DEFINE ms == 2 * MillisecondsFromSRTTimer
<1>1. \A drive \in Drive :
        /\ Stepped(drive, up, ms, m_firstStep) \in Drive
        /\ Stepped(drive, up, ms, m_firstStep).selected = drive.selected
  BY DriveOperations, SelectedAfter
<1> HIDE DEF ms
<1>2. floppyDrives' = [floppyDrives EXCEPT ![d] = Stepped(floppyDrives[d], up, ms, m_firstStep)]
  BY DEF StepHeadOf, ms
<1> QED
  BY <1>1, <1>2 DEF IInv, TypeOK, OneDriveSelected

\* Waiting after a step keeps the counter of clocks a natural number.
LEMMA Waited ==
  ASSUME IInv, NEW taken, WaitAfterStep(taken)
  PROVE  passClock' \in Nat
BY FDCAssumption DEF WaitAfterStep, IInv, TypeOK

\* A clock of the controller keeps the invariant (fdc.cpp:117-127).
LEMMA Clocked ==
  ASSUME IInv, Clock
  PROVE  IInv'
<1> USE DEF Executing
<1>1. CASE Countdown
  <2>1. passClock' \in Nat
    BY <1>1 DEF Countdown, IInv, TypeOK
  <2> QED
    BY <1>1, <2>1 DEF Countdown, IInv, TypeOK, Coherent, BusyIsSeek, OneDriveSelected,
                      config, answer, status, latches, seek, drives
<1>2. CASE SeekEnds
  <2>1. PICK flags \in EndFlags : FinishSeek(flags)
    BY <1>2 DEF SeekEnds, EndFlags
  <2>2. HeadsMayMove
    BY <1>2 DEF SeekEnds, HeadsMayMove, IInv, TypeOK, OneDriveSelected, drives, seek
  <2> QED
    BY <1>2, <2>1, <2>2, SeekFinished DEF SeekEnds
<1>3. CASE SeekStep
  <2>1. floppyToApply \in Drives /\ m_direction \in BOOLEAN
    BY <1>3 DEF SeekStep, IInv, Coherent, TypeOK, SeekCommands
  <2>2. floppyDrives' \in [Drives -> Drive] /\ OneDriveSelected'
    BY <1>3, <2>1, HeadStepped DEF SeekStep
  <2>3. HeadsMayMove
    BY <1>3, <2>2, Waited DEF SeekStep, HeadsMayMove, IInv, TypeOK
  <2>4. KeepExecuting \/ FinishSeek(SE + IC1)
    BY <1>3 DEF SeekStep
  <2>5. SE + IC1 \in EndFlags
    BY DEF EndFlags
  <2> QED
    BY <1>3, <2>3, <2>4, <2>5, SeekFinished, SeekContinued DEF SeekStep
<1>4. StepsIssued \in Nat
  BY DEF StepsIssued, IInv, TypeOK
<1>5. CASE RecalibrateEnds
  <2>1. PICK flags \in EndFlags : FinishRecalibrate(flags)
    BY <1>5 DEF RecalibrateEnds, EndFlags
  <2>2. HeadsMayMove
    BY <1>4, <1>5 DEF RecalibrateEnds, HeadsMayMove, IInv, TypeOK, OneDriveSelected, drives
  <2> QED
    BY <1>5, <2>1, <2>2, SeekFinished DEF RecalibrateEnds
<1>6. CASE RecalibrateStep
  <2>1. floppyToApply \in Drives
    BY <1>6 DEF RecalibrateStep, IInv, Coherent, SeekCommands
  <2>2. floppyDrives' \in [Drives -> Drive] /\ OneDriveSelected'
    BY <1>6, <2>1, HeadStepped DEF RecalibrateStep
  <2>3. HeadsMayMove
    <3>1. passClock' \in Nat
      BY <1>6, Waited DEF RecalibrateStep
    <3>2. stepCount' \in Nat
      <4>1. stepCount' = StepsIssued + 1
        BY <1>6 DEF RecalibrateStep
      <4> QED
        BY <1>4, <4>1, SMT
    <3>3. m_firstStep' \in BOOLEAN
      BY <1>6 DEF RecalibrateStep
    <3> QED
      BY <1>6, <2>2, <3>1, <3>2, <3>3 DEF RecalibrateStep, HeadsMayMove
  <2>4. \/ KeepExecuting
        \/ \E flags \in EndFlags : FinishRecalibrate(flags)
    BY <1>6 DEF RecalibrateStep, EndFlags
  <2> QED
    BY <1>6, <2>3, <2>4, SeekFinished, SeekContinued DEF RecalibrateStep
<1>7. CASE ExecReadID
  <2>1. resultDatas' \in Seq(Byte) /\ Len(resultDatas') = ResultWords("ReadID")
    <3>1. HeadOf(configurationDatas[1]) \in Drives
      BY WordFields DEF IInv, TypeOK, Drives
    <3>2. IDCylinder(floppyDrives[IdentifiedDrive]) \in Nat
      BY <3>1, FloppyAssumption DEF IdentifiedDrive, IDCylinder, IInv, TypeOK, Drive
    <3>3. IDCylinder(floppyDrives[IdentifiedDrive]) % 256 \in Byte /\ 0 \in Byte /\ 1 \in Byte
      BY <3>2, SMT DEF Byte
    <3>4. STRegisters[0] \in Byte /\ STRegisters[1] \in Byte /\ STRegisters[2] \in Byte
      BY DEF IInv, TypeOK
    <3> QED
      BY <1>7, <3>3, <3>4 DEF ExecReadID, ResultWords
  <2>2. passClock' \in Nat
    BY <1>7, FDCAssumption DEF ExecReadID, IInv, TypeOK
  <2>3. resultWordPos' = 0 /\ selectedCommand' = "ReadID" /\ ~readCommandInProcess'
    BY <1>7 DEF ExecReadID, IInv, Coherent, latches
  <2>4. resultWordPos' < Len(resultDatas')
    BY <2>1, <2>3 DEF ResultWords
  <2>5. TypeOK'
    BY <1>7, <2>1, <2>2, <2>3 DEF ExecReadID, SwitchToResultMode, IInv, TypeOK, config,
                                  latches, seek, drives
  <2>6. Coherent'
    BY <1>7, <2>1, <2>3, <2>4 DEF ExecReadID, SwitchToResultMode, Coherent, AnsweringCommands
  <2>7. BusyIsSeek' /\ OneDriveSelected'
    BY <1>7 DEF ExecReadID, IInv, BusyIsSeek, OneDriveSelected, drives
  <2> QED
    BY <2>5, <2>6, <2>7 DEF IInv
<1> QED
  BY <1>1, <1>2, <1>3, <1>5, <1>6, <1>7 DEF Clock

-----------------------------------------------------------------------------
(* The theorems.                                                           *)

\* Every access, every clock and everything outside keeps the invariant.
THEOREM NextIInv == IInv /\ [Next]_vars => IInv'
<1> SUFFICES ASSUME IInv, [Next]_vars PROVE IInv'
  OBVIOUS
<1>1. ASSUME NEW b \in Bytes, WriteDataRegister(b) PROVE IInv'
  BY <1>1, FDCAssumption, WordKept, ExecutionStarted, CommandEndedAtOnce
     DEF WriteDataRegister
<1>2. ASSUME NEW b \in DORBytes, WriteDOR(b) PROVE IInv'
  BY <1>2, FDCAssumption, OutputRegisterWritten
<1>3. CASE UNCHANGED vars
  BY <1>3 DEF vars, config, answer, status, latches, seek, drives, IInv, TypeOK, Coherent,
              BusyIsSeek, OneDriveSelected
<1> QED
  BY <1>1, <1>2, <1>3, RegisterRead, Clocked, OutsideChanged DEF Next, Access

\* The invariant holds in every state, whatever the processor does.
THEOREM Invariance == Spec => []IInv
BY InitIInv, NextIInv, PTL DEF Spec

\* No index ever leaves its array, whatever the processor writes and reads.
THEOREM TypeCorrect == Spec => []TypeOK
<1>1. IInv => TypeOK
  BY DEF IInv
<1> QED
  BY <1>1, Invariance, PTL

\* Phase, selected command, direction and answer agree, whatever words and reads come.
THEOREM StaysCoherent == Spec => []Coherent
<1>1. IInv => Coherent
  BY DEF IInv
<1> QED
  BY <1>1, Invariance, PTL

\* A read that is let through finds a command with an answer and a word of it.
THEOREM ReadFindsWord == Spec => []ReadFindsAnswer
<1>1. IInv => ReadFindsAnswer
  BY DEF IInv, TypeOK, Coherent, ReadFindsAnswer, AllowsReading
<1> QED
  BY <1>1, Invariance, PTL

\* The status register tells the phase, except after READ DATA.
THEOREM StatusIsTruthful == Spec => []StatusTellsPhase
<1>1. IInv => StatusTellsPhase
  BY DEF IInv, TypeOK, Coherent, StatusTellsPhase
<1> QED
  BY <1>1, Invariance, PTL

\* READ DATA, once its words are written, keeps the ports for ever.
THEOREM ReadDataKeepsPorts == Spec => []ReadDataIsFinal
<1>1. IInv => ReadDataIsFinal
  BY DEF IInv, TypeOK, Coherent, ReadDataIsFinal
<1> QED
  BY <1>1, Invariance, PTL

\* The busy bit never outlives its seek.
THEOREM BusyEndsWithSeek == Spec => []BusyIsSeek
<1>1. IInv => BusyIsSeek
  BY DEF IInv
<1> QED
  BY <1>1, Invariance, PTL

\* No two drives are ever selected.
THEOREM OneSelected == Spec => []OneDriveSelected
<1>1. IInv => OneDriveSelected
  BY DEF IInv
<1> QED
  BY <1>1, Invariance, PTL

\* No word is written while an answer is offered.
LEMMA NoWordInResult ==
  ASSUME IInv, NEW b, WriteDataRegister(b)
  PROVE  \E c : StoreWord(b, c) /\ phase # "RESULT"
<1>1. PICK c : StoreWord(b, c)
  BY DEF WriteDataRegister, WriteWord, WriteRejectedWord, WriteLastWord, StartSeek,
         StartRecalibrate, StartTransfer, StartReadData, EndSpecify, AnswerInvalid,
         AnswerSenseInterruptStatus, AnswerSenseDriveStatus
<1>2. phase # "RESULT"
  BY <1>1 DEF StoreWord, AcceptsWord, IInv, Coherent
<1> QED
  BY <1>1, <1>2

\* A step asserts IR6 exactly when it ends a seek.
THEOREM NextInterrupt == IInv /\ [Next]_vars => [irq' <=> busy /\ ~busy']_vars
<1> SUFFICES ASSUME IInv, Next PROVE irq' <=> busy /\ ~busy'
  BY DEF vars
<1> USE DEF status
<1>1. ASSUME NEW b \in Bytes, WriteDataRegister(b) PROVE irq' <=> busy /\ ~busy'
  BY <1>1, NoWordInResult DEF StoreWord
<1>2. ASSUME NEW b \in DORBytes, WriteDOR(b) PROVE irq' <=> busy /\ ~busy'
  BY <1>2 DEF WriteDOR
<1>3. CASE ReadStatusRegister \/ ReadDuringReadData \/ ReadResultWord \/ ReadLastResultWord
  BY <1>3 DEF ReadStatusRegister, ReadDuringReadData, ReadResultWord, ReadLastResultWord
<1>4. CASE Clock
  <2>1. CASE Countdown \/ ExecReadID
    BY <2>1 DEF Countdown, ExecReadID
  <2>2. CASE SeekEnds \/ SeekStep \/ RecalibrateEnds \/ RecalibrateStep
    <3>1. busy
      BY <2>2 DEF SeekEnds, SeekStep, RecalibrateEnds, RecalibrateStep, Executing, IInv,
                  BusyIsSeek, SeekCommands
    <3>2. KeepExecuting \/ \E st : Finish(st)
      BY <2>2 DEF SeekEnds, SeekStep, RecalibrateEnds, RecalibrateStep, FinishSeek,
                  FinishRecalibrate
    <3> QED
      BY <3>1, <3>2 DEF KeepExecuting, Finish
  <2> QED
    BY <1>4, <2>1, <2>2 DEF Clock
<1>5. CASE Environment
  BY <1>5 DEF Environment, OpenImage, WallClock, HeadLoadDelayEnds, MotorStartDelayEnds,
              OtherThanDrives
<1> QED
  BY <1>1, <1>2, <1>3, <1>4, <1>5 DEF Next, Access

\* Seeks, and nothing else, interrupt; and each of them does when it ends.
THEOREM SeeksInterrupt == Spec => InterruptIsSeekEnd
BY InitIInv, NextIInv, NextInterrupt, PTL DEF Spec, InterruptIsSeekEnd

Delivered ==
  phase = "RESULT" =>
    \/ /\ phase' = "RESULT"
       /\ resultDatas' = resultDatas
       /\ resultWordPos' \in {resultWordPos, resultWordPos + 1}
    \/ phase' = "COMMAND" /\ resultWordPos + 1 = Len(resultDatas)

\* In RESULT a step leaves the answer alone, moves on to its next word, or takes
\* its last.
THEOREM NextDelivered == IInv /\ [Next]_vars => [Delivered]_vars
<1> SUFFICES ASSUME IInv, Next, phase = "RESULT" PROVE Delivered
  BY DEF vars, Delivered
<1> USE DEF Delivered, answer
<1>1. ASSUME NEW b \in Bytes PROVE ~WriteDataRegister(b)
  BY <1>1, NoWordInResult
<1>2. ASSUME NEW b \in DORBytes, WriteDOR(b) PROVE Delivered
  BY <1>2 DEF WriteDOR
<1>3. CASE ReadStatusRegister \/ ReadDuringReadData
  BY <1>3 DEF ReadStatusRegister, ReadDuringReadData
<1>4. /\ ResultWords(selectedCommand) \in 1 .. 7
      /\ Len(resultDatas) = ResultWords(selectedCommand)
      /\ resultWordPos \in Nat /\ resultWordPos < ResultWords(selectedCommand)
  BY CommandTable DEF IInv, TypeOK, Coherent
<1>5. CASE ReadResultWord
  <2>1. resultWordPos' = resultWordPos + 1
    BY <1>4, <1>5, SMT DEF ReadResultWord
  <2> QED
    BY <1>5, <2>1 DEF ReadResultWord
<1>6. CASE ReadLastResultWord
  <2>1. resultWordPos + 1 = ResultWords(selectedCommand)
    BY <1>4, <1>6, SMT DEF ReadLastResultWord
  <2> QED
    BY <1>4, <1>6, <2>1 DEF ReadLastResultWord, SwitchToCommandMode
<1>7. CASE Clock
  BY <1>7 DEF Clock, Countdown, SeekEnds, SeekStep, RecalibrateEnds, RecalibrateStep,
              ExecReadID, Executing
<1>8. CASE Environment
  BY <1>8 DEF Environment, OpenImage, WallClock, HeadLoadDelayEnds, MotorStartDelayEnds,
              OtherThanDrives
<1> QED
  BY <1>1, <1>2, <1>3, <1>5, <1>6, <1>7, <1>8 DEF Next, Access

\* An answer is delivered whole.
THEOREM AnswersDelivered == Spec => AnswerIsDelivered
BY InitIInv, NextIInv, NextDelivered, PTL DEF Spec, AnswerIsDelivered, Delivered
=============================================================================
