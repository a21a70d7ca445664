--------------------------- MODULE FDCHostProofs ----------------------------
(***************************************************************************)
(* The properties of the controller with a driver that follows its         *)
(* documentation, for every geometry, delay and set of bytes, and the      *)
(* safety part of the promise of FDCProtocol.                              *)
(*                                                                         *)
(* A step of the driver and the controller is a step of the controller     *)
(* alone, so the invariant of FDCProofs is the first part of the one here. *)
(***************************************************************************)
EXTENDS FDCHost, FDCProofs

-----------------------------------------------------------------------------
(* The inductive invariant.                                                *)

DriverTypeOK == seen \in {"write", "read", "nothing"} /\ toSend \in 0 .. 8

\* The command that executes works on the drive its words name.
SeekTarget ==
  busy /\ phase = "EXECUTION" => floppyToApply = DriveOf(configurationDatas[1])

\* The heads of a seek are on the side of the wanted cylinder they started from;
\* a recalibrate has stepped no more than it had to; and a seek whose words are
\* still arriving has not stepped.
SeekCourse ==
  /\ phase = "EXECUTION" /\ selectedCommand = "Seek" =>
       \/ m_direction /\ TargetDrive.cylinder <= configurationDatas[2]
       \/ ~m_direction /\ TargetDrive.cylinder >= configurationDatas[2]
  /\ phase = "EXECUTION" /\ selectedCommand = "Recalibrate" =>
       StepsIssued + TargetDrive.cylinder < Cylinders
  /\ phase = "COMMAND" /\ selectedCommand \in SeekCommands => m_firstStep

HostIInv == /\ IInv
            /\ DriverTypeOK
            /\ StatusReadStaysTrue
            /\ HostInStep
            /\ SeekMarkIsRight
            /\ SeekTarget
            /\ SeekCourse

\* A step of controller and driver is a step of the controller (fdc.cpp reads
\* and writes the same whoever calls it).
LEMMA HostStepIsStep == [HostNext]_hostVars => [Next]_vars
<1>1. ASSUME HostAccess PROVE Access
  <2>1. ASSUME NEW b \in CommandBytes, SendCommand(b) PROVE Access
    BY <2>1, HostAssumption DEF SendCommand, Access
  <2>2. ASSUME NEW b \in ParameterBytes, SendParameter(b) PROVE Access
    BY <2>2, HostAssumption DEF SendParameter, Access
  <2> QED
    BY <1>1, <2>1, <2>2 DEF HostAccess, PollStatus, PollCaptured, FetchResult, Access
<1>2. HostNext => Next
  BY <1>1 DEF HostNext, ControlDrives, HostClock, Next, Access
<1> QED
  BY <1>2 DEF hostVars

\* The driver begins in step with the controller.
THEOREM HostInitIInv == HostInit => HostIInv
<1> SUFFICES ASSUME HostInit PROVE HostIInv
  OBVIOUS
<1>1. IInv
  BY InitIInv DEF HostInit
<1>2. DriverTypeOK /\ StatusReadStaysTrue
  BY DEF HostInit, DriverTypeOK, StatusReadStaysTrue
<1>3. HostInStep
  BY DEF HostInit, Init, HostInStep, Stage
<1>4. SeekMarkIsRight /\ SeekTarget /\ SeekCourse
  BY DEF HostInit, Init, SeekMarkIsRight, SeekTarget, SeekCourse, SeekCommands
<1> QED
  BY <1>1, <1>2, <1>3, <1>4 DEF HostIInv

-----------------------------------------------------------------------------
(* The words the driver writes.                                            *)

Send(b) == SendCommand(b) \/ SendParameter(b)

\* A word the driver writes is the next one of the command under way, or the
\* first one of a new command, and the two counts of words stay the same.
LEMMA WordExpected ==
  ASSUME HostIInv, ~quit, NEW b \in Byte, Send(b), NEW c, StoreWord(b, c)
  PROVE  /\ c \in Commands
         /\ phase = "COMMAND" /\ ~readCommandInProcess /\ rqm
         /\ seeking = {}
         /\ c \in SeekCommands => m_firstStep'
         /\ seen' = "nothing" /\ toSend' \in 0 .. 8
         /\ toSend' + writePos + 1 = ConfigurationWords(c)
         /\ writePos' = IF toSend' = 0 THEN 0 ELSE writePos + 1
         /\ \/ Stage = "idle" /\ selectedCommand = "None" /\ writePos = 0
            \/ Stage = "configuration" /\ selectedCommand = c
<1>1. c \in Commands /\ IInv
  BY StoredWord DEF HostIInv
<1>2. phase = "COMMAND" /\ ~readCommandInProcess /\ rqm
  BY DEF HostIInv, IInv, Coherent, Send, SendCommand, SendParameter, StatusReadStaysTrue,
         AcceptsWord
<1>3. seeking = {}
  BY <1>2 DEF HostIInv, SeekMarkIsRight
<1>4. c \in SeekCommands => m_firstStep'
  BY <1>2 DEF HostIInv, SeekCourse, StoreWord, Addressed, BeginsSeek
<1>5. ConfigurationWords(c) \in 1 .. 9 /\ writePos \in 0 .. 8 /\ toSend \in 0 .. 8
  BY <1>1, CommandTable DEF IInv, TypeOK, HostIInv, DriverTypeOK
<1>6. writePos' = (writePos + 1) % ConfigurationWords(c)
  BY DEF StoreWord
<1>7. CASE SendCommand(b)
  <2>1. Stage = "idle" /\ selectedCommand = "None" /\ writePos = 0
    BY <1>2, <1>5, <1>7 DEF SendCommand, HostIInv, HostInStep, Stage
  <2>2. c = commands(CommandIndex(b))
    BY <2>1 DEF StoreWord, Addressed
  <2>3. toSend' = ConfigurationWords(c) - 1 /\ seen' = "nothing"
    BY <1>7, <2>2 DEF SendCommand
  <2>4. writePos' = IF toSend' = 0 THEN 0 ELSE writePos + 1
    BY <1>5, <1>6, <2>1, <2>3, SMT
  <2> QED
    BY <1>1, <1>2, <1>3, <1>4, <1>5, <2>1, <2>3, <2>4, SMT
<1>8. CASE SendParameter(b)
  <2>1. Stage = "configuration" /\ toSend > 0 /\ toSend' = toSend - 1 /\ seen' = "nothing"
    BY <1>5, <1>8 DEF SendParameter, HostIInv, HostInStep
  <2>2. selectedCommand # "None"
    BY <1>2, <2>1 DEF Stage
  <2>3. c = selectedCommand
    BY <2>2 DEF StoreWord, Addressed
  <2>4. toSend + writePos = ConfigurationWords(c)
    BY <2>1, <2>3 DEF HostIInv, HostInStep
  <2>5. writePos' = IF toSend' = 0 THEN 0 ELSE writePos + 1
    BY <1>5, <1>6, <2>1, <2>4, SMT
  <2>6. toSend' + writePos + 1 = ConfigurationWords(c) /\ toSend' \in 0 .. 8
    BY <1>5, <2>1, <2>4, SMT
  <2> QED
    BY <1>1, <1>2, <1>3, <1>4, <2>1, <2>3, <2>5, <2>6
<1> QED
  BY <1>7, <1>8 DEF Send

\* The words of the driver lead along the stages: to the next word, to the end of
\* the simulation, or to what the command does once it has all its words.
Outcome(c) ==
  \/ writePos' # 0 /\ Stage' = "configuration" /\ selectedCommand' = c /\ quit' = FALSE
  \/ writePos' = 0 /\ Stage' = "stopped"
  \/ /\ writePos' = 0 /\ Stage' = "execution" /\ selectedCommand' = c /\ quit' = FALSE
     /\ c \in ExecutingCommands
  \/ /\ writePos' = 0 /\ Stage' = "captured" /\ selectedCommand' = c /\ quit' = FALSE
     /\ c = "ReadData"
  \/ /\ writePos' = 0 /\ Stage' = "idle" /\ selectedCommand' = "None" /\ quit' = FALSE
     /\ c = "Specify"
  \/ /\ writePos' = 0 /\ Stage' = "result" /\ selectedCommand' = c /\ quit' = FALSE
     /\ resultWordPos' = 0
     /\ c \in AnsweringCommands \ {"ReadID"}

\* Every way to take a word has one of these outcomes.
LEMMA WordOutcome ==
  ASSUME HostIInv, ~quit, NEW b \in Byte, Send(b)
  PROVE  \E c : StoreWord(b, c) /\ Outcome(c)
<1>1. WriteDataRegister(b)
  BY DEF Send, SendCommand, SendParameter
<1>2. /\ quit = FALSE /\ resultWordPos \in Nat
      /\ phase # "RESULT" => resultWordPos = 0
  BY DEF HostIInv, IInv, TypeOK, Coherent
<1>3. ASSUME NEW c, StoreWord(b, c)
      PROVE  phase = "COMMAND" /\ ~readCommandInProcess /\ c \in Commands
  BY <1>3, WordExpected
<1>4. ASSUME WriteWord(b) PROVE \E c : StoreWord(b, c) /\ Outcome(c)
  <2>1. PICK c : /\ StoreWord(b, c) /\ writePos' # 0 /\ selectedCommand' = c
                 /\ UNCHANGED <<phase, readCommandInProcess, quit>>
    BY <1>4 DEF WriteWord
  <2>2. c # "None"
    BY <1>3, <2>1 DEF Commands
  <2>3. Stage' = "configuration"
    <3>1. /\ ~quit' /\ phase' = "COMMAND" /\ ~readCommandInProcess'
          /\ selectedCommand' # "None"
      BY <1>3, <2>1, <2>2
    <3> QED
      BY <3>1 DEF Stage
  <2> QED
    BY <1>2, <2>1, <2>3 DEF Outcome
<1>5. ASSUME WriteRejectedWord(b) PROVE \E c : StoreWord(b, c) /\ Outcome(c)
  <2>1. PICK c : StoreWord(b, c) /\ writePos' = 0 /\ quit' = TRUE
    BY <1>5 DEF WriteRejectedWord
  <2>2. Stage' = "stopped"
    BY <2>1 DEF Stage
  <2> QED
    BY <2>1, <2>2 DEF Outcome
<1>6. ASSUME StartSeek(b) \/ StartRecalibrate(b) \/ StartTransfer(b)
      PROVE  \E c : StoreWord(b, c) /\ Outcome(c)
  <2>1. PICK c \in ExecutingCommands :
          WriteLastWord(b, c) /\ selectedCommand' = c /\ SwitchToExecutionMode
    BY <1>6 DEF StartSeek, StartRecalibrate, StartTransfer, ExecutingCommands, SeekCommands
  <2>2. Stage' = "execution"
    <3>1. ~quit' /\ phase' = "EXECUTION"
      BY <2>1 DEF WriteLastWord, SwitchToExecutionMode
    <3> QED
      BY <3>1 DEF Stage
  <2> QED
    BY <1>2, <2>1, <2>2 DEF Outcome, WriteLastWord
<1>7. ASSUME StartReadData(b) PROVE \E c : StoreWord(b, c) /\ Outcome(c)
  <2>1. /\ StoreWord(b, "ReadData") /\ writePos' = 0 /\ quit' = FALSE
        /\ selectedCommand' = "ReadData" /\ readCommandInProcess' = TRUE /\ phase' = phase
    BY <1>2, <1>7 DEF StartReadData, WriteLastWord
  <2>2. Stage' = "captured"
    BY <1>3, <2>1 DEF Stage
  <2> QED
    BY <2>1, <2>2 DEF Outcome
<1>8. ASSUME EndSpecify(b) PROVE \E c : StoreWord(b, c) /\ Outcome(c)
  <2>1. /\ StoreWord(b, "Specify") /\ writePos' = 0 /\ quit' = FALSE
        /\ selectedCommand' = "None" /\ phase' = "COMMAND"
        /\ readCommandInProcess' = readCommandInProcess
    BY <1>2, <1>8 DEF EndSpecify, WriteLastWord, SwitchToCommandMode
  <2>2. Stage' = "idle"
    BY <1>3, <2>1 DEF Stage
  <2> QED
    BY <2>1, <2>2 DEF Outcome
<1>9. ASSUME AnswerInvalid(b) \/ AnswerSenseInterruptStatus(b) \/ AnswerSenseDriveStatus(b)
      PROVE  \E c : StoreWord(b, c) /\ Outcome(c)
  <2>1. PICK c \in AnsweringCommands \ {"ReadID"} :
          WriteLastWord(b, c) /\ selectedCommand' = c /\ SwitchToResultMode
    BY <1>9 DEF AnswerInvalid, AnswerSenseInterruptStatus, AnswerSenseDriveStatus,
                AnsweringCommands
  <2>2. Stage' = "result"
    BY <1>2, <2>1 DEF Stage, WriteLastWord, SwitchToResultMode
  <2>3. resultWordPos' = 0
    BY <1>2, <1>3, <2>1 DEF WriteLastWord, StoreWord
  <2> QED
    BY <1>2, <2>1, <2>2, <2>3 DEF Outcome, WriteLastWord
<1> QED
  BY <1>1, <1>4, <1>5, <1>6, <1>7, <1>8, <1>9 DEF WriteDataRegister

\* The driver's words keep the two counts of words equal.
LEMMA WordCounted ==
  ASSUME HostIInv, ~quit, NEW b \in Byte, Send(b)
  PROVE  DriverTypeOK' /\ StatusReadStaysTrue' /\ HostInStep'
<1>1. PICK c : StoreWord(b, c) /\ Outcome(c)
  BY WordOutcome
<1>2. /\ seen' = "nothing" /\ toSend' \in 0 .. 8
      /\ toSend' + writePos + 1 = ConfigurationWords(c)
      /\ writePos' = IF toSend' = 0 THEN 0 ELSE writePos + 1
  BY <1>1, WordExpected
<1>3. writePos \in 0 .. 8
  BY DEF HostIInv, IInv, TypeOK
<1>4. toSend' = 0 <=> writePos' = 0
  BY <1>2, <1>3, SMT
<1>5. HostInStep'
  <2>1. CASE writePos' # 0
    <3>1. Stage' = "configuration" /\ selectedCommand' = c
      BY <1>1, <2>1 DEF Outcome
    <3>2. toSend' > 0 /\ toSend' + writePos' = ConfigurationWords(c)
      BY <1>2, <1>3, <1>4, <2>1, SMT
    <3> QED
      BY <3>1, <3>2 DEF HostInStep
  <2>2. CASE writePos' = 0
    <3>1. Stage' # "configuration"
      BY <1>1, <2>2 DEF Outcome
    <3> QED
      BY <1>4, <2>2, <3>1 DEF HostInStep
  <2> QED
    BY <2>1, <2>2
<1> QED
  BY <1>2, <1>5 DEF DriverTypeOK, StatusReadStaysTrue

\* Only the last word of a seek or of a recalibrate marks a drive, the one its
\* words name, and sends its heads the right way (command.cpp:154-160, 280-290).
LEMMA WordMarks ==
  ASSUME HostIInv, ~quit, NEW b \in Byte, Send(b)
  PROVE  SeekMarkIsRight' /\ SeekTarget' /\ SeekCourse'
<1> USE DEF SeekMarkIsRight, SeekTarget, SeekCourse
<1>1. WriteDataRegister(b) /\ IInv
  BY DEF Send, SendCommand, SendParameter, HostIInv
<1>2. ASSUME NEW c, StoreWord(b, c)
      PROVE  /\ phase = "COMMAND" /\ seeking = {}
             /\ c \in SeekCommands => m_firstStep'
             /\ busy' <=> c \in SeekCommands
             /\ configurationDatas' \in [0 .. 2 -> Byte]
             /\ DriveOf(configurationDatas'[1]) \in Drives
  BY <1>1, <1>2, WordExpected, StoredWord
<1>3. ASSUME WriteWord(b) \/ WriteRejectedWord(b)
      PROVE  SeekMarkIsRight' /\ SeekTarget' /\ SeekCourse'
  <2>1. PICK c : /\ StoreWord(b, c) /\ selectedCommand' = c
                 /\ UNCHANGED <<phase, seeking>>
    BY <1>3 DEF WriteWord, WriteRejectedWord
  <2> QED
    BY <1>2, <2>1
<1>4. ASSUME StartSeek(b)
      PROVE  SeekMarkIsRight' /\ SeekTarget' /\ SeekCourse'
  <2>1. /\ StoreWord(b, "Seek") /\ selectedCommand' = "Seek" /\ phase' = "EXECUTION"
        /\ floppyToApply' = DriveOf(configurationDatas'[1])
        /\ m_direction' <=> configurationDatas'[2] > floppyDrives[floppyToApply'].cylinder
        /\ seeking' = seeking \cup {floppyToApply'}
        /\ SetHead(configurationDatas'[1])
    BY <1>4 DEF StartSeek, WriteLastWord, SwitchToExecutionMode
  <2>2. busy' /\ seeking = {} /\ floppyToApply' \in Drives
    BY <1>2, <2>1 DEF SeekCommands
  <2>3. /\ TargetDrive'.cylinder = floppyDrives[floppyToApply'].cylinder
        /\ TargetDrive'.cylinder \in Nat
    BY <1>1, <2>1, <2>2, FloppyAssumption
       DEF TargetDrive, SetHead, SetHeadAddress, IInv, TypeOK, Drive
  <2>4. configurationDatas'[2] \in Nat
    BY <1>2, <2>1 DEF Byte
  <2>5. \/ m_direction' /\ TargetDrive'.cylinder <= configurationDatas'[2]
        \/ ~m_direction' /\ TargetDrive'.cylinder >= configurationDatas'[2]
    BY <2>1, <2>3, <2>4
  <2> QED
    BY <2>1, <2>2, <2>5
<1>5. ASSUME StartRecalibrate(b)
      PROVE  SeekMarkIsRight' /\ SeekTarget' /\ SeekCourse'
  <2>1. /\ StoreWord(b, "Recalibrate") /\ selectedCommand' = "Recalibrate"
        /\ phase' = "EXECUTION" /\ floppyDrives' = floppyDrives
        /\ floppyToApply' = DriveOf(configurationDatas'[1])
        /\ seeking' = seeking \cup {floppyToApply'}
    BY <1>5 DEF StartRecalibrate, WriteLastWord, SwitchToExecutionMode
  <2>2. busy' /\ seeking = {} /\ floppyToApply' \in Drives /\ m_firstStep'
    BY <1>2, <2>1 DEF SeekCommands
  <2>3. TargetDrive'.cylinder \in 0 .. Cylinders - 1
    BY <1>1, <2>1, <2>2 DEF TargetDrive, IInv, TypeOK, Drive
  <2>4. StepsIssued' + TargetDrive'.cylinder < Cylinders
    BY <2>2, <2>3, FloppyAssumption DEF StepsIssued
  <2> QED
    BY <2>1, <2>2, <2>4
<1>6. ASSUME StartTransfer(b)
      PROVE  SeekMarkIsRight' /\ SeekTarget' /\ SeekCourse'
  <2>1. PICK c \in {"ReadID", "BaseCommand"} :
               /\ StoreWord(b, c) /\ selectedCommand' = c /\ phase' = "EXECUTION"
               /\ seeking' = seeking
    BY <1>6 DEF StartTransfer, WriteLastWord, SwitchToExecutionMode
  <2> QED
    BY <1>2, <2>1 DEF SeekCommands
<1>7. ASSUME StartReadData(b) \/ EndSpecify(b)
      PROVE  SeekMarkIsRight' /\ SeekTarget' /\ SeekCourse'
  <2>1. /\ \E c : StoreWord(b, c)
        /\ seeking' = seeking /\ selectedCommand' \in {"ReadData", "None"}
        /\ phase' \in {phase, "COMMAND"}
    BY <1>7 DEF StartReadData, EndSpecify, WriteLastWord, SwitchToCommandMode
  <2> QED
    BY <1>2, <2>1 DEF SeekCommands
<1>8. ASSUME AnswerInvalid(b) \/ AnswerSenseInterruptStatus(b) \/ AnswerSenseDriveStatus(b)
      PROVE  SeekMarkIsRight' /\ SeekTarget' /\ SeekCourse'
  <2>1. (\E c : StoreWord(b, c)) /\ seeking' = seeking /\ phase' = "RESULT"
    BY <1>8 DEF AnswerInvalid, AnswerSenseInterruptStatus, AnswerSenseDriveStatus,
                WriteLastWord, SwitchToResultMode
  <2> QED
    BY <1>2, <2>1
<1> QED
  BY <1>1, <1>3, <1>4, <1>5, <1>6, <1>7, <1>8 DEF WriteDataRegister

-----------------------------------------------------------------------------
(* Everything else.                                                        *)

\* A step that neither takes a word nor moves a head nor ends a command.
SameCommand ==
  /\ UNCHANGED <<phase, selectedCommand, config, readCommandInProcess, busy, seeking, seek,
                 quit, toSend>>
  /\ \A d \in Drives : floppyDrives'[d].cylinder = floppyDrives[d].cylinder

\* It keeps what driver and controller agree on.
LEMMA CommandUntouched ==
  ASSUME HostIInv, SameCommand
  PROVE  HostInStep' /\ SeekMarkIsRight' /\ SeekTarget' /\ SeekCourse'
<1> USE DEF HostIInv, SameCommand, config, seek
<1>1. HostInStep'
  <2>1. Stage' = Stage
    BY DEF Stage
  <2> QED
    BY <2>1 DEF HostInStep
<1>2. SeekMarkIsRight' /\ SeekTarget'
  BY DEF SeekMarkIsRight, SeekTarget
<1>3. SeekCourse'
  <2>1. phase = "EXECUTION" /\ selectedCommand \in SeekCommands =>
          TargetDrive'.cylinder = TargetDrive.cylinder
    BY DEF TargetDrive, IInv, Coherent
  <2>2. StepsIssued' = StepsIssued
    BY DEF StepsIssued
  <2> QED
    BY <2>1, <2>2 DEF SeekCourse, SeekCommands
<1> QED
  BY <1>1, <1>2, <1>3

\* Nothing but an access of the driver touches the flag its writes need, or turns
\* the register around while it may write or read (fdc.cpp:197-203, 276-279).
LEMMA StatusKept ==
  ASSUME HostIInv,
         UNCHANGED <<phase, selectedCommand, dio, busy, latches, seen, toSend>>
  PROVE  DriverTypeOK' /\ StatusReadStaysTrue'
<1> USE DEF HostIInv, latches
<1>1. DriverTypeOK'
  BY DEF DriverTypeOK
<1>2. AcceptsWord' = AcceptsWord /\ AllowsReading' = AllowsReading
  BY DEF AcceptsWord, AllowsReading
<1> QED
  BY <1>1, <1>2 DEF StatusReadStaysTrue

\* A status that is read is true: it allows a write exactly in COMMAND and a read
\* exactly in RESULT.
LEMMA StatusPolled ==
  ASSUME HostIInv, ~quit, PollStatus \/ PollCaptured
  PROVE  HostIInv'
<1> USE DEF HostIInv
<1>1. IInv'
  BY RegisterRead DEF PollStatus, PollCaptured
<1>2. SameCommand
  BY DEF PollStatus, PollCaptured, ReadStatusRegister, ReadDuringReadData, SameCommand,
         config, seek, status, latches, drives
<1>3. DriverTypeOK'
  BY DEF PollStatus, PollCaptured, DriverTypeOK
<1>4. StatusReadStaysTrue'
  <2>1. CASE PollStatus
    <3>1. /\ statusRegisterRead' /\ ~readCommandInProcess' /\ UNCHANGED <<phase, rqm, dio>>
          /\ seen' = IF ~rqm THEN "nothing" ELSE IF dio THEN "read" ELSE "write"
      BY <2>1 DEF PollStatus, ReadStatusRegister, status
    <3>2. rqm /\ ~dio => phase = "COMMAND"
      BY DEF IInv, TypeOK, Coherent
    <3>3. ~(selectedCommand = "None" /\ busy)'
      BY <1>1 DEF IInv, BusyIsSeek, SeekCommands
    <3> QED
      BY <3>1, <3>2, <3>3 DEF StatusReadStaysTrue, AcceptsWord, AllowsReading
  <2>2. CASE PollCaptured
    BY <2>2 DEF PollCaptured, StatusReadStaysTrue
  <2> QED
    BY <2>1, <2>2
<1> QED
  BY <1>1, <1>2, <1>3, <1>4, CommandUntouched

\* A word of an answer that is not its last moves on to the next; the last leaves
\* the controller idle with both positions at their start (fdc.cpp:236-251).
LEMMA ResultFetched ==
  ASSUME HostIInv, ~quit, FetchResult
  PROVE  /\ HostIInv'
         /\ Stage = "result" /\ resultWordPos \in Nat
         /\ ResultWords(selectedCommand) \in 1 .. 7
         /\ \/ /\ resultWordPos + 1 < ResultWords(selectedCommand)
               /\ UNCHANGED <<Stage, selectedCommand, quit>>
               /\ resultWordPos' = resultWordPos + 1
            \/ /\ resultWordPos + 1 = ResultWords(selectedCommand)
               /\ Stage' = "idle" /\ selectedCommand' = "None" /\ UNCHANGED quit
<1> USE DEF HostIInv
<1>1. IInv'
  BY RegisterRead DEF FetchResult
<1>2. /\ phase = "RESULT" /\ selectedCommand \in AnsweringCommands /\ ~readCommandInProcess
      /\ resultWordPos \in Nat /\ resultWordPos < ResultWords(selectedCommand)
      /\ Len(resultDatas) = ResultWords(selectedCommand)
  BY DEF FetchResult, ReadResultWord, ReadLastResultWord, AllowsReading, IInv, TypeOK,
         Coherent
<1>3. ResultWords(selectedCommand) \in 1 .. 7
  BY <1>2, CommandTable
<1>4. Stage = "result"
  BY <1>2 DEF Stage
<1>5. DriverTypeOK' /\ StatusReadStaysTrue'
  BY DEF FetchResult, DriverTypeOK, StatusReadStaysTrue
<1>6. CASE ReadResultWord
  <2>1. SameCommand
    BY <1>6 DEF FetchResult, ReadResultWord, SameCommand, config, seek, status, drives
  <2>2. resultWordPos' = resultWordPos + 1 /\ resultWordPos + 1 < ResultWords(selectedCommand)
    BY <1>2, <1>3, <1>6, SMT DEF ReadResultWord
  <2>3. Stage' = Stage
    BY <2>1 DEF SameCommand, Stage
  <2> QED
    BY <1>1, <1>2, <1>3, <1>4, <1>5, <2>1, <2>2, <2>3, CommandUntouched DEF SameCommand
<1>7. CASE ReadLastResultWord
  <2>1. /\ phase' = "COMMAND" /\ selectedCommand' = "None" /\ toSend' = toSend
        /\ UNCHANGED <<config, busy, seeking, readCommandInProcess, seek, drives, quit>>
    BY <1>7 DEF FetchResult, ReadLastResultWord, SwitchToCommandMode
  <2>2. resultWordPos + 1 = ResultWords(selectedCommand)
    BY <1>2, <1>3, <1>7, SMT DEF ReadLastResultWord
  <2>3. Stage' = "idle"
    BY <1>2, <2>1 DEF Stage
  <2>4. HostInStep'
    BY <1>4, <2>1, <2>3 DEF HostInStep, config
  <2>5. SeekMarkIsRight' /\ SeekTarget' /\ SeekCourse'
    BY <1>2, <2>1 DEF SeekMarkIsRight, SeekTarget, SeekCourse, SeekCommands
  <2> QED
    BY <1>1, <1>2, <1>3, <1>4, <1>5, <2>1, <2>2, <2>3, <2>4, <2>5
<1> QED
  BY <1>6, <1>7 DEF FetchResult

-----------------------------------------------------------------------------
(* The clock.                                                              *)

StepTime == 2 * MillisecondsFromSRTTimer

\* With the step rate the controller is left with, a step of a ready drive fails
\* only at the end of the disk, and one that succeeds moves one cylinder
\* (floppy.cpp:165-181).
LEMMA ReadyDriveSteps ==
  ASSUME stepRateTimer = 0, NEW drive \in Drive, IsReady(drive), NEW up \in BOOLEAN,
         NEW first \in BOOLEAN
  PROVE  /\ drive.cylinder \in 0 .. Cylinders - 1
         /\ StepSucceeds(drive, up, StepTime, first) <=>
              drive.cylinder # IF up THEN Cylinders - 1 ELSE 0
         /\ Stepped(drive, up, StepTime, first).cylinder =
              IF ~StepSucceeds(drive, up, StepTime, first) THEN drive.cylinder
              ELSE IF up THEN drive.cylinder + 1 ELSE drive.cylinder - 1
<1>1. drive.inserted
  BY DEF IsReady
<1>2. StepTime >= TrackToTrack
  BY DEF StepTime, TrackToTrack, MillisecondsFromSRTTimer
<1>3. StepSucceeds(drive, up, StepTime, first) <=> ~AtLastCylinder(drive, up)
  BY <1>1, <1>2 DEF StepSucceeds
<1>4. StepHead(drive, up).cylinder =
        IF up THEN drive.cylinder + 1 ELSE drive.cylinder - 1
  BY SMT DEF Drive, StepHead
<1>5. drive.cylinder \in 0 .. Cylinders - 1
  BY DEF Drive
<1> QED
  BY <1>1, <1>3, <1>4, <1>5 DEF Stepped, AtLastCylinder

\* What holds while the controller executes: no word is expected, and the drive of
\* a seek is the one its words name.
LEMMA WhileExecuting ==
  ASSUME HostIInv, phase = "EXECUTION", ~quit
  PROVE  /\ Stage = "execution" /\ toSend = 0 /\ writePos = 0 /\ seen = "nothing"
         /\ ~readCommandInProcess /\ resultWordPos = 0
         /\ selectedCommand \in SeekCommands =>
              /\ busy /\ floppyToApply \in Drives
              /\ floppyToApply = DriveOf(configurationDatas[1])
              /\ TargetDrive \in Drive
              /\ seeking = {floppyToApply}
<1> USE DEF HostIInv
<1>1. Stage = "execution"
  BY DEF Stage
<1>2. toSend = 0 /\ writePos = 0
  BY <1>1 DEF HostInStep
<1>3. ~readCommandInProcess /\ resultWordPos = 0
  BY DEF IInv, Coherent
<1>4. seen = "nothing"
  BY DEF DriverTypeOK, StatusReadStaysTrue, AllowsReading, IInv, Coherent
<1>5. selectedCommand \in SeekCommands => busy /\ floppyToApply \in Drives
  BY DEF IInv, Coherent, BusyIsSeek
<1>6. selectedCommand \in SeekCommands =>
        TargetDrive \in Drive /\ floppyToApply = DriveOf(configurationDatas[1])
  BY <1>5 DEF SeekTarget, TargetDrive, IInv, TypeOK
<1>7. selectedCommand \in SeekCommands => seeking = {floppyToApply}
  BY <1>5, <1>6 DEF SeekMarkIsRight
<1> QED
  BY <1>1, <1>2, <1>3, <1>4, <1>5, <1>6, <1>7

\* The end of a seek makes the controller idle and takes the mark away, whatever
\* the drive did (command.cpp:162-171, 292-301).
LEMMA SeekDone ==
  ASSUME HostIInv, ~quit, phase = "EXECUTION", selectedCommand \in SeekCommands,
         NEW st, Finish(st), UNCHANGED <<config, latches, quit, seen, toSend>>
  PROVE  /\ DriverTypeOK' /\ StatusReadStaysTrue' /\ HostInStep'
         /\ SeekMarkIsRight' /\ SeekTarget' /\ SeekCourse'
         /\ Stage = "execution" /\ Stage' = "idle" /\ selectedCommand' = "None"
         /\ irq' = TRUE
<1>1. /\ phase' = "COMMAND" /\ selectedCommand' = "None" /\ ~busy' /\ irq' = TRUE
      /\ seeking' = seeking \ {floppyToApply}
  BY DEF Finish, SwitchToCommandMode
<1>2. /\ toSend' = 0 /\ writePos' = 0 /\ seen' = "nothing" /\ ~readCommandInProcess'
      /\ seeking' = {} /\ ~quit' /\ Stage = "execution"
  BY <1>1, WhileExecuting DEF config, latches
<1>3. Stage' = "idle"
  BY <1>1, <1>2 DEF Stage
<1>4. DriverTypeOK' /\ StatusReadStaysTrue' /\ HostInStep'
  BY <1>2, <1>3 DEF DriverTypeOK, StatusReadStaysTrue, HostInStep
<1>5. SeekMarkIsRight' /\ SeekTarget' /\ SeekCourse'
  BY <1>1, <1>2 DEF SeekMarkIsRight, SeekTarget, SeekCourse, SeekCommands
<1> QED
  BY <1>1, <1>2, <1>3, <1>4, <1>5

\* A step of the heads that does not end its command keeps driver and controller
\* where they are, if it keeps the course.
LEMMA SeekGoesOn ==
  ASSUME HostIInv, ~quit, phase = "EXECUTION", selectedCommand \in SeekCommands,
         KeepExecuting,
         UNCHANGED <<config, latches, floppyToApply, quit, seen, toSend>>
  PROVE  /\ DriverTypeOK' /\ StatusReadStaysTrue' /\ HostInStep'
         /\ SeekMarkIsRight' /\ SeekTarget'
         /\ UNCHANGED <<Stage, selectedCommand, quit>> /\ irq' = FALSE
<1>1. /\ UNCHANGED <<phase, selectedCommand, busy, seeking, configurationDatas, writePos>>
      /\ irq' = FALSE
  BY DEF KeepExecuting, config
<1>2. toSend' = 0 /\ writePos' = 0 /\ seen' = "nothing" /\ Stage = "execution"
  BY <1>1, WhileExecuting
<1>3. Stage' = "execution"
  BY <1>1 DEF Stage
<1>4. DriverTypeOK' /\ StatusReadStaysTrue' /\ HostInStep'
  BY <1>2, <1>3 DEF DriverTypeOK, StatusReadStaysTrue, HostInStep
<1>5. SeekMarkIsRight' /\ SeekTarget'
  BY <1>1 DEF HostIInv, SeekMarkIsRight, SeekTarget
<1> QED
  BY <1>1, <1>2, <1>3, <1>4, <1>5

\* A step of a seek keeps its course; one that fails has the heads over the last
\* cylinder, and the cylinder wanted is beyond it (command.cpp:318-331).
LEMMA SeekStepped ==
  ASSUME HostIInv, ~quit, SeekStep
  PROVE  \/ KeepExecuting /\ SeekCourse'
         \/ /\ FinishSeek(SE + IC1)
            /\ floppyDrives'[floppyToApply].cylinder = Cylinders - 1
            /\ configurationDatas[2] >= Cylinders
<1> DEFINE target == TargetDrive.cylinder
           wanted == configurationDatas[2]
<1>1. /\ phase = "EXECUTION" /\ selectedCommand = "Seek" /\ IsReady(TargetDrive)
      /\ target # wanted /\ StepHeadOf(floppyToApply, m_direction)
      /\ UNCHANGED <<configurationDatas, floppyToApply, m_direction>>
  BY DEF SeekStep, Executing, config
<1>2. floppyToApply \in Drives /\ TargetDrive \in Drive
  BY <1>1, WhileExecuting DEF SeekCommands
<1>3. stepRateTimer = 0 /\ m_direction \in BOOLEAN /\ m_firstStep \in BOOLEAN
  BY DEF HostIInv, IInv, TypeOK
<1>4. /\ target \in 0 .. Cylinders - 1
      /\ StepTaken(m_direction) <=> target # IF m_direction THEN Cylinders - 1 ELSE 0
      /\ Stepped(TargetDrive, m_direction, StepTime, m_firstStep).cylinder =
           IF ~StepTaken(m_direction) THEN target
           ELSE IF m_direction THEN target + 1 ELSE target - 1
  BY <1>1, <1>2, <1>3, ReadyDriveSteps DEF StepTaken, StepTime
<1>5. /\ TargetDrive' = Stepped(TargetDrive, m_direction, StepTime, m_firstStep)
      /\ TargetDrive' = floppyDrives'[floppyToApply]
  BY <1>1, <1>2 DEF StepHeadOf, StepTime, TargetDrive, HostIInv, IInv, TypeOK
<1>6. wanted \in Nat
  <2>1. configurationDatas \in [0 .. 2 -> Byte]
    BY DEF HostIInv, IInv, TypeOK
  <2> QED
    BY <2>1, SMT DEF Byte
<1>7. \/ m_direction /\ target < wanted
      \/ ~m_direction /\ target > wanted
  <2>1. \/ m_direction /\ target <= wanted
        \/ ~m_direction /\ target >= wanted
    BY <1>1 DEF HostIInv, SeekCourse
  <2> QED
    BY <1>1, <1>4, <1>6, <2>1, SMT
<1>8. CASE StepTaken(m_direction)
  <2>1. KeepExecuting
    BY <1>8 DEF SeekStep
  <2>2. \/ m_direction /\ TargetDrive'.cylinder <= wanted
        \/ ~m_direction /\ TargetDrive'.cylinder >= wanted
    BY <1>4, <1>5, <1>6, <1>7, <1>8, SMT
  <2>3. SeekCourse'
    BY <1>1, <2>1, <2>2 DEF KeepExecuting, SeekCourse
  <2> QED
    BY <2>1, <2>3
<1>9. CASE ~StepTaken(m_direction)
  <2>1. FinishSeek(SE + IC1)
    BY <1>9 DEF SeekStep
  <2>2. m_direction
    BY <1>4, <1>6, <1>7, <1>9, SMT
  <2>3. target = Cylinders - 1
    BY <1>4, <1>9, <2>2
  <2>4. floppyDrives'[floppyToApply].cylinder = Cylinders - 1
    BY <1>4, <1>5, <1>9, <2>3
  <2>5. wanted >= Cylinders
    BY <1>6, <1>7, <2>2, <2>3, FloppyAssumption, SMT
  <2> QED
    BY <2>1, <2>4, <2>5
<1> QED
  BY <1>8, <1>9

\* A step of a recalibrate always succeeds, and the steps taken and those still
\* needed stay together below the number of cylinders (command.cpp:176-210).
LEMMA RecalibrateStepped ==
  ASSUME HostIInv, ~quit, RecalibrateStep
  PROVE  \/ KeepExecuting /\ SeekCourse'
         \/ FinishRecalibrate(SE + EC) /\ MaxSteps + 1 < Cylinders
<1> DEFINE target == TargetDrive.cylinder
<1>1. /\ phase = "EXECUTION" /\ selectedCommand = "Recalibrate" /\ IsReady(TargetDrive)
      /\ target # 0 /\ StepHeadOf(floppyToApply, FALSE)
      /\ UNCHANGED floppyToApply /\ m_firstStep' = FALSE /\ stepCount' = StepsIssued + 1
  BY DEF RecalibrateStep, Executing
<1>2. floppyToApply \in Drives /\ TargetDrive \in Drive
  BY <1>1, WhileExecuting DEF SeekCommands
<1>3. stepRateTimer = 0 /\ m_firstStep \in BOOLEAN
  BY DEF HostIInv, IInv, TypeOK
<1>4. /\ target \in 0 .. Cylinders - 1
      /\ StepTaken(FALSE)
      /\ Stepped(TargetDrive, FALSE, StepTime, m_firstStep).cylinder = target - 1
  BY <1>1, <1>2, <1>3, ReadyDriveSteps DEF StepTaken, StepTime
<1>5. TargetDrive' = Stepped(TargetDrive, FALSE, StepTime, m_firstStep)
  BY <1>1, <1>2 DEF StepHeadOf, StepTime, TargetDrive, HostIInv, IInv, TypeOK
<1>6. StepsIssued + target < Cylinders /\ StepsIssued \in Nat
  BY <1>1 DEF HostIInv, SeekCourse, StepsIssued, IInv, TypeOK
<1>7. CASE StepsIssued = MaxSteps
  <2>1. FinishRecalibrate(SE + EC)
    BY <1>4, <1>7 DEF RecalibrateStep
  <2>2. MaxSteps + 1 < Cylinders
    BY <1>1, <1>4, <1>6, <1>7, FloppyAssumption, SMT
  <2> QED
    BY <2>1, <2>2
<1>8. CASE StepsIssued # MaxSteps
  <2>1. KeepExecuting
    BY <1>4, <1>8 DEF RecalibrateStep
  <2>2. StepsIssued' = StepsIssued + 1
    BY <1>1 DEF StepsIssued
  <2>3. TargetDrive'.cylinder = target - 1
    BY <1>4, <1>5
  <2>4. StepsIssued' + TargetDrive'.cylinder < Cylinders
    BY <1>4, <1>6, <2>2, <2>3, FloppyAssumption, SMT
  <2>5. SeekCourse'
    BY <1>1, <2>1, <2>4 DEF KeepExecuting, SeekCourse
  <2> QED
    BY <2>1, <2>5
<1> QED
  BY <1>7, <1>8

\* What a clock does to the stage: nothing, the end of a seek with its interrupt,
\* or the answer of READ ID.
ClockOutcome ==
  \/ /\ UNCHANGED <<Stage, selectedCommand, resultWordPos, writePos, quit>>
     /\ irq' = FALSE
  \/ /\ Stage = "execution" /\ Stage' = "idle" /\ UNCHANGED quit /\ irq' = TRUE
     /\ selectedCommand \in SeekCommands /\ selectedCommand' = "None"
  \/ /\ Stage = "execution" /\ Stage' = "result" /\ UNCHANGED quit /\ irq' = FALSE
     /\ selectedCommand = "ReadID" /\ selectedCommand' = "ReadID" /\ resultWordPos' = 0

\* A clock keeps the invariant and has one of these outcomes (fdc.cpp:117-127).
LEMMA HostClocked ==
  ASSUME HostIInv, HostClock
  PROVE  HostIInv' /\ ClockOutcome
<1>1. IInv' /\ ~quit /\ Clock /\ UNCHANGED <<seen, toSend>>
  BY Clocked DEF HostClock, HostIInv
<1>2. CASE Countdown
  <2>1. SameCommand
    BY <1>1, <1>2 DEF Countdown, SameCommand, latches, drives, status
  <2>2. DriverTypeOK' /\ StatusReadStaysTrue'
    BY <1>1, <1>2, StatusKept DEF Countdown, status
  <2>3. ClockOutcome
    BY <1>2 DEF ClockOutcome, Countdown, Stage, config, answer, latches
  <2> QED
    BY <1>1, <2>1, <2>2, <2>3, CommandUntouched DEF HostIInv
<1>3. ASSUME phase = "EXECUTION", selectedCommand \in SeekCommands, NEW st, Finish(st),
             UNCHANGED <<config, latches, quit>>
      PROVE  HostIInv' /\ ClockOutcome
  BY <1>1, <1>3, SeekDone DEF HostIInv, ClockOutcome
<1>4. ASSUME phase = "EXECUTION", selectedCommand \in SeekCommands, KeepExecuting,
             UNCHANGED <<config, answer, latches, floppyToApply, quit>>, SeekCourse'
      PROVE  HostIInv' /\ ClockOutcome
  BY <1>1, <1>4, SeekGoesOn DEF HostIInv, ClockOutcome, config, answer
<1>5. CASE SeekEnds
  BY <1>3, <1>5 DEF SeekEnds, Executing, SeekCommands, FinishSeek
<1>6. CASE SeekStep
  BY <1>1, <1>3, <1>4, <1>6, SeekStepped DEF SeekStep, Executing, SeekCommands, FinishSeek
<1>7. CASE RecalibrateEnds
  BY <1>3, <1>7 DEF RecalibrateEnds, Executing, SeekCommands, FinishRecalibrate
<1>8. CASE RecalibrateStep
  BY <1>1, <1>3, <1>4, <1>8, RecalibrateStepped
     DEF RecalibrateStep, Executing, SeekCommands, FinishRecalibrate
<1>9. CASE ExecReadID
  <2>1. /\ phase = "EXECUTION" /\ selectedCommand = "ReadID" /\ phase' = "RESULT"
        /\ irq' = FALSE
        /\ UNCHANGED <<selectedCommand, config, resultWordPos, seeking, quit, seen, toSend>>
    BY <1>1, <1>9 DEF ExecReadID, Executing, SwitchToResultMode
  <2>2. /\ Stage = "execution" /\ resultWordPos' = 0 /\ toSend' = 0 /\ writePos' = 0
        /\ seen' = "nothing"
    BY <1>1, <2>1, WhileExecuting DEF config
  <2>3. Stage' = "result"
    BY <1>1, <2>1 DEF Stage
  <2>4. ClockOutcome
    BY <2>1, <2>2, <2>3 DEF ClockOutcome
  <2>5. DriverTypeOK' /\ StatusReadStaysTrue' /\ HostInStep'
    BY <2>2, <2>3 DEF DriverTypeOK, StatusReadStaysTrue, HostInStep
  <2>6. seeking' = {}
    <3>1. ~busy
      BY <2>1 DEF HostIInv, IInv, BusyIsSeek, SeekCommands
    <3> QED
      BY <2>1, <3>1 DEF HostIInv, SeekMarkIsRight
  <2>7. SeekMarkIsRight' /\ SeekTarget' /\ SeekCourse'
    BY <2>1, <2>6 DEF SeekMarkIsRight, SeekTarget, SeekCourse
  <2> QED
    BY <1>1, <2>4, <2>5, <2>7 DEF HostIInv
<1> QED
  BY <1>1, <1>2, <1>5, <1>6, <1>7, <1>8, <1>9 DEF Clock

-----------------------------------------------------------------------------
(* The drives and the wall clock.                                          *)

\* A step in which only the drives change, and no head moves.
LEMMA OnlyDrivesChange ==
  ASSUME HostIInv, ~quit, IInv',
         UNCHANGED <<phase, selectedCommand, config, status, latches, seek, quit, seen,
                     toSend>>,
         \A d \in Drives : floppyDrives'[d].cylinder = floppyDrives[d].cylinder
  PROVE  HostIInv'
<1>1. SameCommand
  BY DEF SameCommand, status, latches
<1>2. DriverTypeOK' /\ StatusReadStaysTrue'
  BY StatusKept DEF status
<1> QED
  BY <1>1, <1>2, CommandUntouched DEF HostIInv

\* Selecting and deselecting, motors, disks and delays move no head
\* (floppy.cpp:60-163).
LEMMA HeadsStay ==
  ASSUME NEW drive \in Drive, NEW b
  PROVE  /\ Open(drive, b).cylinder = drive.cylinder
         /\ SetMotorSpinning(drive, b).cylinder = drive.cylinder
         /\ Select(drive).cylinder = drive.cylinder
         /\ Unselect(drive).cylinder = drive.cylinder
         /\ [drive EXCEPT !.headLoadElapsed = TRUE].cylinder = drive.cylinder
         /\ [drive EXCEPT !.motorStartElapsed = TRUE].cylinder = drive.cylinder
BY SMT DEF Drive, Open, SetMotorSpinning, MotorOn, MotorOff, Select, LoadHeads, Unselect

\* A write of the output register leaves driver and controller in step.
LEMMA DrivesControlled ==
  ASSUME HostIInv, ~quit, ControlDrives
  PROVE  HostIInv'
<1>1. PICK data \in DORBytes : WriteDOR(data) /\ UNCHANGED <<seen, toSend>>
  BY DEF ControlDrives
<1> DEFINE d == DriveOf(data)
           spun == Motors(data)
           chosen == [spun EXCEPT ![d] = Select(@)]
<1>2. data \in Byte /\ IInv
  BY FDCAssumption DEF HostIInv
<1>3. IInv'
  BY <1>1, <1>2, OutputRegisterWritten
<1>4. floppyDrives' \in {spun, UnselectPrevious(chosen)}
  BY <1>1 DEF WriteDOR
<1>5. /\ floppyDrives \in [Drives -> Drive]
      /\ d \in Drives /\ \A e \in Drives : Bit(data, 4 + e) \in BOOLEAN
  BY <1>2, WordFields DEF IInv, TypeOK, Bit
<1>6. /\ spun \in [Drives -> Drive]
      /\ \A e \in Drives : spun[e].cylinder = floppyDrives[e].cylinder
  BY <1>5, DriveOperations, HeadsStay DEF Motors
<1> HIDE DEF spun
<1>7. /\ chosen \in [Drives -> Drive]
      /\ \A e \in Drives : chosen[e].cylinder = floppyDrives[e].cylinder
  BY <1>5, <1>6, DriveOperations, HeadsStay
<1> HIDE DEF chosen
<1>8. \A e \in Drives : UnselectPrevious(chosen)[e].cylinder = floppyDrives[e].cylinder
  BY <1>7, HeadsStay DEF UnselectPrevious
<1>9. \A e \in Drives : floppyDrives'[e].cylinder = floppyDrives[e].cylinder
  BY <1>4, <1>6, <1>8
<1> QED
  BY <1>1, <1>3, <1>9, OnlyDrivesChange DEF WriteDOR

\* Disks put in and taken out and delays that end move no head, and change nothing
\* but the drives.
LEMMA OutsideMovesNoHead ==
  ASSUME HostIInv, Environment
  PROVE  /\ OtherThanDrives
         /\ \A e \in Drives : floppyDrives'[e].cylinder = floppyDrives[e].cylinder
<1>1. floppyDrives \in [Drives -> Drive]
  BY DEF HostIInv, IInv, TypeOK
<1>2. OtherThanDrives
  BY DEF Environment, OpenImage, WallClock, HeadLoadDelayEnds, MotorStartDelayEnds
<1>3. ASSUME NEW d \in Loadable, NEW opened \in BOOLEAN, OpenImage(d, opened),
             NEW e \in Drives
      PROVE  floppyDrives'[e].cylinder = floppyDrives[e].cylinder
  BY <1>1, <1>3, HeadsStay DEF OpenImage
<1>4. ASSUME NEW d \in Drives, WallClock(d), NEW e \in Drives
      PROVE  floppyDrives'[e].cylinder = floppyDrives[e].cylinder
  <2>1. CASE HeadLoadDelayEnds(d)
    BY <1>1, <2>1, HeadsStay DEF HeadLoadDelayEnds
  <2>2. CASE MotorStartDelayEnds(d)
    BY <1>1, <2>2, HeadsStay DEF MotorStartDelayEnds
  <2> QED
    BY <1>4, <2>1, <2>2 DEF WallClock
<1> QED
  BY <1>2, <1>3, <1>4 DEF Environment

\* So they too leave driver and controller in step.
LEMMA OutsideMoves ==
  ASSUME HostIInv, ~quit, Environment, UNCHANGED <<seen, toSend>>
  PROVE  HostIInv'
<1>1. IInv'
  BY OutsideChanged DEF HostIInv
<1> QED
  BY <1>1, OutsideMovesNoHead, OnlyDrivesChange DEF OtherThanDrives

-----------------------------------------------------------------------------
(* The theorems.                                                           *)

\* Every access of the driver, every clock, and everything outside keep driver and
\* controller in step.
THEOREM HostNextIInv == HostIInv /\ [HostNext]_hostVars => HostIInv'
<1> SUFFICES ASSUME HostIInv, [HostNext]_hostVars PROVE HostIInv'
  OBVIOUS
<1>1. IInv'
  BY HostStepIsStep, NextIInv DEF HostIInv
<1>2. ASSUME ~quit, NEW b \in Byte, Send(b) PROVE HostIInv'
  BY <1>1, <1>2, WordCounted, WordMarks DEF HostIInv
<1>3. ASSUME ~quit, HostAccess PROVE HostIInv'
  <2>1. ASSUME NEW b \in CommandBytes, SendCommand(b) PROVE HostIInv'
    BY <1>2, <1>3, <2>1, HostAssumption, FDCAssumption DEF Send
  <2>2. ASSUME NEW b \in ParameterBytes, SendParameter(b) PROVE HostIInv'
    BY <1>2, <1>3, <2>2, HostAssumption, FDCAssumption DEF Send
  <2> QED
    BY <1>3, <2>1, <2>2, StatusPolled, ResultFetched DEF HostAccess
<1>4. CASE UNCHANGED hostVars
  <2>1. SameCommand /\ UNCHANGED <<phase, selectedCommand, dio, busy, latches, seen, toSend>>
    BY <1>4 DEF hostVars, vars, SameCommand, config, status, latches, seek, drives
  <2> QED
    BY <1>1, <2>1, CommandUntouched, StatusKept DEF HostIInv
<1> QED
  BY <1>3, <1>4, HostClocked, DrivesControlled, OutsideMoves DEF HostNext

\* The invariant holds in every state a documented driver can bring about.
THEOREM HostInvariance == HostSpec => []HostIInv
BY HostInitIInv, HostNextIInv, PTL DEF HostSpec

\* What the driver read stays true until it acts on it.
THEOREM ReadStatusIsTrusted == HostSpec => []StatusReadStaysTrue
<1>1. HostIInv => StatusReadStaysTrue
  BY DEF HostIInv
<1> QED
  BY <1>1, HostInvariance, PTL

\* Driver and controller count the same words.
THEOREM WordsInStep == HostSpec => []HostInStep
<1>1. HostIInv => HostInStep
  BY DEF HostIInv
<1> QED
  BY <1>1, HostInvariance, PTL

\* The one drive marked as seeking is the one the command names.
THEOREM MarksAreRight == HostSpec => []SeekMarkIsRight
<1>1. HostIInv => SeekMarkIsRight
  BY DEF HostIInv
<1> QED
  BY <1>1, HostInvariance, PTL

-----------------------------------------------------------------------------
(* What the end of a seek tells the driver.                                *)

\* Line IR6 is asserted by the clocks of the two seek commands alone.
LEMMA OnlySeeksInterrupt ==
  ASSUME HostIInv, HostNext, irq'
  PROVE  ~quit /\ (SeekEnds \/ SeekStep \/ RecalibrateEnds \/ RecalibrateStep)
<1>1. ASSUME NEW b \in Byte, WriteDataRegister(b) PROVE ~irq'
  BY <1>1, NoWordInResult DEF StoreWord, HostIInv
<1>2. ~HostAccess
  <2>1. ASSUME NEW b \in CommandBytes PROVE ~SendCommand(b)
    BY <1>1, HostAssumption, FDCAssumption DEF SendCommand
  <2>2. ASSUME NEW b \in ParameterBytes PROVE ~SendParameter(b)
    BY <1>1, HostAssumption, FDCAssumption DEF SendParameter
  <2>3. ~(ReadStatusRegister \/ ReadDuringReadData \/ ReadResultWord \/ ReadLastResultWord)
    BY DEF ReadStatusRegister, ReadDuringReadData, ReadResultWord, ReadLastResultWord
  <2> QED
    BY <2>1, <2>2, <2>3 DEF HostAccess, PollStatus, PollCaptured, FetchResult
<1>3. ~ControlDrives
  BY DEF ControlDrives, WriteDOR
<1>4. ~Environment
  BY DEF Environment, OpenImage, WallClock, HeadLoadDelayEnds, MotorStartDelayEnds,
         OtherThanDrives
<1>5. HostClock
  BY <1>2, <1>3, <1>4 DEF HostNext
<1> QED
  BY <1>5 DEF HostClock, Clock, Countdown, ExecReadID

\* The flags the driver finds in ST0, the unit taken away, are those of the end.
LEMMA FlagsReported ==
  ASSUME HostIInv, NEW flags \in EndFlags, FinishSeek(flags) \/ FinishRecalibrate(flags)
  PROVE  STRegisters'[0] - UnitOf(configurationDatas[1]) = flags
<1>1. UnitOf(configurationDatas[1]) \in 0 .. 7
  BY WordFields DEF HostIInv, IInv, TypeOK
<1>2. flags \in Nat
  BY DEF EndFlags, NR, IC1, IC2, SE, EC
<1>3. STRegisters \in [0 .. 2 -> Byte]
  BY DEF HostIInv, IInv, TypeOK
<1>4. STRegisters'[0] = flags + UnitOf(configurationDatas[1])
  BY <1>3 DEF FinishSeek, FinishRecalibrate, Finish
<1> QED
  BY <1>1, <1>2, <1>4, SMT

\* A seek that ends says truly where the head is.
TruthfulEnd ==
  irq' /\ selectedCommand = "Seek" =>
    LET flags    == STRegisters'[0] - UnitOf(configurationDatas[1])
        cylinder == floppyDrives'[DriveOf(configurationDatas[1])].cylinder
    IN  \/ flags = NR + IC1 + IC2
        \/ flags = SE /\ cylinder = configurationDatas[2]
        \/ /\ flags = SE + IC1
           /\ cylinder = Cylinders - 1 /\ configurationDatas[2] >= Cylinders

\* So does every step that ends one.
THEOREM NextTruthful == HostIInv /\ [HostNext]_hostVars => [TruthfulEnd]_hostVars
<1> SUFFICES ASSUME HostIInv, HostNext, irq', selectedCommand = "Seek"
             PROVE  TruthfulEnd
  BY DEF TruthfulEnd
<1> DEFINE flags == STRegisters'[0] - UnitOf(configurationDatas[1])
           cylinder == floppyDrives'[DriveOf(configurationDatas[1])].cylinder
<1>1. ~quit /\ phase = "EXECUTION" /\ (SeekEnds \/ SeekStep)
  BY OnlySeeksInterrupt DEF SeekEnds, SeekStep, RecalibrateEnds, RecalibrateStep, Executing
<1>2. floppyToApply = DriveOf(configurationDatas[1])
  BY <1>1, WhileExecuting DEF SeekCommands
<1>3. \A f : FinishSeek(f) /\ f \in EndFlags => flags = f
  BY FlagsReported
<1>4. CASE SeekEnds
  <2>1. \/ FinishSeek(NR + IC1 + IC2)
        \/ FinishSeek(SE) /\ cylinder = configurationDatas[2]
    BY <1>2, <1>4 DEF SeekEnds, TargetDrive, drives
  <2> QED
    BY <1>3, <2>1 DEF EndFlags, TruthfulEnd
<1>5. CASE SeekStep
  <2>1. ~KeepExecuting
    BY DEF KeepExecuting
  <2>2. /\ FinishSeek(SE + IC1) /\ cylinder = Cylinders - 1
        /\ configurationDatas[2] >= Cylinders
    BY <1>1, <1>2, <1>5, <2>1, SeekStepped
  <2> QED
    BY <1>3, <2>2 DEF EndFlags, TruthfulEnd
<1> QED
  BY <1>1, <1>4, <1>5

\* A seek never gives up on the way to a cylinder the drive has.
THEOREM SeeksEndTruthfully == HostSpec => SeekEndIsTruthful
BY HostInitIInv, HostNextIInv, NextTruthful, PTL
   DEF HostSpec, SeekEndIsTruthful, TruthfulEnd

\* A recalibrate that ends was on a drive not ready, or has found track 0.
Track0Found ==
  irq' /\ selectedCommand = "Recalibrate" =>
    LET flags    == STRegisters'[0] - UnitOf(configurationDatas[1])
        cylinder == floppyDrives'[DriveOf(configurationDatas[1])].cylinder
    IN  flags = NR + IC1 + IC2 \/ (flags = SE /\ cylinder = 0)

\* The steps a recalibrate may take, 77, suffice for the 40 cylinders of the drive:
\* the other end of the command, out of steps, is never reached (command.cpp:201).
THEOREM NextTrack0 ==
  ASSUME MaxSteps >= Cylinders - 1
  PROVE  HostIInv /\ [HostNext]_hostVars => [Track0Found]_hostVars
<1> SUFFICES ASSUME HostIInv, HostNext, irq', selectedCommand = "Recalibrate"
             PROVE  Track0Found
  BY DEF Track0Found
<1> DEFINE flags == STRegisters'[0] - UnitOf(configurationDatas[1])
           cylinder == floppyDrives'[DriveOf(configurationDatas[1])].cylinder
<1>1. ~quit /\ phase = "EXECUTION" /\ (RecalibrateEnds \/ RecalibrateStep)
  BY OnlySeeksInterrupt DEF SeekEnds, SeekStep, RecalibrateEnds, RecalibrateStep, Executing
<1>2. floppyToApply = DriveOf(configurationDatas[1])
  BY <1>1, WhileExecuting DEF SeekCommands
<1>3. ~RecalibrateStep
  <2>1. ~KeepExecuting
    BY DEF KeepExecuting
  <2>2. ~(MaxSteps + 1 < Cylinders)
    BY FloppyAssumption, FDCAssumption, SMT
  <2> QED
    BY <1>1, <2>1, <2>2, RecalibrateStepped
<1>4. \/ FinishRecalibrate(NR + IC1 + IC2)
      \/ FinishRecalibrate(SE) /\ cylinder = 0
  BY <1>1, <1>2, <1>3 DEF RecalibrateEnds, TargetDrive, drives
<1> QED
  BY <1>4, FlagsReported DEF EndFlags, Track0Found

\* A recalibrate finds track 0 whatever cylinder it starts from.
THEOREM RecalibratesFindTrack0 ==
  ASSUME MaxSteps >= Cylinders - 1
  PROVE  HostSpec => RecalibrateFindsTrack0
BY HostInitIInv, HostNextIInv, NextTrack0, PTL
   DEF HostSpec, RecalibrateFindsTrack0, Track0Found

-----------------------------------------------------------------------------
(* The controller, used this way, takes the steps of FDCProtocol.          *)

\* A word the driver writes begins a command of the protocol or continues one.
LEMMA WordRefines ==
  ASSUME HostIInv, ~quit, NEW b \in Byte, Send(b)
  PROVE  Protocol!ProtocolNext
<1>1. PICK c : StoreWord(b, c) /\ Outcome(c)
  BY WordOutcome
<1>2. /\ c \in Commands /\ toSend' \in 0 .. 8 /\ writePos \in 0 .. 8 /\ irq' = FALSE
      /\ toSend' + writePos + 1 = ConfigurationWords(c)
      /\ writePos' = IF toSend' = 0 THEN 0 ELSE writePos + 1
      /\ \/ Stage = "idle" /\ selectedCommand = "None" /\ writePos = 0
         \/ Stage = "configuration" /\ selectedCommand = c
  BY <1>1, WordExpected DEF StoreWord, HostIInv, IInv, TypeOK
<1>3. Protocol!Receive(c, toSend' + 1)
  <2>1. CASE writePos' # 0
    <3>1. /\ Stage' = "configuration" /\ selectedCommand' = c /\ quit' = FALSE
          /\ toSend' > 0 /\ ConfigurationWords(c) - writePos' = toSend'
      BY <1>1, <1>2, <2>1 DEF Outcome
    <3>2. WordsLeft' = toSend'
      BY <3>1 DEF WordsLeft
    <3>3. toSend' \in Nat /\ toSend' > 0
      BY <1>2, <3>1
    <3>4. toSend' + 1 > 1 /\ (toSend' + 1) - 1 = toSend'
      <4>1. \A n \in Nat : n > 0 => n + 1 > 1 /\ (n + 1) - 1 = n
        BY SMT
      <4> QED
        BY <3>3, <4>1
    <3>5. Protocol!At("configuration", c, (toSend' + 1) - 1, FALSE)
      BY <1>2, <3>1, <3>2, <3>4 DEF Protocol!At
    <3> QED
      BY <3>4, <3>5 DEF Protocol!Receive
  <2>2. CASE writePos' = 0
    <3>1. ~(toSend' + 1 > 1)
      <4>1. toSend' \in Nat /\ writePos \in Nat
        BY <1>2
      <4>2. toSend' = 0
        BY <1>2, <2>2, <4>1
      <4> QED
        BY <4>2
    <3>2. Protocol!Configured(c)
      <4>1. CASE Stage' = "stopped"
        <5>1. quit' /\ WordsLeft' = 0
          BY <4>1 DEF Stage, WordsLeft
        <5> QED
          BY <1>2, <4>1, <5>1 DEF Protocol!Configured, Protocol!At
      <4>2. CASE /\ Stage' = "execution" /\ selectedCommand' = c /\ quit' = FALSE
                 /\ c \in ExecutingCommands
        <5>1. WordsLeft' = 0
          BY <4>2 DEF WordsLeft
        <5>2. c \in SeekCommands \cup {"ReadID"} \cup {"BaseCommand"}
          BY <4>2 DEF ExecutingCommands
        <5> QED
          BY <1>2, <4>2, <5>1, <5>2 DEF Protocol!Configured, Protocol!At
      <4>3. CASE /\ Stage' = "captured" /\ selectedCommand' = c /\ quit' = FALSE
                 /\ c = "ReadData"
        <5>1. WordsLeft' = 0
          BY <4>3 DEF WordsLeft
        <5> QED
          BY <1>2, <4>3, <5>1 DEF Protocol!Configured, Protocol!At
      <4>4. CASE /\ Stage' = "idle" /\ selectedCommand' = "None" /\ quit' = FALSE
                 /\ c = "Specify"
        <5>1. WordsLeft' = 0
          BY <4>4 DEF WordsLeft
        <5> QED
          BY <1>2, <4>4, <5>1 DEF Protocol!Configured, Protocol!At
      <4>5. CASE /\ Stage' = "result" /\ selectedCommand' = c /\ quit' = FALSE
                 /\ resultWordPos' = 0 /\ c \in AnsweringCommands \ {"ReadID"}
        <5>1. ResultWords(c) \in Nat
          BY <4>5, CommandTable
        <5>2. WordsLeft' = ResultWords(c)
          BY <4>5, <5>1 DEF WordsLeft
        <5> QED
          BY <1>2, <4>5, <5>2 DEF Protocol!Configured, Protocol!At
      <4> QED
        BY <1>1, <2>2, <4>1, <4>2, <4>3, <4>4, <4>5 DEF Outcome
    <3> QED
      BY <3>1, <3>2 DEF Protocol!Receive
  <2> QED
    BY <2>1, <2>2
<1>4. CASE Stage = "idle" /\ writePos = 0
  <2>1. toSend' + 1 = ConfigurationWords(c)
    BY <1>2, <1>4
  <2>2. c \in Protocol!AllCommands
    BY <1>2 DEF Protocol!AllCommands, Commands, SeekCommands, AnsweringCommands
  <2>3. Protocol!Begin
    BY <1>3, <1>4, <2>1, <2>2 DEF Protocol!Begin
  <2> QED
    BY <2>3 DEF Protocol!ProtocolNext
<1>5. CASE Stage = "configuration" /\ selectedCommand = c
  <2>1. WordsLeft = toSend' + 1
    BY <1>2, <1>5 DEF WordsLeft
  <2>2. Protocol!Continue
    BY <1>3, <1>5, <2>1 DEF Protocol!Continue
  <2> QED
    BY <2>2 DEF Protocol!ProtocolNext
<1> QED
  BY <1>2, <1>4, <1>5

\* A step that leaves stage, command and positions alone withdraws the interrupt.
LEMMA OtherwiseWithdraws ==
  ASSUME UNCHANGED <<Stage, selectedCommand, writePos, resultWordPos, quit>>, irq' = FALSE
  PROVE  Protocol!ProtocolNext
<1>1. WordsLeft' = WordsLeft
  BY DEF WordsLeft
<1>2. Protocol!Withdraw
  BY <1>1 DEF Protocol!Withdraw, Protocol!At
<1> QED
  BY <1>2 DEF Protocol!ProtocolNext

\* The controller begins as the protocol does.
THEOREM ProtocolBegins == HostInit => Protocol!ProtocolInit
<1> SUFFICES ASSUME HostInit PROVE Protocol!ProtocolInit
  OBVIOUS
<1>1. Stage = "idle"
  BY DEF HostInit, Init, Stage
<1>2. WordsLeft = 0
  BY <1>1 DEF WordsLeft
<1> QED
  BY <1>1, <1>2 DEF HostInit, Init, Protocol!ProtocolInit

\* Every step of controller and driver is a step of the protocol or leaves it alone.
THEOREM ProtocolSteps ==
  HostIInv /\ [HostNext]_hostVars => [Protocol!ProtocolNext]_(Protocol!pvars)
<1> SUFFICES ASSUME HostIInv, [HostNext]_hostVars
             PROVE  [Protocol!ProtocolNext]_(Protocol!pvars)
  OBVIOUS
<1>1. ASSUME ~quit, HostAccess PROVE Protocol!ProtocolNext
  <2>1. ASSUME NEW b \in CommandBytes, SendCommand(b) PROVE Protocol!ProtocolNext
    BY <1>1, <2>1, HostAssumption, FDCAssumption, WordRefines DEF Send
  <2>2. ASSUME NEW b \in ParameterBytes, SendParameter(b) PROVE Protocol!ProtocolNext
    BY <1>1, <2>2, HostAssumption, FDCAssumption, WordRefines DEF Send
  <2>3. CASE PollStatus \/ PollCaptured
    <3>1. /\ UNCHANGED <<phase, selectedCommand, readCommandInProcess, writePos,
                         resultWordPos, quit>>
          /\ irq' = FALSE
      BY <2>3 DEF PollStatus, PollCaptured, ReadStatusRegister, ReadDuringReadData, config,
                  answer, latches
    <3>2. Stage' = Stage
      BY <3>1 DEF Stage
    <3> QED
      BY <3>1, <3>2, OtherwiseWithdraws
  <2>4. CASE FetchResult
    <3>1. irq' = FALSE
      BY <2>4 DEF FetchResult, ReadResultWord, ReadLastResultWord
    <3>2. /\ Stage = "result" /\ resultWordPos \in Nat
          /\ ResultWords(selectedCommand) \in 1 .. 7
      BY <1>1, <2>4, ResultFetched
    <3>3. WordsLeft = ResultWords(selectedCommand) - resultWordPos
      BY <3>2 DEF WordsLeft
    <3>4. CASE /\ resultWordPos + 1 < ResultWords(selectedCommand)
               /\ UNCHANGED <<Stage, selectedCommand, quit>>
               /\ resultWordPos' = resultWordPos + 1
      <4>1. WordsLeft' = ResultWords(selectedCommand) - (resultWordPos + 1)
        BY <3>2, <3>4 DEF WordsLeft
      <4>2. WordsLeft > 1 /\ WordsLeft' = WordsLeft - 1
        BY <3>2, <3>3, <3>4, <4>1
      <4> QED
        BY <3>1, <3>2, <3>4, <4>2
           DEF Protocol!ProtocolNext, Protocol!ReadAnswer, Protocol!At
    <3>5. CASE /\ resultWordPos + 1 = ResultWords(selectedCommand)
               /\ Stage' = "idle" /\ selectedCommand' = "None" /\ UNCHANGED quit
      <4>1. WordsLeft' = 0
        BY <3>5 DEF WordsLeft
      <4>2. ~(WordsLeft > 1)
        BY <3>2, <3>3, <3>5
      <4> QED
        BY <1>1, <3>1, <3>2, <3>5, <4>1, <4>2
           DEF Protocol!ProtocolNext, Protocol!ReadAnswer, Protocol!At
    <3> QED
      BY <1>1, <2>4, <3>4, <3>5, ResultFetched
  <2> QED
    BY <1>1, <2>1, <2>2, <2>3, <2>4 DEF HostAccess
<1>2. ASSUME HostClock PROVE Protocol!ProtocolNext
  <2>1. ClockOutcome /\ ~quit
    BY <1>2, HostClocked DEF HostClock
  <2>2. CASE /\ UNCHANGED <<Stage, selectedCommand, resultWordPos, writePos, quit>>
             /\ irq' = FALSE
    BY <2>2, OtherwiseWithdraws
  <2>3. CASE /\ Stage = "execution" /\ Stage' = "idle" /\ UNCHANGED quit /\ irq' = TRUE
             /\ selectedCommand \in SeekCommands /\ selectedCommand' = "None"
    <3>1. WordsLeft' = 0
      BY <2>3 DEF WordsLeft
    <3> QED
      BY <2>1, <2>3, <3>1 DEF Protocol!ProtocolNext, Protocol!EndSeek, Protocol!At
  <2>4. CASE /\ Stage = "execution" /\ Stage' = "result" /\ UNCHANGED quit /\ irq' = FALSE
             /\ selectedCommand = "ReadID" /\ selectedCommand' = "ReadID"
             /\ resultWordPos' = 0
    <3>1. ResultWords("ReadID") \in Nat
      BY CommandTable DEF AnsweringCommands
    <3>2. WordsLeft' = ResultWords("ReadID")
      BY <2>4, <3>1 DEF WordsLeft
    <3> QED
      BY <2>1, <2>4, <3>2 DEF Protocol!ProtocolNext, Protocol!EndIdentify, Protocol!At
  <2> QED
    BY <2>1, <2>2, <2>3, <2>4 DEF ClockOutcome
<1>3. ASSUME ControlDrives \/ Environment PROVE Protocol!ProtocolNext
  <2>1. /\ UNCHANGED <<phase, selectedCommand, readCommandInProcess, writePos,
                       resultWordPos, quit>>
        /\ irq' = FALSE
    BY <1>3 DEF ControlDrives, WriteDOR, Environment, OpenImage, WallClock,
                HeadLoadDelayEnds, MotorStartDelayEnds, OtherThanDrives, config, answer,
                latches
  <2>2. Stage' = Stage
    BY <2>1 DEF Stage
  <2> QED
    BY <2>1, <2>2, OtherwiseWithdraws
<1>4. CASE UNCHANGED hostVars
  <2>1. UNCHANGED <<Stage, WordsLeft, quit, selectedCommand, irq>>
    BY <1>4 DEF hostVars, vars, config, answer, latches, Stage, WordsLeft
  <2> QED
    BY <2>1 DEF Protocol!pvars
<1> QED
  BY <1>1, <1>2, <1>3, <1>4 DEF HostNext

\* Controller and driver keep the promise of FDCProtocol, but for its liveness.
THEOREM KeepsProtocol == HostSpec => Protocol!ProtocolSafety
BY HostInvariance, ProtocolBegins, ProtocolSteps, PTL DEF HostSpec, Protocol!ProtocolSafety
=============================================================================
