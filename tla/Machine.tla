------------------------------- MODULE Machine --------------------------------
(***************************************************************************)
(* The whole machine running the repository's test program: test/bios.s    *)
(* initialises the interrupt controller, enables interrupts, turns on      *)
(* motor 0, and gives the floppy controller a SPECIFY and a SEEK; the      *)
(* handler int6 of test/interrupts.s asks what ended and ends its          *)
(* interrupt.  Their macros read the status register before each access    *)
(* and ignore what they read.                                              *)
(*                                                                         *)
(* The controllers and the processor are those of FDC and Service: an      *)
(* instruction of the program is an action of one of them, chosen by the   *)
(* port it addresses.  As in Service the check of the latch that follows   *)
(* an instruction is a step of its own with nothing in between, and the    *)
(* look a halted processor takes at an empty latch is no step at all.      *)
(***************************************************************************)
EXTENDS FDCHost, Ports

CONSTANT SeekTargets    \* cylinders bios.s may be assembled with, {150} in the file

\* The bytes the program sends are among those that FDCHost's driver may send.
ASSUME MachineAssumption ==
  /\ {3, 15, 8} \subseteq CommandBytes
  /\ {191, 2, 0} \cup SeekTargets \subseteq ParameterBytes
  /\ 16 \in DORBytes

VARIABLES
  ISR, IMR, priorities, IRLineWithPriority0, initStatus, singleMode,
  firstInterruptVector, autoEOI, specialFullyNestedMode, nextRegisterToRead,
  intr, intr_v, picQuit,
  INTF, hlt, frames, checking, lost,
  target,      \* the cylinder of SEEK
  at,          \* CS:IP, as a routine and a position in it
  returns,     \* where the interrupted routines go on
  AL, DX,
  fetched      \* the words of answers the program has read

S == INSTANCE Service WITH
  quit      <- picQuit,
  Bytes0    <- {19, 32},
  Bytes1    <- {176, 1},
  Sources   <- {6},
  Vectors   <- {},
  MaxFrames <- 2,
  MaxLost   <- 1

interruptController ==
  <<ISR, IMR, priorities, IRLineWithPriority0, initStatus, singleMode,
    firstInterruptVector, autoEOI, specialFullyNestedMode, nextRegisterToRead,
    intr, intr_v, picQuit>>
service == <<interruptController, INTF, hlt, frames, checking, lost>>
program == <<target, at, returns, AL, DX, fetched>>
machineVars == <<hostVars, service, program>>

Stopped == quit \/ picQuit

-----------------------------------------------------------------------------
(* The program: the macros of test/util.inc and the two files.             *)

Op(name) == <<[op |-> name, n |-> 0]>>
MovAX(n) == <<[op |-> "MOV AX", n |-> n]>>
MovDX(n) == <<[op |-> "MOV DX", n |-> n]>>

\* Mutant: a word is sent without reading the status.
FDC_COMMANDBlind(b) == MovDX(1013) \o MovAX(b) \o Op("OUT")

FDC_COMMAND(b) == MovDX(1012) \o Op("IN") \o MovDX(1013) \o MovAX(b) \o Op("OUT")
FDC_RESULT == MovDX(1012) \o Op("IN") \o MovDX(1013) \o Op("IN")

SEEK(drive, cylinder) == FDC_COMMAND(15) \o FDC_COMMAND(drive) \o FDC_COMMAND(cylinder)
SPECIFY(hut, srt, hlt_) ==
  FDC_COMMAND(3) \o FDC_COMMAND(16 * srt + (hut % 16)) \o FDC_COMMAND(2 * hlt_)
SENSE_IT_STATUS == FDC_COMMAND(8) \o FDC_RESULT \o FDC_RESULT

InitPIC == MovDX(32) \o MovAX(19) \o Op("OUT")
           \o MovDX(33) \o MovAX(176) \o Op("OUT") \o MovAX(1) \o Op("OUT")

\* Mutant: a second seek is issued without waiting for the first.
BiosSeeksTwice(cylinder) ==
  Op("XCHG") \o InitPIC \o Op("STI") \o MovDX(1010) \o MovAX(16) \o Op("OUT")
  \o SPECIFY(15, 11, 1) \o SEEK(0, cylinder) \o SEEK(0, 0)
  \o Op("HLT") \o Op("JMP")

\* Mutant: interrupts are never enabled.
BiosWithoutSTI(cylinder) ==
  Op("XCHG") \o InitPIC \o MovDX(1010) \o MovAX(16) \o Op("OUT")
  \o SPECIFY(15, 11, 1) \o SEEK(0, cylinder)
  \o Op("HLT") \o Op("JMP")

Bios(cylinder) ==
  Op("XCHG") \o InitPIC \o Op("STI") \o MovDX(1010) \o MovAX(16) \o Op("OUT")
  \o SPECIFY(15, 11, 1) \o SEEK(0, cylinder)
  \o Op("HLT") \o Op("JMP")

Handler == SENSE_IT_STATUS \o MovAX(32) \o MovDX(32) \o Op("OUT") \o Op("IRET")

\* The four files, assembled.
Text == [c \in SeekTargets |-> [jmp    |-> Op("JMP FAR"),
                                bios   |-> Bios(c),
                                intDef |-> Op("IRET"),
                                int6   |-> Handler]]

Instr == Text[target][at.routine][at.i]

\* The vectors 0xB0 to 0xB6 of the table; the others lead to the table itself.
Vector(v) == CASE v \in 176 .. 181 -> "intDef"
               [] v = 182          -> "int6"
               [] OTHER            -> "table"

MachineInit ==
  /\ HostInit
  /\ S!ServiceInit
  /\ target \in SeekTargets
  /\ at = [routine |-> "jmp", i |-> 1] /\ returns = <<>>
  /\ AL = 0 /\ DX = 0 /\ fetched = <<>>

-----------------------------------------------------------------------------
(* Instructions that use no port.                                          *)

Executes(ops) == ~Stopped /\ ~hlt /\ Instr.op \in ops

Proceed == at' = [at EXCEPT !.i = @ + 1]

MOV ==
  /\ Executes({"MOV AX", "MOV DX", "XCHG"})
  /\ AL' = IF Instr.op = "MOV AX" THEN Instr.n % 256 ELSE AL
  /\ DX' = IF Instr.op = "MOV DX" THEN Instr.n ELSE DX
  /\ Proceed
  /\ S!OtherInstruction
  /\ UNCHANGED <<hostVars, target, returns, fetched>>

JMP ==
  /\ Executes({"JMP", "JMP FAR"})
  /\ at' = IF Instr.op = "JMP" THEN [at EXCEPT !.i = @ - 1]
                               ELSE [routine |-> "bios", i |-> 1]
  /\ S!OtherInstruction
  /\ UNCHANGED <<hostVars, target, returns, AL, DX, fetched>>

SetInterruptFlagOrHalt ==
  /\ \/ Executes({"STI"}) /\ S!STI
     \/ Executes({"HLT"}) /\ S!HLT
  /\ Proceed
  /\ UNCHANGED <<hostVars, target, returns, AL, DX, fetched>>

\* Whether or not the handler has ended its interrupt.
IRET ==
  /\ Executes({"IRET"}) /\ S!Executes
  /\ frames # <<>>
  /\ INTF' = S!Running.INTF
  /\ frames' = SubSeq(frames, 1, Len(frames) - 1)
  /\ at' = returns[Len(returns)]
  /\ returns' = SubSeq(returns, 1, Len(returns) - 1)
  /\ UNCHANGED <<hostVars, interruptController, hlt, target, AL, DX, fetched>>

-----------------------------------------------------------------------------
(* IN and OUT.  The program reads no component but the floppy controller.  *)

B(bit, weight) == IF bit THEN weight ELSE 0

StatusRegister ==
  B(rqm, 128) + B(dio, 64) + B(busy, 16)
  + B(0 \in seeking, 1) + B(1 \in seeking, 2) + B(2 \in seeking, 4) + B(3 \in seeking, 8)

\* A refused read returns nothing defined; it still ends what the status allowed.
ReadAnswer ==
  /\ IF AllowsReading
     THEN /\ ReadResultWord \/ ReadLastResultWord
          /\ AL' = resultDatas[resultWordPos + 1]
     ELSE /\ UNCHANGED vars
          /\ AL' = AL
  /\ fetched' = Append(fetched, AL')
  /\ seen' = "nothing"
  /\ UNCHANGED toSend

Input ==
  /\ Executes({"IN"})
  /\ ComponentAt(DX) = "FDC"
  /\ \/ LocalAddress(DX) = 4 /\ PollStatus /\ AL' = StatusRegister /\ fetched' = fetched
     \/ LocalAddress(DX) = 5 /\ ReadAnswer
  /\ Proceed
  /\ S!OtherInstruction
  /\ UNCHANGED <<target, returns, DX>>

WordsToCome ==
  IF toSend > 0 THEN toSend - 1
                ELSE ConfigurationWords(commands(CommandIndex(AL))) - 1

\* A refused word changes nothing.
WriteWordOfMacro ==
  /\ IF AcceptsWord THEN WriteDataRegister(AL) ELSE UNCHANGED vars
  /\ toSend' = WordsToCome
  /\ seen' = "nothing"

OutFDC ==
  /\ Executes({"OUT"})
  /\ ComponentAt(DX) = "FDC"
  /\ \/ LocalAddress(DX) = 5 /\ WriteWordOfMacro
     \/ LocalAddress(DX) = 2 /\ WriteDOR(AL) /\ UNCHANGED <<seen, toSend>>
  /\ Proceed
  /\ S!OtherInstruction
  /\ UNCHANGED <<target, returns, AL, DX, fetched>>

\* The byte 32, the end of an interrupt, is the handler's debt.
OutPIC ==
  /\ Executes({"OUT"}) /\ S!Executes
  /\ ComponentAt(DX) = "PIC"
  /\ \/ LocalAddress(DX) = 0 /\ AL # 32 /\ S!WriteA0_0(AL) /\ frames' = frames
     \/ LocalAddress(DX) = 1 /\ S!WriteA0_1(AL) /\ frames' = frames
     \/ /\ LocalAddress(DX) = 0 /\ AL = 32
        /\ IF ISR # {} THEN S!NonSpecificEOI(AL) ELSE UNCHANGED interruptController
        /\ frames' = IF frames = <<>> THEN frames
                     ELSE [frames EXCEPT ![Len(frames)].owes = FALSE]
  /\ Proceed
  /\ UNCHANGED <<hostVars, INTF, hlt, target, returns, AL, DX, fetched>>

-----------------------------------------------------------------------------
(* The latch, the clock of the controller, and the outside.                *)

Halted ==
  /\ ~Stopped /\ hlt /\ intr
  /\ S!OtherInstruction
  /\ UNCHANGED <<hostVars, program>>

\* Mutant: the handler is entered with the registers of the vector's neighbour.
ServeNeighbour ==
  /\ ~Stopped
  /\ S!Serve
  /\ at' = [routine |-> Vector(intr_v - 1), i |-> 1]
  /\ returns' = Append(returns, at)
  /\ UNCHANGED <<hostVars, target, AL, DX, fetched>>

\* Neither AX nor DX is saved: what the handler leaves there the program finds.
Serve ==
  /\ ~Stopped
  /\ S!Serve
  /\ at' = [routine |-> Vector(intr_v), i |-> 1]
  /\ returns' = Append(returns, at)
  /\ UNCHANGED <<hostVars, target, AL, DX, fetched>>

Pass ==
  /\ ~Stopped
  /\ S!Drop \/ S!NothingLatched
  /\ UNCHANGED <<hostVars, program>>

Processor ==
  \/ MOV \/ JMP \/ SetInterruptFlagOrHalt \/ IRET
  \/ Input \/ OutFDC \/ OutPIC
  \/ Halted \/ Serve \/ Pass

\* The line is asserted in the middle of the clock of the controller.
Heard == ~S!Masked(6) /\ S!MoreUrgent(6) \cap ISR = {}

ControllerClock ==
  /\ ~Stopped /\ ~checking
  /\ HostClock
  /\ IF irq' /\ Heard THEN S!DeviceRequest(6) ELSE UNCHANGED service
  /\ UNCHANGED program

Outside ==
  /\ ~Stopped /\ ~checking
  /\ Environment
  /\ UNCHANGED <<seen, toSend, service, program>>

MachineNext == Processor \/ ControllerClock \/ Outside

MachineSpec == MachineInit /\ [][MachineNext]_machineVars

\* The main loop clocks the processor and the controller in turn.
FairMachineSpec ==
  /\ MachineSpec
  /\ WF_machineVars(Processor)
  /\ WF_machineVars(ControllerClock)

-----------------------------------------------------------------------------
(* Properties.                                                             *)

\* Where the last instruction before position i of the running routine that loads
\* a register stands.
LastLoad(op) ==
  LET code == Text[target][at.routine]
  IN  CHOOSE j \in 1 .. at.i - 1 :
        code[j].op = op /\ \A k \in j + 1 .. at.i - 1 : code[k].op # op

\* Each OUT writes the byte, and to the port, that its macro loaded.  The handler
\* saves no register (test/interrupts.s), so that this holds only as long as no
\* interrupt comes between the MOVs and the OUT of the program it interrupts.
OutputsWhatItLoaded ==
  Instr.op = "OUT" =>
    LET code == Text[target][at.routine]
    IN  DX = code[LastLoad("MOV DX")].n /\ AL = code[LastLoad("MOV AX")].n % 256

\* The answer the handler fetches is that of the seek the program asked for: the
\* status word the seek ended with, and the cylinder the head stands over, which is
\* the target unless the drive has no such cylinder or was not ready.  Neither word
\* names the drive: SENSE INTERRUPT STATUS looks up the one that earlier words left
\* (command.cpp:226), SPECIFY's among them.
AnswerIsOfSeek ==
  Len(fetched) = 2 =>
    LET cylinder == floppyDrives[0].cylinder
    IN  /\ fetched[2] = cylinder
        /\ \/ fetched[1] = NR + IC1 + IC2
           \/ fetched[1] = SE /\ cylinder = target
           \/ fetched[1] = SE + IC1 /\ cylinder = Cylinders - 1 /\ target >= Cylinders

\* The program comes to rest: halted in its loop, its seek answered in full by one
\* run of the handler, nothing in service, latched or lost, the controller idle.
ProgramComesToRest ==
  <>[](/\ at.routine = "bios" /\ hlt /\ frames = <<>> /\ Len(fetched) = 2
       /\ ISR = {} /\ ~intr /\ lost = 0
       /\ Stage = "idle" /\ seeking = {})

\* Though its macros ignore the status they read, the program never makes an access
\* the status did not allow, nor sends a word too many or too few: it is a driver
\* as FDCHost describes it, of which all that is shown there holds.
ImplementsHost == HostSpec

\* ... and its handler is one of those Service describes: it ends its interrupt
\* before it returns, and the controller is initialised once.
ImplementsService == S!ServiceSpec
=============================================================================
