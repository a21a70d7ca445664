------------------------------ MODULE Service -------------------------------
(***************************************************************************)
(* The interrupt controller with the processor that serves it: the         *)
(* interrupt flag, HLT, INT and IRET, and the check of the latch after     *)
(* each instruction (CPU::clock and interrupt, src/cpu/8086.cpp).          *)
(*                                                                         *)
(* The programs considered initialise the controller once, and have a      *)
(* handler per line that ends its interrupt with one non-specific end of   *)
(* interrupt before it returns.  Everything else they do as they like:     *)
(* masks, STI, CLI, HLT, INT, anywhere.                                    *)
(*                                                                         *)
(* One call of CPU::clock is an instruction and then the check.  These are *)
(* two steps here, with nothing in between (checking), so that the actions *)
(* of PIC can be used as they are.  The clocks that only count down to the *)
(* end of an instruction change nothing else.  Of the stack the model      *)
(* keeps the frames of the handlers, of the flags the interrupt flag.  NMI *)
(* is left out: nothing calls request_nmi.                                 *)
(***************************************************************************)
EXTENDS PIC, Sequences, FiniteSets

CONSTANTS
  Vectors,    \* operands of INT
  MaxFrames,  \* bound: handlers that interrupt each other
  MaxLost     \* bound: requests lost

NoLine == 8   \* of a handler entered by INT

ASSUME ServiceAssumption ==
  /\ Vectors \subseteq Byte /\ 32 \in Bytes0
  /\ MaxFrames \in Nat /\ MaxLost \in Nat

VARIABLES
  INTF,       \* the interrupt flag
  hlt,
  frames,     \* the handlers entered and not returned from, the last one running
  checking,   \* an instruction was executed: the check of the latch is next
  lost        \* number of requests the controller accepted and no handler got

cpu == <<INTF, hlt, frames>>
vars == <<picVars, cpu, checking, lost>>

\* What a handler has on the stack, the line it was entered for, and whether it
\* still has to end that interrupt.
Frame == [line : Lines \cup {NoLine}, INTF : BOOLEAN, owes : BOOLEAN]

Running == frames[Len(frames)]

ServiceInit ==
  /\ Init
  /\ INTF = FALSE /\ hlt = FALSE /\ frames = <<>>
  /\ checking = FALSE /\ lost = 0

-----------------------------------------------------------------------------
(* An instruction.                                                         *)

Executes == ~quit /\ ~checking /\ ~hlt /\ checking' = TRUE /\ lost' = lost

\* Any instruction that touches none of this; a processor that halted executes
\* none, and looks at the latch all the same.
OtherInstruction ==
  /\ ~quit /\ ~checking /\ checking' = TRUE
  /\ UNCHANGED <<picVars, cpu, lost>>

STI == Executes /\ INTF' = TRUE /\ UNCHANGED <<picVars, hlt, frames>>
CLI == Executes /\ INTF' = FALSE /\ UNCHANGED <<picVars, hlt, frames>>
HLT == Executes /\ hlt' = TRUE /\ UNCHANGED <<picVars, INTF, frames>>

\* Mutant: entering a handler leaves the interrupt flag alone.
InterruptKeepsFlag(line) ==
  /\ Len(frames) < MaxFrames
  /\ frames' = Append(frames, [line |-> line, INTF |-> INTF,
                               owes |-> line # NoLine /\ ~autoEOI])
  /\ hlt' = FALSE
  /\ UNCHANGED INTF

\* The flags go on the stack, the interrupt flag is cleared, and HLT is over.
Interrupt(line) ==
  /\ Len(frames) < MaxFrames
  /\ frames' = Append(frames, [line |-> line, INTF |-> INTF,
                               owes |-> line # NoLine /\ ~autoEOI])
  /\ INTF' = FALSE /\ hlt' = FALSE

\* INT goes through the register of the hardware requests.
INT(vector) ==
  /\ Executes
  /\ Interrupt(NoLine)
  /\ intr_v' = vector
  /\ UNCHANGED <<ISR, IMR, order, initStatus, info, nextRegisterToRead, intr, quit>>

IRET ==
  /\ Executes
  /\ frames # <<>> /\ ~Running.owes
  /\ INTF' = Running.INTF
  /\ frames' = SubSeq(frames, 1, Len(frames) - 1)
  /\ UNCHANGED <<picVars, hlt>>

\* The running handler's OUT to port 0x20.
EndOfInterrupt ==
  /\ Executes
  /\ frames # <<>> /\ Running.owes
  /\ \/ NonSpecificEOI(32)
     \/ ISR = {} /\ UNCHANGED picVars
  /\ frames' = [frames EXCEPT ![Len(frames)].owes = FALSE]
  /\ UNCHANGED <<INTF, hlt>>

\* The program initialises the controller, and then writes masks.
Initialise ==
  /\ Executes
  /\ initStatus = "UNINITIALIZED"
  /\ \E b \in Bytes0 : WriteICW1(b)
  /\ UNCHANGED cpu

WriteWord21 ==
  /\ Executes
  /\ \E b \in Bytes1 : WriteA0_1(b)
  /\ UNCHANGED cpu

-----------------------------------------------------------------------------
(* The check of the latch.                                                 *)

Checks == ~quit /\ checking /\ checking' = FALSE

\* The handler of the latched vector is entered.
Serve ==
  /\ Checks /\ INTF
  /\ TakeIntr
  /\ Interrupt(intr_v - firstInterruptVector)
  /\ lost' = lost

\* With interrupts disabled the request is dropped.
Drop ==
  /\ Checks /\ ~INTF
  /\ TakeIntr
  /\ lost' = lost + 1
  /\ UNCHANGED cpu

NothingLatched ==
  /\ Checks /\ ~intr
  /\ UNCHANGED <<picVars, cpu, lost>>

\* A device asserts its line between two clocks of the processor.  A request the
\* processor has not looked at is overwritten.
DeviceRequest(line) ==
  /\ ~quit /\ ~checking /\ lost < MaxLost
  /\ Request(line)
  /\ lost' = IF intr THEN lost + 1 ELSE lost
  /\ UNCHANGED <<cpu, checking>>

-----------------------------------------------------------------------------
Instruction ==
  \/ OtherInstruction \/ STI \/ CLI \/ HLT \/ IRET
  \/ EndOfInterrupt \/ Initialise \/ WriteWord21
  \/ \E vector \in Vectors : INT(vector)

Check == Serve \/ Drop \/ NothingLatched

ServiceNext ==
  \/ Instruction \/ Check
  \/ \E line \in Sources : DeviceRequest(line)

ServiceSpec == ServiceInit /\ [][ServiceNext]_vars

-----------------------------------------------------------------------------
(* Properties.                                                             *)

ServiceTypeOK ==
  /\ TypeOK
  /\ INTF \in BOOLEAN /\ hlt \in BOOLEAN /\ checking \in BOOLEAN
  /\ frames \in Seq(Frame) /\ lost \in Nat

\* What the latch holds until the check is a request of the controller.  Only INT
\* replaces it, and leaves nothing to serve.  Nothing is latched or in service before
\* the controller is initialised, nor in service when interrupts end by themselves.
LatchIsRequest ==
  /\ intr /\ (INTF \/ ~checking) =>
       LET line == intr_v - firstInterruptVector
       IN  line \in Lines /\ \A l \in ISR : line <= l
  /\ initStatus # "INITIALIZED" => ~intr /\ ISR = {}
  /\ autoEOI => ISR = {}

\* The handlers that still have to end their interrupt.
Owing == {i \in DOMAIN frames : frames[i].owes}

\* A line stays in service no longer than a handler owes its end, or its request is
\* latched, or was lost: the controller puts a line in service when it latches the
\* request and not when the processor takes it (pic.cpp:306-310), so that whatever is
\* dropped (8086.cpp:644) or overwritten (8086.cpp:27) may stay in service for ever,
\* and nothing else may.
InServiceIsOwed ==
  Cardinality(ISR) <= Cardinality(Owing) + (IF intr THEN 1 ELSE 0) + lost

\* What the processor enters a hardware handler for is a line the controller
\* accepted, and as urgent as any in service, although INT writes the same register
\* while a request may be latched (instructions_control_transfer.cpp:155) and ends of
\* interrupt and masks come between the request and the check.
ServesAcceptedLine ==
  [][Serve => LET line == intr_v - firstInterruptVector
              IN  line \in Lines /\ \A l \in ISR : line <= l]_vars

\* "After initialization of the PIC, the mode is fully nested" (pic.cpp:24): a handler
\* that has not ended its interrupt is not interrupted for a less urgent line.
FullyNested ==
  \A i, j \in Owing : i < j => frames[j].line <= frames[i].line
=============================================================================
