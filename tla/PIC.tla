-------------------------------- MODULE PIC ---------------------------------
(***************************************************************************)
(* The interrupt controller, and the latch of the processor it drives      *)
(* (src/pic.cpp; CPU::request_intr).  A program initialises it with a      *)
(* sequence of command words, masks lines and ends interrupts; devices     *)
(* assert lines; the processor takes what is latched.                      *)
(*                                                                         *)
(* A request is never kept: the register IRR is read by one port and       *)
(* written by nothing, so a line asserted while the controller is not      *)
(* initialised, masked, or serving something more urgent is forgotten.     *)
(* Those calls, and the reads, leave the state alone and have no action.   *)
(*                                                                         *)
(* Left out are the fields no code reads again: slaveID, levelTriggered,   *)
(* bufferedMode and isMaster.                                              *)
(***************************************************************************)
EXTENDS Bits

CONSTANTS
  Bytes0, Bytes1,     \* what the program writes to ports 0x20 and 0x21
  Sources             \* lines that devices assert

Lines == 0 .. 7

ASSUME PICAssumption ==
  Bytes0 \subseteq Byte /\ Bytes1 \subseteq Byte /\ Sources \subseteq Lines

VARIABLES
  ISR, IMR,               \* registers, as sets of lines
  priorities, IRLineWithPriority0,
  initStatus,
  singleMode, firstInterruptVector, autoEOI, specialFullyNestedMode,   \* info
  nextRegisterToRead,
  intr, intr_v,           \* of the processor: a request, and its vector
  quit                    \* an exception ended the simulation

info  == <<singleMode, firstInterruptVector, autoEOI, specialFullyNestedMode>>
order == <<priorities, IRLineWithPriority0>>
latch == <<intr, intr_v>>
picVars == <<ISR, IMR, order, initStatus, info, nextRegisterToRead, latch, quit>>

Undefined == 256    \* a vector no ICW2 sets: the constructor leaves the field alone

LinesOf(b) == {l \in Lines : Bit(b, l)}

-----------------------------------------------------------------------------
(* Initialisation.                                                         *)

\* The priorities of rotatePriorities: pivot is the most urgent line.
Rotated(pivot) == [l \in Lines |-> (l - pivot) % 8]

Init ==
  /\ ISR = {} /\ IMR = {}
  /\ priorities = Rotated(0) /\ IRLineWithPriority0 = 0
  /\ initStatus = "UNINITIALIZED"
  /\ firstInterruptVector = Undefined
  /\ singleMode \in BOOLEAN /\ autoEOI \in BOOLEAN
  /\ specialFullyNestedMode = FALSE
  /\ nextRegisterToRead = "IRR"
  /\ intr = FALSE /\ intr_v = 0
  /\ quit = FALSE

\* Mutant: the initialisation ends the interrupts in service.
ReInitClearsService ==
  /\ IMR' = {}
  /\ specialFullyNestedMode' = FALSE
  /\ priorities' = Rotated(0) /\ IRLineWithPriority0' = 0
  /\ nextRegisterToRead' = "IRR"
  /\ ISR' = {}

\* Lines in service stay in service.
ReInit ==
  /\ IMR' = {}
  /\ specialFullyNestedMode' = FALSE
  /\ priorities' = Rotated(0) /\ IRLineWithPriority0' = 0
  /\ nextRegisterToRead' = "IRR"
  /\ UNCHANGED ISR

Throws ==
  /\ quit' = TRUE
  /\ UNCHANGED <<ISR, IMR, order, initStatus, info, nextRegisterToRead, latch>>

ICW4Needed(b) == Bit(b, 0)

\* Mutant: the sequence goes straight to its last word.
HandleICW1SkipsICW2(b) ==
  /\ ICW4Needed(b)
  /\ singleMode' = Bit(b, 1)
  /\ ReInit
  /\ initStatus' = "ICW4"
  /\ UNCHANGED <<firstInterruptVector, autoEOI, latch, quit>>

HandleICW1(b) ==
  /\ ICW4Needed(b)
  /\ singleMode' = Bit(b, 1)
  /\ ReInit
  /\ initStatus' = "ICW2"
  /\ UNCHANGED <<firstInterruptVector, autoEOI, latch, quit>>

\* Mutant: the low bits of the vector base are kept.
HandleICW2KeepsLowBits(b) ==
  /\ firstInterruptVector' = b
  /\ initStatus' = "ICW4"
  /\ UNCHANGED <<ISR, IMR, order, singleMode, autoEOI, specialFullyNestedMode,
                 nextRegisterToRead, latch, quit>>

\* ICW3 is skipped, in single mode and in cascade mode.
HandleICW2(b) ==
  /\ firstInterruptVector' = 8 * (b \div 8)
  /\ initStatus' = "ICW4"
  /\ UNCHANGED <<ISR, IMR, order, singleMode, autoEOI, specialFullyNestedMode,
                 nextRegisterToRead, latch, quit>>

Mode8086(b) == Bit(b, 0)

HandleICW4(b) ==
  /\ Mode8086(b)
  /\ autoEOI' = Bit(b, 1)
  /\ specialFullyNestedMode' = Bit(b, 4)
  /\ initStatus' = "INITIALIZED"
  /\ UNCHANGED <<ISR, IMR, order, singleMode, firstInterruptVector,
                 nextRegisterToRead, latch, quit>>

\* A byte with bit 4 at port 0x20 starts the sequence over whatever the state.
WriteICW1(b) == Bit(b, 4) /\ HandleICW1(b)

\* ... and loses its place in the sequence before its first word is refused.
WriteBadICW1(b) ==
  /\ Bit(b, 4) /\ ~ICW4Needed(b)
  /\ initStatus' = "UNINITIALIZED"
  /\ quit' = TRUE
  /\ UNCHANGED <<ISR, IMR, order, info, nextRegisterToRead, latch>>

\* At port 0x21 the next byte of the sequence is expected, the first included.
WriteICW(b) ==
  \/ initStatus = "UNINITIALIZED" /\ HandleICW1(b)
  \/ initStatus = "ICW2" /\ HandleICW2(b)
  \/ initStatus = "ICW4" /\ HandleICW4(b)

WriteBadICW(b) ==
  /\ \/ initStatus = "UNINITIALIZED" /\ ~ICW4Needed(b)
     \/ initStatus = "ICW4" /\ ~Mode8086(b)
  /\ Throws

-----------------------------------------------------------------------------
(* Operation commands, heard only once the controller is initialised.      *)

ReadyFor(b) == initStatus = "INITIALIZED" /\ ~Bit(b, 4)

Operation(b) == b \div 32

\* Mutant: the comparison is the wrong way round.
LeastUrgentInService ==
  CHOOSE l \in ISR \cup {7} : \A k \in ISR \cup {7} : priorities[l] >= priorities[k]

\* The search starts from line 7, in service or not.
MostUrgentInService ==
  CHOOSE l \in ISR \cup {7} : \A k \in ISR \cup {7} : priorities[l] <= priorities[k]

Retire(ls) ==
  /\ ISR' = ISR \ ls
  /\ UNCHANGED <<IMR, order, initStatus, info, nextRegisterToRead, latch, quit>>

NonSpecificEOI(b) ==
  /\ ReadyFor(b) /\ ~Bit(b, 3)
  /\ Operation(b) = 1
  /\ ISR # {}
  /\ Retire({MostUrgentInService})

\* The level is compared with priorities, not with line numbers.
SpecificEOI(b) ==
  /\ ReadyFor(b) /\ ~Bit(b, 3)
  /\ Operation(b) = 3
  /\ Retire({l \in ISR : priorities[l] = b % 8})

HandleOCW3(b) ==
  /\ ReadyFor(b) /\ Bit(b, 3)
  /\ Bit(b, 1)
  /\ nextRegisterToRead' = IF Bit(b, 0) THEN "ISR" ELSE "IRR"
  /\ UNCHANGED <<ISR, IMR, order, initStatus, info, latch, quit>>

HandleOCW1(b) ==
  /\ initStatus = "INITIALIZED"
  /\ IMR' = LinesOf(b)
  /\ UNCHANGED <<ISR, order, initStatus, info, nextRegisterToRead, latch, quit>>

-----------------------------------------------------------------------------
(* Interrupts.                                                             *)

\* Mutant: the scan stops one line too early.
MoreUrgentButOne(line) ==
  {l \in Lines : /\ l >= IRLineWithPriority0
                 /\ \A k \in IRLineWithPriority0 .. l : priorities[k] < priorities[line] - 1}

\* The lines examined before the one asserted: from the most urgent one up to
\* the first that is not more urgent than it.
MoreUrgent(line) ==
  {l \in Lines : /\ l >= IRLineWithPriority0
                 /\ \A k \in IRLineWithPriority0 .. l : priorities[k] < priorities[line]}

Masked(line) == initStatus # "INITIALIZED" \/ line \in IMR

\* A second request replaces the vector of one not yet taken.
RequestIntr(vector) == intr' = TRUE /\ intr_v' = vector

AssertInterruptLine(line) ==
  /\ ~Masked(line)
  /\ ~specialFullyNestedMode
  /\ MoreUrgent(line) \cap ISR = {}
  /\ RequestIntr(firstInterruptVector + line)
  /\ ISR' = IF autoEOI THEN ISR ELSE ISR \cup {line}
  /\ UNCHANGED <<IMR, order, initStatus, info, nextRegisterToRead, quit>>

AssertInSpecialMode(line) == ~Masked(line) /\ specialFullyNestedMode /\ Throws

\* The processor looks at the latch after an instruction and clears it, taken
\* or dropped.
TakeIntr ==
  /\ intr
  /\ intr' = FALSE
  /\ UNCHANGED <<intr_v, ISR, IMR, order, initStatus, info, nextRegisterToRead, quit>>

-----------------------------------------------------------------------------
WriteA0_0(b) ==
  WriteICW1(b) \/ WriteBadICW1(b) \/ NonSpecificEOI(b) \/ SpecificEOI(b) \/ HandleOCW3(b)

WriteA0_1(b) == WriteICW(b) \/ WriteBadICW(b) \/ HandleOCW1(b)

Request(line) == AssertInterruptLine(line) \/ AssertInSpecialMode(line)

Next ==
  /\ ~quit
  /\ \/ \E b \in Bytes0 : WriteA0_0(b)
     \/ \E b \in Bytes1 : WriteA0_1(b)
     \/ \E line \in Sources : Request(line)
     \/ TakeIntr

Spec == Init /\ [][Next]_picVars

-----------------------------------------------------------------------------
(* Properties.                                                             *)

\* Every variable holds a value of its type; a vector latched is one of the 256
\* of the processor's table.
TypeOK ==
  /\ ISR \subseteq Lines /\ IMR \subseteq Lines
  /\ priorities \in [Lines -> Lines] /\ IRLineWithPriority0 \in Lines
  /\ initStatus \in {"UNINITIALIZED", "ICW2", "ICW4", "INITIALIZED"}
  /\ singleMode \in BOOLEAN /\ autoEOI \in BOOLEAN
  /\ specialFullyNestedMode \in BOOLEAN
  /\ firstInterruptVector \in {8 * n : n \in 0 .. 31} \cup {Undefined}
  /\ nextRegisterToRead \in {"IRR", "ISR"}
  /\ intr \in BOOLEAN /\ intr_v \in Byte
  /\ quit \in BOOLEAN

\* However the sequence of command words is cut short and started over, the
\* controller only counts as initialised with a vector base some ICW2 gave it,
\* and with IR0 the most urgent line (pic.cpp:24-28, 201-221).
InitializedIsConfigured ==
  /\ initStatus \in {"ICW4", "INITIALIZED"} => firstInterruptVector # Undefined
  /\ priorities = [l \in Lines |-> l] /\ IRLineWithPriority0 = 0

Latches == intr' /\ (~intr \/ intr_v' # intr_v \/ ~(ISR' \subseteq ISR))

\* No priority inversion: a vector is latched only for an unmasked line at least
\* as urgent as every line in service, and it is then in service itself unless
\* interrupts end automatically (pic.cpp:290-311).
NoPriorityInversion ==
  [][Latches =>
       LET line == intr_v' - firstInterruptVector
       IN  /\ initStatus = "INITIALIZED"
           /\ line \in Lines \ IMR
           /\ \A l \in ISR : line <= l
           /\ ~autoEOI => line \in ISR']_picVars

\* Lines leave service one at a time, and by an end of interrupt alone: neither
\* masking, nor the processor, nor starting the initialisation over retires a
\* line still served (pic.cpp:21-31 does not touch the register).
RetiresOne ==
  [][~(ISR \subseteq ISR') =>
       /\ \E l \in ISR : ISR' = ISR \ {l}
       /\ initStatus = "INITIALIZED" /\ initStatus' = initStatus /\ latch' = latch]_picVars
=============================================================================
