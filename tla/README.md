# Verification of the E5150 emulator

E5150 emulates an IBM PC 5150: an 8088 processor, memory, an 8259 interrupt
controller, an 8253 timer, and a floppy adapter with a µPD765 controller and four
drives. This directory holds TLA+ models of its devices, TLC configurations
that check them on small instances, and TLAPS proofs of what matters most for
every instance. Paths below are relative to the repository.

## 1. The system

The emulator is one thread. `Arch::startSimulation` (`src/arch.cpp`) calls
`CPU::clock`, `PIT::clock` and, as often as the clock ratio says, `FDC::clock`.
An `IN` or `OUT` instruction calls `PORTS::read` or `write`, which calls the
component that owns the address. `FDC::clock` calls
`PIC::assertInterruptLine`, which calls `CPU::request_intr`; the processor looks
at that latch after its next instruction. Concurrency is therefore the
interleaving of whole calls: a program's accesses, the clocks of the devices,
and the wall clock, against which the drives measure their delays.
An exception thrown by a device ends the simulation (`arch.cpp:117`).

| Component | State | Operations | Hard behaviour | What makes it correct |
|---|---|---|---|---|
| Drives, `src/floppy/floppy.cpp` | disk, motor, selection, heads loaded, head address, cylinder, two wall-clock delays | `open`, `select`, `unselect`, `motorOn/Off`, `step`, `isReady`, `getStatusRegister3` | readiness changes while a seek runs; delays run in real time | heads stay on the disk; one drive selected |
| Controller, `src/floppy/fdc.cpp` | phase, selected command, status register, the configuration and result words and two static positions, wait counter | `read`, `write`, `clock` | every access is possible in every phase; positions and pointers outlive commands | no null command or drive is used; status tells the phase; answers are whole |
| Commands, `src/floppy/command.cpp` | target drive, direction, first step, step count | `configurationBegin`, `configurationEnd`, `exec`, `finish` | ends: arrived, not ready, no such cylinder, too many steps | each seek ends, once, with one interrupt and a true report |
| Interrupt controller, `src/pic.cpp` | ISR, IMR, priorities, initialisation state, modes | writes of two ports, `assertInterruptLine` | the initialisation may restart at any word; nested interrupts | no vector without a base, no priority inversion, end of interrupt retires one line |
| Processor, `src/cpu/*.cpp` | registers, flags, `intr`, `intr_v`, `nmi`, `hlt` | `clock`, the instructions, `interrupt`, `IRET` | a request is dropped when IF is clear and overwritten when not yet taken; interrupts come between any two instructions; widths, halves and the stack wrap | programs compute what they should, returns go back to where they were left; each accepted line reaches its handler |
| Main loop, `src/arch.cpp` | three clock counters, block count | one block of clocks | unsigned differences and products that wrap; the end of a second in real time | no device is clocked more than its frequency |
| Timer, `src/pit.cpp` | three counters with access mode, two byte toggles, latch | control word, counter read and write | a control word, latch word or write between two bytes, a word over two ports | bytes pair up as written, a pair read is of one word |
| Port bus, `src/ports.cpp` | list of address ranges | `connect`, `read`, `write` | overlapping ranges | an address reaches one component |
| Memory, `src/ram.cpp` | bytes, mapped ranges | `read`, `write`, `map` | the stack and the vector table are in it | what is pushed is popped |
| Test program, `test/*.s`, `test/util.inc` | registers, position, answers fetched | macros over `IN` and `OUT`, the handler `int6` | ignores the status it reads; its handler saves no register | each seek is answered, the program comes to rest |

The hazards of the code, each at its line and with the properties that would
catch it, are the `hazards` of `PROJECT.json`.

## 2. The modules

| Module | What it is |
|---|---|
| `Bits` | bytes and their bits |
| `Floppy` | a drive as a record, and its operations as functions of records |
| `FDC` | the controller, its commands and its drives, with a processor that may do anything |
| `FDCHost` | the same with a driver that follows the status register, as the macros of `test/util.inc` mean to |
| `FDCProtocol` | what such a driver may rely on: the abstract specification `FDCHost` implements |
| `FDCClaims` | what comments, log messages and test macros say and the code does not do |
| `PIC` | the interrupt controller, any program, any device, and the processor's latch |
| `Service` | `PIC` together with the processor that serves it: IF, HLT, INT, IRET, the handlers' frames |
| `Scheduler` | the main loop, its unsigned counters and the real time it sleeps |
| `Ports` | the port bus: which component an address reaches |
| `Machine` | the test program, instruction by instruction, with both controllers and the processor that serves interrupts: it composes `FDCHost` and `Service` and is shown to implement both |
| `Pit` | the interval timer behind its ports |
| `Processor` | the instructions, with registers and their halves, flags, memory and stack, and interrupts between any two |
| `CallStack` | what calls and interrupts promise a program, with no memory in it: the abstract specification `Processor` implements |
| `FDCProofs`, `FDCHostProofs`, `PICProofs`, `ServiceProofs`, `SchedulerProofs`, `PitProofs`, `MachineProofs`, `ProcessorProofs` | theorems about the module they are named after |
| `MCFDC`, `MCFDCHost`, `MCPIC`, `MCService`, `MCScheduler`, `MCMachine`, `MCPit`, `MCProcessor` | the values of the TLC runs |

    Bits -- Floppy -- FDC ---- FDCHost (implements FDCProtocol) ---+
      |                \ ----- FDCClaims                            |
      +---- PIC ---- Service ------------------------------------ Machine
      |                                              Ports --+-----+
      +---- Pit ---------------------------------------------+
      +---- Processor (implements CallStack)
    Scheduler: whose FDCKeepsRunning is the fairness that FDCHost assumes

### Floppy and FDC

A drive is a record because it has no thread of its own. The two delays (heads
35 ms, motor 500 ms, by `Clock::now()`) become two Booleans: a request clears the
field, the environment sets it again whenever it likes (`WallClock`). This
covers every ratio of emulated to real time.

The words of a byte that a command does not look at are abstracted away:
`configurationDatas` keeps three of its nine words, since no code that runs reads
the others. The arrays that no constructor initialises (`Arch` lives on the
stack of `main`) start with any bytes of `Garbage`. The status register is split
into `rqm`, `dio`, `busy` and `seeking`. A seek and a recalibrate have each their
own copies of the target drive and of the first-step flag; since they are set
when the command is configured and read by that command only, one pair of
variables stands for both. `irq` says whether the last step asserted line IR6.

One action is one call: `WriteDataRegister` has one disjunct for a word that is
not the last and one per `configurationEnd`; `ReadStatusRegister`,
`ReadResultWord`, `ReadLastResultWord` and `ReadDuringReadData` are the outcomes of
`FDC::read`; `WriteDOR` is the output register; `Countdown`, `SeekEnds`,
`SeekStep`, `RecalibrateEnds`, `RecalibrateStep` and `ExecReadID` the outcomes of
`FDC::clock`. A call that changes nothing is a stuttering step.

`FDC` puts no condition on the processor. Everything checked there therefore
holds for faulty programs too. Images are put in and taken out through `Floppy100::open`,
the public operation for it; the program of this commit never calls it after the
(empty) default of the constructor, so the drives of that program are always
empty, a case the runs contain (the states before the first `OpenImage`).

`FDCHost` adds the driver: it reads the status register, writes only after it saw
RQM set and DIO clear, reads only after it saw both set, and sends as many words
as the command has. It knows only what it read (`seen`), possibly long before
it acts. `FDCProtocol` forgets drives, heads, clocks and status bits and keeps
stage, command, number of words left and interrupt. The refinement mapping
(`Protocol` in `FDCHost`) computes the stage from phase, command and flags and the
number of words from the two static positions; `ImplementsProtocol` includes the
fairness of the abstract specification, so it also says that the executions that
should end do.

### PIC

Registers are sets of lines. The state of the initialisation, the priorities and
the modes that some code reads are variables; `slaveID`, `levelTriggered`,
`bufferedMode` and `isMaster` are written and never read. IRR is never written, so a
request that is not served at once is forgotten, which is a stuttering step.
`TakeIntr` is the processor emptying its latch, whether it serves the vector or, with
IF clear, drops it.

### Service

`CPU::clock` executes an instruction and then looks at the latch. The model makes
these two steps, with `checking` set between them, so that the actions of `PIC` can be
conjoined unchanged; no device runs while it is set. An interrupt pushes a frame (the
line, the saved interrupt flag, whether its handler still owes the end of the
interrupt), IRET pops it, and IRET waits until the frame owes nothing: this is
what the handlers of `test/interrupts.s` do, and the one restriction on the
program besides that it initialises the controller once. `lost` counts the requests
dropped with IF clear or overwritten in the latch; it is there for `InServiceIsOwed`.
A halted processor executes nothing and still checks. NMI is left out, for nothing
requests it; the other instructions are one action, `OtherInstruction`.

### Scheduler

One action per phase of the loop: `BeginBlock` chooses the length of the block,
`MasterClock` and `FDCClock` are the two loops inside, `EndBlock` sleeps, `EndSecond`
restarts the counters. Every sum, difference and product of the program's
`unsigned int` is taken modulo `Word`. Real time passes by `WallClock` while a
block executes and by the sleep, which may end late; the time of the rest is nought.
This is the build without `DEBUG_BUILD`. The Makefile's default `DEBUG=1` defines it,
and then the loop has no pacing of this kind: there is nothing to model there but the calls.

### Machine

`test/bios.s` and `test/interrupts.s` are texts of instructions made by operators
named as the macros of `test/util.inc`. `at` is CS:IP as a routine and a position,
`returns` where interrupted routines go on, `fetched` the words of answers the handler has
read. An instruction is an action that conjoins one of `FDC` or of `Service` chosen by
the port in DX (`Input`, `OutFDC`, `OutPIC`), or one that touches no component; the
clock of the controller conjoins `HostClock` with the line it asserts. `FDCHost` there is not
a driver the model invents: its `seen` and `toSend` only record what the program
does, and `ImplementsHost` says that the program never makes an access that driver would
not make. Likewise `IRET` in `Machine` does not wait for the frame to owe nothing, and
`ImplementsService` says that it never has to. The empty look of a halted processor at
its latch, and polling with nothing to poll, are stuttering.

### Pit

A counter is a record. No count ever runs: the clock is commented out, and modes 1 to 5 are
enabled by empty functions, so that a counter keeps mode 0, and `isCounting` is written and
never read. What is left is the protocol of the control word and the two toggles, the word
that was written and the word that was latched, with the fields the constructor leaves unset
taken from `Leftovers`. Either byte of a count goes to the low byte of `value`, as the union makes
it (section 3), and a latch word copies `value` to `latchedValue` without marking it available, so
that the only latch ever read is one left over from the construction. `programmed`,
`written`, `read`, `word` and `spoiled` are history the properties need: the pair of bytes in
hand, where its first byte was read and of what word it was, and whether the program has
stored to that register since. `PairOfOneValue` excuses the second byte in that last case only:
a write between the two reads of the count, or a latch word between the two reads of the
latch, changes the word in the course of the read, in the code as in the model.
Accesses come through `Ports`: a word output is two bytes at neighbouring ports, so a word to the last
counter writes a control word.

### Processor

A program is a text of instructions by segment, each one address long: decoding is done by the
library XED, and what matters of the length of an instruction is that the next one
follows. `regs` keeps the words; `ReadReg` and `WriteReg` give and take halves. Memory is a
function on the addresses the programs touch: the vector table, data, and the stack on both
sides of its wrap around. Each action is an instruction as the code executes it,
peculiarities included (section 3); `checking` separates it from the look at the latch, as in
`Service`. `frames` is history for the abstract specification: `CallStack` keeps the frames
themselves and has no memory, so `ImplementsCallStack` says that the words in memory are
always those frames.

`CallStack` can be promised only to programs that treat their stack as one. `Disciplined` says what that
is, by what the program is about to execute: its operands are of the kinds the instruction takes
(`Decodes`), and while a routine is open it stays below what was pushed for it with room for an
interrupt (`StaysBelow`), stores neither to SS nor over a word some open routine is to return with
(`SparesFrames`), and returns with the instruction and the stack pointer that fit how it was entered
(`EndsAsItBegan`). A return may drop `Drops` bytes of arguments.

## 3. The runs

| Run | Question | Distinct states |
|---|---|---|
| `fdc_seeks` | do phase, command, busy bit and interrupt stay consistent when seeks are issued, and words written during them, in any order? | 642,108 |
| `fdc_answers` | are answers found, announced and delivered whole, for a processor that writes while it should read? is one drive at most selected, when two are selected in turn? | 2,302,944 |
| `host` | do seeks end, and is what they report true? is READ DATA final? do controller and driver stay in step, and do they implement the protocol? | 913,864 |
| `pic` | the properties of the interrupt controller | 81,372 |
| `service` | which lines stay in service, and which lines reach a handler, when requests come at any time? | 1,282,992 |
| `scheduler` | is the machine kept to its frequency, and the controller to its share, although the arithmetic wraps? does the controller keep running? | 3,149 |
| `machine` | does the program of the repository come to rest with its seek answered, whatever the drive does, and is it the driver that `FDCHost`, and its handler the one that `Service` describes? | 2,946 |
| `pit` | do bytes pair up as written, and is a pair that is read of one word, whatever control words, latch words, writes and words over two ports come between? | 406,560 |
| `processor` | do programs that keep to their stack compute what they should, halt, and return to where they were left, with interrupts between any two instructions? | 277,473 |
| `claim_*` | three statements of the repository that the code contradicts | |

Bounds, and why they are enough:

* `Bytes`: the bytes that select the commands of the run, used as parameters too. As
  parameters they name drive 0 and others, heads 0 and 1, cylinders on and off the
  disk; the code compares cylinders and masks fields, nothing else.
* `Cylinders` 2 to 4 instead of 40: enough to start on cylinder 1 (as the constructor
  does), reach both ends and try to leave them.
* `StepClocks` 0 or 1, `ReadIDClocks` 1 or 2, instead of 128000 and 7: the counter only
  separates the clocks at which `exec` runs; 0 and 1 give every interleaving of
  accesses with the wait and without.
* `MaxSteps` 1 to 3 instead of 77: with 1, `fdc_seeks` has a RECALIBRATE give up; with
  `MaxSteps >= Cylinders`, as in the code (77 and 40), `host` shows that it
  never does.
* `Loadable` and `DORBytes`: one or two drives; drives that are never named stay as the
  constructor left them.
* `machine`: the cylinder 150 of `bios.s`, which no disk has, and the first and the last
  of a disk of three cylinders; the rest of the program is as it stands, so the run has
  its real bytes, ports and vectors. One drive may be filled and emptied at any moment.
* `pit`: control words of each access and of latch for one counter, of pairs and latch for
  another; each port, and the port below, from which a word spills into the
  timer. Two sets of leftovers, one with a latched value and toggles out of step; what the
  count and the latch hold at first differ in both bytes, and the one count that is
  written differs from both, so that no two sources of a byte can be confused.
* `processor`: nineteen programs: greatest common divisor (DIV, halves), factorial
  (recursion, a stack that wraps around), loops by DEC and JNZ, LOOP and JCXZ, exchanges
  over stack and memory with a software interrupt, a far call through a pointer with an
  argument dropped by the return, comparisons, a table. What they should compute is defined
  by mathematics (`GCD`, `Product`). A device requests its vector twice, so that a handler
  is interrupted too; memory starts as zeros or ones.
* In `pic`, three lines (one above, two adjacent below) and five to eight bytes per
  port, one of each kind the code tells apart.
* `service`: two devices on neighbouring lines, so that each order of urgency occurs;
  `MaxFrames` 3 has a handler for each of them and a software interrupt, or one of
  them twice; `MaxLost` 1 loses a request once, and the count is only compared.
* `scheduler`: every number scaled down, keeping the relations between the program's own:
  the last block is longer, the product of line 79 wraps in the block in which the controller
  reaches its rate (the third of four; the fourth of nine in the program), and the truncated
  times of the blocks sum up to hardly more than a second. `SlowestBlock` exceeds a block's time, so the
  difference of line 92 wraps; `LatestWake` 1 oversleeps. The theorems
  remove the scaling: they need only `SchedulerAssumption`, which the program's numbers
  satisfy (8 * 105000 + 162272 = 1002272 >= 1000000 microseconds, and
  4000000 * 1000 + 839 <= 2^32).

Fairness. `FairHostSpec` assumes `WF(HostClock)` and nothing of the driver: the
main loop (`arch.cpp:60-115`) clocks the controller again as long as the
simulation runs. That is the property `FDCKeepsRunning` of the run `scheduler`, and there
the only assumption is `WF(Loop)`, that the host system runs the thread. Nothing is assumed of the
wall clock: a drive that never becomes ready ends its seek as "not ready".

`FairMachineSpec` adds `WF(Processor)`: the same loop clocks the processor. In `Processor`,
`WF(Clock)` alone; devices need not ask. Programs in a loop without an end, or a device
asking for ever, would refute `ProgramHalts`: `MaxRequests` bounds the second.

Deadlock is checked in `fdc_seeks` and `pit`. In the others an
exception, a signal or a bound may end the simulation, in a state with no successor.

Every property of a passing run has a mutant: a definition of the model changed
as a plausible bug would (a forgotten reset, a dropped guard, an off-by-one),
under which the same run fails. The mutants stand just before the definitions
they change.

### What the runs found

* **Selecting twice deselects** (`claim_select`). `writeDOR` unselects the previously
  selected drive after selecting the new one, even when they are the same.
* **SENSE DRIVE STATUS senses another drive** (`claim_sense`). It takes the drive from
  a word the command does not have.
* **Nesting is not always full** (`claim_nesting`). The controller puts a line in
  service when the device asserts it, the processor enters its handler after
  the next instruction. When that instruction is another handler's end of interrupt, it
  retires the new line; the new handler then runs with nothing of its own in service
  and a less urgent line interrupts it. `InServiceIsOwed` says what does hold.

Seen while modelling and not counted as disagreements.

* *Floppy controller.* `statusRegisterAllowWriting` (`fdc.cpp:111`) is never called, so a word is
  taken with RQM clear while a command executes. SPECIFY computes its three timers,
  logs them and stores none (`command.cpp:232-254`). READ DATA captures the ports and never
  executes (`ReadDataIsFinal`); the eight commands without an implementation enter
  EXECUTION and stay; READ ID indexes the drives with the head bit; RECALIBRATE's end by
  too many steps lacks a `return` and takes one step more; the first selection of a drive
  starts no head load, for the heads count as loaded from the start.
* *Interrupt controller.* The table at `pic.cpp:98` gives `000` for the non-specific end of
  interrupt where the code (rightly) has `001`; ICW3 is skipped even in cascade mode.
* *Timer.* The two bit fields of the union at `pit.hpp:39-43` are two members of the union,
  not of a structure in it, so both name the low byte, and no count of two bytes is ever stored
  whole; `isCounting` is written and never read; reading a counter set to its most
  significant byte returns the low byte on every read after the first (`pit.cpp:121-126`); a
  latch word stores the count and never marks it available; a control word for counter 3
  indexes one past the array; the constructor leaves access, toggles and
  `latchedValueIsAvailable` unset, and where that flag happens to be true reads return
  the leftover latch until one completes.
* *Bus and memory.* The assertion of `PORTS::connect` accepts some overlapping ranges
  (`inBox`, `ports.cpp:44-49`); `RAM::load` writes the end-of-file value behind what it
  loads (`ram.cpp:48-52`).
* *Processor.* ADD and SUB store what the operand held and only set flags; all flags are
  those of byte operations, for the size is passed as a `bool` (so OVER means beyond a
  byte, and JL and JNL order only words less than 256 apart and the first not smaller);
  parity is odd where the processor's is even; INC of 0xFFFF does not set ZERRO; LOOP
  counts in BP, for `m_regs[CX]` is that register, and tests before it counts; DEC of a
  word in memory is of a byte; IMUL and IDIV take their operands for unsigned, and DIV
  divides AL or AX only; division by zero ends the process; SAHF clears nothing; POP SP
  ends up two beyond; far pointers in memory have the segment first; memory
  operands ignore base and index registers; IN with an immediate port uses DX, for it
  looks at the wrong operand, and reads one byte whatever its size; LDS and LES are empty.
* *Main loop.* A block that takes longer than its time makes the loop sleep for more
  than an hour (`arch.cpp:92`, an unsigned difference); the controller gets its four
  million clocks in the first third of each second and none in the rest; building with
  `STOP_AT_END` and without `DEBUG_BUILD` would divide by a block count that stays
  zero (`arch.cpp:105`).

## 4. The proofs

The theorems hold for all values of the constants: any sets of bytes, any number of
cylinders above one, any delays, any undefined initial bytes, any depth of handlers, any
width and ratio of clocks, any cylinders the test program may be assembled with. The
assumptions are `FloppyAssumption`, `FDCAssumption`, `HostAssumption`,
`PICAssumption`, `ServiceAssumption` and `PitAssumption` (bytes are bytes, drives and lines are
among the existing ones, counts are natural numbers), `SchedulerAssumption`, which the
program's numbers satisfy, and `MachineAssumption`: the bytes the test program sends are
among those the driver of `FDCHost` may send, and `ProcessorAssumption`: vectors are bytes and what
returns drop are words. Four theorems carry one more hypothesis, named with them below. TLC evaluates every assumption in the runs.

**Controller.** The invariants one wants are not inductive: that a clock in EXECUTION
finds a command needs that no word, read or end of a seek leaves EXECUTION
with the command cleared, which needs the direction bit, which needs the phase.
`IInv == TypeOK /\ Coherent /\ BusyIsSeek /\ OneDriveSelected` closes the circle:
`Coherent` ties phase, command, direction and answer together. `InitIInv` and
`NextIInv` prove it inductive, with a lemma per kind of call (a stored word, the
start of an execution, a command ended at once, a read, the output register,
the outside, a clock). From it follow

* `TypeCorrect`: `[]TypeOK`; the part that is not shape is that the heads stay on
  the disk and positions inside their arrays;
* `StaysCoherent`, `BusyEndsWithSeek`, `OneSelected`: the other parts of `IInv`;
* `ReadFindsWord`: no read meets a missing command, drive or word (that no clock meets a
  missing command or drive is part of `Coherent`);
* `StatusIsTruthful` and `ReadDataKeepsPorts`: what the status register tells, and the
  command it tells nothing of;
* `SeeksInterrupt` and `AnswersDelivered`: the two action properties.

**Controller and driver.** A step of `FDCHost` is a step of `FDC`, so `IInv` is the first part of
`HostIInv`. What the driver read (`StatusReadStaysTrue`) can go wrong only if the controller
leaves the phase by itself, and whether it does depends on the words it still waits for,
so the count of words (`HostInStep`) has to be carried along, and to know the drive a seek moves
(`SeekMarkIsRight`) one has to know that the command that executes works on the drive its
words name (`SeekTarget`). `SeekCourse` is what the two properties of the end of a seek need:
a seek's head is still on the side of the wanted cylinder it started from, a recalibrate's
steps and the cylinder it stands on together stay below the number of cylinders, and a seek
whose words are still arriving has not stepped. `HostInitIInv` and `HostNextIInv` prove it inductive;
all call paths of a written word are reduced to one shape first (a word stored and one of
six outcomes), then words in step, marks and the course of a seek are lemmas about that
shape. From it:

* `ReadStatusIsTrusted`, `WordsInStep`, `MarksAreRight`: the three invariants of the run;
* `SeeksEndTruthfully`: what the status word says of the end of a seek, for every target;
* `RecalibratesFindTrack0`, for disks of which `MaxSteps` reaches every cylinder. In the
  code they are 77 and 40; without the hypothesis the theorem is false;
* `KeepsProtocol`: every step maps to a step of `FDCProtocol` or to none, one lemma per
  kind of step. `ProtocolSafety` is the protocol without its fairness; that an execution ends
  is left to TLC.

**Interrupt controller.** `IInv` is `TypeOK /\ InitializedIsConfigured`; the second
part says that the order of the lines is always the initial one, without which
the scan of `interruptInFullyNestedMode` proves nothing. `NoInversion` and
`OneRetired` follow, and `TypeCorrect`.

**Service of interrupts.** `LatchIsRequest` is what makes `InServiceIsOwed` inductive: a
latched request is a line at least as urgent as all in service, unless INT replaced it,
and INT clears the flag that would let it be served. On the way the steps of `PIC`
are reused: `InitializedIsConfigured` says that a latch comes from an initialised
controller. A request adds one line to ISR and either sets the latch or overwrites
it, which `lost` counts; an end of interrupt takes one line away along with the
frame that owed it. `ServesAccepted` follows from the invariant alone.

**Main loop.** That no second gets more than its clocks is not inductive: it depends on when
the second ends, and that on the time the blocks before took. `BlocksAreCounted`
ties clocks, blocks and time together: after n blocks, n blocks' clocks are begun and at
least n blocks' time is over, for a sleep never ends early, wrapped or not. The last block
takes what is left, and the last conjunct of `SchedulerAssumption` then says that the second is
over. For the controller, `ShareIsKept` says that its count is within a clock of its share;
that the wrapped product still decides rightly needs that the controller reaches
its rate before the product reaches `Word`, and that the test against the
rate makes the product's value irrelevant from there on. `NotTooFast` and `ControllerInStep`
are the results, and `TypeCorrect` the bounds of the counters.

**Timer.** An access touches counters one at a time, so the invariant is a condition on
one counter, `Orderly`, which also says that without pairs no byte of one is in hand: else
a control word that leaves pairs and comes back to them would find half a pair. For
`PairOfOneValue` it says which register the byte in hand came from, that reads still come
from it, and that it holds the word unless the program stored to it.
`ControlWordOrderly`, `WriteOrderly` and `ReadOrderly` show that each access
keeps it, `WriteByteOrderly` and `ReadByteOrderly` carry this over ports and counters, and a word
over two ports is two such steps. It holds for all ports, bytes and leftovers:
`PairsInOrder`, `PairsOfOneValue`, `TypeCorrect`.

**The test program.** Between two interrupts the program is deterministic, and the
proof follows its text. `MIInv == HostIInv /\ Steady /\ Situation`: `Steady` is what nothing in this
program changes (the order of the lines, the mask, no request lost, not stopped by the `abort`
of a component), and `Situation` says for each part of the text (the jump at the reset vector, the
initialisation of the interrupt controller, each byte of SPECIFY and SEEK, the loop while the seek
runs, the latched end of it, the handler word by word, its way out, the rest) what
registers, controllers, driver, latch and stack are about. It is long because each
instruction relies on it: an `OUT` is a step of the driver only if the `IN` before it found
the controller ready, which the macro does not test, and the interrupt finds no
frame and no register in use only because the program is in its loop by then. The first
lemmas compute the text from its macros, for any base and any byte; then there is a lemma for
what each instruction does, one for each part of the text (`BootingGoesOn`, `ConfiguringGoesOn`,
...) and lemmas that the controller's clock, the outside and a look at an empty latch
leave the rest as it is. `MachineNextMIInv` proves with the invariant that every step is a
step of `FDCHost` and of `Service`. From it:

* `ProgramKeepsHost` and `ProgramKeepsService`: both refinements. So the theorems about `FDCHost` and
  `Service` are about this program, and there is nothing left of the environments they assume;
* `AnswerIsRight`: the two words the handler reads are those of the seek. It assumes at most 256
  cylinders, for the answer's second word is a byte (`command.cpp` stores the head's position in one);
* `OutputsAreRight`: each `OUT` writes what was loaded for it. The handler saves no register, so this is
  a statement about where an interrupt can come, and follows from `Situation`.

**Processor.** The theorems are about every program (`Texts` is any set), every vector table and
memory, and requests at any time. They assume `WholeMemory`, that memory is the 0xF00000 bytes of
`ram.cpp:3`, so that every address an instruction forms has a byte (the runs keep only the bytes their
programs touch), and of the program what the run `processor` checks of the programs it has.

* `TypeCorrect`: as long as the program decodes (`[]Decodes`), registers and memory hold words and bytes.
  Every operation computes with wider or negative numbers, so there is a lemma for each
  (`TypedMOV` ... `TypedInterrupt`) upon lemmas on what halves of registers, bytes of memory and
  quotients can be. The same lemmas say what the instruction leaves alone, which is what the second
  theorem needs.
* `KeepsCallStack`: as long as the program is `Disciplined`, each step is one of `CallStack` or none, so
  every return goes to the place, the segment and the stack pointer, and from an interrupt with the
  flags, that its routine was entered with. The refinement says nothing of memory; the invariant that
  carries it does. `Intact`: for every open routine the one, two or three words below the stack pointer
  it was entered with are in memory. `Nested`: inner routines were entered below the words of those
  around them. Both count in `Depth`, the distance below the outermost routine's stack pointer modulo
  2^16, which makes wrapping around no special case: `GoesDown` and `ComesBack` say that
  pushing and popping meet again, `NoOverlap` that words at different depths share no byte although the
  second byte of a word at 0xFFFF lies beyond the segment. Then `CalmKeeps` is for instructions that
  leave the frames' words, `PushKeepsFrames` for pushing below them, `EnteringKeeps` and
  `ThreePushes` for calls and interrupts, `OnTop` and `LeavingKeeps` for returns.
  `FlagsComeBack` says that the word PUSHF and interrupts make of the flags gives them back.

Without `Disciplined` the second theorem is false, and rightly so: a program may pop its return address.
It does not exclude interrupts anywhere, recursion, arguments, jumps between segments or stores through
pointers elsewhere; in the main program, where no routine is open, it excludes only text that does not decode.

**Model-checked only.** Liveness is out of the prover's reach: the fairness part of
`ImplementsProtocol` (that every execution of an implemented command ends), `FDCKeepsRunning`,
`ProgramComesToRest`, `ProgramHalts`. What programs compute (`ProgramComputes`) and that they are
`Disciplined` is checked for the programs that the run has; it depends on their text, and for loops over any
number it would be induction over data.

## 5. Not modelled

* `ReadData::exec`, `ReadData::finish` and `Floppy100::read/write`, which no state of the
  running program reaches: READ DATA never enters EXECUTION;
* `ppi.cpp`, whose read and write are empty, the timer modes 1 to 5 and the timer's
  clock, which are empty or commented out, LDS and LES, which are empty;
* decoding, done by the library XED, and with it the sizes of memory operands that ADD and
  SUB derive from XED's numbering; the cycles of an instruction, which delay the next
  one and nothing else;
* the non-maskable interrupt, which nothing requests, and `RAM::map`, which nothing calls;
* the variant of the main loop with `DEBUG_BUILD`; messages and build switches.
