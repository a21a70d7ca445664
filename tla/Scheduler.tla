----------------------------- MODULE Scheduler ------------------------------
(***************************************************************************)
(* The main loop (Arch::startSimulation, src/arch.cpp), in the build       *)
(* without DEBUG_BUILD, the one that keeps to the frequency of the machine.*)
(*                                                                         *)
(* A second of emulated time is cut into blocks of clocks.  After a block  *)
(* the thread sleeps for what is left of the block's time; once a second   *)
(* of real time is over every counter starts again from zero.  At each     *)
(* clock of the machine the floppy controller is clocked until it has      *)
(* caught up with its share.                                               *)
(*                                                                         *)
(* The counters are unsigned int: they, and every product and difference   *)
(* of them, are taken modulo Word.  Real time (elapsed, in microseconds)   *)
(* is a 64-bit count since the last clock.restart().                       *)
(***************************************************************************)
EXTENDS Integers

CONSTANTS
  Word,                 \* number of values of an unsigned int (2^32)
  CLOCK_PER_BLOCKS,     \* 1500000
  BASE_CLOCK,           \* 14318181, the clocks of a second
  FDC_CLOCK_MUL,        \* 839, the controller's clocks for ...
  FDCScale,             \* ... 1000 of the machine
  FDCRate,              \* 4000000, the most it gets in a second
  TimeMul, TimeScale,   \* 70 and 1000: a clock lasts 70 ns, in microseconds
  Second,               \* 1000000 microseconds
  SlowestBlock,         \* bound: the longest that executing a block takes
  LatestWake            \* bound: the longest that sleep_for oversleeps

\* The time a block of n clocks should take (arch.cpp:91).
MicrosecondsPerBlock(n) == ((n * TimeMul) % Word) \div TimeScale

\* The last block of a second also executes the clocks that would not fill one.
WholeBlocks == BASE_CLOCK \div CLOCK_PER_BLOCKS
LastBlock == CLOCK_PER_BLOCKS + (BASE_CLOCK % CLOCK_PER_BLOCKS)

ASSUME SchedulerAssumption ==
  /\ Word \in Nat /\ CLOCK_PER_BLOCKS \in Nat \ {0} /\ BASE_CLOCK \in Nat
  /\ FDC_CLOCK_MUL \in Nat \ {0} /\ FDCScale \in Nat \ {0} /\ FDCRate \in Nat
  /\ TimeMul \in Nat /\ TimeScale \in Nat \ {0} /\ Second \in Nat
  /\ SlowestBlock \in Nat /\ LatestWake \in Nat
  /\ CLOCK_PER_BLOCKS <= BASE_CLOCK
  /\ BASE_CLOCK + CLOCK_PER_BLOCKS < Word
  \* a clock of the machine is at most one of the controller, and the controller
  \* reaches its rate before the product of line 79 wraps
  /\ FDC_CLOCK_MUL <= FDCScale
  /\ FDCRate * FDCScale + FDC_CLOCK_MUL <= Word
  \* the blocks of a second, each with its time truncated, last a second
  /\ (WholeBlocks - 1) * MicrosecondsPerBlock(CLOCK_PER_BLOCKS)
       + MicrosecondsPerBlock(LastBlock) >= Second

VARIABLES
  pc,               \* where the loop is: "begin", "run", "check" or "quit"
  continue,         \* Util::_continue
  currentClock, masterClock, fdcClock, blockCount,
  clockToExecute,   \* length of the current block
  clock,            \* of it, the clocks executed
  elapsed,          \* real time since clock.restart()
  blockBegin        \* the same when the block began

counters == <<currentClock, masterClock, fdcClock, blockCount>>
block == <<clockToExecute, clock, blockBegin>>
vars == <<pc, continue, counters, block, elapsed>>

Init ==
  /\ pc = "begin" /\ continue = TRUE
  /\ currentClock = 0 /\ masterClock = 0 /\ fdcClock = 0 /\ blockCount = 0
  /\ clockToExecute = 0 /\ clock = 0
  /\ elapsed = 0 /\ blockBegin = 0

-----------------------------------------------------------------------------
(* A block.                                                                *)

ClockToExecute(left) ==
  CLOCK_PER_BLOCKS + (IF left < CLOCK_PER_BLOCKS THEN left ELSE 0)

BeginBlock ==
  /\ pc = "begin" /\ continue
  /\ LET left == (BASE_CLOCK - (currentClock + CLOCK_PER_BLOCKS)) % Word
     IN  clockToExecute' = ClockToExecute(left)
  /\ currentClock' = (currentClock + clockToExecute') % Word
  /\ clock' = 0 /\ blockBegin' = elapsed
  /\ pc' = "run"
  /\ UNCHANGED <<continue, masterClock, fdcClock, blockCount, elapsed>>

\* Mutant: the controller's rate does not limit it.
FDCDueWithoutRate ==
  ((fdcClock + 1) * FDCScale) % Word <= (masterClock * FDC_CLOCK_MUL) % Word

\* The condition of the inner loop (arch.cpp:79).
FDCDue ==
  /\ ((fdcClock + 1) * FDCScale) % Word <= (masterClock * FDC_CLOCK_MUL) % Word
  /\ fdcClock + 1 <= FDCRate

\* The processor and the timer get a clock once the controller has caught up.
MasterClock ==
  /\ pc = "run" /\ ~FDCDue /\ clock < clockToExecute /\ continue
  /\ masterClock' = (masterClock + 1) % Word
  /\ clock' = clock + 1
  /\ UNCHANGED <<pc, continue, currentClock, fdcClock, blockCount,
                 clockToExecute, blockBegin, elapsed>>

\* FDC::clock is called.
FDCClock ==
  /\ pc = "run" /\ FDCDue
  /\ fdcClock' = (fdcClock + 1) % Word
  /\ UNCHANGED <<pc, continue, currentClock, masterClock, blockCount, block, elapsed>>

\* Mutant: the thread sleeps for half of what is left.
MicrosecondsToWaitHalf ==
  ((MicrosecondsPerBlock(clockToExecute) - (elapsed - blockBegin)) % Word) \div 2

\* The time to sleep, which wraps around to more than an hour when the block took
\* longer than its time (arch.cpp:92).
MicrosecondsToWait ==
  (MicrosecondsPerBlock(clockToExecute) - (elapsed - blockBegin)) % Word

\* The block is over: the thread sleeps, and wakes up in time or late.
EndBlock ==
  /\ pc = "run" /\ ~FDCDue /\ (clock = clockToExecute \/ ~continue)
  /\ blockCount' = blockCount + 1
  /\ \E late \in 0 .. LatestWake : elapsed' = elapsed + MicrosecondsToWait + late
  /\ pc' = "check"
  /\ UNCHANGED <<continue, currentClock, masterClock, fdcClock, block>>

\* Mutant: the controller's count survives the second.
RestartKeepsFDCClock ==
  /\ currentClock' = 0 /\ masterClock' = 0 /\ blockCount' = 0
  /\ UNCHANGED fdcClock

\* Mutant: the count of the machine's clocks survives the second.
RestartKeepsMasterClock ==
  /\ currentClock' = 0 /\ fdcClock' = 0 /\ blockCount' = 0
  /\ UNCHANGED masterClock

RestartCounters ==
  /\ currentClock' = 0 /\ masterClock' = 0 /\ fdcClock' = 0 /\ blockCount' = 0

\* A second of real time is over.
EndSecond ==
  /\ pc = "check" /\ elapsed >= Second
  /\ RestartCounters
  /\ elapsed' = 0
  /\ pc' = "begin"
  /\ UNCHANGED <<continue, block>>

NextBlock ==
  /\ pc = "check" /\ elapsed < Second
  /\ pc' = "begin"
  /\ UNCHANGED <<continue, counters, block, elapsed>>

\* The loop ends after a signal.
Quit ==
  /\ pc = "begin" /\ ~continue
  /\ pc' = "quit"
  /\ UNCHANGED <<continue, counters, block, elapsed>>

-----------------------------------------------------------------------------
(* What happens to the loop.                                               *)

\* Real time passes while a block executes.
WallClock ==
  /\ pc = "run" /\ elapsed - blockBegin < SlowestBlock
  /\ elapsed' = elapsed + 1
  /\ UNCHANGED <<pc, continue, counters, block>>

\* The handler of the signals.
Stop ==
  /\ continue /\ continue' = FALSE
  /\ UNCHANGED <<pc, counters, block, elapsed>>

\* A device throws; the counters are out of scope in the handler.
DeviceThrows ==
  /\ pc = "run"
  /\ pc' = "quit"
  /\ UNCHANGED <<continue, counters, block, elapsed>>

Loop ==
  \/ BeginBlock \/ MasterClock \/ FDCClock \/ EndBlock
  \/ EndSecond \/ NextBlock \/ Quit

Next == Loop \/ WallClock \/ Stop \/ DeviceThrows

Spec == Init /\ [][Next]_vars

\* The host system runs the thread.
FairSpec == Spec /\ WF_vars(Loop)

-----------------------------------------------------------------------------
(* Properties.                                                             *)

TypeOK ==
  /\ pc \in {"begin", "run", "check", "quit"} /\ continue \in BOOLEAN
  /\ currentClock \in 0 .. Word - 1 /\ masterClock \in 0 .. Word - 1
  /\ fdcClock \in 0 .. FDCRate /\ blockCount \in Nat
  /\ clockToExecute \in Nat /\ clock \in 0 .. clockToExecute
  /\ elapsed \in Nat /\ blockBegin \in Nat /\ (pc = "run" => blockBegin <= elapsed)

\* "We can run at less clock than specified but not more" (arch.cpp:63): between two
\* restarts the machine never begins more clocks than a second has, however the
\* block times are truncated and whatever the differences wrap around to.
NeverTooFast == currentClock <= BASE_CLOCK

Smaller(a, b) == IF a <= b THEN a ELSE b

\* Whenever the processor is about to get a clock the controller has got its share
\* of those before, to the clock, and never more than its rate: although the
\* product that measures the share wraps around before the second is over
\* (arch.cpp:79).
FDCInStep ==
  pc = "run" /\ ~FDCDue =>
    fdcClock = Smaller(FDCRate, (masterClock * FDC_CLOCK_MUL) \div FDCScale)

\* The controller is clocked for ever, until a signal or an exception ends the
\* simulation: its rate, once reached, holds it up no longer than the second.  This
\* is the fairness that the driver of the controller relies on (arch.cpp:60-115).
FDCKeepsRunning ==
  \/ []<><<FDCClock>>_vars
  \/ <>(~continue \/ pc = "quit")

-----------------------------------------------------------------------------
(* What the loop keeps, block by block; the proofs need it.                *)

BlockTime == MicrosecondsPerBlock(CLOCK_PER_BLOCKS)

\* The clocks begun and the real time elapsed are those of the blocks counted, the
\* last block of a second being longer, and a second's blocks last a second.
BlocksAreCounted ==
  /\ pc = "begin" =>
       /\ blockCount < WholeBlocks
       /\ currentClock = blockCount * CLOCK_PER_BLOCKS
       /\ elapsed >= blockCount * BlockTime
  /\ pc = "run" =>
       /\ blockCount < WholeBlocks
       /\ clockToExecute = IF blockCount = WholeBlocks - 1 THEN LastBlock ELSE CLOCK_PER_BLOCKS
       /\ currentClock = blockCount * CLOCK_PER_BLOCKS + clockToExecute
       /\ blockBegin >= blockCount * BlockTime
  /\ pc = "check" =>
       \/ blockCount = WholeBlocks /\ elapsed >= Second
       \/ /\ blockCount < WholeBlocks
          /\ currentClock = blockCount * CLOCK_PER_BLOCKS
          /\ elapsed >= blockCount * BlockTime

\* The clocks executed, and those the block still has to execute, are begun.
ClocksAreBegun ==
  masterClock + (IF pc = "run" THEN clockToExecute - clock ELSE 0) <= currentClock

\* The controller is not ahead of its share, and at most a clock behind.
ShareIsKept ==
  /\ fdcClock * FDCScale <= masterClock * FDC_CLOCK_MUL
  /\ fdcClock < FDCRate =>
       masterClock * FDC_CLOCK_MUL < (fdcClock + 1) * FDCScale + FDC_CLOCK_MUL

IInv == TypeOK /\ NeverTooFast /\ BlocksAreCounted /\ ClocksAreBegun /\ ShareIsKept
=============================================================================
