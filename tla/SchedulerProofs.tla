-------------------------- MODULE SchedulerProofs ---------------------------
(***************************************************************************)
(* The main loop never runs the machine too fast, and keeps the floppy     *)
(* controller in step with it, for every width of its counters, every      *)
(* frequency, every length of a block and however long a block takes,      *)
(* under the assumption on the constants.                                  *)
(***************************************************************************)
EXTENDS Scheduler, TLAPS

-----------------------------------------------------------------------------
(* Arithmetic.                                                             *)

\* A number below the width of the counters does not wrap.
LEMMA NoWrap ==
  ASSUME NEW w \in Nat, NEW a \in 0 .. w - 1
  PROVE  a % w = a
BY Z3

\* What wraps is in the range of the counters.
LEMMA WrapBelow ==
  ASSUME NEW w \in Nat \ {0}, NEW a \in Int
  PROVE  a % w \in 0 .. w - 1
BY Z3

\* Wrapping a difference never makes it smaller.
LEMMA WrapIsNotLess ==
  ASSUME NEW w \in Nat \ {0}, NEW a \in Int, a < w
  PROVE  a % w \in Nat /\ a % w >= a
BY Z3

\* The quotient is the number whose multiples surround the dividend.
LEMMA QuotientIs ==
  ASSUME NEW a \in Nat, NEW d \in Nat \ {0}, NEW q \in Nat,
         q * d <= a, a < (q + 1) * d
  PROVE  a \div d = q
BY Z3

\* Quotient and remainder.
LEMMA DivMod ==
  ASSUME NEW a \in Nat, NEW d \in Nat \ {0}
  PROVE  /\ a \div d \in Nat /\ a % d \in 0 .. d - 1
         /\ a = (a \div d) * d + (a % d)
BY Z3

\* Multiplication by a natural number is monotonic.
LEMMA Monotonic ==
  ASSUME NEW x \in Nat, NEW y \in Nat, NEW d \in Nat, x <= y
  PROVE  x * d <= y * d
BY Z3

\* The multiples of the next number.
LEMMA Successor ==
  ASSUME NEW x \in Nat, NEW d \in Nat
  PROVE  /\ x * d \in Nat /\ (x + 1) * d \in Nat
         /\ (x + 1) * d = x * d + d
BY Z3

-----------------------------------------------------------------------------
(* The constants.                                                          *)

\* A second has at least one whole block, and the last takes what remains.
LEMMA Seconds ==
  /\ WholeBlocks \in Nat \ {0} /\ LastBlock \in Nat \ {0}
  /\ LastBlock - CLOCK_PER_BLOCKS \in 0 .. CLOCK_PER_BLOCKS - 1
  /\ WholeBlocks * CLOCK_PER_BLOCKS \in Nat
  /\ BASE_CLOCK = WholeBlocks * CLOCK_PER_BLOCKS + (LastBlock - CLOCK_PER_BLOCKS)
<1> DEFINE n == BASE_CLOCK \div CLOCK_PER_BLOCKS
           r == BASE_CLOCK % CLOCK_PER_BLOCKS
<1>1. /\ n \in Nat /\ r \in 0 .. CLOCK_PER_BLOCKS - 1
      /\ BASE_CLOCK = n * CLOCK_PER_BLOCKS + r
  BY SchedulerAssumption, DivMod
<1>2. n # 0
  <2>1. 0 * CLOCK_PER_BLOCKS = 0
    BY SchedulerAssumption, SMT
  <2> QED
    BY <1>1, <2>1, SchedulerAssumption, SMT
<1>3. n * CLOCK_PER_BLOCKS \in Nat
  BY <1>1, SchedulerAssumption, Successor
<1>4. WholeBlocks = n /\ LastBlock = CLOCK_PER_BLOCKS + r
  BY DEF WholeBlocks, LastBlock
<1> HIDE DEF n, r
<1> QED
  BY <1>1, <1>2, <1>3, <1>4, SchedulerAssumption, SMT

\* The time of a block is a number of the counters' width.
LEMMA TimeOfBlock ==
  ASSUME NEW n \in Nat
  PROVE  MicrosecondsPerBlock(n) \in 0 .. Word - 1
<1> DEFINE m == (n * TimeMul) % Word
<1>1. n * TimeMul \in Nat
  BY SchedulerAssumption, Successor
<1>2. Word \in Nat \ {0}
  BY SchedulerAssumption, SMT
<1>3. m \in 0 .. Word - 1
  BY <1>1, <1>2, WrapBelow
<1>4. \A k \in Nat : k \div TimeScale \in Nat /\ k \div TimeScale <= k
  BY SchedulerAssumption, Z3
<1> HIDE DEF m
<1>5. m \div TimeScale \in 0 .. Word - 1
  BY <1>2, <1>3, <1>4, SMT
<1> QED
  BY <1>5 DEF m, MicrosecondsPerBlock

\* The difference of line 65 does not wrap while the second has blocks left, and
\* only before the last of them is it less than a block.
LEMMA ClocksLeft ==
  ASSUME NEW k \in 0 .. WholeBlocks - 1
  PROVE  LET left == BASE_CLOCK - (k * CLOCK_PER_BLOCKS + CLOCK_PER_BLOCKS)
         IN  /\ left \in 0 .. Word - 1
             /\ k # WholeBlocks - 1 => left >= CLOCK_PER_BLOCKS
             /\ k = WholeBlocks - 1 => left = LastBlock - CLOCK_PER_BLOCKS
<1> DEFINE B == CLOCK_PER_BLOCKS
<1>1. B \in Nat /\ WholeBlocks \in Nat /\ k \in Nat /\ k + 1 \in Nat
  BY Seconds, SchedulerAssumption, SMT
<1>2. k * B \in Nat /\ (k + 1) * B = k * B + B /\ (k + 1) * B \in Nat
  BY <1>1, Successor
<1>3. (k + 1) * B <= WholeBlocks * B
  BY <1>1, Monotonic, SMT
<1>4. ASSUME k # WholeBlocks - 1 PROVE (k + 1) * B + B <= WholeBlocks * B
  <2>1. k + 1 + 1 \in Nat /\ k + 1 + 1 <= WholeBlocks
    BY <1>1, <1>4, SMT
  <2>2. (k + 1 + 1) * B <= WholeBlocks * B
    BY <1>1, <2>1, Monotonic
  <2>3. (k + 1 + 1) * B = (k + 1) * B + B
    BY <1>1, Successor
  <2> QED
    BY <2>2, <2>3
<1>5. k = WholeBlocks - 1 => (k + 1) * B = WholeBlocks * B
  BY <1>1, SMT
<1> DEFINE kB == k * B
           nextB == (k + 1) * B
           allB == WholeBlocks * B
<1>6. /\ kB \in Nat /\ nextB = kB + B /\ nextB <= allB /\ allB \in Nat
      /\ k # WholeBlocks - 1 => nextB + B <= allB
      /\ k = WholeBlocks - 1 => nextB = allB
      /\ BASE_CLOCK = allB + (LastBlock - B)
      /\ LastBlock \in Nat /\ LastBlock - B >= 0 /\ BASE_CLOCK + B < Word
      /\ B \in Nat /\ Word \in Nat /\ BASE_CLOCK \in Nat
  BY <1>1, <1>2, <1>3, <1>4, <1>5, Seconds, SchedulerAssumption, SMT
<1> HIDE DEF kB, nextB, allB
<1>7. LET left == BASE_CLOCK - (kB + B)
      IN  /\ left \in 0 .. Word - 1
          /\ k # WholeBlocks - 1 => left >= B
          /\ k = WholeBlocks - 1 => left = LastBlock - B
  BY <1>6, SMT
<1> QED
  BY <1>7 DEF kB

-----------------------------------------------------------------------------
(* The share of the controller.                                            *)

\* While the controller is below its rate the product of line 79 does not wrap.
LEMMA ProductsDoNotWrap ==
  ASSUME IInv, fdcClock < FDCRate
  PROVE  /\ ((fdcClock + 1) * FDCScale) % Word = (fdcClock + 1) * FDCScale
         /\ (masterClock * FDC_CLOCK_MUL) % Word = masterClock * FDC_CLOCK_MUL
<1> DEFINE f == (fdcClock + 1) * FDCScale
           m == masterClock * FDC_CLOCK_MUL
           r == FDCRate * FDCScale
<1>1. fdcClock \in Nat /\ masterClock \in Nat /\ fdcClock + 1 \in Nat /\ fdcClock + 1 <= FDCRate
  BY SchedulerAssumption, SMT DEF IInv, TypeOK
<1>2. f \in Nat /\ m \in Nat /\ f <= r
  BY <1>1, SchedulerAssumption, Successor, Monotonic
<1>3. m < f + FDC_CLOCK_MUL /\ r + FDC_CLOCK_MUL <= Word
  BY SchedulerAssumption DEF IInv, ShareIsKept
<1>4. r \in Nat /\ Word \in Nat /\ FDC_CLOCK_MUL \in Nat \ {0}
  BY SchedulerAssumption, Successor
<1> HIDE DEF f, m, r
<1>5. f \in 0 .. Word - 1 /\ m \in 0 .. Word - 1
  BY <1>2, <1>3, <1>4, SMT
<1>6. f % Word = f /\ m % Word = m
  BY <1>4, <1>5, NoWrap
<1> QED
  BY <1>6 DEF f, m

\* The inner loop's condition compares the true products.
LEMMA DueIsBehind ==
  ASSUME IInv
  PROVE  FDCDue <=> /\ fdcClock < FDCRate
                    /\ (fdcClock + 1) * FDCScale <= masterClock * FDC_CLOCK_MUL
<1>1. fdcClock \in Nat /\ FDCRate \in Nat
  BY SchedulerAssumption, SMT DEF IInv, TypeOK
<1>2. fdcClock + 1 <= FDCRate <=> fdcClock < FDCRate
  BY <1>1, SMT
<1> QED
  BY <1>2, ProductsDoNotWrap DEF FDCDue

\* The invariant puts the controller in step.
LEMMA InStep == IInv => FDCInStep
<1> SUFFICES ASSUME IInv, pc = "run", ~FDCDue
             PROVE  fdcClock = Smaller(FDCRate, (masterClock * FDC_CLOCK_MUL) \div FDCScale)
  BY DEF FDCInStep
<1> DEFINE m == masterClock * FDC_CLOCK_MUL
           q == m \div FDCScale
<1>1. /\ fdcClock \in Nat /\ fdcClock <= FDCRate /\ masterClock \in Nat
      /\ FDCRate \in Nat /\ FDCScale \in Nat \ {0} /\ FDC_CLOCK_MUL \in Nat
  BY SchedulerAssumption, SMT DEF IInv, TypeOK
<1>2. m \in Nat /\ fdcClock * FDCScale <= m
  BY <1>1, Successor DEF IInv, ShareIsKept
<1>3. CASE fdcClock = FDCRate
  <2>1. q \in Nat /\ m < (q + 1) * FDCScale
    <3>1. q \in Nat /\ m % FDCScale \in 0 .. FDCScale - 1
          /\ m = q * FDCScale + (m % FDCScale)
      BY <1>1, <1>2, DivMod
    <3>2. (q + 1) * FDCScale = q * FDCScale + FDCScale /\ q * FDCScale \in Nat
      BY <1>1, <3>1, Successor
    <3> DEFINE qs == q * FDCScale
               rest == m % FDCScale
    <3> HIDE DEF m, q, qs, rest
    <3>3. qs + rest < qs + FDCScale
      BY <1>1, <3>1, <3>2, SMT DEF qs, rest
    <3> QED
      BY <3>1, <3>2, <3>3 DEF qs, rest
  <2>2. ~(q + 1 <= fdcClock)
    <3>1. SUFFICES ASSUME q + 1 <= fdcClock PROVE FALSE
      OBVIOUS
    <3>2. q + 1 \in Nat
      BY <2>1, SMT
    <3>3. (q + 1) * FDCScale <= fdcClock * FDCScale
      BY <1>1, <3>1, <3>2, Monotonic
    <3> DEFINE qs == (q + 1) * FDCScale
               fs == fdcClock * FDCScale
    <3>4. qs \in Nat /\ fs \in Nat /\ qs <= fs /\ fs <= m /\ m < qs
      BY <1>1, <1>2, <2>1, <3>2, <3>3, Successor
    <3> HIDE DEF qs, fs, m
    <3> QED
      BY <1>2, <3>4, SMT
  <2>3. FDCRate <= q
    <3> HIDE DEF q
    <3> QED BY <1>1, <1>3, <2>1, <2>2, SMT
  <2> QED
    BY <1>3, <2>3 DEF Smaller
<1>4. CASE fdcClock # FDCRate
  <2>1. fdcClock < FDCRate
    BY <1>1, <1>4, SMT
  <2>2. ~((fdcClock + 1) * FDCScale <= m)
    BY <2>1, DueIsBehind
  <2>3. fdcClock + 1 \in Nat /\ (fdcClock + 1) * FDCScale \in Nat
    BY <1>1, Successor, SMT
  <2>4. m < (fdcClock + 1) * FDCScale
    <3> DEFINE fs == (fdcClock + 1) * FDCScale
    <3>1. m \in Nat /\ fs \in Nat /\ ~(fs <= m)
      BY <1>2, <2>2, <2>3
    <3> HIDE DEF m, fs
    <3>2. m < fs
      BY <3>1, SMT
    <3> QED
      BY <3>2 DEF fs
  <2>5. q = fdcClock
    BY <1>1, <1>2, <2>4, QuotientIs
  <2>6. ~(FDCRate <= q)
    <3> HIDE DEF q
    <3> QED BY <1>1, <2>1, <2>5, SMT
  <2> QED
    BY <2>5, <2>6 DEF Smaller
<1> QED
  BY <1>3, <1>4

-----------------------------------------------------------------------------
(* The inductive invariant.                                                *)

\* No block takes no clocks and no time.
LEMMA ZeroTimes == 0 * CLOCK_PER_BLOCKS = 0 /\ 0 * BlockTime = 0
<1>1. CLOCK_PER_BLOCKS \in Nat
  BY SchedulerAssumption
<1>2. BlockTime \in Nat
  BY <1>1, TimeOfBlock, SchedulerAssumption, SMT DEF BlockTime
<1> HIDE DEF BlockTime
<1> QED
  BY <1>1, <1>2, SMT

\* With no clock executed the controller's share is nothing.
LEMMA NoShare ==
  /\ 0 * FDCScale <= 0 * FDC_CLOCK_MUL
  /\ 0 * FDC_CLOCK_MUL < (0 + 1) * FDCScale + FDC_CLOCK_MUL
<1>1. 0 * FDCScale = 0 /\ 0 * FDC_CLOCK_MUL = 0 /\ (0 + 1) * FDCScale = FDCScale
  BY SchedulerAssumption, SMT
<1> QED
  BY <1>1, SchedulerAssumption, SMT

\* The loop starts with every counter at zero.
THEOREM InitIInv == Init => IInv
<1> SUFFICES ASSUME Init PROVE IInv
  OBVIOUS
<1>1. TypeOK /\ NeverTooFast /\ ClocksAreBegun
  BY SchedulerAssumption, SMT DEF Init, TypeOK, NeverTooFast, ClocksAreBegun
<1>2. BlocksAreCounted
  BY ZeroTimes, Seconds, SMT DEF Init, BlocksAreCounted
<1>3. ShareIsKept
  BY NoShare DEF Init, ShareIsKept
<1> QED
  BY <1>1, <1>2, <1>3 DEF IInv

\* A block that begins is as long as its place in the second says.
LEMMA BeginBlockKeeps == IInv /\ BeginBlock => IInv'
<1> SUFFICES ASSUME IInv, BeginBlock PROVE IInv'
  OBVIOUS
<1> DEFINE B == CLOCK_PER_BLOCKS
           kB == blockCount * B
           left == BASE_CLOCK - (kB + B)
<1>1. /\ blockCount \in 0 .. WholeBlocks - 1 /\ currentClock = kB /\ B \in Nat \ {0}
      /\ BASE_CLOCK \in Nat /\ BASE_CLOCK + B < Word /\ Word \in Nat
      /\ LastBlock \in Nat /\ WholeBlocks \in Nat
  BY Seconds, SchedulerAssumption, SMT DEF IInv, TypeOK, BlocksAreCounted, BeginBlock
<1>2. /\ left \in 0 .. Word - 1
      /\ blockCount # WholeBlocks - 1 => left >= B
      /\ blockCount = WholeBlocks - 1 => left = LastBlock - B
  BY <1>1, ClocksLeft
<1>3. left % Word = left
  BY <1>1, <1>2, NoWrap
<1>4. clockToExecute' = ClockToExecute(left)
  BY <1>1, <1>3 DEF BeginBlock
<1>5. kB \in Nat
  BY <1>1, Successor
<1>6. LastBlock - B \in 0 .. B - 1
  BY Seconds
<1>7. /\ clockToExecute' \in Nat
      /\ clockToExecute' = IF blockCount = WholeBlocks - 1 THEN LastBlock ELSE B
      /\ kB + clockToExecute' \in 0 .. BASE_CLOCK
  <2>1. CASE blockCount = WholeBlocks - 1
    <3>1. left < B /\ clockToExecute' = B + left
      BY <1>1, <1>2, <1>4, <1>6, <2>1, SMT DEF ClockToExecute
    <3> HIDE DEF kB
    <3> QED
      BY <1>1, <1>2, <1>5, <3>1, <2>1, SMT
  <2>2. CASE blockCount # WholeBlocks - 1
    <3>1. ~(left < B)
      BY <1>1, <1>2, <1>5, <2>2, SMT
    <3>2. clockToExecute' = B
      BY <1>1, <1>4, <3>1, SMT DEF ClockToExecute
    <3> HIDE DEF kB
    <3> QED
      BY <1>1, <1>2, <1>5, <3>2, <2>2, SMT
  <2> QED
    BY <2>1, <2>2
<1>8. currentClock' = kB + clockToExecute' /\ currentClock' \in 0 .. BASE_CLOCK
  <2>1. kB + clockToExecute' \in 0 .. Word - 1
    <3> HIDE DEF kB
    <3> QED BY <1>1, <1>7, SMT
  <2>2. (kB + clockToExecute') % Word = kB + clockToExecute'
    BY <1>1, <2>1, NoWrap
  <2> QED
    BY <1>1, <1>7, <2>2 DEF BeginBlock
<1>9. TypeOK' /\ NeverTooFast'
  <2> HIDE DEF kB, left
  <2> QED
    BY <1>1, <1>7, <1>8, SMT DEF IInv, TypeOK, NeverTooFast, BeginBlock
<1>10. BlocksAreCounted'
  BY <1>1, <1>7, <1>8 DEF IInv, BlocksAreCounted, BeginBlock
<1>11. ClocksAreBegun'
  <2> HIDE DEF kB, left
  <2>1. masterClock <= kB /\ masterClock \in Nat
    BY <1>1, SMT DEF IInv, TypeOK, ClocksAreBegun, BeginBlock
  <2>2. masterClock + (clockToExecute' - 0) <= kB + clockToExecute'
    BY <1>5, <1>7, <2>1, SMT
  <2> QED
    BY <1>8, <2>2 DEF ClocksAreBegun, BeginBlock
<1>12. ShareIsKept'
  BY DEF IInv, ShareIsKept, BeginBlock
<1> QED
  BY <1>9, <1>10, <1>11, <1>12 DEF IInv

\* A clock of the machine puts the controller at most one clock behind.
LEMMA MasterClockKeeps == IInv /\ MasterClock => IInv'
<1> SUFFICES ASSUME IInv, MasterClock PROVE IInv'
  OBVIOUS
<1>1. masterClock' = masterClock + 1
  <2>1. masterClock + 1 \in 0 .. Word - 1
    BY SchedulerAssumption, SMT
       DEF IInv, TypeOK, NeverTooFast, ClocksAreBegun, MasterClock
  <2>2. Word \in Nat
    BY SchedulerAssumption
  <2>3. (masterClock + 1) % Word = masterClock + 1
    BY <2>1, <2>2, NoWrap
  <2> QED
    BY <2>3 DEF MasterClock
<1>2. TypeOK' /\ NeverTooFast'
  BY <1>1, SchedulerAssumption, SMT
     DEF IInv, TypeOK, NeverTooFast, ClocksAreBegun, MasterClock
<1>3. BlocksAreCounted'
  BY DEF IInv, BlocksAreCounted, MasterClock
<1>4. ClocksAreBegun'
  BY <1>1, SMT DEF IInv, TypeOK, ClocksAreBegun, MasterClock
<1>5. ShareIsKept'
  <2> DEFINE m == masterClock * FDC_CLOCK_MUL
             f == fdcClock * FDCScale
             n == (fdcClock + 1) * FDCScale
  <2>1. /\ masterClock \in Nat /\ fdcClock \in Nat /\ fdcClock + 1 \in Nat
        /\ FDCScale \in Nat /\ FDC_CLOCK_MUL \in Nat
    BY SchedulerAssumption, SMT DEF IInv, TypeOK
  <2>2. /\ m \in Nat /\ f \in Nat /\ n \in Nat
        /\ masterClock' * FDC_CLOCK_MUL = m + FDC_CLOCK_MUL
    BY <1>1, <2>1, Successor
  <2>3. f <= m
    BY DEF IInv, ShareIsKept
  <2>4. fdcClock < FDCRate => ~(n <= m)
    BY DueIsBehind DEF MasterClock
  <2>5. f <= m + FDC_CLOCK_MUL /\ (~(n <= m) => m + FDC_CLOCK_MUL < n + FDC_CLOCK_MUL)
    <3> HIDE DEF m, f, n
    <3> QED BY <2>1, <2>2, <2>3, SMT
  <2>6. fdcClock' = fdcClock
    BY DEF MasterClock
  <2> QED
    BY <2>2, <2>4, <2>5, <2>6 DEF ShareIsKept
<1> QED
  BY <1>2, <1>3, <1>4, <1>5 DEF IInv

\* A clock of the controller is one of its share.
LEMMA FDCClockKeeps == IInv /\ FDCClock => IInv'
<1> SUFFICES ASSUME IInv, FDCClock PROVE IInv'
  OBVIOUS
<1>1. fdcClock < FDCRate /\ (fdcClock + 1) * FDCScale <= masterClock * FDC_CLOCK_MUL
  BY DueIsBehind DEF FDCClock
<1>2. /\ masterClock \in Nat /\ fdcClock \in Nat /\ fdcClock + 1 \in Nat
      /\ FDCScale \in Nat \ {0} /\ FDC_CLOCK_MUL \in Nat \ {0} /\ FDCRate \in Nat
      /\ Word \in Nat
  BY SchedulerAssumption, SMT DEF IInv, TypeOK
<1>3. FDCRate < Word
  <2> DEFINE r == FDCRate * FDCScale
  <2>1. r + FDC_CLOCK_MUL <= Word
    BY SchedulerAssumption
  <2>2. FDCRate * FDCScale >= FDCRate
    BY <1>2, Z3
  <2>3. r \in Nat
    BY <1>2, Successor
  <2>4. r >= FDCRate
    BY <2>2
  <2> HIDE DEF r
  <2> QED
    BY <1>2, <2>1, <2>3, <2>4, SMT
<1>4. fdcClock' = fdcClock + 1
  <2>1. fdcClock + 1 \in 0 .. Word - 1
    BY <1>1, <1>2, <1>3, SMT
  <2>2. (fdcClock + 1) % Word = fdcClock + 1
    BY <1>2, <2>1, NoWrap
  <2> QED
    BY <2>2 DEF FDCClock
<1>5. TypeOK' /\ NeverTooFast'
  BY <1>1, <1>2, <1>4, SMT DEF IInv, TypeOK, NeverTooFast, FDCClock, block
<1>6. BlocksAreCounted' /\ ClocksAreBegun'
  BY DEF IInv, BlocksAreCounted, ClocksAreBegun, FDCClock, block
<1>7. ShareIsKept'
  <2> DEFINE m == masterClock * FDC_CLOCK_MUL
             n == (fdcClock + 1) * FDCScale
  <2>1. /\ m \in Nat /\ n \in Nat /\ n <= m
        /\ (fdcClock + 1 + 1) * FDCScale = n + FDCScale
    BY <1>1, <1>2, Successor
  <2>2. m < n + FDC_CLOCK_MUL
    BY <1>1 DEF IInv, ShareIsKept
  <2>3. m < n + FDCScale + FDC_CLOCK_MUL
    <3> HIDE DEF m, n
    <3> QED BY <1>2, <2>1, <2>2, SMT
  <2>4. masterClock' = masterClock
    BY DEF FDCClock
  <2> QED
    BY <1>4, <2>1, <2>3, <2>4 DEF ShareIsKept
<1> QED
  BY <1>5, <1>6, <1>7 DEF IInv

\* A block and the sleep after it last at least the time of the block, although the
\* time to sleep may wrap around; so the last block of a second ends after a second.
LEMMA EndBlockKeeps == IInv /\ EndBlock => IInv'
<1> SUFFICES ASSUME IInv, EndBlock PROVE IInv'
  OBVIOUS
<1> DEFINE time == MicrosecondsPerBlock(clockToExecute)
           k == blockCount
           T == BlockTime
           kT == blockCount * BlockTime
<1>1. /\ k \in Nat /\ k < WholeBlocks /\ WholeBlocks \in Nat \ {0} /\ k' = k + 1
      /\ clockToExecute = IF k = WholeBlocks - 1 THEN LastBlock ELSE CLOCK_PER_BLOCKS
      /\ clockToExecute \in Nat /\ elapsed \in Nat /\ blockBegin \in 0 .. elapsed
      /\ blockBegin >= kT /\ Word \in Nat \ {0} /\ Second \in Nat
  BY Seconds, SchedulerAssumption, SMT
     DEF IInv, TypeOK, BlocksAreCounted, EndBlock
<1>2. time \in 0 .. Word - 1 /\ T \in 0 .. Word - 1
  BY <1>1, TimeOfBlock, SchedulerAssumption DEF BlockTime
<1>3. kT \in Nat /\ (k + 1) * T = kT + T
  <2>1. T \in Nat
    BY <1>1, <1>2, SMT
  <2> HIDE DEF T
  <2> QED
    BY <1>1, <2>1, Successor DEF T
<1>4. elapsed' \in Nat /\ elapsed' >= blockBegin + time
  <2> DEFINE x == time - (elapsed - blockBegin)
             w == x % Word
  <2>1. PICK late \in 0 .. LatestWake : elapsed' = elapsed + w + late
    BY DEF EndBlock, MicrosecondsToWait
  <2>2. x \in Int /\ x < Word
    <3> HIDE DEF time
    <3> QED BY <1>1, <1>2, SMT
  <2>3. w \in Nat /\ w >= x
    <3> HIDE DEF x
    <3> QED BY <1>1, <2>2, WrapIsNotLess
  <2>4. late \in Nat
    BY SchedulerAssumption, SMT
  <2>5. w >= time - (elapsed - blockBegin)
    BY <2>3
  <2> HIDE DEF w, time
  <2> QED
    BY <1>1, <1>2, <2>1, <2>3, <2>4, <2>5, SMT
<1>5. TypeOK' /\ NeverTooFast'
  BY <1>1, <1>4, SMT DEF IInv, TypeOK, NeverTooFast, EndBlock, block
<1>6. BlocksAreCounted'
  <2>1. CASE k = WholeBlocks - 1
    <3>1. kT + time >= Second
      <4>1. (WholeBlocks - 1) * T + MicrosecondsPerBlock(LastBlock) >= Second
        BY SchedulerAssumption DEF BlockTime
      <4> QED
        BY <1>1, <2>1, <4>1
    <3>2. elapsed' >= Second
      <4> HIDE DEF kT, time
      <4> QED BY <1>1, <1>2, <1>3, <1>4, <3>1, SMT
    <3>3. blockCount' = WholeBlocks
      BY <1>1, <2>1, SMT
    <3>4. pc' = "check"
      BY DEF EndBlock
    <3> QED
      BY <3>2, <3>3, <3>4 DEF BlocksAreCounted
  <2>2. CASE k # WholeBlocks - 1
    <3>1. clockToExecute = CLOCK_PER_BLOCKS /\ k + 1 < WholeBlocks
      BY <1>1, <2>2, SMT
    <3>2. time = T
      BY <3>1 DEF BlockTime
    <3>3. elapsed' >= (k + 1) * T
      <4>1. elapsed' >= kT + T
        <5>1. elapsed' >= blockBegin + T
          BY <1>4, <3>2
        <5> HIDE DEF kT, T
        <5> QED BY <1>1, <1>2, <1>3, <1>4, <5>1, SMT
      <4> QED
        BY <1>3, <4>1
    <3>4. currentClock = (k + 1) * CLOCK_PER_BLOCKS
      <4>1. currentClock = k * CLOCK_PER_BLOCKS + CLOCK_PER_BLOCKS
        BY <3>1 DEF IInv, BlocksAreCounted, EndBlock
      <4> QED
        BY <1>1, <4>1, Successor, SchedulerAssumption
    <3>5. pc' = "check" /\ currentClock' = currentClock
      BY DEF EndBlock
    <3> QED
      BY <1>1, <3>1, <3>3, <3>4, <3>5 DEF BlocksAreCounted
  <2> QED
    BY <2>1, <2>2
<1>7. ClocksAreBegun'
  BY SMT DEF IInv, TypeOK, ClocksAreBegun, EndBlock, block
<1>8. ShareIsKept'
  BY DEF IInv, ShareIsKept, EndBlock
<1> QED
  BY <1>5, <1>6, <1>7, <1>8 DEF IInv

\* Every step keeps the invariant.
THEOREM NextIInv == IInv /\ [Next]_vars => IInv'
<1> SUFFICES ASSUME IInv, [Next]_vars PROVE IInv'
  OBVIOUS
<1>1. CASE BeginBlock
  BY <1>1, BeginBlockKeeps
<1>2. CASE MasterClock
  BY <1>2, MasterClockKeeps
<1>3. CASE FDCClock
  BY <1>3, FDCClockKeeps
<1>4. CASE EndBlock
  BY <1>4, EndBlockKeeps
<1>5. CASE EndSecond
  <2>1. 0 * CLOCK_PER_BLOCKS = 0 /\ 0 * BlockTime = 0
    BY ZeroTimes
  <2>2. ShareIsKept'
    BY <1>5, NoShare DEF ShareIsKept, EndSecond, RestartCounters
  <2>3. BlocksAreCounted'
    BY <1>5, <2>1, Seconds, SMT DEF BlocksAreCounted, EndSecond, RestartCounters
  <2>4. TypeOK' /\ NeverTooFast' /\ ClocksAreBegun'
    BY <1>5, SchedulerAssumption, SMT
       DEF IInv, TypeOK, NeverTooFast, ClocksAreBegun, EndSecond, RestartCounters, block
  <2> QED
    BY <2>2, <2>3, <2>4 DEF IInv
<1>6. CASE NextBlock
  <2>1. blockCount # WholeBlocks
    BY <1>6, SchedulerAssumption, SMT DEF IInv, TypeOK, BlocksAreCounted, NextBlock
  <2> QED
    BY <1>6, <2>1
       DEF IInv, TypeOK, NeverTooFast, BlocksAreCounted, ClocksAreBegun, ShareIsKept,
           NextBlock, counters, block
<1>7. ASSUME pc' = "quit" \/ pc' = pc, UNCHANGED <<counters, block, elapsed>>,
             continue' \in BOOLEAN
      PROVE IInv'
  <2>1. masterClock <= currentClock
    BY SMT DEF IInv, TypeOK, ClocksAreBegun
  <2> QED
    BY <1>7, <2>1
       DEF IInv, TypeOK, NeverTooFast, BlocksAreCounted, ClocksAreBegun, ShareIsKept,
           counters, block
<1>8. CASE Quit \/ Stop \/ DeviceThrows \/ UNCHANGED vars
  BY <1>7, <1>8 DEF Quit, Stop, DeviceThrows, vars, IInv, TypeOK
<1>9. CASE WallClock
  <2>1. elapsed' \in Nat /\ (pc = "run" => blockBegin <= elapsed')
    BY <1>9, SMT DEF IInv, TypeOK, WallClock
  <2> QED
    BY <1>9, <2>1
       DEF IInv, TypeOK, NeverTooFast, BlocksAreCounted, ClocksAreBegun, ShareIsKept,
           WallClock, counters, block
<1> QED
  BY <1>1, <1>2, <1>3, <1>4, <1>5, <1>6, <1>8, <1>9 DEF Next, Loop

\* The counters keep within their width, and the controller's within its rate.
THEOREM TypeCorrect == Spec => []TypeOK
<1>1. IInv => TypeOK
  BY DEF IInv
<1> QED
  BY <1>1, InitIInv, NextIInv, PTL DEF Spec

\* The machine never begins more clocks than a second has before the second is over
\* (arch.cpp:63).
THEOREM NotTooFast == Spec => []NeverTooFast
<1>1. IInv => NeverTooFast
  BY DEF IInv
<1> QED
  BY <1>1, InitIInv, NextIInv, PTL DEF Spec

\* The controller has exactly its share of clocks, although the product that measures
\* it wraps around (arch.cpp:79).
THEOREM ControllerInStep == Spec => []FDCInStep
BY InStep, InitIInv, NextIInv, PTL DEF Spec
=============================================================================
