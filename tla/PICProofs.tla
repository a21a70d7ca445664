----------------------------- MODULE PICProofs ------------------------------
(***************************************************************************)
(* The properties of the interrupt controller, for every program (any sets *)
(* of bytes written) and every set of devices.                             *)
(***************************************************************************)
EXTENDS PIC, TLAPS

-----------------------------------------------------------------------------
(* Facts about the operators.                                              *)

\* The base an ICW2 sets is a multiple of eight among the 256 vectors, so the
\* eight vectors above it are vectors as well (pic.cpp:158-163, 286-287).
LEMMA VectorBase ==
  ASSUME NEW b \in Byte
  PROVE  /\ 8 * (b \div 8) \in {8 * n : n \in 0 .. 31}
         /\ \A l \in Lines : 8 * (b \div 8) + l \in Byte
<1>1. b \div 8 \in 0 .. 31
  BY SMT DEF Byte
<1> QED
  BY <1>1, SMT DEF Byte, Lines

\* Rotating by zero gives line l the priority l (pic.cpp:8-19).
LEMMA RotatedByZero == Rotated(0) = [l \in Lines |-> l]
<1>1. \A l \in Lines : (l - 0) % 8 = l
  BY SMT DEF Lines
<1> QED
  BY <1>1 DEF Rotated

\* In the fully nested order the scan of interruptInFullyNestedMode examines
\* every line above the one asserted (pic.cpp:297).
LEMMA MoreUrgentIsAbove ==
  ASSUME priorities = [l \in Lines |-> l], IRLineWithPriority0 = 0,
         NEW line \in Lines, NEW l \in Lines, l < line
  PROVE  l \in MoreUrgent(line)
<1>1. \A k \in 0 .. l : k \in Lines /\ priorities[k] < priorities[line]
  BY SMT DEF Lines
<1> QED
  BY <1>1, SMT DEF MoreUrgent, Lines

-----------------------------------------------------------------------------
(* The inductive invariant.                                                *)

IInv == TypeOK /\ InitializedIsConfigured

\* The constructor establishes the invariant, whatever the undefined fields held.
THEOREM InitIInv == Init => IInv
<1> SUFFICES ASSUME Init PROVE IInv
  OBVIOUS
<1>1. priorities = [l \in Lines |-> l]
  BY RotatedByZero DEF Init
<1>2. priorities \in [Lines -> Lines] /\ IRLineWithPriority0 \in Lines
  BY <1>1, SMT DEF Init, Lines
<1>3. intr_v \in Byte
  BY SMT DEF Init, Byte
<1> QED
  BY <1>1, <1>2, <1>3 DEF Init, IInv, TypeOK, InitializedIsConfigured, Undefined

\* Each disjunct of Next keeps the invariant.
THEOREM NextIInv == IInv /\ [Next]_picVars => IInv'
<1> SUFFICES ASSUME IInv, [Next]_picVars PROVE IInv'
  OBVIOUS
<1> USE DEF IInv, TypeOK, InitializedIsConfigured, info, order, latch
<1>1. ASSUME NEW b \in Byte, HandleICW1(b) PROVE IInv'
  <2>1. priorities' = [l \in Lines |-> l] /\ priorities' \in [Lines -> Lines]
    BY <1>1, RotatedByZero DEF HandleICW1, ReInit
  <2>2. 0 \in Lines
    BY SMT DEF Lines
  <2>3. singleMode' \in BOOLEAN
    BY <1>1 DEF HandleICW1, Bit
  <2> QED
    BY <1>1, <2>1, <2>2, <2>3 DEF HandleICW1, ReInit
<1>2. ASSUME NEW b \in Byte, HandleICW2(b) PROVE IInv'
  <2>1. firstInterruptVector' \in {8 * n : n \in 0 .. 31}
    BY <1>2, VectorBase DEF HandleICW2
  <2>2. firstInterruptVector' # Undefined
    BY <2>1, SMT DEF Undefined
  <2> QED
    BY <1>2, <2>1, <2>2 DEF HandleICW2
<1>3. ASSUME NEW b \in Byte, initStatus = "ICW4", HandleICW4(b) PROVE IInv'
  BY <1>3 DEF HandleICW4, Bit
<1>4. ASSUME NEW b \in Byte, HandleOCW1(b) PROVE IInv'
  BY <1>4 DEF HandleOCW1, LinesOf
<1>5. ASSUME NEW b \in Byte, HandleOCW3(b) PROVE IInv'
  BY <1>5 DEF HandleOCW3
<1>6. ASSUME NEW ls, Retire(ls) PROVE IInv'
  BY <1>6 DEF Retire
<1>7. ASSUME NEW line \in Lines, AssertInterruptLine(line) PROVE IInv'
  <2>1. firstInterruptVector \in {8 * n : n \in 0 .. 31}
    BY <1>7 DEF AssertInterruptLine, Masked
  <2>2. intr_v' \in Byte
    BY <1>7, <2>1, SMT DEF AssertInterruptLine, RequestIntr, Lines, Byte
  <2>3. ISR' \subseteq Lines
    BY <1>7 DEF AssertInterruptLine
  <2> QED
    BY <1>7, <2>2, <2>3 DEF AssertInterruptLine, RequestIntr
<1>8. CASE TakeIntr
  BY <1>8 DEF TakeIntr
<1>9. CASE Throws
  BY <1>9 DEF Throws
<1>10. ASSUME NEW b \in Byte, WriteBadICW1(b) PROVE IInv'
  BY <1>10 DEF WriteBadICW1
<1>11. CASE UNCHANGED picVars
  BY <1>11 DEF picVars
<1>12. ASSUME NEW b \in Byte, WriteA0_0(b) PROVE IInv'
  BY <1>12, <1>1, <1>5, <1>6, <1>10 DEF WriteA0_0, WriteICW1, NonSpecificEOI, SpecificEOI
<1>13. ASSUME NEW b \in Byte, WriteA0_1(b) PROVE IInv'
  BY <1>13, <1>1, <1>2, <1>3, <1>4, <1>9 DEF WriteA0_1, WriteICW, WriteBadICW
<1>14. ASSUME NEW line \in Lines, Request(line) PROVE IInv'
  BY <1>14, <1>7, <1>9 DEF Request, AssertInSpecialMode
<1> QED
  BY PICAssumption, <1>8, <1>11, <1>12, <1>13, <1>14 DEF Next

\* Every reachable state is well typed and, once initialised, fully configured,
\* whatever sequence of command words the program wrote.
THEOREM Invariance == Spec => [](TypeOK /\ InitializedIsConfigured)
<1>1. IInv => TypeOK /\ InitializedIsConfigured
  BY DEF IInv
<1> QED
  BY <1>1, InitIInv, NextIInv, PTL DEF Spec

\* The registers and the latch keep values of their types: vectors are bytes, and their
\* base is a multiple of eight.
THEOREM TypeCorrect == Spec => []TypeOK
BY Invariance, PTL

-----------------------------------------------------------------------------
(* The action properties.                                                  *)

\* A step that latches a vector comes from a line that nothing in service
\* outranks, and that then is in service.
THEOREM NextNoInversion ==
  IInv /\ [Next]_picVars /\ Latches =>
    LET line == intr_v' - firstInterruptVector
    IN  /\ initStatus = "INITIALIZED"
        /\ line \in Lines \ IMR
        /\ \A l \in ISR : line <= l
        /\ ~autoEOI => line \in ISR'
<1> SUFFICES ASSUME IInv, [Next]_picVars, Latches
             PROVE  /\ initStatus = "INITIALIZED"
                    /\ intr_v' - firstInterruptVector \in Lines \ IMR
                    /\ \A l \in ISR : intr_v' - firstInterruptVector <= l
                    /\ ~autoEOI => intr_v' - firstInterruptVector \in ISR'
  OBVIOUS
<1> USE DEF info, order, latch, Latches
<1>1. PICK line \in Lines : AssertInterruptLine(line)
  <2>1. ASSUME NEW b \in Byte PROVE ~WriteA0_0(b)
    BY <2>1 DEF WriteA0_0, WriteICW1, HandleICW1, ReInit, WriteBadICW1, NonSpecificEOI,
                SpecificEOI, Retire, HandleOCW3
  <2>2. ASSUME NEW b \in Byte PROVE ~WriteA0_1(b)
    BY <2>2 DEF WriteA0_1, WriteICW, HandleICW1, ReInit, HandleICW2, HandleICW4,
                WriteBadICW, Throws, HandleOCW1
  <2>3. ~TakeIntr /\ ~(UNCHANGED picVars) /\ ~Throws
    BY DEF TakeIntr, picVars, Throws
  <2> QED
    BY <2>1, <2>2, <2>3, PICAssumption DEF Next, Request, AssertInSpecialMode
<1>2. intr_v' - firstInterruptVector = line
  <2>1. firstInterruptVector \in {8 * n : n \in 0 .. 31}
    BY <1>1 DEF IInv, TypeOK, InitializedIsConfigured, AssertInterruptLine, Masked
  <2> QED
    BY <1>1, <2>1, SMT DEF AssertInterruptLine, RequestIntr, Lines
<1>3. ASSUME NEW l \in ISR PROVE line <= l
  <2>1. l \in Lines
    BY <1>3 DEF IInv, TypeOK
  <2>2. ~(l < line)
    BY <1>1, <1>3, <2>1, MoreUrgentIsAbove
       DEF AssertInterruptLine, IInv, InitializedIsConfigured
  <2> QED
    BY <2>1, <2>2, SMT DEF Lines
<1> QED
  BY <1>1, <1>2, <1>3 DEF AssertInterruptLine, Masked

\* No interrupt is ever accepted over a more urgent one in service.
THEOREM NoInversion == Spec => NoPriorityInversion
<1>1. IInv /\ [Next]_picVars =>
        [Latches => LET line == intr_v' - firstInterruptVector
                    IN  /\ initStatus = "INITIALIZED"
                        /\ line \in Lines \ IMR
                        /\ \A l \in ISR : line <= l
                        /\ ~autoEOI => line \in ISR']_picVars
  BY NextNoInversion
<1> QED
  BY <1>1, InitIInv, NextIInv, PTL DEF Spec, NoPriorityInversion

\* A step that takes a line out of service is an end of interrupt, and takes out
\* that line only.
THEOREM NextRetiresOne ==
  IInv /\ [Next]_picVars /\ ~(ISR \subseteq ISR') =>
    /\ \E l \in ISR : ISR' = ISR \ {l}
    /\ initStatus = "INITIALIZED" /\ initStatus' = initStatus /\ latch' = latch
<1> SUFFICES ASSUME IInv, [Next]_picVars, ~(ISR \subseteq ISR')
             PROVE  /\ \E l \in ISR : ISR' = ISR \ {l}
                    /\ initStatus = "INITIALIZED" /\ initStatus' = initStatus
                    /\ latch' = latch
  OBVIOUS
<1> USE DEF info, order
<1>1. PICK b \in Byte : NonSpecificEOI(b) \/ SpecificEOI(b)
  <2>1. ASSUME NEW b \in Byte, WriteA0_0(b) PROVE NonSpecificEOI(b) \/ SpecificEOI(b)
    BY <2>1 DEF WriteA0_0, WriteICW1, HandleICW1, ReInit, WriteBadICW1, HandleOCW3
  <2>2. ASSUME NEW b \in Byte PROVE ~WriteA0_1(b)
    BY <2>2 DEF WriteA0_1, WriteICW, HandleICW1, ReInit, HandleICW2, HandleICW4,
                WriteBadICW, Throws, HandleOCW1
  <2>3. ASSUME NEW line \in Lines PROVE ~Request(line)
    BY <2>3 DEF Request, AssertInterruptLine, AssertInSpecialMode, Throws
  <2>4. ~TakeIntr /\ ~(UNCHANGED picVars)
    BY DEF TakeIntr, picVars
  <2> QED
    BY <2>1, <2>2, <2>3, <2>4, PICAssumption DEF Next
<1>2. CASE NonSpecificEOI(b)
  BY <1>2 DEF NonSpecificEOI, Retire, ReadyFor
<1>3. CASE SpecificEOI(b)
  <2>1. \A l \in ISR : priorities[l] = l
    BY DEF IInv, TypeOK, InitializedIsConfigured
  <2>2. ISR' = ISR \ {l \in ISR : l = b % 8}
    BY <1>3, <2>1 DEF SpecificEOI, Retire
  <2>3. b % 8 \in ISR /\ ISR' = ISR \ {b % 8}
    BY <2>2
  <2> QED
    BY <1>3, <2>3 DEF SpecificEOI, Retire, ReadyFor
<1> QED
  BY <1>1, <1>2, <1>3

\* Lines leave service one at a time, each by an end of interrupt.
THEOREM OneRetired == Spec => RetiresOne
<1>1. IInv /\ [Next]_picVars =>
        [~(ISR \subseteq ISR') =>
           /\ \E l \in ISR : ISR' = ISR \ {l}
           /\ initStatus = "INITIALIZED" /\ initStatus' = initStatus
           /\ latch' = latch]_picVars
  BY NextRetiresOne
<1> QED
  BY <1>1, InitIInv, NextIInv, PTL DEF Spec, RetiresOne
=============================================================================
