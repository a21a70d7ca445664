--------------------------- MODULE ServiceProofs ----------------------------
(***************************************************************************)
(* What the controller keeps in service and what the processor enters      *)
(* handlers for, for every set of devices, every sequence of words of the  *)
(* programs considered, and any bound on handlers and losses.              *)
(***************************************************************************)
EXTENDS Service, PICProofs, FiniteSetTheorems, SequenceTheorems

-----------------------------------------------------------------------------
(* The inductive invariant.                                                *)

CPUTypeOK ==
  /\ INTF \in BOOLEAN /\ hlt \in BOOLEAN /\ checking \in BOOLEAN
  /\ frames \in Seq(Frame) /\ lost \in Nat

SInv == IInv /\ CPUTypeOK /\ LatchIsRequest /\ InServiceIsOwed

-----------------------------------------------------------------------------
(* The controller.                                                         *)

\* Some line of a set of lines is the least of it.
LEMMA LeastLine ==
  ASSUME NEW C \in SUBSET Lines, C # {}
  PROVE  \E l \in C : \A k \in C : l <= k
<1>0. SUFFICES ASSUME \A l \in C : \E k \in C : k < l PROVE FALSE
  BY SMT DEF Lines
<1>1. 0 \notin C
  BY <1>0, SMT DEF Lines
<1>2. 1 \notin C
  BY <1>0, <1>1, SMT DEF Lines
<1>3. 2 \notin C
  BY <1>0, <1>1, <1>2, SMT DEF Lines
<1>4. 3 \notin C
  BY <1>0, <1>1, <1>2, <1>3, SMT DEF Lines
<1>5. 4 \notin C
  BY <1>0, <1>1, <1>2, <1>3, <1>4, SMT DEF Lines
<1>6. 5 \notin C
  BY <1>0, <1>1, <1>2, <1>3, <1>4, <1>5, SMT DEF Lines
<1>7. 6 \notin C
  BY <1>0, <1>1, <1>2, <1>3, <1>4, <1>5, <1>6, SMT DEF Lines
<1>8. 7 \notin C
  BY <1>0, <1>1, <1>2, <1>3, <1>4, <1>5, <1>6, <1>7, SMT DEF Lines
<1>9. \A l \in Lines : l \in {0, 1, 2, 3, 4, 5, 6, 7}
  BY SMT DEF Lines
<1> QED
  BY <1>1, <1>2, <1>3, <1>4, <1>5, <1>6, <1>7, <1>8, <1>9

\* An end of interrupt retires one line, or finds none in service.
LEMMA EndRetiresOne ==
  ASSUME SInv, EndOfInterrupt
  PROVE  /\ [Next]_picVars
         /\ (ISR' = {} /\ ISR = {}) \/ (\E l \in ISR : ISR' = ISR \ {l})
         /\ UNCHANGED <<latch, initStatus, info>>
<1>1. CASE NonSpecificEOI(32)
  <2>1. WriteA0_0(32) /\ ~quit
    BY <1>1 DEF WriteA0_0, EndOfInterrupt, Executes
  <2>2. Next
    BY <2>1, ServiceAssumption DEF Next
  <2>3. ~(ISR \subseteq ISR')
    <3>1. ISR \subseteq Lines /\ ISR # {} /\ 7 \in Lines
      BY <1>1, SMT DEF SInv, IInv, TypeOK, NonSpecificEOI, Lines
    <3>2. MostUrgentInService \in ISR
      <4> DEFINE C == ISR \cup {7}
      <4>1. \E l \in C : \A k \in C : priorities[l] <= priorities[k]
        <5>1. \A l \in Lines : priorities[l] = l
          BY DEF SInv, IInv, InitializedIsConfigured
        <5>2. \E l \in C : \A k \in C : l <= k
          <6>1. C \subseteq Lines /\ C # {}
            BY <3>1
          <6> HIDE DEF C
          <6> QED
            BY <6>1, LeastLine
        <5>3. C \subseteq Lines
          BY <3>1
        <5> HIDE DEF C
        <5> QED
          BY <5>1, <5>2, <5>3
      <4>2. /\ MostUrgentInService \in C
            /\ \A k \in C : priorities[MostUrgentInService] <= priorities[k]
        BY <4>1 DEF MostUrgentInService
      <4>3. CASE MostUrgentInService = 7
        <5>1. PICK l \in ISR : TRUE
          BY <3>1
        <5>2. priorities[7] <= priorities[l] /\ priorities[7] = 7 /\ priorities[l] = l
          BY <3>1, <4>2, <4>3, <5>1 DEF SInv, IInv, InitializedIsConfigured
        <5>3. l \in 0 .. 7
          BY <3>1, <5>1 DEF Lines
        <5>4. l = 7
          BY <5>2, <5>3, SMT
        <5> QED
          BY <4>3, <5>1, <5>4
      <4> QED
        BY <4>2, <4>3
    <3> QED
      BY <1>1, <3>2 DEF NonSpecificEOI, Retire
  <2>4. ISR' = ISR \ {MostUrgentInService} /\ UNCHANGED <<latch, initStatus, info>>
    BY <1>1 DEF NonSpecificEOI, Retire
  <2> QED
    BY <2>2, <2>3, <2>4
<1>2. CASE ISR = {} /\ UNCHANGED picVars
  BY <1>2 DEF picVars, latch, info
<1> QED
  BY <1>1, <1>2 DEF EndOfInterrupt

\* The words of the initialisation, and masks, put no line in service and latch
\* nothing; the last word comes when nothing is in service.
LEMMA WordsKeepService ==
  ASSUME SInv, Initialise \/ WriteWord21
  PROVE  /\ [Next]_picVars
         /\ UNCHANGED <<ISR, intr, intr_v>>
         /\ initStatus = "INITIALIZED" =>
              UNCHANGED <<firstInterruptVector, autoEOI, initStatus>>
<1>1. CASE Initialise
  <2>1. PICK b \in Bytes0 : WriteICW1(b)
    BY <1>1 DEF Initialise
  <2>2. Next
    BY <1>1, <2>1 DEF Next, WriteA0_0, Initialise, Executes
  <2> QED
    BY <1>1, <2>1, <2>2 DEF Initialise, WriteICW1, HandleICW1, ReInit, latch
<1>2. CASE WriteWord21
  <2>1. PICK b \in Bytes1 : WriteA0_1(b)
    BY <1>2 DEF WriteWord21
  <2>2. Next
    BY <1>2, <2>1 DEF Next, WriteWord21, Executes
  <2> QED
    BY <2>1, <2>2 DEF WriteA0_1, WriteICW, WriteBadICW, HandleICW1, HandleICW2, HandleICW4,
                      HandleOCW1, ReInit, Throws, latch, info
<1> QED
  BY <1>1, <1>2

\* A request either latches a vector and puts its line in service, as urgent as any
\* there, or ends the simulation.
LEMMA RequestLatches ==
  ASSUME SInv, NEW line \in Sources, DeviceRequest(line)
  PROVE  /\ [Next]_picVars
         /\ UNCHANGED <<firstInterruptVector, autoEOI, initStatus>>
         /\ \/ UNCHANGED <<ISR, latch>>
            \/ /\ intr' = TRUE /\ intr_v' - firstInterruptVector = line
               /\ line \in Lines /\ \A l \in ISR : line <= l
               /\ initStatus = "INITIALIZED"
               /\ ISR' = IF autoEOI THEN ISR ELSE ISR \cup {line}
<1>1. Next
  BY DEF Next, DeviceRequest
<1>2. line \in Lines
  BY PICAssumption
<1>3. CASE AssertInterruptLine(line)
  <2>1. intr_v' - firstInterruptVector = line
    <3>1. firstInterruptVector \in {8 * n : n \in 0 .. 31}
      BY <1>3 DEF SInv, IInv, TypeOK, InitializedIsConfigured, AssertInterruptLine, Masked
    <3> QED
      BY <1>2, <1>3, <3>1, SMT DEF AssertInterruptLine, RequestIntr, Lines
  <2>2. ASSUME NEW l \in ISR PROVE line <= l
    <3>1. l \in Lines
      BY DEF SInv, IInv, TypeOK
    <3>2. ~(l < line)
      BY <1>2, <1>3, <2>2, <3>1, MoreUrgentIsAbove
         DEF AssertInterruptLine, SInv, IInv, InitializedIsConfigured
    <3> QED
      BY <1>2, <3>1, <3>2, SMT DEF Lines
  <2> QED
    BY <1>1, <1>2, <1>3, <2>1, <2>2 DEF AssertInterruptLine, RequestIntr, Masked, info
<1>4. CASE AssertInSpecialMode(line)
  BY <1>1, <1>4 DEF AssertInSpecialMode, Throws, info
<1> QED
  BY <1>3, <1>4 DEF DeviceRequest, Request

-----------------------------------------------------------------------------
(* The handlers that owe an end of interrupt.                              *)

\* There are finitely many of them, and of lines in service.
LEMMA Finite ==
  ASSUME SInv
  PROVE  /\ IsFiniteSet(ISR) /\ IsFiniteSet(Owing)
         /\ Len(frames) \in Nat /\ DOMAIN frames = 1 .. Len(frames)
<1>1. IsFiniteSet(Lines)
  <2>1. 0 \in Int /\ 7 \in Int
    BY SMT
  <2> QED
    BY <2>1, FS_Interval DEF Lines
<1>2. IsFiniteSet(ISR)
  BY <1>1, FS_Subset DEF SInv, IInv, TypeOK
<1>3. Len(frames) \in Nat /\ DOMAIN frames = 1 .. Len(frames)
  BY LenProperties DEF SInv, CPUTypeOK
<1>4. IsFiniteSet(1 .. Len(frames))
  BY <1>3, FS_Interval, SMT
<1>5. Owing \subseteq 1 .. Len(frames)
  BY <1>3 DEF Owing
<1> QED
  BY <1>2, <1>3, <1>4, <1>5, FS_Subset

\* Entering a handler adds it to the others.
LEMMA EnterHandler ==
  ASSUME SInv, NEW line \in Lines \cup {NoLine}, Interrupt(line)
  PROVE  /\ frames' \in Seq(Frame)
         /\ Owing' = IF line # NoLine /\ ~autoEOI THEN Owing \cup {Len(frames) + 1} ELSE Owing
         /\ Len(frames) + 1 \notin Owing
<1> DEFINE f == [line |-> line, INTF |-> INTF, owes |-> line # NoLine /\ ~autoEOI]
           n == Len(frames)
<1>1. f \in Frame
  BY DEF SInv, CPUTypeOK, Frame
<1>2. frames' = Append(frames, f)
  BY DEF Interrupt
<1>3. n \in Nat /\ DOMAIN frames = 1 .. n /\ frames \in Seq(Frame)
  BY Finite DEF SInv, CPUTypeOK
<1>4. /\ frames' \in Seq(Frame) /\ Len(frames') = n + 1
      /\ \A i \in 1 .. n : frames'[i] = frames[i]
      /\ frames'[n + 1] = f
  <2> HIDE DEF f
  <2> QED
    BY <1>1, <1>2, <1>3, AppendProperties
<1>5. DOMAIN frames' = 1 .. n + 1
  BY <1>4, LenProperties
<1>6. 1 .. n + 1 = (1 .. n) \cup {n + 1} /\ n + 1 \notin 1 .. n
  BY <1>3, SMT
<1>7. f.owes = (line # NoLine /\ ~autoEOI)
  OBVIOUS
<1> HIDE DEF f
<1>8. Owing' = {i \in (1 .. n) \cup {n + 1} : frames'[i].owes}
  BY <1>5, <1>6 DEF Owing
<1>9. Owing = {i \in 1 .. n : frames[i].owes}
  BY <1>3 DEF Owing
<1> QED
  BY <1>4, <1>6, <1>7, <1>8, <1>9

\* Returning from a handler that owes nothing leaves the others as they were.
LEMMA LeaveHandler ==
  ASSUME SInv, IRET
  PROVE  frames' \in Seq(Frame) /\ Owing' = Owing /\ INTF' \in BOOLEAN
<1> DEFINE n == Len(frames)
<1>1. n \in Nat /\ DOMAIN frames = 1 .. n /\ frames \in Seq(Frame)
  BY Finite DEF SInv, CPUTypeOK
<1>2. n \in Nat \ {0} /\ n \in 1 .. n
  BY <1>1, EmptySeq, SMT DEF IRET
<1>3. frames[n] \in Frame /\ ~frames[n].owes /\ INTF' = frames[n].INTF
  BY <1>1, <1>2, ElementOfSeq DEF IRET, Running
<1>4. frames' = SubSeq(frames, 1, n - 1)
  BY DEF IRET
<1>5. \A i \in 1 .. n - 1 : i \in 1 .. n /\ frames[i] \in Frame
  BY <1>1, <1>2, ElementOfSeq, SMT
<1>6. /\ frames' \in Seq(Frame)
      /\ Len(frames') = IF 1 <= n - 1 THEN n - 1 - 1 + 1 ELSE 0
      /\ \A i \in 1 .. n - 1 - 1 + 1 : frames'[i] = frames[1 + i - 1]
  <2>1. 1 \in Int /\ n - 1 \in Int
    BY <1>2, SMT
  <2> QED
    BY <1>4, <1>5, <2>1, SubSeqProperties
<1>7. Len(frames') = n - 1 /\ \A i \in 1 .. n - 1 : frames'[i] = frames[i]
  <2>1. n - 1 - 1 + 1 = n - 1 /\ (1 <= n - 1 \/ n - 1 = 0)
    <3> HIDE DEF n
    <3> QED BY <1>2, SMT
  <2>2. \A i \in 1 .. n - 1 : 1 + i - 1 = i
    <3> HIDE DEF n
    <3> QED BY <1>2, SMT
  <2> QED
    BY <1>6, <2>1, <2>2
<1>8. DOMAIN frames' = 1 .. n - 1
  BY <1>6, <1>7, LenProperties
<1>9. 1 .. n = (1 .. n - 1) \cup {n}
  BY <1>2, SMT
<1>10. Owing' = {i \in 1 .. n - 1 : frames'[i].owes}
  BY <1>8 DEF Owing
<1>11. Owing = {i \in (1 .. n - 1) \cup {n} : frames[i].owes}
  BY <1>1, <1>9 DEF Owing
<1>12. Owing' = Owing
  BY <1>3, <1>7, <1>10, <1>11
<1> QED
  BY <1>3, <1>6, <1>12 DEF Frame

\* The handler that ends its interrupt is one that owed it.
LEMMA EndHandler ==
  ASSUME SInv, EndOfInterrupt
  PROVE  /\ frames' \in Seq(Frame)
         /\ Len(frames) \in Owing /\ Owing' = Owing \ {Len(frames)}
<1> DEFINE n == Len(frames)
           f == [frames[n] EXCEPT !.owes = FALSE]
<1>1. n \in Nat /\ DOMAIN frames = 1 .. n /\ frames \in Seq(Frame)
  BY Finite DEF SInv, CPUTypeOK
<1>2. n \in 1 .. n
  <2>1. n \in Nat \ {0}
    BY <1>1, EmptySeq DEF EndOfInterrupt
  <2> QED
    BY <2>1, SMT
<1>3. frames[n] \in Frame /\ frames[n].owes
  BY <1>1, <1>2, ElementOfSeq DEF EndOfInterrupt, Running
<1>4. f \in Frame /\ ~f.owes
  BY <1>3 DEF Frame
<1>5. frames' = [frames EXCEPT ![n] = f]
  BY DEF EndOfInterrupt
<1> HIDE DEF f
<1>6. /\ frames' \in Seq(Frame) /\ Len(frames') = n
      /\ \A i \in 1 .. n : frames'[i] = IF i = n THEN f ELSE frames[i]
  BY <1>1, <1>2, <1>4, <1>5, ExceptSeq
<1>7. DOMAIN frames' = 1 .. n
  BY <1>6, LenProperties
<1> QED
  BY <1>1, <1>2, <1>3, <1>4, <1>6, <1>7 DEF Owing

-----------------------------------------------------------------------------
(* The steps.                                                              *)

\* Before the controller is initialised nothing is latched, in service or running.
THEOREM InitSInv == ServiceInit => SInv
<1> SUFFICES ASSUME ServiceInit PROVE SInv
  OBVIOUS
<1>1. IInv
  BY InitIInv DEF ServiceInit
<1>2. CPUTypeOK
  <2>1. 0 \in Nat
    BY SMT
  <2> QED
    BY <2>1, EmptySeq DEF ServiceInit, CPUTypeOK
<1>3. LatchIsRequest
  BY DEF ServiceInit, Init, LatchIsRequest
<1>4. InServiceIsOwed
  <2>1. Len(frames) = 0 /\ frames \in Seq(Frame)
    BY EmptySeq DEF ServiceInit
  <2>2. DOMAIN frames = {}
    BY <2>1, LenProperties, SMT
  <2>3. Owing = {} /\ ISR = {}
    BY <2>2 DEF Owing, ServiceInit, Init
  <2>4. Cardinality(ISR) = 0 /\ Cardinality(Owing) = 0
    BY <2>3, FS_EmptySet
  <2> QED
    BY <2>4, SMT DEF InServiceIsOwed, ServiceInit, Init
<1> QED
  BY <1>1, <1>2, <1>3, <1>4 DEF SInv

\* An instruction that leaves the controller and the latch alone keeps the
\* invariant, whatever it does to the flag; it is one that was not being checked.
LEMMA QuietInstruction ==
  ASSUME SInv, UNCHANGED <<picVars, frames, lost>>,
         INTF' \in BOOLEAN, hlt' \in BOOLEAN, checking' \in BOOLEAN,
         INTF' \/ ~checking' => INTF \/ ~checking \/ ~intr
  PROVE  SInv'
<1>1. IInv'
  BY NextIInv DEF SInv
<1>2. CPUTypeOK'
  BY DEF SInv, CPUTypeOK
<1>3. LatchIsRequest' /\ InServiceIsOwed'
  BY DEF SInv, LatchIsRequest, InServiceIsOwed, Owing, picVars, latch, info
<1> QED
  BY <1>1, <1>2, <1>3 DEF SInv

\* INT replaces the vector, and disables interrupts, so that what was latched is not
\* served with the vector of INT.
LEMMA INTKeeps ==
  ASSUME SInv, NEW vector \in Vectors, INT(vector)
  PROVE  SInv'
<1>1. IInv'
  BY ServiceAssumption
     DEF INT, SInv, IInv, TypeOK, InitializedIsConfigured, order, info
<1>2. /\ frames' \in Seq(Frame) /\ Owing' = Owing
  BY EnterHandler DEF INT
<1>3. CPUTypeOK'
  BY <1>2 DEF SInv, CPUTypeOK, INT, Executes, Interrupt
<1>4. LatchIsRequest'
  BY DEF SInv, LatchIsRequest, INT, Executes, Interrupt, info
<1>5. InServiceIsOwed'
  BY <1>2 DEF SInv, InServiceIsOwed, INT, Executes
<1> QED
  BY <1>1, <1>3, <1>4, <1>5 DEF SInv

\* IRET may enable interrupts, with a request latched that INT has not touched.
LEMMA IRETKeeps ==
  ASSUME SInv, IRET
  PROVE  SInv'
<1>1. IInv'
  BY NextIInv DEF SInv, IRET
<1>2. frames' \in Seq(Frame) /\ Owing' = Owing /\ INTF' \in BOOLEAN
  BY LeaveHandler
<1>3. CPUTypeOK'
  BY <1>2 DEF SInv, CPUTypeOK, IRET, Executes
<1>4. LatchIsRequest' /\ InServiceIsOwed'
  BY <1>2 DEF SInv, LatchIsRequest, InServiceIsOwed, IRET, Executes, picVars, latch, info
<1> QED
  BY <1>1, <1>3, <1>4 DEF SInv

\* An end of interrupt takes one line out of service and one handler from those that
\* owe, though not always the line of that handler.
LEMMA EndOfInterruptKeeps ==
  ASSUME SInv, EndOfInterrupt
  PROVE  SInv'
<1>1. /\ [Next]_picVars
      /\ (ISR' = {} /\ ISR = {}) \/ (\E l \in ISR : ISR' = ISR \ {l})
      /\ UNCHANGED <<latch, initStatus, info>>
  BY EndRetiresOne
<1>2. IInv'
  BY <1>1, NextIInv DEF SInv
<1>3. /\ frames' \in Seq(Frame)
      /\ Len(frames) \in Owing /\ Owing' = Owing \ {Len(frames)}
  BY EndHandler
<1>4. CPUTypeOK'
  BY <1>3 DEF SInv, CPUTypeOK, EndOfInterrupt, Executes
<1>5. ISR' \subseteq ISR
  BY <1>1
<1>6. LatchIsRequest'
  BY <1>1, <1>5 DEF SInv, LatchIsRequest, EndOfInterrupt, Executes, latch, info
<1>7. InServiceIsOwed'
  <2>1. IsFiniteSet(ISR) /\ IsFiniteSet(Owing)
    BY Finite
  <2>2. Cardinality(Owing') = Cardinality(Owing) - 1 /\ Cardinality(Owing) \in Nat
    BY <1>3, <2>1, FS_RemoveElement, FS_CardinalityType
  <2>3. Cardinality(Owing) # 0
    BY <1>3, <2>1, FS_EmptySet
  <2>4. CASE ISR' = {}
    <3>1. Cardinality(ISR') = 0
      BY <2>4, FS_EmptySet
    <3>2. lost' \in Nat
      BY <1>4 DEF CPUTypeOK
    <3> QED
      BY <2>2, <2>3, <3>1, <3>2, SMT DEF InServiceIsOwed
  <2>5. ASSUME NEW l \in ISR, ISR' = ISR \ {l} PROVE InServiceIsOwed'
    <3>1. Cardinality(ISR') = Cardinality(ISR) - 1 /\ Cardinality(ISR) \in Nat
      BY <2>1, <2>5, FS_RemoveElement, FS_CardinalityType
    <3>2. lost' = lost /\ intr' = intr /\ lost \in Nat
      BY <1>1 DEF EndOfInterrupt, Executes, latch, SInv, CPUTypeOK
    <3>3. Cardinality(ISR) <= Cardinality(Owing) + (IF intr THEN 1 ELSE 0) + lost
      BY DEF SInv, InServiceIsOwed
    <3>4. Cardinality(ISR) - 1 <= Cardinality(Owing) - 1 + (IF intr THEN 1 ELSE 0) + lost
      BY <2>2, <3>1, <3>2, <3>3, SMT
    <3> QED
      BY <2>2, <3>1, <3>2, <3>4 DEF InServiceIsOwed
  <2> QED
    BY <1>1, <2>4, <2>5
<1> QED
  BY <1>2, <1>4, <1>6, <1>7 DEF SInv

\* The words the program writes.
LEMMA WordsKeep ==
  ASSUME SInv, Initialise \/ WriteWord21
  PROVE  SInv'
<1>1. /\ [Next]_picVars
      /\ UNCHANGED <<ISR, intr, intr_v>>
      /\ initStatus = "INITIALIZED" =>
           UNCHANGED <<firstInterruptVector, autoEOI, initStatus>>
  BY WordsKeepService
<1>2. UNCHANGED <<INTF, hlt, frames, lost>> /\ ~checking /\ checking'
  BY DEF Initialise, WriteWord21, Executes, cpu
<1>3. IInv'
  BY <1>1, NextIInv DEF SInv
<1>4. CPUTypeOK'
  BY <1>2 DEF SInv, CPUTypeOK
<1>5. LatchIsRequest'
  BY <1>1, <1>2 DEF SInv, LatchIsRequest
<1>6. InServiceIsOwed'
  BY <1>1, <1>2 DEF SInv, InServiceIsOwed, Owing
<1> QED
  BY <1>3, <1>4, <1>5, <1>6 DEF SInv

\* What the processor serves is a line the controller accepted.
LEMMA ServesLine ==
  ASSUME SInv, Serve
  PROVE  LET line == intr_v - firstInterruptVector
         IN  line \in Lines /\ \A l \in ISR : line <= l
BY DEF SInv, LatchIsRequest, Serve, Checks, TakeIntr

\* Taking or dropping the request leaves the controller alone.
LEMMA TakeKeeps ==
  ASSUME SInv, Serve \/ Drop
  PROVE  /\ IInv'
         /\ UNCHANGED <<ISR, initStatus, info>> /\ intr /\ intr' = FALSE
<1>1. TakeIntr /\ Next
  BY DEF Serve, Drop, Checks, Next
<1> QED
  BY <1>1, NextIInv DEF SInv, TakeIntr, info

\* The handler entered owes the end the latch stood for.
LEMMA ServeKeeps ==
  ASSUME SInv, Serve
  PROVE  SInv'
<1> DEFINE line == intr_v - firstInterruptVector
<1>1. IInv' /\ UNCHANGED <<ISR, initStatus, info>> /\ intr /\ intr' = FALSE
  BY TakeKeeps
<1>2. line \in Lines /\ Interrupt(line)
  BY ServesLine DEF Serve
<1>3. line # NoLine
  <2> HIDE DEF line
  <2> QED BY <1>2, SMT DEF Lines, NoLine
<1>4. /\ frames' \in Seq(Frame)
      /\ Owing' = IF ~autoEOI THEN Owing \cup {Len(frames) + 1} ELSE Owing
      /\ Len(frames) + 1 \notin Owing
  <2> HIDE DEF line
  <2> QED BY <1>2, <1>3, EnterHandler
<1>5. lost' = lost /\ lost \in Nat /\ INTF' = FALSE /\ hlt' = FALSE /\ checking' = FALSE
  BY <1>2 DEF Serve, Checks, Interrupt, SInv, CPUTypeOK
<1>6. CPUTypeOK'
  BY <1>4, <1>5 DEF CPUTypeOK
<1>7. LatchIsRequest'
  BY <1>1 DEF SInv, LatchIsRequest, info
<1>8. InServiceIsOwed'
  <2>1. /\ IsFiniteSet(Owing) /\ Cardinality(Owing) \in Nat
        /\ IsFiniteSet(ISR) /\ Cardinality(ISR) \in Nat
    BY Finite, FS_CardinalityType
  <2>2. CASE ~autoEOI
    <3>1. Cardinality(Owing') = Cardinality(Owing) + 1
      BY <1>4, <2>1, <2>2, FS_AddElement
    <3>2. Cardinality(ISR) <= Cardinality(Owing) + 1 + lost
      BY <1>1 DEF SInv, InServiceIsOwed
    <3>3. Cardinality(ISR) <= Cardinality(Owing) + 1 + 0 + lost
      BY <1>5, <2>1, <3>2, SMT
    <3> QED
      BY <1>1, <1>5, <3>1, <3>3 DEF InServiceIsOwed
  <2>3. CASE autoEOI
    <3>1. ISR' = {} /\ Owing' = Owing
      BY <1>1, <1>4, <2>3 DEF SInv, LatchIsRequest
    <3>2. Cardinality(ISR') = 0
      BY <3>1, FS_EmptySet
    <3>3. 0 <= Cardinality(Owing) + 0 + lost
      BY <1>5, <2>1, SMT
    <3> QED
      BY <1>1, <1>5, <3>1, <3>2, <3>3 DEF InServiceIsOwed
  <2> QED
    BY <2>2, <2>3
<1> QED
  BY <1>1, <1>6, <1>7, <1>8 DEF SInv

\* A request dropped is a request lost.
LEMMA DropKeeps ==
  ASSUME SInv, Drop
  PROVE  SInv'
<1>1. IInv' /\ UNCHANGED <<ISR, initStatus, info>> /\ intr /\ intr' = FALSE
  BY TakeKeeps
<1>2. lost \in Nat /\ lost' = lost + 1 /\ UNCHANGED cpu /\ checking' = FALSE
  BY DEF Drop, Checks, SInv, CPUTypeOK
<1>3. CPUTypeOK'
  <2>1. lost' \in Nat
    BY <1>2, SMT
  <2> QED
    BY <1>2, <2>1 DEF SInv, CPUTypeOK, cpu
<1>4. LatchIsRequest'
  BY <1>1 DEF SInv, LatchIsRequest, info
<1>5. InServiceIsOwed'
  <2>1. Cardinality(Owing) \in Nat /\ Cardinality(ISR) \in Nat
    BY Finite, FS_CardinalityType
  <2>2. Cardinality(ISR) <= Cardinality(Owing) + 1 + lost
    BY <1>1 DEF SInv, InServiceIsOwed
  <2>3. Cardinality(ISR) <= Cardinality(Owing) + 0 + (lost + 1)
    BY <1>2, <2>1, <2>2, SMT
  <2>4. Owing' = Owing
    BY <1>2 DEF Owing, cpu
  <2> QED
    BY <1>1, <1>2, <2>3, <2>4 DEF InServiceIsOwed
<1> QED
  BY <1>1, <1>3, <1>4, <1>5 DEF SInv

\* A request accepted is latched, and one it overwrites is lost.
LEMMA DeviceRequestKeeps ==
  ASSUME SInv, NEW line \in Sources, DeviceRequest(line)
  PROVE  SInv'
<1>1. /\ [Next]_picVars
      /\ UNCHANGED <<firstInterruptVector, autoEOI, initStatus>>
      /\ \/ UNCHANGED <<ISR, latch>>
         \/ /\ intr' = TRUE /\ intr_v' - firstInterruptVector = line
            /\ line \in Lines /\ \A l \in ISR : line <= l
            /\ initStatus = "INITIALIZED"
            /\ ISR' = IF autoEOI THEN ISR ELSE ISR \cup {line}
  BY RequestLatches
<1>2. /\ UNCHANGED <<cpu, checking>> /\ lost \in Nat
      /\ lost' = IF intr THEN lost + 1 ELSE lost
  BY DEF DeviceRequest, SInv, CPUTypeOK
<1>3. IInv'
  BY <1>1, NextIInv DEF SInv
<1>4. lost' \in Nat
  BY <1>2, SMT
<1>5. CPUTypeOK'
  BY <1>2, <1>4 DEF SInv, CPUTypeOK, cpu
<1>6. Owing' = Owing
  BY <1>2 DEF Owing, cpu
<1>7. IsFiniteSet(ISR) /\ Cardinality(Owing) \in Nat /\ Cardinality(ISR) \in Nat
  BY Finite, FS_CardinalityType
<1>8. Cardinality(ISR) <= Cardinality(Owing) + (IF intr THEN 1 ELSE 0) + lost
  BY DEF SInv, InServiceIsOwed
<1>9. CASE UNCHANGED <<ISR, latch>>
  <2>1. LatchIsRequest'
    BY <1>1, <1>2, <1>9 DEF SInv, LatchIsRequest, latch, cpu
  <2>2. Cardinality(ISR) <= Cardinality(Owing) + (IF intr THEN 1 ELSE 0) + lost'
    BY <1>2, <1>7, <1>8, SMT
  <2>3. InServiceIsOwed'
    BY <1>6, <1>9, <2>2 DEF InServiceIsOwed, latch
  <2> QED
    BY <1>3, <1>5, <2>1, <2>3 DEF SInv
<1>10. CASE /\ intr' = TRUE /\ intr_v' - firstInterruptVector = line
            /\ line \in Lines /\ \A l \in ISR : line <= l
            /\ initStatus = "INITIALIZED"
            /\ ISR' = IF autoEOI THEN ISR ELSE ISR \cup {line}
  <2>1. line <= line
    BY <1>10, SMT DEF Lines
  <2>2. LatchIsRequest'
    BY <1>1, <1>10, <2>1 DEF SInv, LatchIsRequest
  <2>3. Cardinality(ISR') <= Cardinality(ISR) + 1 /\ Cardinality(ISR') \in Nat
    <3>1. Cardinality(ISR \cup {line}) \in {Cardinality(ISR), Cardinality(ISR) + 1}
      BY <1>7, FS_AddElement
    <3>2. Cardinality(ISR') \in {Cardinality(ISR), Cardinality(ISR) + 1}
      BY <1>10, <3>1
    <3> QED
      BY <1>7, <3>2, SMT
  <2>4. Cardinality(ISR') <= Cardinality(Owing) + 1 + lost'
    BY <1>2, <1>7, <1>8, <2>3, SMT
  <2>5. InServiceIsOwed'
    BY <1>6, <1>10, <2>4 DEF InServiceIsOwed
  <2> QED
    BY <1>3, <1>5, <2>2, <2>5 DEF SInv
<1> QED
  BY <1>1, <1>9, <1>10

-----------------------------------------------------------------------------
(* The theorems.                                                           *)

\* Every step keeps the invariant.
THEOREM NextSInv == SInv /\ [ServiceNext]_vars => SInv'
<1> SUFFICES ASSUME SInv, [ServiceNext]_vars PROVE SInv'
  OBVIOUS
<1>1. CASE OtherInstruction \/ STI \/ CLI \/ HLT
  BY <1>1, QuietInstruction
     DEF OtherInstruction, STI, CLI, HLT, Executes, cpu, SInv, CPUTypeOK
<1>2. CASE IRET
  BY <1>2, IRETKeeps
<1>3. CASE EndOfInterrupt
  BY <1>3, EndOfInterruptKeeps
<1>4. CASE Initialise \/ WriteWord21
  BY <1>4, WordsKeep
<1>5. ASSUME NEW vector \in Vectors, INT(vector) PROVE SInv'
  BY <1>5, INTKeeps
<1>6. CASE Serve
  BY <1>6, ServeKeeps
<1>7. CASE Drop
  BY <1>7, DropKeeps
<1>8. CASE NothingLatched
  BY <1>8, QuietInstruction DEF NothingLatched, Checks, cpu, SInv, CPUTypeOK
<1>9. ASSUME NEW line \in Sources, DeviceRequest(line) PROVE SInv'
  BY <1>9, DeviceRequestKeeps
<1>10. CASE UNCHANGED vars
  BY <1>10, QuietInstruction DEF vars, cpu, SInv, CPUTypeOK
<1> QED
  BY <1>1, <1>2, <1>3, <1>4, <1>5, <1>6, <1>7, <1>8, <1>9, <1>10
     DEF ServiceNext, Instruction, Check

\* Every reachable state of controller and processor is well typed.
THEOREM ServiceTypeCorrect == ServiceSpec => []ServiceTypeOK
<1>1. SInv => ServiceTypeOK
  BY DEF SInv, IInv, CPUTypeOK, ServiceTypeOK
<1> QED
  BY <1>1, InitSInv, NextSInv, PTL DEF ServiceSpec

\* No more lines are in service than handlers owe ends of interrupt, requests are
\* latched, and requests were lost (pic.cpp:306-310).
THEOREM ServiceIsOwed == ServiceSpec => []InServiceIsOwed
<1>1. SInv => InServiceIsOwed
  BY DEF SInv
<1> QED
  BY <1>1, InitSInv, NextSInv, PTL DEF ServiceSpec

\* A hardware handler is entered only for a line the controller accepted and that
\* nothing in service outranks (8086.cpp:630-646).
THEOREM ServesAccepted == ServiceSpec => ServesAcceptedLine
<1>1. SInv /\ [ServiceNext]_vars =>
        [Serve => LET line == intr_v - firstInterruptVector
                  IN  line \in Lines /\ \A l \in ISR : line <= l]_vars
  BY ServesLine
<1> QED
  BY <1>1, InitSInv, NextSInv, PTL DEF ServiceSpec, ServesAcceptedLine
=============================================================================
