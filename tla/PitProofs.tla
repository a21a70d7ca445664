------------------------------ MODULE PitProofs -------------------------------
(***************************************************************************)
(* The protocol of the interval timer, for every set of ports, of bytes    *)
(* and of leftovers.  An access touches counters one at a time, so that    *)
(* the inductive invariant is a condition on one counter and each step     *)
(* preserves it counter by counter.                                        *)
(***************************************************************************)
EXTENDS Pit, TLAPS

\* A counter whose toggles and pairs are in order; without pairs no byte of one is
\* in hand.  Where the byte in hand came from is where the next will come from, and
\* unless the program stored there it still has the word.
Orderly(c) ==
  /\ c \in Counter
  /\ c.programmed =>
       /\ InPairs(c) => /\ c.writeStatus = "MSB" <=> c.written = 1
                        /\ c.readStatus = "MSB" <=> c.read # "nothing"
       /\ ~ InPairs(c) => c.written = 0
       /\ c.read = "latch" => /\ c.latchedValueIsAvailable
                              /\ ~ c.spoiled => c.latchedValue = c.word
       /\ c.read = "count" => /\ ~ c.latchedValueIsAvailable
                              /\ ~ c.spoiled => c.value = c.word

IInv == counters \in [Counters -> Counter] /\ \A i \in Counters : Orderly(counters[i])

\* A control word leaves a counter in order.
LEMMA ControlWordOrderly ==
  ASSUME NEW c, Orderly(c), NEW b
  PROVE  Orderly(SetOperationAccess(c, b))
<1> DEFINE low == Bit(b, 4)
           high == Bit(b, 5)
           d == SetOperationAccess(c, b)
<1>0. c \in Counter
  BY DEF Orderly
<1>1. CASE ~ (low \/ high)
  <2> DEFINE spoiled == c.spoiled \/ c.read = "latch"
  <2>1. d = [c EXCEPT !.latchedValue = c.value, !.spoiled = spoiled]
    BY <1>1 DEF SetOperationAccess
  <2>2. c.value \in Words /\ spoiled \in BOOLEAN
    BY <1>0 DEF Counter
  <2>3. c.read = "latch" => spoiled
    OBVIOUS
  <2>4. c.spoiled => spoiled
    OBVIOUS
  <2> HIDE DEF d, spoiled
  <2>5. d \in Counter
    BY <1>0, <2>1, <2>2, Zenon DEF Counter
  <2>6. /\ d.access = c.access /\ d.readStatus = c.readStatus
        /\ d.writeStatus = c.writeStatus /\ d.written = c.written
        /\ d.read = c.read /\ d.word = c.word /\ d.value = c.value
        /\ d.latchedValueIsAvailable = c.latchedValueIsAvailable
        /\ d.programmed = c.programmed
        /\ d.spoiled = spoiled
    BY <1>0, <2>1, Zenon DEF Counter
  <2> QED
    BY <2>3, <2>4, <2>5, <2>6, Zenon DEF Orderly, InPairs, d
<1>2. CASE low \/ high
  <2> DEFINE access == IF ~ low THEN "MSB_ONLY"
                       ELSE IF high THEN "LSB_MSB" ELSE "LSB_ONLY"
             first == IF low THEN "LSB" ELSE "MSB"
  <2>1. d = [c EXCEPT !.access = access, !.readStatus = first, !.writeStatus = first,
                      !.programmed = TRUE, !.written = 0, !.read = "nothing"]
    BY <1>2 DEF SetOperationAccess
  <2>2. /\ access \in Access /\ first \in Status
        /\ access = "LSB_MSB" => first # "MSB"
    BY DEF Access, Status
  <2> HIDE DEF access, first, d
  <2>3. d \in Counter
    BY <1>0, <2>1, <2>2 DEF Counter
  <2>4. /\ d.access = access /\ d.readStatus = first /\ d.writeStatus = first
        /\ d.written = 0 /\ d.read = "nothing"
    BY <1>0, <2>1 DEF Counter
  <2> QED
    BY <2>2, <2>3, <2>4 DEF Orderly, InPairs, d
<1> QED BY <1>1, <1>2

\* So does a byte written to it.
LEMMA WriteOrderly ==
  ASSUME NEW c, Orderly(c), NEW byte \in Byte
  PROVE  Orderly(WriteCounter(c, byte))
<1> DEFINE d == WriteCounter(c, byte)
           value == [low |-> byte, high |-> c.value.high]
           status == IF ~ InPairs(c) THEN c.writeStatus
                     ELSE IF c.writeStatus = "LSB" THEN "MSB" ELSE "LSB"
           written == IF InPairs(c) THEN 1 - c.written ELSE c.written
           spoiled == c.spoiled \/ c.read = "count"
<1>0. c \in Counter
  BY DEF Orderly
<1>1. d = [c EXCEPT !.value = value, !.writeStatus = status, !.written = written,
                    !.spoiled = spoiled]
  BY DEF WriteCounter
<1>2. /\ status \in Status /\ written \in {0, 1} /\ spoiled \in BOOLEAN
      /\ value \in Words
  <2>1. c.value \in Words
    BY <1>0 DEF Counter
  <2> QED
    BY <1>0, <2>1 DEF Counter, Status, Words
<1>3. c.programmed =>
        /\ InPairs(c) => (status = "MSB" <=> written = 1)
        /\ ~ InPairs(c) => written = 0
  <2> SUFFICES ASSUME c.programmed
               PROVE  /\ InPairs(c) => (status = "MSB" <=> written = 1)
                      /\ ~ InPairs(c) => written = 0
    OBVIOUS
  <2>1. c.writeStatus \in {"LSB", "MSB"} /\ c.written \in {0, 1}
    BY <1>0 DEF Counter, Status
  <2>2. /\ InPairs(c) => (c.writeStatus = "MSB" <=> c.written = 1)
        /\ ~ InPairs(c) => c.written = 0
    BY DEF Orderly
  <2> QED
    BY <2>1, <2>2
<1>4. (c.read = "count" => spoiled) /\ (c.spoiled => spoiled)
  OBVIOUS
<1> HIDE DEF d, value, status, written, spoiled
<1>5. d \in Counter
  BY <1>0, <1>1, <1>2 DEF Counter
<1>6. /\ d.access = c.access /\ d.readStatus = c.readStatus
      /\ d.writeStatus = status /\ d.written = written
      /\ d.read = c.read /\ d.word = c.word /\ d.latchedValue = c.latchedValue
      /\ d.latchedValueIsAvailable = c.latchedValueIsAvailable
      /\ d.programmed = c.programmed
      /\ d.spoiled = spoiled
  BY <1>0, <1>1, Zenon DEF Counter
<1> QED
  BY <1>3, <1>4, <1>5, <1>6, Zenon DEF Orderly, InPairs, d

\* So does a byte read from it.
LEMMA ReadOrderly ==
  ASSUME NEW c, Orderly(c)
  PROVE  Orderly(ReadCounter(c))
<1> DEFINE a == ApplyPICReadAlgorithm(c)
           d == ReadCounter(c)
           first == InPairs(c) /\ c.read = "nothing"
           read == IF ~ first THEN "nothing"
                   ELSE IF c.latchedValueIsAvailable THEN "latch" ELSE "count"
           word == IF first THEN Shown(c) ELSE c.word
           latched == c.latchedValueIsAvailable /\ ~ a.readComplete
<1>0. c \in Counter
  BY DEF Orderly
<1>1. /\ a \in Counter
      /\ a.access = c.access /\ a.writeStatus = c.writeStatus
      /\ a.written = c.written /\ a.read = c.read /\ a.word = c.word
      /\ a.programmed = c.programmed
      /\ a.value = c.value /\ a.latchedValue = c.latchedValue
      /\ a.latchedValueIsAvailable = c.latchedValueIsAvailable
  BY <1>0 DEF ApplyPICReadAlgorithm, Counter, Status
<1>2. InPairs(c) => /\ a.readStatus = "MSB" <=> c.readStatus # "MSB"
                    /\ a.readComplete = (c.readStatus = "MSB")
  BY <1>0 DEF ApplyPICReadAlgorithm, Counter, Status
<1> HIDE DEF a
<1>3. d = [a EXCEPT !.latchedValueIsAvailable = latched, !.read = read,
                    !.word = word, !.spoiled = FALSE]
  BY <1>1, Zenon DEF ReadCounter, a
<1>4. /\ latched \in BOOLEAN /\ read \in {"nothing", "latch", "count"}
      /\ word \in Words
  BY <1>0 DEF Counter, Shown
<1>5. c.programmed =>
        /\ InPairs(c) => (a.readStatus = "MSB" <=> read # "nothing")
        /\ read = "latch" => latched /\ c.latchedValue = word
        /\ read = "count" => ~ latched /\ c.value = word
  BY <1>2 DEF Orderly, Shown
<1> HIDE DEF d, latched, read, word
<1>6. d \in Counter
  BY <1>1, <1>3, <1>4 DEF Counter
<1>7. /\ d.access = c.access /\ d.readStatus = a.readStatus
      /\ d.writeStatus = c.writeStatus /\ d.written = c.written
      /\ d.read = read /\ d.word = word
      /\ d.value = c.value /\ d.latchedValue = c.latchedValue
      /\ d.programmed = c.programmed
      /\ d.latchedValueIsAvailable = latched
  BY <1>1, <1>3, Zenon DEF Counter
<1> QED
  BY <1>5, <1>6, <1>7, Zenon DEF Orderly, InPairs, d

AllOrderly(cs) == cs \in [Counters -> Counter] /\ \A i \in Counters : Orderly(cs[i])

\* Counters stay in order when a counter in order takes the place of one.
LEMMA Substituted ==
  ASSUME NEW cs, AllOrderly(cs), NEW i, NEW c,
         i \in Counters => c \in Counter /\ Orderly(c)
  PROVE  AllOrderly([cs EXCEPT ![i] = c])
BY Zenon DEF AllOrderly

\* A byte at any port leaves all counters in order.
LEMMA WriteByteOrderly ==
  ASSUME NEW cs, AllOrderly(cs), NEW port \in Int, NEW byte \in Bytes(port)
  PROVE  AllOrderly(WriteByte(cs, port, byte))
<1>1. AllOrderly(WriteControlWord(cs, byte))
  <2> DEFINE n == byte \div 64
  <2>1. ASSUME NEW i \in Counters
        PROVE  Orderly(SetOperationAccess(cs[i], byte))
    BY ControlWordOrderly DEF AllOrderly
  <2>2. WriteControlWord(cs, byte)
          = [cs EXCEPT ![n] = SetOperationAccess(cs[n], byte)]
    BY DEF WriteControlWord
  <2> DEFINE new(i) == SetOperationAccess(cs[i], byte)
  <2>3. \A i \in Counters : new(i) \in Counter /\ Orderly(new(i))
    BY <2>1 DEF Orderly
  <2>4. WriteControlWord(cs, byte) = [cs EXCEPT ![n] = new(n)]
    BY <2>2
  <2> HIDE DEF n
  <2>5. AllOrderly([cs EXCEPT ![n] = new(n)])
    BY <2>3, Substituted, Zenon
  <2> QED
    BY <2>4, <2>5, Zenon
<1>2. ASSUME NEW i, byte \in Byte
      PROVE  AllOrderly([cs EXCEPT ![i] = WriteCounter(@, byte)])
  <2> DEFINE new(k) == WriteCounter(cs[k], byte)
  <2>1. \A k \in Counters : Orderly(new(k))
    BY <1>2, WriteOrderly, Zenon DEF AllOrderly
  <2>2. \A k \in Counters : new(k) \in Counter /\ Orderly(new(k))
    BY <2>1, Zenon DEF Orderly
  <2> QED
    BY <2>2, Substituted, Zenon
<1>3. ~ (ComponentAt(port) = "PIT" /\ LocalAddress(port) = 3) => byte \in Byte
  BY PitAssumption DEF Bytes
<1> QED
  BY <1>1, <1>2, <1>3 DEF WriteByte

\* ... and read.
LEMMA ReadByteOrderly ==
  ASSUME NEW cs, AllOrderly(cs), NEW port
  PROVE  AllOrderly(ReadByte(cs, port))
<1>1. ASSUME NEW i PROVE AllOrderly([cs EXCEPT ![i] = ReadCounter(@)])
  <2> DEFINE new(k) == ReadCounter(cs[k])
  <2>1. \A k \in Counters : new(k) \in Counter /\ Orderly(new(k))
    BY ReadOrderly, Zenon DEF AllOrderly, Orderly
  <2> QED
    BY <2>1, Substituted, Zenon
<1> QED
  BY <1>1 DEF ReadByte

\* The invariant holds in every state.
THEOREM Invariance == Spec => []IInv
<1>1. Init => IInv
  <2> SUFFICES ASSUME NEW left \in [Counters -> Leftovers],
                      counters = [i \in Counters |-> NewCounter(left[i])]
               PROVE  IInv
    BY DEF Init
  <2>1. ASSUME NEW i \in Counters PROVE Orderly(NewCounter(left[i]))
    <3>1. left[i] \in Leftover
      BY PitAssumption
    <3> QED
      BY <3>1 DEF Orderly, NewCounter, Leftover, Counter, InPairs
  <2> QED
    BY <2>1 DEF IInv, Orderly
<1>2. IInv /\ [Next]_counters => IInv'
  <2> SUFFICES ASSUME IInv, [Next]_counters
               PROVE  IInv'
    OBVIOUS
  <2>0. AllOrderly(counters)
    BY DEF IInv, AllOrderly
  <2>1. CASE OutByte
    <3> PICK port \in OutPorts : \E byte \in Bytes(port) :
               counters' = WriteByte(counters, port, byte)
      BY <2>1 DEF OutByte
    <3> PICK byte \in Bytes(port) : counters' = WriteByte(counters, port, byte)
      OBVIOUS
    <3>1. port \in Int
      BY PitAssumption
    <3> QED
      BY <2>0, <3>1, WriteByteOrderly DEF IInv, AllOrderly
  <2>2. CASE OutWord
    <3> PICK port \in OutPorts : \E low \in Bytes(port), high \in Bytes(port + 1) :
               counters' = WriteByte(WriteByte(counters, port, low), port + 1, high)
      BY <2>2 DEF OutWord
    <3> PICK low \in Bytes(port), high \in Bytes(port + 1) :
               counters' = WriteByte(WriteByte(counters, port, low), port + 1, high)
      OBVIOUS
    <3>0. port \in Int /\ port + 1 \in Int
      BY PitAssumption
    <3>1. AllOrderly(WriteByte(counters, port, low))
      BY <2>0, <3>0, WriteByteOrderly
    <3>2. AllOrderly(counters')
      BY <3>0, <3>1, WriteByteOrderly
    <3> QED
      BY <3>2 DEF IInv, AllOrderly
  <2>3. CASE InByte
    BY <2>0, <2>3, ReadByteOrderly DEF InByte, IInv, AllOrderly
  <2>4. CASE UNCHANGED counters
    BY <2>4 DEF IInv
  <2> QED
    BY <2>1, <2>2, <2>3, <2>4 DEF Next
<1> QED
  BY <1>1, <1>2, PTL DEF Spec

\* The type invariant of the timer.
THEOREM TypeCorrect == Spec => []TypeOK
<1>1. IInv => TypeOK
  BY DEF IInv, TypeOK
<1> QED
  BY <1>1, Invariance, PTL

\* The toggles tell which byte of a pair is next, under any accesses.
THEOREM PairsInOrder == Spec => []PairsStayWhole
<1>1. IInv => PairsStayWhole
  BY DEF IInv, Orderly, PairsStayWhole
<1> QED
  BY <1>1, Invariance, PTL

\* The two bytes of a pair that is read are of one word, unless the program stored to
\* the register it reads.
THEOREM PairsOfOneValue == Spec => []PairOfOneValue
<1>1. IInv => PairOfOneValue
  <2> SUFFICES ASSUME IInv, NEW i \in Counters,
                      counters[i].programmed, counters[i].read # "nothing",
                      ~ counters[i].spoiled
               PROVE  Shown(counters[i]) = counters[i].word
    BY DEF PairOfOneValue
  <2>1. counters[i].read \in {"latch", "count"}
    BY DEF IInv, Counter
  <2>2. Orderly(counters[i])
    BY DEF IInv
  <2> QED
    BY <2>1, <2>2 DEF Orderly, Shown
<1> QED
  BY <1>1, Invariance, PTL
=============================================================================
