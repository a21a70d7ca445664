--------------------------------- MODULE Pit ----------------------------------
(***************************************************************************)
(* The interval timer behind its ports (src/pit.cpp): three counters, each *)
(* set up by a control word and then written and read a byte at a time     *)
(* through two toggles.  The processor accesses any ports in any order,    *)
(* and a word output is two bytes at neighbouring ports.                   *)
(*                                                                         *)
(* The clock of the timer is commented out (pit.cpp:39-49) and the modes   *)
(* other than 0 are empty, so every counter stays in mode 0, counts change *)
(* only when they are written, and what is left is the protocol and the    *)
(* words it gives out.  The fields nothing that runs reads are left out:   *)
(* mode, gate, output, BCD and isCounting, and with them all a control     *)
(* word does besides setting the access.  A control word for a fourth      *)
(* counter, one past the array (pit.cpp:89), is no part of the model.      *)
(***************************************************************************)
EXTENDS Bits, Ports

CONSTANTS
  OutPorts, InPorts,    \* ports the processor accesses
  ControlWords,         \* bytes it writes to the control register
  Counts,               \* bytes it writes to other ports
  Leftovers             \* what the allocation may leave in the unset fields

Counters == 0 .. 2

Status == {"LSB", "MSB"}
Access == {"LSB_ONLY", "MSB_ONLY", "LSB_MSB"}

\* A 16-bit word by its bytes.
Words == [low : Byte, high : Byte]

\* Fields the constructor leaves alone.
Leftover == [access : Access, readStatus : Status, writeStatus : Status,
             latchedValueIsAvailable : BOOLEAN, value : Words, latchedValue : Words]

ASSUME PitAssumption ==
  /\ OutPorts \subseteq Nat
  /\ InPorts \subseteq Nat
  /\ ControlWords \subseteq 0 .. 191
  /\ Counts \subseteq Byte
  /\ Leftovers \subseteq Leftover

VARIABLE counters

\* The last five fields are there for the properties alone: whether a control word
\* has set the access since power-on and, for a counter accessed in pairs of bytes,
\* the bytes of the pair in hand that were written, the register the byte of the
\* pair in hand that was read came from, the word it was of, and whether the program
\* has stored to that register since.
Counter == [access : Access, readStatus : Status, writeStatus : Status,
            latchedValueIsAvailable : BOOLEAN, value : Words, latchedValue : Words,
            readComplete : BOOLEAN,
            programmed : BOOLEAN, written : {0, 1}, read : {"nothing", "latch", "count"},
            word : Words, spoiled : BOOLEAN]

NewCounter(leftover) ==
  [access |-> leftover.access,
   readStatus |-> leftover.readStatus,
   writeStatus |-> leftover.writeStatus,
   latchedValueIsAvailable |-> leftover.latchedValueIsAvailable,
   value |-> leftover.value, latchedValue |-> leftover.latchedValue,
   readComplete |-> TRUE,
   programmed |-> FALSE, written |-> 0, read |-> "nothing",
   word |-> leftover.value, spoiled |-> FALSE]

Init == \E left \in [Counters -> Leftovers] :
          counters = [i \in Counters |-> NewCounter(left[i])]

-----------------------------------------------------------------------------
(* Control words.                                                          *)

\* Mutant: the toggle of the writes is not reset.
SetOperationAccessKeepsWrite(c, controlWord) ==
  LET low  == Bit(controlWord, 4)
      high == Bit(controlWord, 5)
  IN  IF ~ (low \/ high)
      THEN [c EXCEPT !.latchedValue = c.value, !.spoiled = @ \/ c.read = "latch"]
      ELSE [c EXCEPT !.access = IF ~ low THEN "MSB_ONLY"
                                ELSE IF high THEN "LSB_MSB" ELSE "LSB_ONLY",
                     !.readStatus = IF low THEN "LSB" ELSE "MSB",
                     !.programmed = TRUE, !.written = 0, !.read = "nothing"]

\* Without access bits the word latches the count; the flag that would make reads
\* return the latched value is not set, and a latch being read is overwritten.
SetOperationAccess(c, controlWord) ==
  LET low  == Bit(controlWord, 4)
      high == Bit(controlWord, 5)
      first == IF low THEN "LSB" ELSE "MSB"
  IN  IF ~ (low \/ high)
      THEN [c EXCEPT !.latchedValue = c.value, !.spoiled = @ \/ c.read = "latch"]
      ELSE [c EXCEPT !.access = IF ~ low THEN "MSB_ONLY"
                                ELSE IF high THEN "LSB_MSB" ELSE "LSB_ONLY",
                     !.readStatus = first, !.writeStatus = first,
                     !.programmed = TRUE, !.written = 0, !.read = "nothing"]

WriteControlWord(cs, controlWord) ==
  LET i == controlWord \div 64
  IN  [cs EXCEPT ![i] = SetOperationAccess(@, controlWord)]

-----------------------------------------------------------------------------
(* The bytes of a counter.                                                 *)

InPairs(c) == c.access = "LSB_MSB"

\* Either byte of a count goes to the low byte of the word: `lsb' and `msb' are two
\* members of the union, and not of a structure in it.
WriteCounter(c, byte) ==
  [c EXCEPT !.value = [low |-> byte, high |-> @.high],
            !.writeStatus = IF ~ InPairs(c) THEN @
                            ELSE IF @ = "LSB" THEN "MSB" ELSE "LSB",
            !.written = IF InPairs(c) THEN 1 - @ ELSE @,
            !.spoiled = @ \/ c.read = "count"]

\* Mutant: the first byte of a pair completes the read.
ApplyPICReadAlgorithmCompletes(c) ==
  CASE c.readStatus = "MSB" -> [c EXCEPT !.readStatus = "LSB", !.readComplete = TRUE]
    [] c.readStatus = "LSB" /\ InPairs(c) ->
         [c EXCEPT !.readStatus = "MSB", !.readComplete = TRUE]
    [] OTHER -> c

\* The first byte of a pair leaves the read incomplete.
ApplyPICReadAlgorithm(c) ==
  CASE c.readStatus = "MSB" -> [c EXCEPT !.readStatus = "LSB", !.readComplete = TRUE]
    [] c.readStatus = "LSB" /\ InPairs(c) ->
         [c EXCEPT !.readStatus = "MSB", !.readComplete = FALSE]
    [] OTHER -> c

\* The word a read takes its byte from.
Shown(c) == IF c.latchedValueIsAvailable THEN c.latchedValue ELSE c.value

\* A latched value is dropped when the read of it is complete.
ReadCounter(c) ==
  LET after == ApplyPICReadAlgorithm(c)
      first == InPairs(c) /\ c.read = "nothing"
  IN  [after EXCEPT
         !.latchedValueIsAvailable = @ /\ ~ after.readComplete,
         !.read = IF ~ first THEN "nothing"
                  ELSE IF c.latchedValueIsAvailable THEN "latch" ELSE "count",
         !.word = IF first THEN Shown(c) ELSE @,
         !.spoiled = FALSE]

-----------------------------------------------------------------------------
(* The ports.                                                              *)

WriteByte(cs, port, byte) ==
  IF ComponentAt(port) # "PIT" THEN cs
  ELSE IF LocalAddress(port) = 3
       THEN WriteControlWord(cs, byte)
       ELSE [cs EXCEPT ![LocalAddress(port)] = WriteCounter(@, byte)]

ReadByte(cs, port) ==
  IF ComponentAt(port) # "PIT" \/ LocalAddress(port) = 3
  THEN cs
  ELSE [cs EXCEPT ![LocalAddress(port)] = ReadCounter(@)]

Bytes(port) ==
  IF ComponentAt(port) = "PIT" /\ LocalAddress(port) = 3 THEN ControlWords ELSE Counts

OutByte == \E port \in OutPorts : \E byte \in Bytes(port) :
             counters' = WriteByte(counters, port, byte)

OutWord == \E port \in OutPorts : \E low \in Bytes(port), high \in Bytes(port + 1) :
             counters' = WriteByte(WriteByte(counters, port, low), port + 1, high)

\* The word form of IN also reads one byte: the operand it looks at for the size
\* is the port and never AX (instructions_data_transfer.cpp:150).
InByte == \E port \in InPorts : counters' = ReadByte(counters, port)

Next == OutByte \/ OutWord \/ InByte

Spec == Init /\ [][Next]_counters

-----------------------------------------------------------------------------
(* What the protocol promises.                                             *)

\* The fields of every counter have values of their types.
TypeOK == counters \in [Counters -> Counter]

\* Once a control word has chosen pairs of bytes, the toggles tell which byte of
\* the pair is next, whatever latch words, control words in the middle of a pair,
\* accesses to the other counters and words over two ports come in between.
PairsStayWhole ==
  \A i \in Counters :
    LET c == counters[i]
    IN  c.programmed /\ InPairs(c) =>
          /\ c.writeStatus = "MSB" <=> c.written = 1
          /\ c.readStatus = "MSB" <=> c.read # "nothing"

\* The two bytes of a pair that is read are of one word.  Between them come control
\* words, other counters' accesses, latch words and writes; only a store to the very
\* register the first byte came from (a write to the count, a latch word to the
\* latch) excuses the second byte from completing the word of the first.
PairOfOneValue ==
  \A i \in Counters :
    LET c == counters[i]
    IN  c.programmed /\ c.read # "nothing" /\ ~ c.spoiled => Shown(c) = c.word

=============================================================================
