---------------------------- MODULE MachineProofs -----------------------------
(***************************************************************************)
(* That the test program uses the two controllers as FDCHost and Service   *)
(* assume of a driver and of a handler, and that what it writes and what   *)
(* it reads are what it means, for every number of cylinders, every        *)
(* cylinder the program may be assembled with, and every set of drives.    *)
(*                                                                         *)
(* The program is deterministic between two interrupts, and the proof      *)
(* follows it: the inductive invariant MIInv says for each part of the     *)
(* text what the processor, the two controllers and their driver are about *)
(* while the program is there (Situation), beside the invariant of FDCHost *)
(* and what nothing in this program changes (Steady).  A lemma per part    *)
(* shows that an instruction leads to the next place in the same part or   *)
(* to the next part; the clock of the controller, the outside and a look   *)
(* at an empty latch disturb none of it.                                   *)
(***************************************************************************)
EXTENDS Machine, FDCHostProofs

-----------------------------------------------------------------------------
(* The text of the program, instruction by instruction.                    *)

Ops == {"XCHG", "MOV AX", "MOV DX", "IN", "OUT", "STI", "HLT", "JMP", "JMP FAR", "IRET"}
Instruction == [op : Ops, n : Nat]

IsText(s, n) == n \in Nat /\ s \in Seq(Instruction) /\ Len(s) = n

\* In the text `code' the part `part' follows the first `base' instructions.
Holds(code, base, part) ==
  base \in Nat /\ \A i \in 1 .. Len(part) : code[base + i] = part[i]

\* A text made of two holds them one behind the other.
LEMMA HoldsBoth ==
  ASSUME NEW s, NEW m, IsText(s, m), NEW t, NEW n, IsText(t, n)
  PROVE  /\ IsText(s \o t, m + n)
         /\ \A code, base : Holds(code, base, s \o t) =>
              Holds(code, base, s) /\ Holds(code, base + m, t)
<1>1. m \in Nat /\ s \in Seq(Instruction) /\ Len(s) = m
  BY DEF IsText
<1>2. n \in Nat /\ t \in Seq(Instruction) /\ Len(t) = n
  BY DEF IsText
<1>3. IsText(s \o t, m + n)
  BY <1>1, <1>2 DEF IsText
<1>4. ASSUME NEW code, NEW base, Holds(code, base, s \o t)
      PROVE  Holds(code, base, s) /\ Holds(code, base + m, t)
  <2>1. \A i \in 1 .. m : i \in 1 .. Len(s \o t) /\ (s \o t)[i] = s[i]
    BY <1>1, <1>2
  <2>2. \A i \in 1 .. n : m + i \in 1 .. Len(s \o t) /\ (s \o t)[m + i] = t[i]
    BY <1>1, <1>2
  <2>3. Holds(code, base, s)
    BY <1>1, <1>4, <2>1 DEF Holds
  <2>4. base \in Nat /\ \A i \in 1 .. n : code[base + (m + i)] = t[i]
    BY <1>4, <2>2 DEF Holds
  <2>5. \A i \in 1 .. n : base + (m + i) = (base + m) + i
    BY <1>1, <1>2, <2>4
  <2>6. Holds(code, base + m, t)
    BY <1>1, <1>2, <2>4, <2>5 DEF Holds
  <2> QED
    BY <2>3, <2>6
<1> QED
  BY <1>3, <1>4

\* The instructions of the macros are texts.
LEMMA Single ==
  ASSUME NEW x \in Instruction
  PROVE  /\ IsText(<<x>>, 1)
         /\ \A code, base : Holds(code, base, <<x>>) => base \in Nat /\ code[base + 1] = x
BY DEF IsText, Holds

\* An instruction behind a text.
LEMMA Extended ==
  ASSUME NEW s, NEW m, IsText(s, m), NEW x \in Instruction
  PROVE  /\ IsText(s \o <<x>>, m + 1)
         /\ \A code, base : Holds(code, base, s \o <<x>>) =>
              Holds(code, base, s) /\ base \in Nat /\ code[base + (m + 1)] = x
<1>1. IsText(<<x>>, 1)
  BY Single
<1>2. IsText(s \o <<x>>, m + 1)
  BY <1>1, HoldsBoth
<1>3. ASSUME NEW code, NEW base, Holds(code, base, s \o <<x>>)
      PROVE  Holds(code, base, s) /\ base \in Nat /\ code[base + (m + 1)] = x
  <2>1. Holds(code, base, s) /\ Holds(code, base + m, <<x>>)
    BY <1>1, <1>3, HoldsBoth
  <2>2. base \in Nat /\ m \in Nat /\ code[(base + m) + 1] = x
    BY <2>1, Single DEF Holds, IsText
  <2>3. (base + m) + 1 = base + (m + 1)
    BY <2>2
  <2> QED
    BY <2>1, <2>2, <2>3
<1> QED
  BY <1>2, <1>3

Does(name) == [op |-> name, n |-> 0]
LoadsAX(n) == [op |-> "MOV AX", n |-> n]
LoadsDX(n) == [op |-> "MOV DX", n |-> n]

\* What they are made of are instructions.
LEMMA AreInstructions ==
  /\ \A name \in Ops : Does(name) \in Instruction
  /\ \A n \in Nat : LoadsAX(n) \in Instruction /\ LoadsDX(n) \in Instruction
BY DEF Instruction, Ops, Does, LoadsAX, LoadsDX

Row4(x1, x2, x3, x4) == <<x1>> \o <<x2>> \o <<x3>> \o <<x4>>
Row5(x1, x2, x3, x4, x5) == Row4(x1, x2, x3, x4) \o <<x5>>

\* Four instructions in a row, as many as the shortest macro has.
LEMMA Four ==
  ASSUME NEW x1 \in Instruction, NEW x2 \in Instruction, NEW x3 \in Instruction,
         NEW x4 \in Instruction
  PROVE  /\ IsText(Row4(x1, x2, x3, x4), 4)
         /\ \A code, base : Holds(code, base, Row4(x1, x2, x3, x4)) =>
              /\ base \in Nat
              /\ code[base + 1] = x1 /\ code[base + 2] = x2
              /\ code[base + 3] = x3 /\ code[base + 4] = x4
<1> DEFINE s2 == <<x1>> \o <<x2>>
           s3 == s2 \o <<x3>>
<1>1. IsText(s2, 2)
  BY Single, Extended
<1>2. \A code, base : Holds(code, base, s2) =>
         base \in Nat /\ code[base + 1] = x1 /\ code[base + 2] = x2
  BY Single, Extended
<1> HIDE DEF s2
<1>3. IsText(s3, 3)
  BY <1>1, Extended
<1>4. \A code, base : Holds(code, base, s3) => Holds(code, base, s2) /\ code[base + 3] = x3
  BY <1>1, Extended
<1> HIDE DEF s3
<1>5. IsText(s3 \o <<x4>>, 4)
  BY <1>3, Extended
<1>6. \A code, base : Holds(code, base, s3 \o <<x4>>) =>
         Holds(code, base, s3) /\ code[base + 4] = x4
  BY <1>3, Extended
<1>7. Row4(x1, x2, x3, x4) = s3 \o <<x4>>
  BY DEF Row4, s3, s2
<1> QED
  BY <1>2, <1>4, <1>5, <1>6, <1>7

\* Five of them.
LEMMA Five ==
  ASSUME NEW x1 \in Instruction, NEW x2 \in Instruction, NEW x3 \in Instruction,
         NEW x4 \in Instruction, NEW x5 \in Instruction
  PROVE  /\ IsText(Row5(x1, x2, x3, x4, x5), 5)
         /\ \A code, base : Holds(code, base, Row5(x1, x2, x3, x4, x5)) =>
              /\ base \in Nat
              /\ code[base + 1] = x1 /\ code[base + 2] = x2
              /\ code[base + 3] = x3 /\ code[base + 4] = x4
              /\ code[base + 5] = x5
<1>1. IsText(Row4(x1, x2, x3, x4), 4)
  BY Four
<1>2. IsText(Row5(x1, x2, x3, x4, x5), 5)
  BY <1>1, Extended DEF Row5
<1>3. \A code, base : Holds(code, base, Row5(x1, x2, x3, x4, x5)) =>
         Holds(code, base, Row4(x1, x2, x3, x4)) /\ code[base + 5] = x5
  BY <1>1, Extended DEF Row5
<1> QED
  BY <1>2, <1>3, Four

\* The macro that sends a word (test/util.inc).
LEMMA CommandText ==
  ASSUME NEW b \in Nat
  PROVE  /\ IsText(FDC_COMMAND(b), 5)
         /\ \A code, base : Holds(code, base, FDC_COMMAND(b)) =>
              /\ base \in Nat
              /\ code[base + 1] = LoadsDX(1012)
              /\ code[base + 2] = Does("IN")
              /\ code[base + 3] = LoadsDX(1013)
              /\ code[base + 4] = LoadsAX(b)
              /\ code[base + 5] = Does("OUT")
<1>1. /\ LoadsDX(1012) \in Instruction /\ Does("IN") \in Instruction
      /\ LoadsDX(1013) \in Instruction /\ LoadsAX(b) \in Instruction
      /\ Does("OUT") \in Instruction
  BY DEF Instruction, Ops, Does, LoadsAX, LoadsDX
<1>2. FDC_COMMAND(b) =
        Row5(LoadsDX(1012), Does("IN"), LoadsDX(1013), LoadsAX(b), Does("OUT"))
  BY DEF FDC_COMMAND, MovDX, MovAX, Op, Does, LoadsAX, LoadsDX, Row4, Row5
<1> QED
  BY <1>1, <1>2, Five

\* The macro that fetches a word.
LEMMA ResultText ==
  /\ IsText(FDC_RESULT, 4)
  /\ \A code, base : Holds(code, base, FDC_RESULT) =>
       /\ base \in Nat
       /\ code[base + 1] = LoadsDX(1012)
       /\ code[base + 2] = Does("IN")
       /\ code[base + 3] = LoadsDX(1013)
       /\ code[base + 4] = Does("IN")
<1>1. /\ LoadsDX(1012) \in Instruction /\ Does("IN") \in Instruction
      /\ LoadsDX(1013) \in Instruction
  BY DEF Instruction, Ops, Does, LoadsDX
<1>2. FDC_RESULT = Row4(LoadsDX(1012), Does("IN"), LoadsDX(1013), Does("IN"))
  BY DEF FDC_RESULT, MovDX, Op, Does, LoadsDX, Row4
<1> QED
  BY <1>1, <1>2, Four

\* The controller's initialisation (test/bios.s).
LEMMA InitPICText ==
  /\ IsText(InitPIC, 8)
  /\ \A code, base : Holds(code, base, InitPIC) =>
       /\ base \in Nat
       /\ code[base + 1] = LoadsDX(32) /\ code[base + 2] = LoadsAX(19)
       /\ code[base + 3] = Does("OUT")
       /\ code[base + 4] = LoadsDX(33) /\ code[base + 5] = LoadsAX(176)
       /\ code[base + 6] = Does("OUT")
       /\ code[base + 7] = LoadsAX(1) /\ code[base + 8] = Does("OUT")
<1>1. /\ LoadsDX(32) \in Instruction /\ LoadsAX(19) \in Instruction
      /\ LoadsDX(33) \in Instruction /\ LoadsAX(176) \in Instruction
      /\ LoadsAX(1) \in Instruction /\ Does("OUT") \in Instruction
  BY DEF Instruction, Ops, Does, LoadsAX, LoadsDX
<1> DEFINE s5 == Row5(LoadsDX(32), LoadsAX(19), Does("OUT"), LoadsDX(33), LoadsAX(176))
           s6 == s5 \o <<Does("OUT")>>
           s7 == s6 \o <<LoadsAX(1)>>
           s8 == s7 \o <<Does("OUT")>>
<1>2. InitPIC = s8
  BY DEF InitPIC, MovDX, MovAX, Op, Does, LoadsAX, LoadsDX, Row4, Row5
<1>3. /\ IsText(s5, 5)
      /\ \A code, base : Holds(code, base, s5) =>
           /\ base \in Nat
           /\ code[base + 1] = LoadsDX(32) /\ code[base + 2] = LoadsAX(19)
           /\ code[base + 3] = Does("OUT")
           /\ code[base + 4] = LoadsDX(33) /\ code[base + 5] = LoadsAX(176)
  BY <1>1, Five
<1> HIDE DEF s5
<1>4. /\ IsText(s6, 6)
      /\ \A code, base : Holds(code, base, s6) =>
           Holds(code, base, s5) /\ code[base + 6] = Does("OUT")
  BY <1>1, <1>3, Extended
<1> HIDE DEF s6
<1>5. /\ IsText(s7, 7)
      /\ \A code, base : Holds(code, base, s7) =>
           Holds(code, base, s6) /\ code[base + 7] = LoadsAX(1)
  BY <1>1, <1>4, Extended
<1> HIDE DEF s7
<1>6. /\ IsText(s8, 8)
      /\ \A code, base : Holds(code, base, s8) =>
           Holds(code, base, s7) /\ code[base + 8] = Does("OUT")
  BY <1>1, <1>5, Extended
<1> HIDE DEF s8
<1> QED
  BY <1>2, <1>3, <1>4, <1>5, <1>6

\* Three texts of five instructions, one behind the other.
LEMMA ThreeTexts ==
  ASSUME NEW s, IsText(s, 5), NEW t, IsText(t, 5), NEW u, IsText(u, 5)
  PROVE  /\ IsText(s \o t \o u, 15)
         /\ \A code, base : Holds(code, base, s \o t \o u) =>
              Holds(code, base, s) /\ Holds(code, base + 5, t) /\ Holds(code, base + 10, u)
<1> DEFINE two == s \o t
<1>1. /\ IsText(two, 10)
      /\ \A code, base : Holds(code, base, two) =>
           Holds(code, base, s) /\ Holds(code, base + 5, t)
  BY HoldsBoth
<1> HIDE DEF two
<1>2. IsText(two \o u, 10 + 5)
  BY <1>1, HoldsBoth
<1>3. \A code, base : Holds(code, base, two \o u) =>
        Holds(code, base, two) /\ Holds(code, base + 10, u)
  BY <1>1, HoldsBoth
<1> QED
  BY <1>1, <1>2, <1>3 DEF two

\* The words of SPECIFY.
LEMMA SpecifyText ==
  /\ IsText(SPECIFY(15, 11, 1), 15)
  /\ \A code, base : Holds(code, base, SPECIFY(15, 11, 1)) =>
       /\ Holds(code, base, FDC_COMMAND(3))
       /\ Holds(code, base + 5, FDC_COMMAND(191))
       /\ Holds(code, base + 10, FDC_COMMAND(2))
<1>1. SPECIFY(15, 11, 1) = FDC_COMMAND(3) \o FDC_COMMAND(191) \o FDC_COMMAND(2)
  <2>1. 16 * 11 + (15 % 16) = 191 /\ 2 * 1 = 2
    OBVIOUS
  <2> QED
    BY <2>1 DEF SPECIFY
<1>2. PICK s, t, u : s = FDC_COMMAND(3) /\ t = FDC_COMMAND(191) /\ u = FDC_COMMAND(2)
  OBVIOUS
<1>3. PICK three : three = SPECIFY(15, 11, 1)
  OBVIOUS
<1>4. IsText(s, 5) /\ IsText(t, 5) /\ IsText(u, 5)
  BY <1>2, CommandText
<1>5. three = s \o t \o u
  BY <1>1, <1>2, <1>3, Zenon
<1>6. /\ IsText(three, 15)
      /\ \A code, base : Holds(code, base, three) =>
           Holds(code, base, s) /\ Holds(code, base + 5, t) /\ Holds(code, base + 10, u)
  BY <1>4, <1>5, ThreeTexts
<1> QED
  BY <1>2, <1>3, <1>6, Zenon

\* The words of SEEK.
LEMMA SeekText ==
  ASSUME NEW c \in Nat
  PROVE  /\ IsText(SEEK(0, c), 15)
         /\ \A code, base : Holds(code, base, SEEK(0, c)) =>
              /\ Holds(code, base, FDC_COMMAND(15))
              /\ Holds(code, base + 5, FDC_COMMAND(0))
              /\ Holds(code, base + 10, FDC_COMMAND(c))
<1>1. SEEK(0, c) = FDC_COMMAND(15) \o FDC_COMMAND(0) \o FDC_COMMAND(c)
  BY DEF SEEK
<1>2. PICK s, t, u : s = FDC_COMMAND(15) /\ t = FDC_COMMAND(0) /\ u = FDC_COMMAND(c)
  OBVIOUS
<1>3. PICK three : three = SEEK(0, c)
  OBVIOUS
<1>4. IsText(s, 5) /\ IsText(t, 5) /\ IsText(u, 5)
  BY <1>2, CommandText
<1>5. three = s \o t \o u
  BY <1>1, <1>2, <1>3, Zenon
<1>6. /\ IsText(three, 15)
      /\ \A code, base : Holds(code, base, three) =>
           Holds(code, base, s) /\ Holds(code, base + 5, t) /\ Holds(code, base + 10, u)
  BY <1>4, <1>5, ThreeTexts
<1> QED
  BY <1>2, <1>3, <1>6, Zenon

\* The handler (test/interrupts.s), by the parts its proof goes through.
HandlerText(code) ==
  /\ Holds(code, 0, FDC_COMMAND(8))
  /\ Holds(code, 5, FDC_RESULT) /\ Holds(code, 9, FDC_RESULT)
  /\ code[14] = LoadsAX(32) /\ code[15] = LoadsDX(32) /\ code[16] = Does("OUT")
  /\ code[17] = Does("IRET")

\* The main program, likewise.
BiosText(code, c) ==
  /\ code[1] = Does("XCHG")
  /\ code[2] = LoadsDX(32) /\ code[3] = LoadsAX(19) /\ code[4] = Does("OUT")
  /\ code[5] = LoadsDX(33) /\ code[6] = LoadsAX(176) /\ code[7] = Does("OUT")
  /\ code[8] = LoadsAX(1) /\ code[9] = Does("OUT")
  /\ code[10] = Does("STI")
  /\ code[11] = LoadsDX(1010) /\ code[12] = LoadsAX(16) /\ code[13] = Does("OUT")
  /\ Holds(code, 13, FDC_COMMAND(3)) /\ Holds(code, 18, FDC_COMMAND(191))
  /\ Holds(code, 23, FDC_COMMAND(2))
  /\ Holds(code, 28, FDC_COMMAND(15)) /\ Holds(code, 33, FDC_COMMAND(0))
  /\ Holds(code, 38, FDC_COMMAND(c))
  /\ code[44] = Does("HLT") /\ code[45] = Does("JMP")

\* A text holds itself.
LEMMA HoldsItself == ASSUME NEW s PROVE Holds(s, 0, s)
BY DEF Holds

\* The handler reads as its macros say.
LEMMA HandlerReads == HandlerText(Handler)
<1> DEFINE s1 == FDC_COMMAND(8) \o FDC_RESULT
           s2 == s1 \o FDC_RESULT
           s3 == s2 \o MovAX(32)
           s4 == s3 \o MovDX(32)
           s5 == s4 \o Op("OUT")
           s6 == s5 \o Op("IRET")
<1>1. Handler = s6
  BY DEF Handler, SENSE_IT_STATUS
<1>2. Holds(Handler, 0, s6)
  BY <1>1, HoldsItself
<1>3. /\ IsText(s1, 9)
      /\ Holds(Handler, 0, s1) =>
           Holds(Handler, 0, FDC_COMMAND(8)) /\ Holds(Handler, 5, FDC_RESULT)
  <2>1. PICK s : s = FDC_COMMAND(8)
    OBVIOUS
  <2>2. IsText(s, 5)
    BY <2>1, CommandText
  <2>3. IsText(FDC_RESULT, 4)
    BY ResultText
  <2>4. IsText(s \o FDC_RESULT, 5 + 4)
    BY <2>2, <2>3, HoldsBoth
  <2>5. Holds(Handler, 0, s \o FDC_RESULT) =>
          Holds(Handler, 0, s) /\ Holds(Handler, 0 + 5, FDC_RESULT)
    BY <2>2, <2>3, HoldsBoth
  <2> QED
    BY <2>1, <2>4, <2>5
<1> HIDE DEF s1
<1>4. IsText(s2, 13) /\ (Holds(Handler, 0, s2) => Holds(Handler, 0, s1) /\ Holds(Handler, 9, FDC_RESULT))
  BY <1>3, ResultText, HoldsBoth
<1> HIDE DEF s2
<1>5. LoadsAX(32) \in Instruction /\ MovAX(32) = <<LoadsAX(32)>>
  BY DEF Instruction, Ops, LoadsAX, MovAX
<1>6. LoadsDX(32) \in Instruction /\ MovDX(32) = <<LoadsDX(32)>>
  BY DEF Instruction, Ops, LoadsDX, MovDX
<1>7. Does("OUT") \in Instruction /\ Op("OUT") = <<Does("OUT")>>
  BY DEF Instruction, Ops, Does, Op
<1>8. Does("IRET") \in Instruction /\ Op("IRET") = <<Does("IRET")>>
  BY DEF Instruction, Ops, Does, Op
<1>9. IsText(s3, 14) /\ (Holds(Handler, 0, s3) => Holds(Handler, 0, s2) /\ Handler[14] = LoadsAX(32))
  BY <1>4, <1>5, Extended
<1> HIDE DEF s3
<1>10. IsText(s4, 15) /\ (Holds(Handler, 0, s4) => Holds(Handler, 0, s3) /\ Handler[15] = LoadsDX(32))
  BY <1>6, <1>9, Extended
<1> HIDE DEF s4
<1>11. IsText(s5, 16) /\ (Holds(Handler, 0, s5) => Holds(Handler, 0, s4) /\ Handler[16] = Does("OUT"))
  BY <1>7, <1>10, Extended
<1> HIDE DEF s5
<1>12. Holds(Handler, 0, s6) => Holds(Handler, 0, s5) /\ Handler[17] = Does("IRET")
  BY <1>8, <1>11, Extended
<1> HIDE DEF s6
<1> QED
  BY <1>2, <1>3, <1>4, <1>9, <1>10, <1>11, <1>12 DEF HandlerText

BiosOf(specify, seekText) ==
  Op("XCHG") \o InitPIC \o Op("STI") \o MovDX(1010) \o MovAX(16) \o Op("OUT")
  \o specify \o seekText \o Op("HLT") \o Op("JMP")

\* The main program is made of these parts.
LEMMA BiosParts ==
  ASSUME NEW specify, IsText(specify, 15), NEW seekText, IsText(seekText, 15), NEW code,
         code = BiosOf(specify, seekText)
  PROVE  /\ code[1] = Does("XCHG") /\ Holds(code, 1, InitPIC)
         /\ code[10] = Does("STI") /\ code[11] = LoadsDX(1010) /\ code[12] = LoadsAX(16)
         /\ code[13] = Does("OUT")
         /\ Holds(code, 13, specify) /\ Holds(code, 28, seekText)
         /\ code[44] = Does("HLT") /\ code[45] = Does("JMP")
<1> DEFINE s1 == Op("XCHG")
           s2 == s1 \o InitPIC
           s3 == s2 \o Op("STI")
           s4 == s3 \o MovDX(1010)
           s5 == s4 \o MovAX(16)
           s6 == s5 \o Op("OUT")
           s7 == s6 \o specify
           s8 == s7 \o seekText
           s9 == s8 \o Op("HLT")
           s10 == s9 \o Op("JMP")
<1>1. Holds(code, 0, s10)
  <2>1. code = s10
    BY Zenon DEF BiosOf
  <2>2. Holds(code, 0, code)
    BY HoldsItself
  <2> HIDE DEF s10
  <2> QED
    BY <2>1, <2>2
<1>2. Does("XCHG") \in Instruction /\ Op("XCHG") = <<Does("XCHG")>>
  BY DEF Instruction, Ops, Does, Op
<1>3. Does("STI") \in Instruction /\ Op("STI") = <<Does("STI")>>
  BY DEF Instruction, Ops, Does, Op
<1>4. LoadsDX(1010) \in Instruction /\ MovDX(1010) = <<LoadsDX(1010)>>
  BY DEF Instruction, Ops, LoadsDX, MovDX
<1>5. LoadsAX(16) \in Instruction /\ MovAX(16) = <<LoadsAX(16)>>
  BY DEF Instruction, Ops, LoadsAX, MovAX
<1>6. Does("OUT") \in Instruction /\ Op("OUT") = <<Does("OUT")>>
  BY DEF Instruction, Ops, Does, Op
<1>7. Does("HLT") \in Instruction /\ Op("HLT") = <<Does("HLT")>>
  BY DEF Instruction, Ops, Does, Op
<1>8. Does("JMP") \in Instruction /\ Op("JMP") = <<Does("JMP")>>
  BY DEF Instruction, Ops, Does, Op
<1>9. IsText(s1, 1) /\ (Holds(code, 0, s1) => code[1] = Does("XCHG"))
  BY <1>2, Single
<1> HIDE DEF s1
<1>10. IsText(s1, 1) /\ IsText(InitPIC, 8)
  BY <1>9, InitPICText
<1>11. IsText(s2, 1 + 8)
  BY <1>10, HoldsBoth
<1>12. Holds(code, 0, s2) => Holds(code, 0, s1) /\ Holds(code, 0 + 1, InitPIC)
  BY <1>10, HoldsBoth
<1> HIDE DEF s2
<1>13. IsText(s3, 10) /\ (Holds(code, 0, s3) => Holds(code, 0, s2) /\ code[10] = Does("STI"))
  BY <1>3, <1>11, Extended
<1> HIDE DEF s3
<1>14. IsText(s4, 11) /\ (Holds(code, 0, s4) => Holds(code, 0, s3) /\ code[11] = LoadsDX(1010))
  BY <1>4, <1>13, Extended
<1> HIDE DEF s4
<1>15. IsText(s5, 12) /\ (Holds(code, 0, s5) => Holds(code, 0, s4) /\ code[12] = LoadsAX(16))
  BY <1>5, <1>14, Extended
<1> HIDE DEF s5
<1>16. IsText(s6, 13) /\ (Holds(code, 0, s6) => Holds(code, 0, s5) /\ code[13] = Does("OUT"))
  BY <1>6, <1>15, Extended
<1> HIDE DEF s6
<1>17. IsText(s7, 13 + 15)
  BY <1>16, HoldsBoth
<1>18. Holds(code, 0, s7) => Holds(code, 0, s6) /\ Holds(code, 0 + 13, specify)
  BY <1>16, HoldsBoth
<1> HIDE DEF s7
<1>19. IsText(s7, 28)
  BY <1>17
<1>20. IsText(s8, 28 + 15)
  BY <1>19, HoldsBoth
<1>21. Holds(code, 0, s8) => Holds(code, 0, s7) /\ Holds(code, 0 + 28, seekText)
  BY <1>19, HoldsBoth
<1> HIDE DEF s8
<1>22. IsText(s9, 44) /\ (Holds(code, 0, s9) => Holds(code, 0, s8) /\ code[44] = Does("HLT"))
  BY <1>7, <1>20, Extended
<1> HIDE DEF s9
<1>23. Holds(code, 0, s10) => Holds(code, 0, s9) /\ code[45] = Does("JMP")
  BY <1>8, <1>22, Extended
<1> HIDE DEF s10
<1>24. Holds(code, 0, s7) /\ Holds(code, 28, seekText)
       /\ code[44] = Does("HLT") /\ code[45] = Does("JMP")
  BY <1>1, <1>21, <1>22, <1>23
<1>25. Holds(code, 0, s4) /\ Holds(code, 13, specify)
       /\ code[12] = LoadsAX(16) /\ code[13] = Does("OUT")
  BY <1>15, <1>16, <1>18, <1>24
<1>26. Holds(code, 0, s2) /\ code[10] = Does("STI") /\ code[11] = LoadsDX(1010)
  BY <1>13, <1>14, <1>25
<1>27. code[1] = Does("XCHG") /\ Holds(code, 1, InitPIC)
  BY <1>9, <1>12, <1>26
<1> QED
  BY <1>24, <1>25, <1>26, <1>27

\* So it reads as the files say, whatever cylinder it was assembled with.
LEMMA BiosReads == ASSUME NEW c \in Nat PROVE BiosText(Bios(c), c)
<1>1. PICK code, specify, seekText :
        code = Bios(c) /\ specify = SPECIFY(15, 11, 1) /\ seekText = SEEK(0, c)
  OBVIOUS
<1>2. code = BiosOf(specify, seekText)
  <2>1. Bios(c) = BiosOf(SPECIFY(15, 11, 1), SEEK(0, c))
    BY DEF Bios, BiosOf
  <2> QED
    BY <1>1, <2>1, Zenon
<1>3. /\ IsText(specify, 15) /\ IsText(seekText, 15)
      /\ \A base : Holds(code, base, specify) =>
           /\ Holds(code, base, FDC_COMMAND(3)) /\ Holds(code, base + 5, FDC_COMMAND(191))
           /\ Holds(code, base + 10, FDC_COMMAND(2))
      /\ \A base : Holds(code, base, seekText) =>
           /\ Holds(code, base, FDC_COMMAND(15)) /\ Holds(code, base + 5, FDC_COMMAND(0))
           /\ Holds(code, base + 10, FDC_COMMAND(c))
  BY <1>1, SpecifyText, SeekText, Zenon
<1>4. /\ code[1] = Does("XCHG") /\ Holds(code, 1, InitPIC)
      /\ code[10] = Does("STI") /\ code[11] = LoadsDX(1010) /\ code[12] = LoadsAX(16)
      /\ code[13] = Does("OUT")
      /\ Holds(code, 13, specify) /\ Holds(code, 28, seekText)
      /\ code[44] = Does("HLT") /\ code[45] = Does("JMP")
  BY <1>2, <1>3, BiosParts
<1>5. /\ code[2] = LoadsDX(32) /\ code[3] = LoadsAX(19) /\ code[4] = Does("OUT")
      /\ code[5] = LoadsDX(33) /\ code[6] = LoadsAX(176) /\ code[7] = Does("OUT")
      /\ code[8] = LoadsAX(1) /\ code[9] = Does("OUT")
  BY <1>4, InitPICText
<1>6. /\ Holds(code, 13, FDC_COMMAND(3)) /\ Holds(code, 18, FDC_COMMAND(191))
      /\ Holds(code, 23, FDC_COMMAND(2))
      /\ Holds(code, 28, FDC_COMMAND(15)) /\ Holds(code, 33, FDC_COMMAND(0))
      /\ Holds(code, 38, FDC_COMMAND(c))
  BY <1>3, <1>4
<1> QED
  BY <1>1, <1>4, <1>5, <1>6 DEF BiosText

-----------------------------------------------------------------------------
(* What an instruction of the program does, by its kind.                   *)

\* The cylinder of the program is a byte.
LEMMA TargetsAreBytes == SeekTargets \subseteq Byte
BY MachineAssumption, HostAssumption, FDCAssumption

\* The four files as they are assembled.
LEMMA TextRead ==
  ASSUME target \in SeekTargets
  PROVE  /\ at.routine = "jmp" /\ at.i = 1 => Instr = Does("JMP FAR")
         /\ at.routine = "bios" => /\ Instr = Text[target]["bios"][at.i]
                                   /\ BiosText(Text[target]["bios"], target)
         /\ at.routine = "int6" => /\ Instr = Text[target]["int6"][at.i]
                                   /\ HandlerText(Text[target]["int6"])
<1>1. /\ Text[target]["jmp"] = Op("JMP FAR")
      /\ Text[target]["bios"] = Bios(target)
      /\ Text[target]["int6"] = Handler
  BY DEF Text
<1>2. BiosText(Bios(target), target)
  BY TargetsAreBytes, BiosReads DEF Byte
<1>3. HandlerText(Handler)
  BY HandlerReads
<1>4. Op("JMP FAR")[1] = Does("JMP FAR")
  BY DEF Op, Does
<1> QED
  BY <1>1, <1>2, <1>3, <1>4 DEF Instr

\* Which component an address of the program reaches (src/ports.cpp:15-37).
LEMMA PortsOfProgram ==
  /\ ComponentAt(32) = "PIC" /\ LocalAddress(32) = 0
  /\ ComponentAt(33) = "PIC" /\ LocalAddress(33) = 1
  /\ ComponentAt(1010) = "FDC" /\ LocalAddress(1010) = 2
  /\ ComponentAt(1012) = "FDC" /\ LocalAddress(1012) = 4
  /\ ComponentAt(1013) = "FDC" /\ LocalAddress(1013) = 5
<1>1. /\ DOMAIN Devices = {1, 2, 3, 4}
      /\ Devices[1] = [component |-> "PIC", start |-> 32,   mask |-> 1]
      /\ Devices[2] = [component |-> "PIT", start |-> 64,   mask |-> 3]
      /\ Devices[3] = [component |-> "PPI", start |-> 96,   mask |-> 3]
      /\ Devices[4] = [component |-> "FDC", start |-> 1008, mask |-> 7]
  BY DEF Devices
<1>2. ASSUME NEW port \in {32, 33} PROVE DeviceAt(port) = Devices[1]
  <2>1. {i \in DOMAIN Devices : Owns(Devices[i], port)} = {1}
    BY <1>1, <1>2 DEF Owns
  <2>2. (CHOOSE i \in {1} : \A j \in {1} : i <= j) = 1
    OBVIOUS
  <2> QED
    BY <2>1, <2>2 DEF DeviceAt
<1>3. ASSUME NEW port \in {1010, 1012, 1013} PROVE DeviceAt(port) = Devices[4]
  <2>1. {i \in DOMAIN Devices : Owns(Devices[i], port)} = {4}
    BY <1>1, <1>3 DEF Owns
  <2>2. (CHOOSE i \in {4} : \A j \in {4} : i <= j) = 4
    OBVIOUS
  <2> QED
    BY <2>1, <2>2 DEF DeviceAt
<1> QED
  BY <1>1, <1>2, <1>3 DEF ComponentAt, LocalAddress

-----------------------------------------------------------------------------
(* The inductive invariant: where the program is, and what it has done.    *)

Code == Text[target][at.routine]

Positions == [routine : {"jmp", "bios", "int6"}, i : Nat]

\* What nothing in this program disturbs.
Steady ==
  /\ target \in SeekTargets
  /\ at \in Positions
  /\ ~quit /\ ~picQuit /\ lost = 0 /\ checking \in BOOLEAN
  /\ priorities = [l \in S!Lines |-> l] /\ IRLineWithPriority0 = 0 /\ IMR = {}
  /\ ~specialFullyNestedMode

\* Where the macro that starts behind position `base' and sends the byte b stands.
Sending(base, b) ==
  /\ at.i \in base + 1 .. base + 5
  /\ at.i = base + 2 => DX = 1012
  /\ at.i >= base + 3 => seen = "write"
  /\ at.i >= base + 4 => DX = 1013
  /\ at.i = base + 5 => AL = b

\* ... and the one that fetches a word.
Fetching(base) ==
  /\ at.i \in base + 1 .. base + 4
  /\ at.i = base + 2 => DX = 1012
  /\ at.i >= base + 3 => seen = "read"
  /\ at.i = base + 4 => DX = 1013

\* The controller waits for n more words of command c.
Expects(c, n) == phase = "COMMAND" /\ selectedCommand = c /\ toSend = n

\* Nothing is latched, in service or interrupted.
Calm == returns = <<>> /\ frames = <<>> /\ ISR = {} /\ ~intr

Ready == initStatus = "INITIALIZED" /\ firstInterruptVector = 176 /\ ~autoEOI

Starting ==
  /\ at = [routine |-> "jmp", i |-> 1]
  /\ Calm /\ fetched = <<>> /\ INTF = FALSE /\ ~hlt
  /\ initStatus = "UNINITIALIZED"
  /\ Expects("None", 0)

\* The first instructions, up to the output register.
Booting ==
  /\ at.routine = "bios" /\ at.i \in 1 .. 13
  /\ Calm /\ fetched = <<>> /\ ~hlt
  /\ Expects("None", 0)
  /\ at.i \in 1 .. 10 => INTF = FALSE
  /\ at.i \in 11 .. 13 => INTF = TRUE
  /\ at.i \in 1 .. 4 => initStatus = "UNINITIALIZED"
  /\ at.i \in 5 .. 7 => initStatus = "ICW2"
  /\ at.i \in 8 .. 9 => initStatus = "ICW4"
  /\ at.i \in 8 .. 9 => firstInterruptVector = 176
  /\ at.i \in 10 .. 13 => Ready
  /\ at.i \in 3 .. 4 => DX = 32
  /\ at.i = 4 => AL = 19
  /\ at.i \in 6 .. 9 => DX = 33
  /\ at.i = 7 => AL = 176
  /\ at.i = 9 => AL = 1
  /\ at.i \in 12 .. 13 => DX = 1010
  /\ at.i = 13 => AL = 16

\* The words of SPECIFY and of SEEK.
WordToSend ==
  \/ Sending(13, 3)      /\ Expects("None", 0)
  \/ Sending(18, 191)    /\ Expects("Specify", 2)
  \/ Sending(23, 2)      /\ Expects("Specify", 1) /\ configurationDatas[1] = 191
  \/ Sending(28, 15)     /\ Expects("None", 0)
  \/ Sending(33, 0)      /\ Expects("Seek", 2)
  \/ Sending(38, target) /\ Expects("Seek", 1) /\ configurationDatas[1] = 0

Configuring ==
  /\ at.routine = "bios"
  /\ Calm /\ fetched = <<>> /\ ~hlt /\ INTF = TRUE /\ Ready
  /\ WordToSend

\* The loop of HLT, with interrupts enabled.
InLoop ==
  /\ at.routine = "bios" /\ at.i \in {44, 45}
  /\ returns = <<>> /\ frames = <<>> /\ INTF = TRUE /\ Ready

SeekIsRunning ==
  /\ InLoop /\ ISR = {} /\ ~intr /\ fetched = <<>>
  /\ phase = "EXECUTION" /\ selectedCommand = "Seek"
  /\ configurationDatas[1] = 0 /\ configurationDatas[2] = target

\* What the seek has ended with.
Reported ==
  LET cylinder == floppyDrives[0].cylinder
  IN  \/ STRegisters[0] = NR + IC1 + IC2
      \/ STRegisters[0] = SE /\ cylinder = target
      \/ STRegisters[0] = SE + IC1 /\ cylinder = Cylinders - 1 /\ target >= Cylinders

\* The words of the answer to the question of the handler.
AnswerWords == <<STRegisters[0], floppyDrives[0].cylinder % 256>>

EndIsLatched ==
  /\ InLoop /\ ISR = {6} /\ intr /\ intr_v = 182 /\ fetched = <<>>
  /\ Expects("None", 0) /\ configurationDatas[1] = 0
  /\ Reported

Answers(n) ==
  /\ phase = "RESULT" /\ selectedCommand = "SenseInterruptStatus"
  /\ resultWordPos = n /\ resultDatas = AnswerWords

\* The handler has fetched everything and ends its interrupt.
Dismissing ==
  /\ at.i \in 14 .. 16
  /\ at.i >= 15 => AL = 32
  /\ at.i = 16 => DX = 32

InHandler ==
  /\ at.routine = "int6"
  /\ Ready /\ INTF = FALSE /\ ~hlt /\ ~intr
  /\ \E i \in {44, 45} : returns = <<[routine |-> "bios", i |-> i]>>
  /\ Reported

HandlerFrame(owes) == <<[line |-> 6, INTF |-> TRUE, owes |-> owes]>>

Handling ==
  /\ InHandler /\ ISR = {6} /\ frames = HandlerFrame(TRUE)
  /\ \/ /\ Sending(0, 8) /\ Expects("None", 0) /\ configurationDatas[1] = 0
        /\ fetched = <<>>
     \/ Fetching(5) /\ Answers(0) /\ fetched = <<>>
     \/ Fetching(9) /\ Answers(1) /\ fetched = <<STRegisters[0]>>
     \/ Dismissing /\ Expects("None", 0) /\ fetched = AnswerWords

Leaving ==
  /\ InHandler /\ ISR = {} /\ frames = HandlerFrame(FALSE)
  /\ at.i = 17 /\ Expects("None", 0) /\ fetched = AnswerWords

AtRest ==
  /\ InLoop /\ ISR = {} /\ ~intr
  /\ Expects("None", 0) /\ fetched = AnswerWords /\ Reported

Situation ==
  \/ Starting \/ Booting \/ Configuring \/ SeekIsRunning
  \/ EndIsLatched \/ Handling \/ Leaving \/ AtRest

MIInv == HostIInv /\ Steady /\ Situation

-----------------------------------------------------------------------------
(* The effect of one instruction.                                          *)

\* The instruction pointer moves on to the next instruction.
Proceeds == at' \in Positions /\ at'.routine = at.routine /\ at'.i = at.i + 1

\* It does.
LEMMA ProceedProceeds == ASSUME Steady, Proceed PROVE Proceeds
BY DEF Steady, Proceed, Proceeds, Positions

\* Only the registers and the instruction pointer are concerned.
Undisturbed == S!OtherInstruction /\ UNCHANGED <<hostVars, target, returns, fetched>>

\* What a processor that is neither halted nor about to look at its latch does is
\* the instruction it stands at.
LEMMA InstructionExecuted ==
  ASSUME Processor, ~checking, ~hlt
  PROVE  \/ Instr.op \in {"MOV AX", "MOV DX", "XCHG"} /\ MOV
         \/ Instr.op \in {"JMP", "JMP FAR"} /\ JMP
         \/ Instr.op \in {"STI", "HLT"} /\ SetInterruptFlagOrHalt
         \/ Instr.op = "IRET" /\ IRET
         \/ Instr.op = "IN" /\ Input
         \/ Instr.op = "OUT" /\ (OutFDC \/ OutPIC)
<1>1. ~Halted
  BY DEF Halted
<1>2. ~Serve /\ ~Pass
  BY DEF Serve, Pass, S!Serve, S!Drop, S!NothingLatched, S!Checks
<1>3. \A ops : Executes(ops) => Instr.op \in ops
  BY DEF Executes
<1>4. /\ MOV => Instr.op \in {"MOV AX", "MOV DX", "XCHG"}
      /\ JMP => Instr.op \in {"JMP", "JMP FAR"}
      /\ SetInterruptFlagOrHalt => Instr.op \in {"STI", "HLT"}
  BY <1>3, Zenon DEF MOV, JMP, SetInterruptFlagOrHalt
<1>5. /\ IRET => Instr.op = "IRET"
      /\ Input => Instr.op = "IN"
      /\ OutFDC \/ OutPIC => Instr.op = "OUT"
  BY <1>3, Zenon DEF IRET, Input, OutFDC, OutPIC
<1> QED
  BY <1>1, <1>2, <1>4, <1>5, Zenon DEF Processor

\* A load of AX with a byte.
LEMMA LoadedAX ==
  ASSUME Steady, Processor, ~checking, ~hlt, NEW n \in Byte, Instr = LoadsAX(n)
  PROVE  Undisturbed /\ Proceeds /\ AL' = n /\ DX' = DX
<1>1. Instr.op = "MOV AX" /\ Instr.n = n
  BY DEF LoadsAX
<1>2. MOV
  BY <1>1, InstructionExecuted
<1>3. n % 256 = n
  BY DEF Byte
<1> QED
  BY <1>1, <1>2, <1>3, ProceedProceeds DEF MOV, Undisturbed

\* A load of DX.
LEMMA LoadedDX ==
  ASSUME Steady, Processor, ~checking, ~hlt, NEW n, Instr = LoadsDX(n)
  PROVE  Undisturbed /\ Proceeds /\ AL' = AL /\ DX' = n
<1>1. Instr.op = "MOV DX" /\ Instr.n = n
  BY DEF LoadsDX
<1>2. MOV
  BY <1>1, InstructionExecuted
<1> QED
  BY <1>1, <1>2, ProceedProceeds DEF MOV, Undisturbed

\* The exchange of a register with itself.
LEMMA Exchanged ==
  ASSUME Steady, Processor, ~checking, ~hlt, Instr = Does("XCHG")
  PROVE  Undisturbed /\ Proceeds
<1>1. Instr.op = "XCHG"
  BY DEF Does
<1>2. MOV
  BY <1>1, InstructionExecuted
<1> QED
  BY <1>2, ProceedProceeds DEF MOV, Undisturbed

\* The jump to bios.s, and the one back to its HLT.
LEMMA Jumped ==
  ASSUME Steady, Processor, ~checking, ~hlt
  PROVE  /\ Instr = Does("JMP FAR") => Undisturbed /\ at' = [routine |-> "bios", i |-> 1]
         /\ Instr = Does("JMP") /\ at.i \in Nat \ {0} =>
              /\ Undisturbed
              /\ at' \in Positions /\ at'.routine = at.routine /\ at'.i = at.i - 1
<1>1. ASSUME Instr = Does("JMP FAR")
      PROVE  Undisturbed /\ at' = [routine |-> "bios", i |-> 1]
  <2>1. Instr.op = "JMP FAR"
    BY <1>1 DEF Does
  <2> QED
    BY <2>1, InstructionExecuted DEF JMP, Undisturbed
<1>2. ASSUME Instr = Does("JMP"), at.i \in Nat \ {0}
      PROVE  /\ Undisturbed
             /\ at' \in Positions /\ at'.routine = at.routine /\ at'.i = at.i - 1
  <2>1. Instr.op = "JMP"
    BY <1>2 DEF Does
  <2>2. Undisturbed /\ at' = [at EXCEPT !.i = @ - 1]
    BY <2>1, InstructionExecuted DEF JMP, Undisturbed
  <2> QED
    BY <1>2, <2>2 DEF Steady, Positions
<1> QED
  BY <1>1, <1>2

\* What lies outside the program and the floppy controller.
OnlyController == S!OtherInstruction /\ UNCHANGED <<target, returns>>

\* A read of the status register (the IN of the macros that is ignored).
LEMMA StatusIsRead ==
  ASSUME Steady, Processor, ~checking, ~hlt, Instr = Does("IN"), DX = 1012
  PROVE  OnlyController /\ PollStatus /\ Proceeds /\ UNCHANGED <<DX, fetched>>
<1>1. Instr.op = "IN"
  BY DEF Does
<1>2. Input
  BY <1>1, InstructionExecuted
<1> QED
  BY <1>2, PortsOfProgram, ProceedProceeds DEF Input, OnlyController

\* A read of the data register.
LEMMA AnswerIsRead ==
  ASSUME Steady, Processor, ~checking, ~hlt, Instr = Does("IN"), DX = 1013
  PROVE  OnlyController /\ ReadAnswer /\ Proceeds
<1>1. Instr.op = "IN"
  BY DEF Does
<1>2. Input
  BY <1>1, InstructionExecuted
<1> QED
  BY <1>2, PortsOfProgram, ProceedProceeds DEF Input, OnlyController

\* A write of the data register.
LEMMA WordIsWritten ==
  ASSUME Steady, Processor, ~checking, ~hlt, Instr = Does("OUT"), DX = 1013
  PROVE  OnlyController /\ WriteWordOfMacro /\ Proceeds /\ UNCHANGED fetched
<1>1. Instr.op = "OUT"
  BY DEF Does
<1>2. OutFDC \/ OutPIC
  BY <1>1, InstructionExecuted
<1> QED
  BY <1>2, PortsOfProgram, ProceedProceeds DEF OutFDC, OutPIC, OnlyController

\* A write of the output register.
LEMMA DrivesAreSwitched ==
  ASSUME Steady, Processor, ~checking, ~hlt, Instr = Does("OUT"), DX = 1010
  PROVE  /\ OnlyController /\ Proceeds /\ UNCHANGED fetched
         /\ WriteDOR(AL) /\ UNCHANGED <<seen, toSend>>
<1>1. Instr.op = "OUT"
  BY DEF Does
<1>2. OutFDC \/ OutPIC
  BY <1>1, InstructionExecuted
<1> QED
  BY <1>2, PortsOfProgram, ProceedProceeds DEF OutFDC, OutPIC, OnlyController

\* An OUT to one of the two ports of the interrupt controller.
LEMMA PICIsWritten ==
  ASSUME Steady, Processor, ~checking, ~hlt, Instr = Does("OUT"), DX \in {32, 33}
  PROVE  OutPIC /\ Proceeds
<1>1. Instr.op = "OUT"
  BY DEF Does
<1>2. OutFDC \/ OutPIC
  BY <1>1, InstructionExecuted
<1> QED
  BY <1>2, PortsOfProgram, ProceedProceeds DEF OutFDC, OutPIC

\* What a write of the interrupt controller leaves alone.
OnlyPIC == /\ S!Executes
           /\ UNCHANGED <<hostVars, INTF, hlt, target, returns, AL, DX, fetched>>

\* The bits of the command words that the program writes.
LEMMA BitsOfProgram ==
  /\ S!Bit(19, 4) /\ S!Bit(19, 0)
  /\ S!Bit(1, 0) /\ ~S!Bit(1, 1) /\ ~S!Bit(1, 4)
  /\ ~S!Bit(32, 4) /\ ~S!Bit(32, 3)
  /\ 8 * (176 \div 8) = 176 /\ 32 \div 32 = 1
BY DEF S!Bit

\* The first word of the initialisation.
LEMMA FirstInitialisationWord ==
  ASSUME Steady, Processor, ~checking, ~hlt, Instr = Does("OUT"), DX = 32, AL = 19
  PROVE  /\ OnlyPIC /\ Proceeds
         /\ S!WriteICW1(19) /\ frames' = frames
<1>1. OutPIC /\ Proceeds
  BY PICIsWritten
<1>2. OnlyPIC /\ S!WriteA0_0(19) /\ frames' = frames
  BY <1>1, PortsOfProgram DEF OutPIC, OnlyPIC
<1>3. S!WriteICW1(19)
  BY <1>2, BitsOfProgram
     DEF S!WriteA0_0, S!WriteBadICW1, S!ICW4Needed, S!NonSpecificEOI, S!SpecificEOI,
         S!HandleOCW3, S!ReadyFor, S!WriteICW1
<1> QED
  BY <1>1, <1>2, <1>3

\* The words after it.
LEMMA NextInitialisationWord ==
  ASSUME Steady, Processor, ~checking, ~hlt, Instr = Does("OUT"), DX = 33,
         (AL = 176 /\ initStatus = "ICW2") \/ (AL = 1 /\ initStatus = "ICW4")
  PROVE  /\ OnlyPIC /\ Proceeds
         /\ S!WriteA0_1(AL) /\ frames' = frames
         /\ initStatus = "ICW2" => S!HandleICW2(176)
         /\ initStatus = "ICW4" => S!HandleICW4(1)
<1>1. OutPIC /\ Proceeds
  BY PICIsWritten
<1>2. OnlyPIC /\ S!WriteA0_1(AL) /\ frames' = frames
  BY <1>1, PortsOfProgram DEF OutPIC, OnlyPIC
<1>3. /\ initStatus = "ICW2" => S!HandleICW2(176)
      /\ initStatus = "ICW4" => S!HandleICW4(1)
  BY <1>2, BitsOfProgram
     DEF S!WriteA0_1, S!WriteICW, S!WriteBadICW, S!Mode8086, S!HandleOCW1
<1> QED
  BY <1>1, <1>2, <1>3

\* The end of interrupt of the handler.
LEMMA InterruptIsEnded ==
  ASSUME Steady, Processor, ~checking, ~hlt, Instr = Does("OUT"), DX = 32, AL = 32,
         ISR = {6}, Ready, frames = HandlerFrame(TRUE)
  PROVE  /\ OnlyPIC /\ Proceeds
         /\ S!NonSpecificEOI(32) /\ ISR' = {} /\ frames' = HandlerFrame(FALSE)
         /\ frames' = [frames EXCEPT ![Len(frames)].owes = FALSE]
<1>1. OutPIC /\ Proceeds
  BY PICIsWritten
<1>2. S!Bit(AL, 4) = FALSE
  BY BitsOfProgram DEF S!Bit
<1>3. /\ OnlyPIC /\ S!NonSpecificEOI(32)
      /\ frames' = [frames EXCEPT ![Len(frames)].owes = FALSE]
  BY <1>1, PortsOfProgram DEF OutPIC, OnlyPIC, HandlerFrame
<1>4. frames' = HandlerFrame(FALSE)
  <2>1. PICK r, s : /\ r = [line |-> 6, INTF |-> TRUE, owes |-> TRUE]
                    /\ s = [line |-> 6, INTF |-> TRUE, owes |-> FALSE]
    OBVIOUS
  <2>2. frames = <<r>> /\ HandlerFrame(FALSE) = <<s>>
    BY <2>1 DEF HandlerFrame
  <2>3. Len(<<r>>) = 1 /\ <<r>>[1] = r
    OBVIOUS
  <2>4. [r EXCEPT !.owes = FALSE] = s
    <3>1. \A a, b, c, d : [[line |-> a, INTF |-> b, owes |-> c] EXCEPT !.owes = d]
                           = [line |-> a, INTF |-> b, owes |-> d]
      OBVIOUS
    <3> QED
      BY <2>1, <3>1, Zenon
  <2>5. frames' = [<<r>> EXCEPT ![1] = [r EXCEPT !.owes = FALSE]]
    BY <1>3, <2>2, <2>3, Zenon
  <2>6. frames' = [<<r>> EXCEPT ![1] = s]
    BY <2>4, <2>5
  <2>7. [<<r>> EXCEPT ![1] = s] = <<s>>
    OBVIOUS
  <2> QED
    BY <2>2, <2>6, <2>7
<1>5. ISR' = {}
  <2>1. ISR \cup {7} = {6, 7} /\ priorities[6] = 6 /\ priorities[7] = 7
    BY DEF Steady, S!Lines
  <2>2. S!MostUrgentInService = 6
    <3>1. \A l \in {6, 7} : (\A k \in {6, 7} : priorities[l] <= priorities[k]) <=> l = 6
      BY <2>1
    <3>2. (CHOOSE l \in {6, 7} : \A k \in {6, 7} : priorities[l] <= priorities[k]) = 6
      BY <3>1
    <3> QED
      BY <2>1, <3>2 DEF S!MostUrgentInService
  <2> QED
    BY <1>3, <2>2 DEF S!NonSpecificEOI, S!Retire
<1> QED
  BY <1>1, <1>3, <1>4, <1>5

\* STI and HLT.
LEMMA FlagIsSet ==
  ASSUME Steady, Processor, ~checking, ~hlt, Instr = Does("STI")
  PROVE  S!STI /\ Proceeds /\ UNCHANGED <<hostVars, target, returns, AL, DX, fetched>>
<1>1. Instr.op = "STI"
  BY DEF Does
<1>2. SetInterruptFlagOrHalt
  BY <1>1, InstructionExecuted
<1> QED
  BY <1>1, <1>2, ProceedProceeds DEF SetInterruptFlagOrHalt, Executes

\* The processor halts.
LEMMA ProcessorHalts ==
  ASSUME Steady, Processor, ~checking, ~hlt, Instr = Does("HLT")
  PROVE  S!HLT /\ Proceeds /\ UNCHANGED <<hostVars, target, returns, AL, DX, fetched>>
<1>1. Instr.op = "HLT"
  BY DEF Does
<1>2. SetInterruptFlagOrHalt
  BY <1>1, InstructionExecuted
<1> QED
  BY <1>1, <1>2, ProceedProceeds DEF SetInterruptFlagOrHalt, Executes

\* The return from the handler.
LEMMA HandlerReturns ==
  ASSUME Steady, Processor, ~checking, ~hlt, Instr = Does("IRET"),
         frames = HandlerFrame(FALSE), NEW back \in Positions, returns = <<back>>
  PROVE  /\ S!IRET /\ INTF' = TRUE /\ frames' = <<>> /\ returns' = <<>> /\ at' = back
         /\ UNCHANGED <<hostVars, interruptController, hlt, target, fetched>>
<1>1. Instr.op = "IRET"
  BY DEF Does
<1>2. IRET
  BY <1>1, InstructionExecuted
<1>3. PICK r : frames = <<r>> /\ r = [line |-> 6, INTF |-> TRUE, owes |-> FALSE]
  BY DEF HandlerFrame
<1>4. Len(returns) = 1 /\ returns[1] = back
  OBVIOUS
<1>5. S!Running = r /\ r.owes = FALSE /\ r.INTF = TRUE /\ frames # <<>>
  <2>1. r.owes = FALSE /\ r.INTF = TRUE
    BY <1>3
  <2>2. Len(<<r>>) = 1 /\ <<r>>[1] = r /\ <<r>> # <<>>
    OBVIOUS
  <2> QED
    BY <1>3, <2>1, <2>2, Zenon DEF S!Running
<1>6. SubSeq(frames, 1, Len(frames) - 1) = <<>> /\ SubSeq(returns, 1, Len(returns) - 1) = <<>>
  <2>1. \A x : SubSeq(<<x>>, 1, Len(<<x>>) - 1) = <<>>
    OBVIOUS
  <2> QED
    BY <1>3, <2>1, Zenon
<1>7. frames' = <<>> /\ returns' = <<>> /\ at' = back /\ INTF' = TRUE
  BY <1>2, <1>4, <1>5, <1>6 DEF IRET
<1>8. S!IRET
  BY <1>2, <1>5 DEF IRET, S!IRET, interruptController, S!picVars, S!order, S!info, S!latch
<1> QED
  BY <1>2, <1>7, <1>8 DEF IRET

-----------------------------------------------------------------------------
(* The words of the program.                                               *)

\* A word the program sends after a status that allows it is one the driver of
\* FDCHost sends.
LEMMA MacroSends ==
  ASSUME HostIInv, ~quit, seen = "write", WriteWordOfMacro
  PROVE  /\ toSend = 0 => SendCommand(AL)
         /\ toSend > 0 => SendParameter(AL)
         /\ Send(AL) /\ WriteDataRegister(AL)
<1>1. AcceptsWord /\ toSend \in 0 .. 8
  BY DEF HostIInv, StatusReadStaysTrue, DriverTypeOK
<1>2. WriteDataRegister(AL) /\ toSend' = WordsToCome /\ seen' = "nothing"
  BY <1>1 DEF WriteWordOfMacro
<1>3. toSend = 0 => SendCommand(AL)
  BY <1>1, <1>2 DEF SendCommand, WordsToCome
<1>4. toSend > 0 => SendParameter(AL)
  BY <1>1, <1>2 DEF SendParameter, WordsToCome
<1>5. toSend = 0 \/ toSend > 0
  BY <1>1
<1> QED
  BY <1>2, <1>3, <1>4, <1>5 DEF Send

\* The first word of each of the program's commands selects it.
LEMMA FirstWords ==
  /\ commands(CommandIndex(3)) = "Specify"
  /\ commands(CommandIndex(15)) = "Seek"
  /\ commands(CommandIndex(8)) = "SenseInterruptStatus"
<1>1. CommandIndex(3) = 3 /\ CommandIndex(15) = 15 /\ CommandIndex(8) = 8
  BY DEF CommandIndex
<1> QED
  BY <1>1 DEF commands

\* Where the words go while the controller waits for them.
LEMMA WordPlaced ==
  ASSUME HostIInv, ~quit, NEW b \in Byte, Send(b), NEW c, NEW n, Expects(c, n),
         c = "None" \/ c \in Commands \ {"ReadData"}
  PROVE  \E e :
           /\ StoreWord(b, e) /\ Outcome(e) /\ e = Addressed(b)
           /\ e = IF c = "None" THEN commands(CommandIndex(b)) ELSE c
           /\ c = "None" => writePos = 0
           /\ c # "None" => toSend + writePos = ConfigurationWords(c)
           /\ toSend' + writePos + 1 = ConfigurationWords(e) /\ toSend' \in Nat
           /\ writePos' = IF toSend' = 0 THEN 0 ELSE writePos + 1
           /\ e \in Commands
<1>1. PICK e : StoreWord(b, e) /\ Outcome(e)
  BY WordOutcome
<1>2. e = Addressed(b)
  BY <1>1 DEF StoreWord
<1>3. /\ toSend' + writePos + 1 = ConfigurationWords(e) /\ toSend' \in Nat
      /\ writePos' = IF toSend' = 0 THEN 0 ELSE writePos + 1
      /\ ~readCommandInProcess /\ e \in Commands
  BY <1>1, WordExpected
<1>4. ~quit /\ phase = "COMMAND" /\ selectedCommand = c /\ toSend = n
  BY DEF Expects
<1>5. e = IF c = "None" THEN commands(CommandIndex(b)) ELSE c
  BY <1>2, <1>4 DEF Addressed
<1>6. ASSUME c = "None" PROVE writePos = 0
  <2>1. Stage = "idle"
    BY <1>3, <1>4, <1>6 DEF Stage
  <2> QED
    BY <2>1 DEF HostIInv, HostInStep
<1>7. ASSUME c # "None" PROVE toSend + writePos = ConfigurationWords(c)
  <2>1. Stage = "configuration"
    BY <1>3, <1>4, <1>7 DEF Stage
  <2> QED
    BY <1>4, <2>1 DEF HostIInv, HostInStep
<1> QED
  BY <1>1, <1>2, <1>3, <1>5, <1>6, <1>7

\* In configuration the phase is COMMAND.
LEMMA ConfigurationIsCommand ==
  ASSUME Stage' = "configuration" PROVE phase' \notin {"EXECUTION", "RESULT"} /\ ~quit'
BY DEF Stage

\* The first word of SPECIFY or SEEK.
LEMMA CommandBegun ==
  ASSUME HostIInv, HostIInv', ~quit, NEW b \in {3, 15}, Send(b), Expects("None", 0)
  PROVE  ~quit' /\ Expects(IF b = 3 THEN "Specify" ELSE "Seek", 2)'
<1>1. PICK e : /\ StoreWord(b, e) /\ Outcome(e)
               /\ e = commands(CommandIndex(b)) /\ writePos = 0
               /\ toSend' + writePos + 1 = ConfigurationWords(e) /\ toSend' \in Nat
               /\ writePos' = IF toSend' = 0 THEN 0 ELSE writePos + 1
  BY WordPlaced DEF Byte
<1>2. e = IF b = 3 THEN "Specify" ELSE "Seek"
  BY <1>1, FirstWords
<1>3. ConfigurationWords(e) = 3
  BY <1>2 DEF ConfigurationWords
<1>4. toSend' = 2 /\ writePos' = 1
  <2>1. \A n \in Nat : n + 0 + 1 = 3 => n = 2
    OBVIOUS
  <2>2. toSend' = 2
    BY <1>1, <1>3, <2>1
  <2> QED
    BY <1>1, <2>2
<1>5. Stage' = "configuration" /\ selectedCommand' = e
  BY <1>1, <1>4 DEF Outcome
<1>6. phase' \in {"COMMAND", "EXECUTION", "RESULT"}
  BY DEF HostIInv, IInv, TypeOK
<1> QED
  BY <1>2, <1>4, <1>5, <1>6, ConfigurationIsCommand DEF Expects

\* The second one, which is kept.
LEMMA CommandContinued ==
  ASSUME HostIInv, HostIInv', ~quit, NEW b \in Byte, Send(b), NEW c \in {"Specify", "Seek"},
         Expects(c, 2)
  PROVE  ~quit' /\ Expects(c, 1)' /\ configurationDatas'[1] = b
<1>1. c # "None" /\ c \in Commands \ {"ReadData"} /\ ConfigurationWords(c) = 3
  BY DEF Commands, ConfigurationWords
<1>2. PICK e : /\ StoreWord(b, e) /\ Outcome(e)
               /\ e = c /\ toSend + writePos = ConfigurationWords(c)
               /\ toSend' + writePos + 1 = ConfigurationWords(e) /\ toSend' \in Nat
               /\ writePos' = IF toSend' = 0 THEN 0 ELSE writePos + 1
  BY <1>1, WordPlaced
<1>3. toSend = 2 /\ writePos \in 0 .. 8
  BY DEF Expects, HostIInv, IInv, TypeOK
<1>4. writePos = 1 /\ toSend' = 1 /\ writePos' = 2
  <2>1. writePos = 1
    BY <1>1, <1>2, <1>3
  <2>2. \A n \in Nat : n + 1 + 1 = 3 => n = 1
    OBVIOUS
  <2>3. toSend' = 1
    BY <1>1, <1>2, <2>1, <2>2
  <2> QED
    BY <1>2, <2>1, <2>3
<1>5. Stage' = "configuration" /\ selectedCommand' = c
  BY <1>2, <1>4 DEF Outcome
<1>6. phase' \in {"COMMAND", "EXECUTION", "RESULT"}
  BY DEF HostIInv, IInv, TypeOK
<1>7. configurationDatas'[1] = b
  <2>1. configurationDatas \in [0 .. 2 -> Byte]
    BY DEF HostIInv, IInv, TypeOK
  <2>2. configurationDatas' = [configurationDatas EXCEPT ![1] = b]
    BY <1>2, <1>4 DEF StoreWord
  <2> QED
    BY <2>1, <2>2
<1> QED
  BY <1>4, <1>5, <1>6, <1>7, ConfigurationIsCommand DEF Expects

\* The last word of a command that is not rejected does what the command does.
LEMMA CommandCompleted ==
  ASSUME NEW b, WriteDataRegister(b), writePos' = 0,
         NEW c, c = Addressed(b), ~Rejects(c, configurationDatas')
  PROVE  /\ c = "Specify" => EndSpecify(b)
         /\ c = "Seek" => StartSeek(b)
         /\ c = "SenseInterruptStatus" => AnswerSenseInterruptStatus(b)
<1>1. \A e : StoreWord(b, e) => e = c
  BY DEF StoreWord
<1>2. ~WriteWord(b) /\ ~WriteRejectedWord(b)
  BY <1>1 DEF WriteWord, WriteRejectedWord
<1>3. \A e : WriteLastWord(b, e) => e = c
  BY <1>1 DEF WriteLastWord
<1>4. /\ StartRecalibrate(b) => c = "Recalibrate"
      /\ StartTransfer(b) => c \in {"ReadID", "BaseCommand"}
      /\ StartReadData(b) => c = "ReadData"
      /\ AnswerSenseDriveStatus(b) => c = "SenseDriveStatus"
      /\ AnswerInvalid(b) => c = "Invalid"
  BY <1>3, Zenon DEF StartRecalibrate, StartTransfer, StartReadData, AnswerSenseDriveStatus,
                     AnswerInvalid
<1>5. /\ StartSeek(b) => c = "Seek"
      /\ EndSpecify(b) => c = "Specify"
      /\ AnswerSenseInterruptStatus(b) => c = "SenseInterruptStatus"
  BY <1>3, Zenon DEF StartSeek, EndSpecify, AnswerSenseInterruptStatus
<1> QED
  BY <1>2, <1>4, <1>5 DEF WriteDataRegister

\* The last word of a command of three words.
LEMMA LastOfThree ==
  ASSUME HostIInv, ~quit, NEW b \in Byte, Send(b), NEW c \in {"Specify", "Seek"},
         Expects(c, 1)
  PROVE  /\ c = Addressed(b) /\ StoreWord(b, c) /\ writePos' = 0 /\ toSend' = 0
         /\ configurationDatas'[1] = configurationDatas[1] /\ configurationDatas'[2] = b
<1>1. c # "None" /\ c \in Commands \ {"ReadData"} /\ ConfigurationWords(c) = 3
  BY DEF Commands, ConfigurationWords
<1>2. PICK e : /\ StoreWord(b, e) /\ e = Addressed(b)
               /\ e = c /\ toSend + writePos = ConfigurationWords(c)
               /\ toSend' + writePos + 1 = ConfigurationWords(e) /\ toSend' \in Nat
               /\ writePos' = IF toSend' = 0 THEN 0 ELSE writePos + 1
  BY <1>1, WordPlaced
<1>3. toSend = 1 /\ writePos \in 0 .. 8
  BY DEF Expects, HostIInv, IInv, TypeOK
<1>4. writePos = 2
  BY <1>1, <1>2, <1>3
<1>5. toSend' = 0
  <2>1. \A n \in Nat : n + 2 + 1 = 3 => n = 0
    OBVIOUS
  <2> QED
    BY <1>1, <1>2, <1>4, <2>1
<1>6. configurationDatas' = [configurationDatas EXCEPT ![2] = b]
  BY <1>2, <1>4 DEF StoreWord
<1>7. configurationDatas \in [0 .. 2 -> Byte]
  BY DEF HostIInv, IInv, TypeOK
<1> QED
  BY <1>2, <1>5, <1>6, <1>7

\* SPECIFY is accepted, and leaves the controller waiting for a command.
LEMMA SpecifyEnds ==
  ASSUME HostIInv, ~quit, Send(2), Expects("Specify", 1), configurationDatas[1] = 191
  PROVE  ~quit' /\ Expects("None", 0)'
<1>1. /\ "Specify" = Addressed(2) /\ writePos' = 0 /\ toSend' = 0
      /\ configurationDatas'[1] = 191 /\ configurationDatas'[2] = 2
  BY LastOfThree DEF Byte
<1>2. 191 % 16 # 0 /\ 2 \div 2 # 0
  OBVIOUS
<1>3. ~Rejects("Specify", configurationDatas')
  BY <1>1, <1>2 DEF Rejects
<1>4. EndSpecify(2)
  BY <1>1, <1>3, CommandCompleted DEF Send, SendCommand, SendParameter
<1> QED
  BY <1>1, <1>4 DEF EndSpecify, WriteLastWord, SwitchToCommandMode, Expects

\* SEEK begins, for drive 0 and the cylinder of its last word.
LEMMA SeekBegins ==
  ASSUME HostIInv, ~quit, NEW b \in Byte, Send(b), Expects("Seek", 1),
         configurationDatas[1] = 0
  PROVE  /\ ~quit' /\ phase' = "EXECUTION" /\ selectedCommand' = "Seek"
         /\ configurationDatas'[1] = 0 /\ configurationDatas'[2] = b
<1>1. /\ "Seek" = Addressed(b) /\ writePos' = 0
      /\ configurationDatas'[1] = 0 /\ configurationDatas'[2] = b
  BY LastOfThree
<1>2. ~Rejects("Seek", configurationDatas')
  BY DEF Rejects
<1>3. StartSeek(b)
  BY <1>1, <1>2, CommandCompleted DEF Send, SendCommand, SendParameter
<1> QED
  BY <1>1, <1>3 DEF StartSeek, WriteLastWord, SwitchToExecutionMode

\* The question of the handler is answered with ST0 and the cylinder of the drive
\* that the second word of the seek named (command.cpp:226).
LEMMA SenseAnswers ==
  ASSUME HostIInv, ~quit, Send(8), Expects("None", 0), configurationDatas[1] = 0
  PROVE  /\ ~quit' /\ Answers(0)' /\ STRegisters' = STRegisters
         /\ floppyDrives' = floppyDrives
<1>1. PICK e : /\ StoreWord(8, e) /\ Outcome(e) /\ e = Addressed(8)
               /\ e = commands(CommandIndex(8)) /\ writePos = 0
               /\ toSend' + writePos + 1 = ConfigurationWords(e) /\ toSend' \in Nat
               /\ writePos' = IF toSend' = 0 THEN 0 ELSE writePos + 1
  BY WordPlaced DEF Byte
<1>2. e = "SenseInterruptStatus" /\ ConfigurationWords(e) = 1
  BY <1>1, FirstWords DEF ConfigurationWords
<1>3. writePos' = 0
  <2>1. \A n \in Nat : n + 0 + 1 = 1 => n = 0
    OBVIOUS
  <2> QED
    BY <1>1, <1>2, <2>1
<1>4. AnswerSenseInterruptStatus(8)
  BY <1>1, <1>2, <1>3, CommandCompleted DEF Send, SendCommand, SendParameter, Rejects
<1>5. configurationDatas'[1] = 0
  <2>1. configurationDatas \in [0 .. 2 -> Byte]
    BY DEF HostIInv, IInv, TypeOK
  <2>2. configurationDatas' = [configurationDatas EXCEPT ![0] = 8]
    BY <1>1 DEF StoreWord
  <2> QED
    BY <2>1, <2>2
<1>6. DriveOf(0) = 0
  BY DEF DriveOf
<1>7. /\ phase' = "RESULT" /\ selectedCommand' = "SenseInterruptStatus"
      /\ resultDatas' = <<STRegisters[0], floppyDrives[0].cylinder % 256>>
      /\ UNCHANGED <<STRegisters, floppyDrives, resultWordPos, quit>>
  BY <1>1, <1>2, <1>4, <1>5, <1>6
     DEF AnswerSenseInterruptStatus, WriteLastWord, StoreWord, SwitchToResultMode
<1>8. resultWordPos = 0
  BY DEF Expects, HostIInv, IInv, Coherent
<1> QED
  BY <1>7, <1>8 DEF Answers, AnswerWords

\* What no step disturbs that neither gives the controller a word nor takes one nor
\* works on its command.
HostQuiet ==
  /\ UNCHANGED <<phase, selectedCommand, configurationDatas, resultDatas, resultWordPos,
                 STRegisters, quit, toSend>>
  /\ floppyDrives'[0].cylinder = floppyDrives[0].cylinder

\* The words of the answer, fetched one by one.
LEMMA WordIsFetched ==
  ASSUME HostIInv, ~quit, seen = "read", ReadAnswer, NEW n \in {0, 1}, Answers(n)
  PROVE  /\ FetchResult
         /\ fetched' = Append(fetched, AnswerWords[n + 1])
         /\ ~quit' /\ UNCHANGED <<STRegisters, floppyDrives>>
         /\ n = 0 => Answers(1)'
         /\ n = 1 => Expects("None", 0)'
<1>1. AllowsReading /\ toSend = 0
  <2>1. Stage = "result"
    BY DEF Answers, Stage
  <2> QED
    BY <2>1 DEF HostIInv, StatusReadStaysTrue, HostInStep
<1>2. /\ ReadResultWord \/ ReadLastResultWord
      /\ AL' = resultDatas[resultWordPos + 1] /\ fetched' = Append(fetched, AL')
      /\ seen' = "nothing" /\ toSend' = toSend
  BY <1>1 DEF ReadAnswer
<1>3. FetchResult
  BY <1>2 DEF FetchResult
<1>4. ResultWords(selectedCommand) = 2 /\ resultWordPos = n /\ resultDatas = AnswerWords
  BY DEF Answers, ResultWords
<1>5. CASE n = 0
  <2>1. resultWordPos' = 1 /\ ReadResultWord
    BY <1>2, <1>4, <1>5 DEF ReadResultWord, ReadLastResultWord
  <2>2. UNCHANGED <<phase, selectedCommand, resultDatas, STRegisters, floppyDrives, quit>>
    BY <2>1 DEF ReadResultWord, drives
  <2> QED
    BY <1>2, <1>3, <1>4, <1>5, <2>1, <2>2 DEF Answers, AnswerWords
<1>6. CASE n = 1
  <2>1. ReadLastResultWord
    BY <1>2, <1>4, <1>6 DEF ReadResultWord, ReadLastResultWord
  <2>2. /\ phase' = "COMMAND" /\ selectedCommand' = "None"
        /\ UNCHANGED <<STRegisters, floppyDrives, quit>>
    BY <2>1 DEF ReadLastResultWord, SwitchToCommandMode, drives
  <2> QED
    BY <1>1, <1>2, <1>3, <1>4, <1>6, <2>2 DEF Expects
<1> QED
  BY <1>5, <1>6

-----------------------------------------------------------------------------
(* The clock of the controller, and the outside.                           *)

\* A clock of a controller that executes nothing changes nothing of this.
LEMMA QuietClock ==
  ASSUME HostIInv, HostClock, phase # "EXECUTION"
  PROVE  HostQuiet /\ irq' = FALSE /\ UNCHANGED seen
<1>1. Countdown /\ UNCHANGED <<seen, toSend>>
  BY DEF HostClock, Clock, SeekEnds, SeekStep, RecalibrateEnds, RecalibrateStep, ExecReadID,
         Executing
<1> QED
  BY <1>1 DEF Countdown, HostQuiet, config, answer, drives

\* Nor do disks put in and taken out, and delays that end.
LEMMA QuietOutside ==
  ASSUME HostIInv, Environment, UNCHANGED <<seen, toSend>>
  PROVE  HostQuiet
<1>1. 0 \in Drives
  BY DEF Drives
<1> QED
  BY <1>1, OutsideMovesNoHead DEF OtherThanDrives, HostQuiet, config, answer

\* Nor does a read of the status.
LEMMA QuietPoll == ASSUME PollStatus PROVE HostQuiet
BY DEF PollStatus, ReadStatusRegister, HostQuiet, config, answer, drives

\* A clock of the seek goes on with it, or ends it with an interrupt and a word
\* that says where the head is.
LEMMA SeekClocked ==
  ASSUME HostIInv, HostClock, phase = "EXECUTION", selectedCommand = "Seek",
         configurationDatas[1] = 0, configurationDatas[2] = target, target' = target
  PROVE  /\ ~quit' /\ configurationDatas' = configurationDatas
         /\ ~irq' => phase' = "EXECUTION" /\ selectedCommand' = "Seek"
         /\ irq' => Expects("None", 0)' /\ Reported'
<1>1. ClockOutcome /\ HostIInv'
  BY HostClocked
<1>2. ~quit /\ Stage = "execution" /\ toSend = 0
  BY WhileExecuting DEF HostClock
<1>3. UNCHANGED <<configurationDatas, toSend>>
  BY DEF HostClock, Clock, Countdown, SeekEnds, SeekStep, RecalibrateEnds, RecalibrateStep,
         ExecReadID, config
<1>4. ASSUME ~irq' PROVE ~quit' /\ phase' = "EXECUTION" /\ selectedCommand' = "Seek"
  <2>1. Stage' = "execution" /\ selectedCommand' = "Seek" /\ quit' = quit
    BY <1>1, <1>2, <1>4 DEF ClockOutcome
  <2> QED
    BY <1>2, <2>1 DEF Stage
<1>5. ASSUME irq' PROVE ~quit' /\ Expects("None", 0)' /\ Reported'
  <2>1. Stage' = "idle" /\ selectedCommand' = "None" /\ quit' = quit
    BY <1>1, <1>5 DEF ClockOutcome
  <2>2. phase' \in {"COMMAND", "EXECUTION", "RESULT"}
    BY <1>1 DEF HostIInv, IInv, TypeOK
  <2>3. phase' = "COMMAND"
    BY <2>1, <2>2 DEF Stage
  <2>4. TruthfulEnd
    <3>1. HostNext
      BY DEF HostNext
    <3>2. hostVars' # hostVars
      <4>1. phase' # phase
        BY <2>3
      <4> QED
        BY <4>1 DEF hostVars, vars
    <3> QED
      BY <3>1, <3>2, NextTruthful
  <2>5. DriveOf(0) = 0 /\ UnitOf(0) = 0
    BY DEF DriveOf, UnitOf
  <2>6. STRegisters'[0] \in Nat
    <3>1. STRegisters' \in [0 .. 2 -> Byte]
      BY <1>1, Zenon DEF HostIInv, IInv, TypeOK
    <3>2. \A f \in [0 .. 2 -> Byte] : f[0] \in Nat
      BY DEF Byte
    <3> QED
      BY <3>1, <3>2
  <2>7. \A n \in Nat : n - 0 = n
    OBVIOUS
  <2>8. STRegisters'[0] - UnitOf(configurationDatas[1]) = STRegisters'[0]
    BY <2>5, <2>6, <2>7
  <2>9. Reported'
    BY <1>5, <2>4, <2>5, <2>8 DEF TruthfulEnd, Reported
  <2> QED
    BY <1>2, <1>3, <2>1, <2>3, <2>9 DEF Expects
<1> QED
  BY <1>3, <1>4, <1>5

-----------------------------------------------------------------------------
(* The interrupt.                                                          *)

\* What a step leaves alone that does not concern interrupts.
ServiceKept == UNCHANGED <<ISR, initStatus, firstInterruptVector, autoEOI, intr, intr_v,
                           INTF, hlt, frames>>

\* An instruction that concerns the registers or the floppy controller.
LEMMA ControllerUsed ==
  ASSUME Steady, S!OtherInstruction, target' = target, ~quit', at' \in Positions
  PROVE  Steady' /\ ServiceKept /\ S!ServiceNext
<1>1. S!ServiceNext
  BY DEF S!ServiceNext, S!Instruction
<1>2. ServiceKept /\ UNCHANGED <<picQuit, lost, priorities, IRLineWithPriority0, IMR,
                                 specialFullyNestedMode>> /\ checking' = TRUE
  BY DEF S!OtherInstruction, ServiceKept, S!picVars, S!order, S!info, S!latch, S!cpu
<1> QED
  BY <1>1, <1>2 DEF Steady

\* An instruction that concerns the registers alone.
LEMMA RegistersUsed ==
  ASSUME Steady, Undisturbed, at' \in Positions
  PROVE  /\ Steady' /\ ServiceKept /\ S!ServiceNext
         /\ HostQuiet /\ UNCHANGED <<hostVars, seen, target, returns, fetched>>
<1>1. UNCHANGED <<hostVars, seen, toSend, target, returns, fetched>>
  BY DEF Undisturbed, hostVars
<1>2. HostQuiet /\ ~quit'
  BY <1>1 DEF Steady, HostQuiet, hostVars, vars, config, answer, drives
<1> QED
  BY <1>1, <1>2, ControllerUsed DEF Undisturbed

\* The processor's look at an empty latch.
LEMMA NothingServed ==
  ASSUME Steady, checking, ~intr, Processor
  PROVE  /\ Steady' /\ ServiceKept /\ S!ServiceNext
         /\ UNCHANGED <<hostVars, program>>
<1>1. ~Serve /\ ~Halted
  BY DEF Serve, S!Serve, S!TakeIntr, Halted
<1>2. /\ ~MOV /\ ~JMP /\ ~SetInterruptFlagOrHalt /\ ~IRET
      /\ ~Input /\ ~OutFDC /\ ~OutPIC
  BY DEF MOV, JMP, SetInterruptFlagOrHalt, IRET, Input, OutFDC, OutPIC, S!OtherInstruction,
         S!STI, S!HLT, S!Executes
<1>3. Pass
  BY <1>1, <1>2 DEF Processor
<1>4. S!NothingLatched /\ UNCHANGED <<hostVars, program>>
  BY <1>3 DEF Pass, S!Drop, S!TakeIntr
<1>5. S!ServiceNext
  BY <1>4 DEF S!ServiceNext, S!Check
<1>6. /\ ServiceKept /\ checking' = FALSE
      /\ UNCHANGED <<picQuit, lost, priorities, IRLineWithPriority0, IMR,
                     specialFullyNestedMode>>
  BY <1>4 DEF S!NothingLatched, S!Checks, ServiceKept, S!picVars, S!order, S!info, S!latch,
              S!cpu
<1>7. UNCHANGED <<quit, target, at>>
  BY <1>4 DEF hostVars, vars, program
<1> QED
  BY <1>4, <1>5, <1>6, <1>7 DEF Steady

\* The end of the seek is heard: line 6 is put in service, and its vector latched.
LEMMA EndIsHeard ==
  ASSUME Steady, Ready, ISR = {}, ~intr, ControllerClock, irq'
  PROVE  /\ S!DeviceRequest(6)
         /\ ISR' = {6} /\ intr' = TRUE /\ intr_v' = 182
         /\ UNCHANGED <<INTF, hlt, frames, initStatus, firstInterruptVector, autoEOI>>
         /\ UNCHANGED <<picQuit, lost, priorities, IRLineWithPriority0, IMR,
                        specialFullyNestedMode, checking>>
<1>1. ~S!Masked(6) /\ S!MoreUrgent(6) \cap ISR = {}
  BY DEF S!Masked, Steady, Ready
<1>2. S!DeviceRequest(6)
  BY <1>1 DEF ControllerClock, Heard
<1>3. S!AssertInterruptLine(6)
  BY <1>2 DEF S!DeviceRequest, S!Request, S!AssertInSpecialMode, Steady
<1> QED
  BY <1>2, <1>3
     DEF S!DeviceRequest, S!AssertInterruptLine, S!RequestIntr, S!order, S!info, S!cpu,
         Ready, Steady

\* The processor takes it and enters int6.
LEMMA HandlerEntered ==
  ASSUME Steady, EndIsLatched, Processor, checking
  PROVE  /\ Serve
         /\ frames' = HandlerFrame(TRUE) /\ INTF' = FALSE /\ ~hlt' /\ ~intr'
         /\ at' = [routine |-> "int6", i |-> 1] /\ returns' = <<at>>
         /\ UNCHANGED <<ISR, initStatus, firstInterruptVector, autoEOI>>
         /\ UNCHANGED <<picQuit, lost, priorities, IRLineWithPriority0, IMR,
                        specialFullyNestedMode>>
         /\ checking' = FALSE
<1>1. Serve
  <2>1. ~Pass
    BY DEF Pass, S!Drop, S!NothingLatched, EndIsLatched, InLoop
  <2>2. /\ ~MOV /\ ~JMP /\ ~SetInterruptFlagOrHalt /\ ~IRET
        /\ ~Input /\ ~OutFDC /\ ~OutPIC /\ ~Halted
    BY DEF MOV, JMP, SetInterruptFlagOrHalt, IRET, Input, OutFDC, OutPIC, Halted,
           S!OtherInstruction, S!STI, S!HLT, S!Executes
  <2> QED
    BY <2>1, <2>2 DEF Processor
<1>2. intr_v - firstInterruptVector = 6 /\ Vector(intr_v) = "int6"
  BY DEF EndIsLatched, InLoop, Ready, Vector
<1>3. /\ S!Interrupt(6) /\ S!TakeIntr /\ checking' = FALSE /\ lost' = lost
      /\ at' = [routine |-> "int6", i |-> 1] /\ returns' = Append(returns, at)
  BY <1>1, <1>2 DEF Serve, S!Serve, S!Checks
<1>4. returns' = <<at>>
  BY <1>3 DEF EndIsLatched, InLoop
<1>5. frames' = HandlerFrame(TRUE)
  <2>1. frames = <<>> /\ INTF = TRUE /\ ~autoEOI
    BY DEF EndIsLatched, InLoop, Ready
  <2>2. (6 # S!NoLine /\ ~autoEOI) = TRUE
    BY <2>1 DEF S!NoLine
  <2>3. frames' = Append(frames, [line |-> 6, INTF |-> INTF,
                                  owes |-> (6 # S!NoLine /\ ~autoEOI)])
    BY <1>3 DEF S!Interrupt
  <2>4. \A x : Append(<<>>, x) = <<x>>
    OBVIOUS
  <2>5. frames' = Append(<<>>, [line |-> 6, INTF |-> TRUE, owes |-> TRUE])
    BY <2>1, <2>2, <2>3, Zenon
  <2> QED
    BY <2>4, <2>5, Zenon DEF HandlerFrame
<1>6. INTF' = FALSE /\ ~hlt' /\ ~intr'
  BY <1>3 DEF S!Interrupt, S!TakeIntr
<1>7. /\ UNCHANGED <<ISR, initStatus, firstInterruptVector, autoEOI>>
      /\ UNCHANGED <<picQuit, priorities, IRLineWithPriority0, IMR, specialFullyNestedMode>>
  BY <1>3 DEF S!TakeIntr, S!order, S!info
<1> QED
  BY <1>1, <1>3, <1>4, <1>5, <1>6, <1>7

-----------------------------------------------------------------------------
(* The macros, step by step.                                               *)

\* Nothing the situation speaks of is disturbed.
LEMMA QuietStep ==
  ASSUME Situation, HostQuiet, ServiceKept, UNCHANGED <<seen, target, at, returns, AL, DX, fetched>>
  PROVE  Situation'
<1>1. \A c, n : Expects(c, n) => Expects(c, n)'
  BY DEF Expects, HostQuiet
<1>2. /\ Reported => Reported'
      /\ AnswerWords' = AnswerWords
      /\ \A n : Answers(n) => Answers(n)'
  BY DEF Reported, AnswerWords, Answers, HostQuiet
<1>3. \A base : (\A b : Sending(base, b) => Sending(base, b)')
                /\ (Fetching(base) => Fetching(base)')
  BY DEF Sending, Fetching
<1>4. (Calm => Calm') /\ (Ready => Ready') /\ (InLoop => InLoop') /\ (InHandler => InHandler')
  BY <1>2 DEF Calm, Ready, InLoop, InHandler, ServiceKept
<1>5. CASE Starting
  BY <1>1, <1>4, <1>5 DEF Starting, Situation, ServiceKept
<1>6. CASE Booting
  BY <1>1, <1>4, <1>6 DEF Booting, Situation, ServiceKept
<1>7. CASE Configuring
  <2>1. Sending(38, target) => Sending(38, target)'
    BY DEF Sending
  <2>2. UNCHANGED <<configurationDatas, fetched, hlt, INTF>> /\ at' = at
    BY DEF HostQuiet, ServiceKept
  <2>3. \A base, b, c, n : Sending(base, b) /\ Expects(c, n) =>
                              Sending(base, b)' /\ Expects(c, n)'
    BY <1>1, <1>3
  <2>4. Expects("Seek", 1) => Expects("Seek", 1)'
    BY <1>1
  <2>5. configurationDatas'[1] = configurationDatas[1]
    BY <2>2
  <2>6. WordToSend => WordToSend'
    <3>1. CASE Sending(13, 3) /\ Expects("None", 0)
      BY <2>3, <3>1, Zenon DEF WordToSend
    <3>2. CASE Sending(18, 191) /\ Expects("Specify", 2)
      BY <2>3, <3>2, Zenon DEF WordToSend
    <3>3. CASE Sending(23, 2) /\ Expects("Specify", 1) /\ configurationDatas[1] = 191
      <4>1. Sending(23, 2)' /\ Expects("Specify", 1)' /\ configurationDatas'[1] = 191
        BY <2>3, <2>5, <3>3
      <4> QED
        BY <4>1, Zenon DEF WordToSend
    <3>4. CASE Sending(28, 15) /\ Expects("None", 0)
      BY <2>3, <3>4, Zenon DEF WordToSend
    <3>5. CASE Sending(33, 0) /\ Expects("Seek", 2)
      BY <2>3, <3>5, Zenon DEF WordToSend
    <3>6. CASE Sending(38, target) /\ Expects("Seek", 1) /\ configurationDatas[1] = 0
      BY <2>1, <2>4, <2>5, <3>6, Zenon DEF WordToSend
    <3> QED
      BY <3>1, <3>2, <3>3, <3>4, <3>5, <3>6, Zenon DEF WordToSend
  <2>7. Configuring'
    BY <1>4, <1>7, <2>2, <2>6 DEF Configuring
  <2> QED
    BY <2>7 DEF Situation
<1>8. CASE SeekIsRunning
  BY <1>4, <1>8 DEF SeekIsRunning, Situation, ServiceKept, HostQuiet
<1>9. CASE EndIsLatched
  BY <1>1, <1>2, <1>4, <1>9 DEF EndIsLatched, Situation, ServiceKept, HostQuiet
<1>10. CASE Handling
  BY <1>1, <1>2, <1>3, <1>4, <1>10
     DEF Handling, Situation, ServiceKept, HostQuiet, Dismissing
<1>11. CASE Leaving
  BY <1>1, <1>2, <1>4, <1>11 DEF Leaving, Situation, ServiceKept
<1>12. CASE AtRest
  BY <1>1, <1>2, <1>4, <1>12 DEF AtRest, Situation, ServiceKept
<1> QED
  BY <1>5, <1>6, <1>7, <1>8, <1>9, <1>10, <1>11, <1>12 DEF Situation

\* A status read in COMMAND allows a write, one read in RESULT a read.
LEMMA StatusAllows ==
  ASSUME HostIInv, PollStatus
  PROVE  /\ phase = "COMMAND" => seen' = "write"
         /\ phase = "RESULT" => seen' = "read"
<1>1. ~readCommandInProcess /\ seen' = IF ~rqm THEN "nothing" ELSE IF dio THEN "read" ELSE "write"
  BY DEF PollStatus, ReadStatusRegister
<1>2. (phase = "COMMAND" => rqm /\ ~dio) /\ (phase = "RESULT" => rqm /\ dio)
  BY <1>1 DEF HostIInv, IInv, Coherent
<1> QED
  BY <1>1, <1>2

\* An instruction of FDC_COMMAND leads to the next, or sends the word.
LEMMA WordOnItsWay ==
  ASSUME HostIInv, Steady, Processor, ~checking, ~hlt, phase = "COMMAND",
         NEW base \in Nat, NEW b \in Byte, Sending(base, b),
         Instr = Code[at.i], Holds(Code, base, FDC_COMMAND(b))
  PROVE  /\ OnlyController /\ Proceeds /\ fetched' = fetched
         /\ \/ Sending(base, b)' /\ HostQuiet /\ (UNCHANGED hostVars \/ PollStatus)
            \/ at.i = base + 5 /\ seen = "write" /\ AL = b /\ WriteWordOfMacro
<1>1. b \in Nat
  BY DEF Byte
<1>2. /\ Code[base + 1] = LoadsDX(1012)
      /\ Code[base + 2] = Does("IN")
      /\ Code[base + 3] = LoadsDX(1013)
      /\ Code[base + 4] = LoadsAX(b)
      /\ Code[base + 5] = Does("OUT")
  BY <1>1, CommandText
<1>3. at.i \in base + 1 .. base + 5 /\ at.i \in Nat
  BY DEF Sending, Steady, Positions
<1>4. ASSUME Undisturbed PROVE OnlyController /\ fetched' = fetched /\ UNCHANGED hostVars
                                /\ HostQuiet /\ seen' = seen
  <2>1. UNCHANGED <<hostVars, fetched>> /\ OnlyController
    BY <1>4 DEF Undisturbed, OnlyController
  <2> QED
    BY <2>1 DEF HostQuiet, hostVars, vars, config, answer, drives
<1>5. CASE at.i = base + 1
  <2>1. Undisturbed /\ Proceeds /\ DX' = 1012
    BY <1>2, <1>5, LoadedDX
  <2>2. Sending(base, b)'
    BY <1>3, <1>5, <2>1 DEF Sending, Proceeds
  <2> QED
    BY <1>4, <2>1, <2>2
<1>6. CASE at.i = base + 2
  <2>1. DX = 1012
    BY <1>6 DEF Sending
  <2>2. OnlyController /\ PollStatus /\ Proceeds /\ fetched' = fetched
    BY <1>2, <1>6, <2>1, StatusIsRead
  <2>3. HostQuiet /\ seen' = "write"
    BY <2>2, QuietPoll, StatusAllows
  <2>4. Sending(base, b)'
    BY <1>3, <1>6, <2>2, <2>3 DEF Sending, Proceeds
  <2> QED
    BY <2>2, <2>3, <2>4
<1>7. CASE at.i = base + 3
  <2>1. Undisturbed /\ Proceeds /\ DX' = 1013
    BY <1>2, <1>7, LoadedDX
  <2>2. seen' = "write"
    BY <1>4, <1>7, <2>1 DEF Sending
  <2>3. Sending(base, b)'
    BY <1>3, <1>7, <2>1, <2>2 DEF Sending, Proceeds
  <2> QED
    BY <1>4, <2>1, <2>3
<1>8. CASE at.i = base + 4
  <2>1. Undisturbed /\ Proceeds /\ AL' = b /\ DX' = DX
    BY <1>2, <1>8, LoadedAX
  <2>2. seen' = "write" /\ DX' = 1013
    BY <1>3, <1>4, <1>8, <2>1 DEF Sending
  <2>3. Sending(base, b)'
    BY <1>3, <1>8, <2>1, <2>2 DEF Sending, Proceeds
  <2> QED
    BY <1>4, <2>1, <2>3
<1>9. CASE at.i = base + 5
  <2>1. seen = "write" /\ AL = b /\ DX = 1013
    BY <1>3, <1>9 DEF Sending
  <2> QED
    BY <1>2, <1>9, <2>1, WordIsWritten
<1> QED
  BY <1>3, <1>5, <1>6, <1>7, <1>8, <1>9

\* So does an instruction of FDC_RESULT.
LEMMA AnswerOnItsWay ==
  ASSUME HostIInv, Steady, Processor, ~checking, ~hlt, phase = "RESULT",
         NEW base \in Nat, Fetching(base),
         Instr = Code[at.i], Holds(Code, base, FDC_RESULT)
  PROVE  /\ OnlyController /\ Proceeds
         /\ \/ /\ Fetching(base)' /\ HostQuiet /\ (UNCHANGED hostVars \/ PollStatus)
               /\ fetched' = fetched
            \/ at.i = base + 4 /\ seen = "read" /\ ReadAnswer
<1>1. /\ Code[base + 1] = LoadsDX(1012)
      /\ Code[base + 2] = Does("IN")
      /\ Code[base + 3] = LoadsDX(1013)
      /\ Code[base + 4] = Does("IN")
  BY ResultText
<1>2. at.i \in base + 1 .. base + 4 /\ at.i \in Nat
  BY DEF Fetching, Steady, Positions
<1>3. ASSUME Undisturbed PROVE OnlyController /\ fetched' = fetched /\ UNCHANGED hostVars
                                /\ HostQuiet /\ seen' = seen
  <2>1. UNCHANGED <<hostVars, fetched>> /\ OnlyController
    BY <1>3 DEF Undisturbed, OnlyController
  <2> QED
    BY <2>1 DEF HostQuiet, hostVars, vars, config, answer, drives
<1>4. CASE at.i = base + 1
  <2>1. Undisturbed /\ Proceeds /\ DX' = 1012
    BY <1>1, <1>4, LoadedDX
  <2>2. Fetching(base)'
    BY <1>2, <1>4, <2>1 DEF Fetching, Proceeds
  <2> QED
    BY <1>3, <2>1, <2>2
<1>5. CASE at.i = base + 2
  <2>1. DX = 1012
    BY <1>5 DEF Fetching
  <2>2. OnlyController /\ PollStatus /\ Proceeds /\ fetched' = fetched
    BY <1>1, <1>5, <2>1, StatusIsRead
  <2>3. HostQuiet /\ seen' = "read"
    BY <2>2, QuietPoll, StatusAllows
  <2>4. Fetching(base)'
    BY <1>2, <1>5, <2>2, <2>3 DEF Fetching, Proceeds
  <2> QED
    BY <2>2, <2>3, <2>4
<1>6. CASE at.i = base + 3
  <2>1. Undisturbed /\ Proceeds /\ DX' = 1013
    BY <1>1, <1>6, LoadedDX
  <2>2. seen' = "read"
    BY <1>3, <1>6, <2>1 DEF Fetching
  <2>3. Fetching(base)'
    BY <1>2, <1>6, <2>1, <2>2 DEF Fetching, Proceeds
  <2> QED
    BY <1>3, <2>1, <2>3
<1>7. CASE at.i = base + 4
  <2>1. seen = "read" /\ DX = 1013
    BY <1>2, <1>7 DEF Fetching
  <2> QED
    BY <1>1, <1>7, <2>1, AnswerIsRead
<1> QED
  BY <1>2, <1>4, <1>5, <1>6, <1>7

-----------------------------------------------------------------------------
(* The program goes on from every situation, as FDCHost and Service allow.  *)

AllowedStep == [HostNext]_hostVars /\ [S!ServiceNext]_(S!vars)

GoesOn == Steady' /\ Situation' /\ AllowedStep

\* The jump to bios.s.
LEMMA StartingGoesOn ==
  ASSUME HostIInv, Steady, Starting, Processor, ~checking
  PROVE  GoesOn
<1>1. ~hlt /\ Instr = Does("JMP FAR")
  BY TextRead DEF Starting, Steady
<1>2. Undisturbed /\ at' = [routine |-> "bios", i |-> 1]
  BY <1>1, Jumped
<1>3. at' \in Positions /\ at'.routine = "bios" /\ at'.i = 1
  BY <1>2 DEF Positions
<1>4. /\ Steady' /\ ServiceKept /\ S!ServiceNext
      /\ HostQuiet /\ UNCHANGED <<hostVars, seen, target, returns, fetched>>
  BY <1>2, <1>3, RegistersUsed
<1>5. Booting'
  BY <1>3, <1>4 DEF Starting, Booting, Calm, Expects, ServiceKept, HostQuiet
<1> QED
  BY <1>4, <1>5 DEF GoesOn, AllowedStep, Situation

\* What the first instructions leave alone.
BootFrame == at.routine = "bios" /\ Calm /\ fetched = <<>> /\ ~hlt /\ Expects("None", 0)

\* An instruction of theirs that loads a register or writes the interrupt controller.
LEMMA BootFrameKept ==
  ASSUME BootFrame, Proceeds, HostQuiet,
         UNCHANGED <<ISR, intr, frames, hlt, returns, fetched>>
  PROVE  BootFrame' /\ at'.i = at.i + 1
BY DEF BootFrame, Proceeds, HostQuiet, Calm, Expects

\* The loads of registers of the initialisation, and what they load.
LEMMA BootLoads ==
  ASSUME HostIInv, Steady, Booting, Processor, ~checking,
         at.i \in {1, 2, 3, 5, 6, 8, 11, 12}
  PROVE  GoesOn
<1>1. BootFrame /\ Instr = Text[target]["bios"][at.i] /\ BiosText(Text[target]["bios"], target)
  BY TextRead DEF Booting, BootFrame, Steady
<1>2. /\ at.i = 1 => Instr = Does("XCHG")
      /\ at.i = 2 => Instr = LoadsDX(32)
      /\ at.i = 3 => Instr = LoadsAX(19)
      /\ at.i = 5 => Instr = LoadsDX(33)
      /\ at.i = 6 => Instr = LoadsAX(176)
      /\ at.i = 8 => Instr = LoadsAX(1)
      /\ at.i = 11 => Instr = LoadsDX(1010)
      /\ at.i = 12 => Instr = LoadsAX(16)
  BY <1>1 DEF BiosText
<1>3. ~hlt /\ 19 \in Byte /\ 176 \in Byte /\ 1 \in Byte /\ 16 \in Byte
  BY DEF Booting, Byte
<1>4. /\ Undisturbed /\ Proceeds
      /\ at.i = 2 => DX' = 32
      /\ at.i = 3 => AL' = 19 /\ DX' = DX
      /\ at.i = 5 => DX' = 33
      /\ at.i = 6 => AL' = 176 /\ DX' = DX
      /\ at.i = 8 => AL' = 1 /\ DX' = DX
      /\ at.i = 11 => DX' = 1010
      /\ at.i = 12 => AL' = 16 /\ DX' = DX
  BY <1>2, <1>3, LoadedAX, LoadedDX, Exchanged
<1>5. /\ Steady' /\ ServiceKept /\ S!ServiceNext
      /\ HostQuiet /\ UNCHANGED <<hostVars, seen, target, returns, fetched>>
  BY <1>4, RegistersUsed DEF Proceeds
<1>6. BootFrame' /\ at'.i = at.i + 1
  BY <1>1, <1>4, <1>5, BootFrameKept DEF ServiceKept
<1>7. Ready => Ready'
  BY <1>5 DEF Ready, ServiceKept
<1>8. UNCHANGED <<INTF, initStatus, firstInterruptVector>>
  BY <1>5 DEF ServiceKept
<1>9. Booting'
  <2>1. CASE at.i \in {1, 2, 3}
    BY <1>4, <1>6, <1>8, <2>1 DEF Booting, BootFrame
  <2>2. CASE at.i \in {5, 6, 8}
    BY <1>4, <1>6, <1>7, <1>8, <2>2 DEF Booting, BootFrame
  <2>3. CASE at.i \in {11, 12}
    BY <1>4, <1>6, <1>7, <1>8, <2>3 DEF Booting, BootFrame
  <2> QED
    BY <2>1, <2>2, <2>3
<1> QED
  BY <1>5, <1>9 DEF GoesOn, AllowedStep, Situation

\* The three words of the initialisation.
LEMMA BootWritesPIC ==
  ASSUME HostIInv, Steady, Booting, Processor, ~checking, at.i \in {4, 7, 9}
  PROVE  GoesOn
<1>1. BootFrame /\ Instr = Text[target]["bios"][at.i] /\ BiosText(Text[target]["bios"], target)
  BY TextRead DEF Booting, BootFrame, Steady
<1>2. Instr = Does("OUT") /\ ~hlt
  BY <1>1 DEF BiosText, BootFrame
<1>3. ASSUME OnlyPIC, Proceeds, frames' = frames, UNCHANGED <<ISR, intr>>, IMR' = {},
             picQuit' = picQuit, priorities' = [l \in S!Lines |-> l],
             IRLineWithPriority0' = 0, ~specialFullyNestedMode',
             S!Initialise \/ S!WriteWord21
      PROVE  BootFrame' /\ at'.i = at.i + 1 /\ Steady' /\ AllowedStep
  <2>1. /\ UNCHANGED <<hostVars, INTF, hlt, target, returns, AL, DX, fetched>>
        /\ checking' = TRUE /\ lost' = lost
    BY <1>3 DEF OnlyPIC, S!Executes
  <2>2. HostQuiet /\ quit' = quit
    BY <2>1 DEF HostQuiet, hostVars, vars, config, answer, drives
  <2>3. BootFrame' /\ at'.i = at.i + 1
    BY <1>1, <1>3, <2>1, <2>2, BootFrameKept
  <2>4. Steady'
    BY <1>3, <2>1, <2>2 DEF Steady, Proceeds
  <2>5. S!ServiceNext
    BY <1>3 DEF S!ServiceNext, S!Instruction
  <2> QED
    BY <2>1, <2>3, <2>4, <2>5 DEF AllowedStep
<1>4. S!Rotated(0) = [l \in S!Lines |-> l]
  <2>1. \A l \in S!Lines : (l - 0) % 8 = l
    BY DEF S!Lines
  <2> QED
    BY <2>1 DEF S!Rotated
<1>5. CASE at.i = 4
  <2>1. DX = 32 /\ AL = 19 /\ initStatus = "UNINITIALIZED" /\ INTF = FALSE
    BY <1>5 DEF Booting
  <2>2. OnlyPIC /\ Proceeds /\ S!WriteICW1(19) /\ frames' = frames
    BY <1>2, <2>1, FirstInitialisationWord
  <2>3. /\ UNCHANGED <<ISR, intr, picQuit>> /\ IMR' = {} /\ initStatus' = "ICW2"
        /\ priorities' = [l \in S!Lines |-> l] /\ IRLineWithPriority0' = 0
        /\ specialFullyNestedMode' = FALSE
    BY <1>4, <2>2 DEF S!WriteICW1, S!HandleICW1, S!ReInit, S!latch
  <2>4. S!Initialise
    BY <2>1, <2>2 DEF S!Initialise, OnlyPIC, S!cpu
  <2>5. BootFrame' /\ at'.i = at.i + 1 /\ Steady' /\ AllowedStep
    BY <1>3, <2>2, <2>3, <2>4
  <2>6. INTF' = FALSE
    BY <2>1, <2>2 DEF OnlyPIC
  <2>7. Booting'
    BY <1>5, <2>3, <2>5, <2>6 DEF Booting, BootFrame
  <2> QED
    BY <2>5, <2>7 DEF GoesOn, Situation
<1>6. CASE at.i \in {7, 9}
  <2>1. /\ DX = 33 /\ INTF = FALSE
        /\ \/ at.i = 7 /\ AL = 176 /\ initStatus = "ICW2"
           \/ at.i = 9 /\ AL = 1 /\ initStatus = "ICW4" /\ firstInterruptVector = 176
    BY <1>6 DEF Booting
  <2>2. /\ OnlyPIC /\ Proceeds /\ frames' = frames
        /\ S!WriteA0_1(AL)
        /\ at.i = 7 => S!HandleICW2(176)
        /\ at.i = 9 => S!HandleICW4(1)
    <3>1. DX = 33 /\ ((AL = 176 /\ initStatus = "ICW2") \/ (AL = 1 /\ initStatus = "ICW4"))
      BY <2>1
    <3>2. /\ OnlyPIC /\ Proceeds /\ frames' = frames
          /\ S!WriteA0_1(AL)
          /\ initStatus = "ICW2" => S!HandleICW2(176)
          /\ initStatus = "ICW4" => S!HandleICW4(1)
      BY <1>2, <3>1, NextInitialisationWord
    <3> QED
      BY <2>1, <3>2
  <2>3. /\ UNCHANGED <<ISR, intr, picQuit, IMR, priorities, IRLineWithPriority0>>
        /\ specialFullyNestedMode' = FALSE
        /\ at.i = 7 => initStatus' = "ICW4" /\ firstInterruptVector' = 176
        /\ at.i = 9 => Ready'
    <3>1. CASE at.i = 7
      BY <2>2, <3>1, BitsOfProgram DEF S!HandleICW2, S!latch, S!order, Steady
    <3>2. CASE at.i = 9
      BY <2>1, <2>2, <3>2, BitsOfProgram DEF S!HandleICW4, S!latch, S!order, Ready
    <3> QED
      BY <1>6, <3>1, <3>2
  <2>4. S!WriteWord21
    BY <2>1, <2>2 DEF S!WriteWord21, OnlyPIC, S!cpu
  <2>5. BootFrame' /\ at'.i = at.i + 1 /\ Steady' /\ AllowedStep
    BY <1>3, <2>2, <2>3, <2>4 DEF Steady
  <2>6. INTF' = FALSE /\ DX' = 33
    BY <2>1, <2>2 DEF OnlyPIC
  <2>7. Booting'
    BY <1>6, <2>3, <2>5, <2>6 DEF Booting, BootFrame
  <2> QED
    BY <2>5, <2>7 DEF GoesOn, Situation
<1> QED
  BY <1>5, <1>6

\* Interrupts are enabled, and the output register is written.
LEMMA BootEnds ==
  ASSUME HostIInv, Steady, Booting, Processor, ~checking, at.i \in {10, 13}
  PROVE  GoesOn
<1>1. BootFrame /\ Instr = Text[target]["bios"][at.i] /\ BiosText(Text[target]["bios"], target)
  BY TextRead DEF Booting, BootFrame, Steady
<1>2. ~hlt /\ Ready
  BY DEF Booting
<1>3. CASE at.i = 10
  <2>1. Instr = Does("STI")
    BY <1>1, <1>3 DEF BiosText
  <2>2. S!STI /\ Proceeds /\ UNCHANGED <<hostVars, target, returns, AL, DX, fetched>>
    BY <1>2, <2>1, FlagIsSet
  <2>3. /\ INTF' = TRUE /\ checking' = TRUE
        /\ UNCHANGED <<ISR, IMR, priorities, IRLineWithPriority0, initStatus, autoEOI,
                       firstInterruptVector, specialFullyNestedMode, intr, picQuit,
                       hlt, frames, lost>>
    BY <2>2 DEF S!STI, S!Executes, S!picVars, S!order, S!info, S!latch
  <2>4. HostQuiet /\ quit' = quit
    BY <2>2 DEF HostQuiet, hostVars, vars, config, answer, drives
  <2>5. BootFrame' /\ at'.i = 11
    BY <1>1, <1>3, <2>2, <2>3, <2>4, BootFrameKept
  <2>6. Booting'
    BY <1>2, <2>3, <2>5 DEF Booting, BootFrame, Ready
  <2>7. Steady'
    BY <2>2, <2>3, <2>4 DEF Steady, Proceeds
  <2>8. S!ServiceNext
    BY <2>2 DEF S!ServiceNext, S!Instruction
  <2> QED
    BY <2>2, <2>6, <2>7, <2>8 DEF GoesOn, AllowedStep, Situation
<1>4. CASE at.i = 13
  <2>1. Instr = Does("OUT") /\ DX = 1010 /\ AL = 16 /\ INTF = TRUE
    BY <1>1, <1>4 DEF BiosText, Booting
  <2>2. /\ OnlyController /\ Proceeds /\ fetched' = fetched
        /\ WriteDOR(16) /\ UNCHANGED <<seen, toSend>>
    BY <1>2, <2>1, DrivesAreSwitched
  <2>3. ControlDrives
    BY <2>2, MachineAssumption DEF ControlDrives
  <2>4. HostNext
    BY <2>3 DEF HostNext, Steady
  <2>5. UNCHANGED <<phase, selectedCommand, toSend, quit>>
    BY <2>2 DEF WriteDOR
  <2>6. Steady' /\ ServiceKept /\ S!ServiceNext /\ returns' = returns
    BY <2>2, <2>5, ControllerUsed DEF OnlyController, Proceeds, Steady
  <2>7. at'.routine = "bios" /\ at'.i = 14
    BY <1>1, <1>4, <2>2 DEF BootFrame, Proceeds
  <2>8. Sending(13, 3)' /\ Expects("None", 0)'
    BY <1>1, <2>5, <2>7 DEF BootFrame, Expects, Sending
  <2>9. Calm' /\ Ready' /\ INTF' = TRUE /\ hlt' = hlt
    BY <1>1, <1>2, <2>1, <2>6 DEF BootFrame, Calm, Ready, ServiceKept
  <2>10. Configuring'
    BY <1>1, <1>2, <2>2, <2>7, <2>8, <2>9 DEF Configuring, WordToSend, BootFrame
  <2> QED
    BY <2>4, <2>6, <2>10 DEF GoesOn, AllowedStep, Situation
<1> QED
  BY <1>3, <1>4

\* The initialisation goes on.
LEMMA BootingGoesOn ==
  ASSUME HostIInv, Steady, Booting, Processor, ~checking
  PROVE  GoesOn
<1>1. at.i \in {1, 2, 3, 5, 6, 8, 11, 12} \cup {4, 7, 9} \cup {10, 13}
  BY DEF Booting
<1> QED
  BY <1>1, BootLoads, BootWritesPIC, BootEnds

\* What every word of the program leaves alone but the controller.
ConfiguringFrame ==
  at.routine = "bios" /\ Calm /\ fetched = <<>> /\ ~hlt /\ INTF = TRUE /\ Ready

\* A word of SPECIFY or SEEK on its way.
LEMMA WordOfBios ==
  ASSUME HostIInv, Steady, ConfiguringFrame, Processor, ~checking,
         phase = "COMMAND", NEW base \in Nat, NEW b \in Byte, Sending(base, b),
         Holds(Text[target]["bios"], base, FDC_COMMAND(b)),
         IF toSend = 0 THEN b \in CommandBytes ELSE b \in ParameterBytes
  PROVE  \/ /\ Steady' /\ AllowedStep /\ ConfiguringFrame'
            /\ Sending(base, b)' /\ HostQuiet
         \/ /\ at.i = base + 5 /\ at'.i = base + 6 /\ Send(b) /\ HostIInv'
            /\ ~quit' => Steady' /\ AllowedStep /\ ConfiguringFrame'
<1>1. Instr = Code[at.i] /\ Code = Text[target]["bios"]
  BY TextRead DEF ConfiguringFrame, Steady, Code
<1>2. ~hlt /\ ~quit
  BY DEF ConfiguringFrame, Steady
<1>3. /\ OnlyController /\ Proceeds /\ fetched' = fetched
      /\ \/ Sending(base, b)' /\ HostQuiet /\ (UNCHANGED hostVars \/ PollStatus)
         \/ at.i = base + 5 /\ seen = "write" /\ AL = b /\ WriteWordOfMacro
  BY <1>1, <1>2, WordOnItsWay
<1>4. ASSUME ~quit', [HostNext]_hostVars
      PROVE  Steady' /\ AllowedStep /\ ConfiguringFrame'
  <2>1. Steady' /\ ServiceKept /\ S!ServiceNext /\ returns' = returns
    BY <1>3, <1>4, ControllerUsed DEF OnlyController, Proceeds
  <2>2. ConfiguringFrame'
    BY <1>3, <2>1 DEF ConfiguringFrame, Calm, Ready, ServiceKept, Proceeds
  <2> QED
    BY <1>4, <2>1, <2>2 DEF AllowedStep
<1>5. CASE Sending(base, b)' /\ HostQuiet /\ (UNCHANGED hostVars \/ PollStatus)
  <2>1. ~quit' /\ [HostNext]_hostVars
    BY <1>2, <1>5 DEF HostQuiet, HostNext, HostAccess
  <2> QED
    BY <1>4, <1>5, <2>1
<1>6. CASE at.i = base + 5 /\ seen = "write" /\ AL = b /\ WriteWordOfMacro
  <2>1. /\ toSend = 0 => SendCommand(b)
        /\ toSend > 0 => SendParameter(b)
        /\ Send(b)
    BY <1>2, <1>6, MacroSends
  <2>2. toSend \in 0 .. 8
    BY DEF HostIInv, DriverTypeOK
  <2>3. HostAccess
    BY <2>1, <2>2 DEF HostAccess
  <2>4. HostNext
    BY <1>2, <2>3 DEF HostNext
  <2>5. at'.i = base + 6
    BY <1>3, <1>6 DEF Proceeds
  <2>6. HostIInv'
    BY <2>4, HostNextIInv
  <2> QED
    BY <1>4, <1>6, <2>1, <2>4, <2>5, <2>6
<1> QED
  BY <1>3, <1>5, <1>6

\* The six words, one after the other: SPECIFY is accepted, and SEEK begins.
LEMMA ConfiguringGoesOn ==
  ASSUME HostIInv, Steady, Configuring, Processor, ~checking
  PROVE  GoesOn
<1>1. ConfiguringFrame /\ WordToSend /\ phase = "COMMAND" /\ ~quit
  BY DEF Configuring, ConfiguringFrame, WordToSend, Expects, Steady
<1>2. BiosText(Text[target]["bios"], target)
  BY TextRead DEF Configuring, Steady
<1>3. /\ Holds(Text[target]["bios"], 13, FDC_COMMAND(3))
      /\ Holds(Text[target]["bios"], 18, FDC_COMMAND(191))
      /\ Holds(Text[target]["bios"], 23, FDC_COMMAND(2))
      /\ Holds(Text[target]["bios"], 28, FDC_COMMAND(15))
      /\ Holds(Text[target]["bios"], 33, FDC_COMMAND(0))
      /\ Holds(Text[target]["bios"], 38, FDC_COMMAND(target))
  BY <1>2 DEF BiosText
<1>4. /\ 3 \in Byte /\ 191 \in Byte /\ 2 \in Byte /\ 15 \in Byte /\ 0 \in Byte
      /\ target \in Byte
      /\ 3 \in CommandBytes /\ 15 \in CommandBytes
      /\ 191 \in ParameterBytes /\ 2 \in ParameterBytes /\ 0 \in ParameterBytes
      /\ target \in ParameterBytes
  BY MachineAssumption, TargetsAreBytes DEF Steady, Byte
<1>5. ASSUME Steady', AllowedStep, ConfiguringFrame', WordToSend' PROVE GoesOn
  BY <1>5 DEF GoesOn, Situation, Configuring, ConfiguringFrame
<1>6. \A c, n : Expects(c, n) /\ HostQuiet => Expects(c, n)'
  BY DEF Expects, HostQuiet
<1>7. HostQuiet => configurationDatas' = configurationDatas
  BY DEF HostQuiet
<1>8. ASSUME NEW base \in Nat, NEW b \in Byte, at'.i = base + 1 PROVE Sending(base, b)'
  BY <1>8 DEF Sending
<1>9. CASE Sending(13, 3) /\ Expects("None", 0)
  <2>1. toSend = 0
    BY <1>9 DEF Expects
  <2>2. \/ /\ Steady' /\ AllowedStep /\ ConfiguringFrame'
           /\ Sending(13, 3)' /\ HostQuiet
        \/ /\ at'.i = 13 + 6 /\ Send(3) /\ HostIInv'
           /\ ~quit' => Steady' /\ AllowedStep /\ ConfiguringFrame'
    <3>1. PICK base \in Nat, b \in Byte : base = 13 /\ b = 3
      BY <1>4
    <3>2. /\ Sending(base, b) /\ Holds(Text[target]["bios"], base, FDC_COMMAND(b))
          /\ b \in CommandBytes
      BY <1>3, <1>4, <1>9, <3>1
    <3>3. \/ /\ Steady' /\ AllowedStep /\ ConfiguringFrame'
             /\ Sending(base, b)' /\ HostQuiet
          \/ /\ at'.i = base + 6 /\ Send(b) /\ HostIInv'
             /\ ~quit' => Steady' /\ AllowedStep /\ ConfiguringFrame'
      BY <1>1, <2>1, <3>2, WordOfBios
    <3> QED
      BY <3>1, <3>3
  <2>3. Send(3) /\ HostIInv' => ~quit' /\ Expects("Specify", 2)'
    BY <1>1, <1>9, CommandBegun
  <2>4. at'.i = 13 + 6 => Sending(18, 191)'
    BY <1>4, <1>8
  <2> QED
    BY <1>5, <1>6, <1>9, <2>2, <2>3, <2>4 DEF WordToSend
<1>10. CASE Sending(18, 191) /\ Expects("Specify", 2)
  <2>1. toSend = 2
    BY <1>10 DEF Expects
  <2>2. \/ /\ Steady' /\ AllowedStep /\ ConfiguringFrame'
           /\ Sending(18, 191)' /\ HostQuiet
        \/ /\ at'.i = 18 + 6 /\ Send(191) /\ HostIInv'
           /\ ~quit' => Steady' /\ AllowedStep /\ ConfiguringFrame'
    <3>1. PICK base \in Nat, b \in Byte : base = 18 /\ b = 191
      BY <1>4
    <3>2. /\ Sending(base, b) /\ Holds(Text[target]["bios"], base, FDC_COMMAND(b))
          /\ b \in ParameterBytes
      BY <1>3, <1>4, <1>10, <3>1
    <3>3. \/ /\ Steady' /\ AllowedStep /\ ConfiguringFrame'
             /\ Sending(base, b)' /\ HostQuiet
          \/ /\ at'.i = base + 6 /\ Send(b) /\ HostIInv'
             /\ ~quit' => Steady' /\ AllowedStep /\ ConfiguringFrame'
      BY <1>1, <2>1, <3>2, WordOfBios
    <3> QED
      BY <3>1, <3>3
  <2>3. Send(191) /\ HostIInv' => ~quit' /\ Expects("Specify", 1)' /\ configurationDatas'[1] = 191
    BY <1>1, <1>4, <1>10, CommandContinued
  <2>4. at'.i = 18 + 6 => Sending(23, 2)'
    BY <1>4, <1>8
  <2> QED
    BY <1>5, <1>6, <1>10, <2>2, <2>3, <2>4 DEF WordToSend
<1>11. CASE Sending(23, 2) /\ Expects("Specify", 1) /\ configurationDatas[1] = 191
  <2>1. toSend = 1
    BY <1>11 DEF Expects
  <2>2. \/ /\ Steady' /\ AllowedStep /\ ConfiguringFrame'
           /\ Sending(23, 2)' /\ HostQuiet
        \/ /\ at'.i = 23 + 6 /\ Send(2) /\ HostIInv'
           /\ ~quit' => Steady' /\ AllowedStep /\ ConfiguringFrame'
    <3>1. PICK base \in Nat, b \in Byte : base = 23 /\ b = 2
      BY <1>4
    <3>2. /\ Sending(base, b) /\ Holds(Text[target]["bios"], base, FDC_COMMAND(b))
          /\ b \in ParameterBytes
      BY <1>3, <1>4, <1>11, <3>1
    <3>3. \/ /\ Steady' /\ AllowedStep /\ ConfiguringFrame'
             /\ Sending(base, b)' /\ HostQuiet
          \/ /\ at'.i = base + 6 /\ Send(b) /\ HostIInv'
             /\ ~quit' => Steady' /\ AllowedStep /\ ConfiguringFrame'
      BY <1>1, <2>1, <3>2, WordOfBios
    <3> QED
      BY <3>1, <3>3
  <2>3. Send(2) => ~quit' /\ Expects("None", 0)'
    BY <1>1, <1>11, SpecifyEnds
  <2>4. at'.i = 23 + 6 => Sending(28, 15)'
    BY <1>4, <1>8
  <2> QED
    BY <1>5, <1>6, <1>7, <1>11, <2>2, <2>3, <2>4 DEF WordToSend
<1>12. CASE Sending(28, 15) /\ Expects("None", 0)
  <2>1. toSend = 0
    BY <1>12 DEF Expects
  <2>2. \/ /\ Steady' /\ AllowedStep /\ ConfiguringFrame'
           /\ Sending(28, 15)' /\ HostQuiet
        \/ /\ at'.i = 28 + 6 /\ Send(15) /\ HostIInv'
           /\ ~quit' => Steady' /\ AllowedStep /\ ConfiguringFrame'
    <3>1. PICK base \in Nat, b \in Byte : base = 28 /\ b = 15
      BY <1>4
    <3>2. /\ Sending(base, b) /\ Holds(Text[target]["bios"], base, FDC_COMMAND(b))
          /\ b \in CommandBytes
      BY <1>3, <1>4, <1>12, <3>1
    <3>3. \/ /\ Steady' /\ AllowedStep /\ ConfiguringFrame'
             /\ Sending(base, b)' /\ HostQuiet
          \/ /\ at'.i = base + 6 /\ Send(b) /\ HostIInv'
             /\ ~quit' => Steady' /\ AllowedStep /\ ConfiguringFrame'
      BY <1>1, <2>1, <3>2, WordOfBios
    <3> QED
      BY <3>1, <3>3
  <2>3. Send(15) /\ HostIInv' => ~quit' /\ Expects("Seek", 2)'
    BY <1>1, <1>12, CommandBegun
  <2>4. at'.i = 28 + 6 => Sending(33, 0)'
    BY <1>4, <1>8
  <2> QED
    BY <1>5, <1>6, <1>12, <2>2, <2>3, <2>4 DEF WordToSend
<1>13. CASE Sending(33, 0) /\ Expects("Seek", 2)
  <2>1. toSend = 2
    BY <1>13 DEF Expects
  <2>2. \/ /\ Steady' /\ AllowedStep /\ ConfiguringFrame'
           /\ Sending(33, 0)' /\ HostQuiet
        \/ /\ at'.i = 33 + 6 /\ Send(0) /\ HostIInv'
           /\ ~quit' => Steady' /\ AllowedStep /\ ConfiguringFrame'
    <3>1. PICK base \in Nat, b \in Byte : base = 33 /\ b = 0
      BY <1>4
    <3>2. /\ Sending(base, b) /\ Holds(Text[target]["bios"], base, FDC_COMMAND(b))
          /\ b \in ParameterBytes
      BY <1>3, <1>4, <1>13, <3>1
    <3>3. \/ /\ Steady' /\ AllowedStep /\ ConfiguringFrame'
             /\ Sending(base, b)' /\ HostQuiet
          \/ /\ at'.i = base + 6 /\ Send(b) /\ HostIInv'
             /\ ~quit' => Steady' /\ AllowedStep /\ ConfiguringFrame'
      BY <1>1, <2>1, <3>2, WordOfBios
    <3> QED
      BY <3>1, <3>3
  <2>3. Send(0) /\ HostIInv' => ~quit' /\ Expects("Seek", 1)' /\ configurationDatas'[1] = 0
    BY <1>1, <1>4, <1>13, CommandContinued
  <2>4. ASSUME at'.i = 33 + 6, Steady', AllowedStep PROVE Sending(38, target)'
    BY <2>4 DEF Sending
  <2> QED
    BY <1>5, <1>6, <1>13, <2>2, <2>3, <2>4 DEF WordToSend
<1>14. CASE Sending(38, target) /\ Expects("Seek", 1) /\ configurationDatas[1] = 0
  <2>1. toSend = 1
    BY <1>14 DEF Expects
  <2>2. PICK b \in Byte : b = target
    BY <1>4
  <2>3. Sending(38, b) /\ Holds(Text[target]["bios"], 38, FDC_COMMAND(b)) /\ b \in ParameterBytes
    BY <1>3, <1>4, <1>14, <2>2
  <2>4. \/ /\ Steady' /\ AllowedStep /\ ConfiguringFrame'
           /\ Sending(38, b)' /\ HostQuiet
        \/ /\ at'.i = 38 + 6 /\ Send(b) /\ HostIInv'
           /\ ~quit' => Steady' /\ AllowedStep /\ ConfiguringFrame'
    BY <1>1, <2>1, <2>3, WordOfBios
  <2>5. target' = target
    BY DEF Processor, MOV, JMP, SetInterruptFlagOrHalt, IRET, Input, OutFDC, OutPIC, Halted,
           Serve, Pass, program
  <2>6. Sending(38, b)' => Sending(38, target)'
    BY <2>2, <2>5 DEF Sending
  <2>7. Send(b) => /\ ~quit' /\ phase' = "EXECUTION" /\ selectedCommand' = "Seek"
                   /\ configurationDatas'[1] = 0 /\ configurationDatas'[2] = b
    BY <1>1, <1>14, SeekBegins
  <2>8. CASE Sending(38, b)' /\ HostQuiet /\ Steady' /\ AllowedStep /\ ConfiguringFrame'
    BY <1>5, <1>6, <1>7, <1>14, <2>6, <2>8 DEF WordToSend
  <2>9. CASE at'.i = 38 + 6 /\ Send(b) /\ (~quit' => Steady' /\ AllowedStep /\ ConfiguringFrame')
    <3>1. SeekIsRunning'
      BY <2>2, <2>5, <2>7, <2>9 DEF SeekIsRunning, InLoop, ConfiguringFrame, Calm
    <3> QED
      BY <2>7, <2>9, <3>1 DEF GoesOn, Situation
  <2> QED
    BY <2>4, <2>8, <2>9
<1> QED
  BY <1>1, <1>9, <1>10, <1>11, <1>12, <1>13, <1>14 DEF WordToSend

\* An instruction of the loop, or the look a halted processor takes at its latch.
LEMMA LoopTurns ==
  ASSUME Steady, InLoop, Processor, ~checking
  PROVE  /\ Steady' /\ InLoop' /\ S!ServiceNext
         /\ HostQuiet /\ UNCHANGED <<hostVars, target, fetched, ISR, intr, intr_v>>
<1>1. at.routine = "bios" /\ at.i \in {44, 45} /\ at.i \in Nat \ {0} /\ INTF = TRUE /\ Ready
  BY DEF InLoop
<1>2. /\ Instr = Text[target]["bios"][at.i]
      /\ BiosText(Text[target]["bios"], target)
  BY <1>1, TextRead DEF Steady
<1>3. UNCHANGED hostVars => HostQuiet /\ quit' = quit
  BY DEF HostQuiet, hostVars, vars, config, answer, drives
<1>4. CASE hlt
  <2>1. /\ ~MOV /\ ~JMP /\ ~SetInterruptFlagOrHalt /\ ~IRET
        /\ ~Input /\ ~OutFDC /\ ~OutPIC /\ ~Serve /\ ~Pass
    BY <1>4 DEF MOV, JMP, SetInterruptFlagOrHalt, IRET, Input, OutFDC, OutPIC, Serve, Pass,
           Executes, S!Executes, S!Serve, S!Drop, S!NothingLatched, S!Checks
  <2>2. S!OtherInstruction /\ UNCHANGED <<hostVars, program>>
    BY <2>1 DEF Processor, Halted
  <2>3. UNCHANGED <<target, at, returns, AL, DX, fetched>> /\ at' \in Positions
    BY <2>2 DEF program, Steady
  <2>4. Steady' /\ ServiceKept /\ S!ServiceNext
    BY <1>3, <2>2, <2>3, ControllerUsed DEF Steady
  <2>5. InLoop'
    BY <2>3, <2>4 DEF InLoop, Ready, ServiceKept
  <2> QED
    BY <1>3, <2>2, <2>3, <2>4, <2>5 DEF ServiceKept
<1>5. CASE ~hlt /\ at.i = 44
  <2>1. Instr = Does("HLT")
    BY <1>2, <1>5 DEF BiosText
  <2>2. S!HLT /\ Proceeds /\ UNCHANGED <<hostVars, target, returns, AL, DX, fetched>>
    BY <1>5, <2>1, ProcessorHalts
  <2>3. /\ INTF' = INTF /\ checking' = TRUE
        /\ UNCHANGED <<ISR, IMR, priorities, IRLineWithPriority0, initStatus, autoEOI,
                       firstInterruptVector, specialFullyNestedMode, intr, intr_v, picQuit,
                       frames, lost>>
    BY <2>2 DEF S!HLT, S!Executes, S!picVars, S!order, S!info, S!latch
  <2>4. Steady'
    BY <1>3, <2>2, <2>3 DEF Steady, Proceeds
  <2>5. InLoop'
    BY <1>1, <1>5, <2>2, <2>3 DEF InLoop, Ready, Proceeds
  <2>6. S!ServiceNext
    BY <2>2 DEF S!ServiceNext, S!Instruction
  <2> QED
    BY <1>3, <2>2, <2>3, <2>4, <2>5, <2>6
<1>6. CASE ~hlt /\ at.i = 45
  <2>1. Instr = Does("JMP")
    BY <1>2, <1>6 DEF BiosText
  <2>2. Undisturbed /\ at' \in Positions /\ at'.routine = at.routine /\ at'.i = at.i - 1
    BY <1>1, <1>6, <2>1, Jumped
  <2>3. /\ Steady' /\ ServiceKept /\ S!ServiceNext
        /\ HostQuiet /\ UNCHANGED <<hostVars, seen, target, returns, fetched>>
    BY <2>2, RegistersUsed
  <2>4. InLoop'
    BY <1>1, <1>6, <2>2, <2>3 DEF InLoop, Ready, ServiceKept
  <2> QED
    BY <2>3, <2>4 DEF ServiceKept
<1> QED
  BY <1>1, <1>4, <1>5, <1>6

\* The loop waits, whatever the controller is about.
LEMMA WaitingGoesOn ==
  ASSUME HostIInv, Steady, SeekIsRunning \/ EndIsLatched \/ AtRest, Processor, ~checking
  PROVE  GoesOn
<1>1. /\ Steady' /\ InLoop' /\ S!ServiceNext
      /\ HostQuiet /\ UNCHANGED <<hostVars, target, fetched, ISR, intr, intr_v>>
  <2>1. InLoop
    BY DEF SeekIsRunning, EndIsLatched, AtRest
  <2> QED
    BY <2>1, LoopTurns
<1>2. Reported => Reported'
  BY <1>1 DEF Reported, HostQuiet
<1>3. SeekIsRunning => SeekIsRunning'
  BY <1>1 DEF SeekIsRunning, HostQuiet
<1>4. EndIsLatched => EndIsLatched'
  BY <1>1, <1>2 DEF EndIsLatched, Expects, HostQuiet
<1>5. AtRest => AtRest'
  BY <1>1, <1>2 DEF AtRest, AnswerWords, Expects, HostQuiet
<1>6. Situation'
  BY <1>3, <1>4, <1>5 DEF Situation
<1> QED
  BY <1>1, <1>6 DEF GoesOn, AllowedStep

\* What every instruction of the handler up to its last OUT leaves alone.
HandlingFrame == InHandler /\ ISR = {6} /\ frames = HandlerFrame(TRUE)

\* An instruction that concerns the registers or the floppy controller does.
LEMMA HandlingFrameKept ==
  ASSUME Steady, HandlingFrame, OnlyController, Proceeds, [HostNext]_hostVars, ~quit',
         UNCHANGED STRegisters, floppyDrives'[0].cylinder = floppyDrives[0].cylinder
  PROVE  Steady' /\ AllowedStep /\ HandlingFrame' /\ AnswerWords' = AnswerWords
<1>1. Steady' /\ ServiceKept /\ S!ServiceNext /\ returns' = returns /\ target' = target
  BY ControllerUsed DEF OnlyController, Proceeds
<1>2. Reported' /\ AnswerWords' = AnswerWords
  BY <1>1 DEF HandlingFrame, InHandler, Reported, AnswerWords
<1>3. InHandler'
  BY <1>1, <1>2 DEF HandlingFrame, InHandler, Ready, ServiceKept, Proceeds
<1> QED
  BY <1>1, <1>2, <1>3 DEF HandlingFrame, AllowedStep, ServiceKept, HandlerFrame

\* The text the handler runs.
LEMMA HandlerRuns ==
  ASSUME Steady, InHandler
  PROVE  Code = Text[target]["int6"] /\ Instr = Code[at.i] /\ HandlerText(Code) /\ ~quit /\ ~hlt
BY TextRead DEF Steady, InHandler, Code

\* The handler asks what has ended.
LEMMA HandlerAsks ==
  ASSUME HostIInv, Steady, HandlingFrame, Processor, ~checking,
         Sending(0, 8), Expects("None", 0), configurationDatas[1] = 0, fetched = <<>>
  PROVE  GoesOn
<1>1. Instr = Code[at.i] /\ Holds(Code, 0, FDC_COMMAND(8)) /\ ~quit /\ ~hlt
  BY HandlerRuns DEF HandlingFrame, HandlerText
<1>2. 8 \in Byte /\ 8 \in CommandBytes /\ phase = "COMMAND" /\ toSend = 0
  BY MachineAssumption DEF Byte, Expects
<1>3. /\ OnlyController /\ Proceeds /\ fetched' = fetched
      /\ \/ Sending(0, 8)' /\ HostQuiet /\ (UNCHANGED hostVars \/ PollStatus)
         \/ at.i = 5 /\ seen = "write" /\ AL = 8 /\ WriteWordOfMacro
  BY <1>1, <1>2, WordOnItsWay
<1>4. CASE Sending(0, 8)' /\ HostQuiet /\ (UNCHANGED hostVars \/ PollStatus)
  <2>1. ~quit' /\ [HostNext]_hostVars
    BY <1>1, <1>4 DEF HostQuiet, HostNext, HostAccess
  <2>2. Steady' /\ AllowedStep /\ HandlingFrame'
    BY <1>3, <1>4, <2>1, HandlingFrameKept DEF HostQuiet
  <2>3. Expects("None", 0)' /\ configurationDatas'[1] = 0
    BY <1>4 DEF Expects, HostQuiet
  <2>4. Handling'
    BY <1>3, <1>4, <2>2, <2>3 DEF Handling, HandlingFrame
  <2> QED
    BY <2>2, <2>4 DEF GoesOn, Situation
<1>5. CASE at.i = 5 /\ seen = "write" /\ AL = 8 /\ WriteWordOfMacro
  <2>1. SendCommand(8) /\ Send(8)
    BY <1>1, <1>2, <1>5, MacroSends
  <2>2. HostNext
    BY <1>1, <1>2, <2>1 DEF HostNext, HostAccess
  <2>3. ~quit' /\ Answers(0)' /\ UNCHANGED <<STRegisters, floppyDrives>>
    BY <1>1, <2>1, SenseAnswers
  <2>4. Steady' /\ AllowedStep /\ HandlingFrame'
    BY <1>3, <2>2, <2>3, HandlingFrameKept
  <2>5. Fetching(5)'
    BY <1>3, <1>5 DEF Fetching, Proceeds
  <2>6. Handling'
    BY <1>3, <2>3, <2>4, <2>5 DEF Handling, HandlingFrame
  <2> QED
    BY <2>4, <2>6 DEF GoesOn, Situation
<1> QED
  BY <1>3, <1>4, <1>5

\* A second word behind a first.
LEMMA Appended == ASSUME NEW x, NEW y PROVE Append(<<x>>, y) = <<x, y>>
<1>1. PICK s : s = Append(<<x>>, y)
  OBVIOUS
<1>2. PICK t : t = <<x, y>>
  OBVIOUS
<1>3. s \in Seq({x, y}) /\ Len(s) = 2 /\ s[1] = x /\ s[2] = y
  <2>1. <<x>> \in Seq({x, y}) /\ Len(<<x>>) = 1 /\ <<x>>[1] = x
    OBVIOUS
  <2> QED
    BY <1>1, <2>1
<1>4. t \in Seq({x, y}) /\ Len(t) = 2 /\ t[1] = x /\ t[2] = y
  BY <1>2
<1>5. \A i \in 1 .. Len(s) : s[i] = t[i]
  BY <1>3, <1>4
<1>6. s = t
  BY <1>3, <1>4, <1>5
<1> QED
  BY <1>1, <1>2, <1>6

\* It fetches the two words of the answer.
LEMMA HandlerFetches ==
  ASSUME HostIInv, Steady, HandlingFrame, Processor, ~checking, NEW n \in {0, 1},
         Fetching(5 + 4 * n), Answers(n), fetched = IF n = 0 THEN <<>> ELSE <<STRegisters[0]>>
  PROVE  GoesOn
<1>1. Instr = Code[at.i] /\ Holds(Code, 5 + 4 * n, FDC_RESULT) /\ ~quit /\ ~hlt
  <2>1. HandlerText(Code) /\ Instr = Code[at.i] /\ ~quit /\ ~hlt
    BY HandlerRuns DEF HandlingFrame
  <2>2. 5 + 4 * 0 = 5 /\ 5 + 4 * 1 = 9
    OBVIOUS
  <2> QED
    BY <2>1, <2>2 DEF HandlerText
<1>2. PICK base \in Nat : base = 5 + 4 * n
  OBVIOUS
<1>3. /\ OnlyController /\ Proceeds
      /\ \/ /\ Fetching(base)' /\ HostQuiet /\ (UNCHANGED hostVars \/ PollStatus)
            /\ fetched' = fetched
         \/ at.i = base + 4 /\ seen = "read" /\ ReadAnswer
  <2>1. phase = "RESULT"
    BY DEF Answers
  <2>2. Fetching(base) /\ Holds(Code, base, FDC_RESULT)
    BY <1>1, <1>2
  <2> QED
    BY <1>1, <2>1, <2>2, AnswerOnItsWay
<1>4. CASE /\ Fetching(base)' /\ HostQuiet /\ (UNCHANGED hostVars \/ PollStatus)
           /\ fetched' = fetched
  <2>1. ~quit' /\ [HostNext]_hostVars
    BY <1>1, <1>4 DEF HostQuiet, HostNext, HostAccess
  <2>2. Steady' /\ AllowedStep /\ HandlingFrame' /\ AnswerWords' = AnswerWords
    BY <1>3, <1>4, <2>1, HandlingFrameKept DEF HostQuiet
  <2>3. Answers(n)' /\ STRegisters' = STRegisters
    BY <1>4, <2>2 DEF Answers, HostQuiet
  <2>4. CASE n = 0
    <3>1. Fetching(5)' /\ Answers(0)' /\ fetched' = <<>>
      BY <1>2, <1>4, <2>3, <2>4
    <3>2. Handling'
      BY <2>2, <3>1 DEF Handling, HandlingFrame
    <3> QED
      BY <2>2, <3>2 DEF GoesOn, Situation
  <2>5. CASE n = 1
    <3>1. Fetching(9)' /\ Answers(1)' /\ fetched' = <<STRegisters[0]>>'
      BY <1>2, <1>4, <2>3, <2>5
    <3>2. Handling'
      BY <2>2, <3>1 DEF Handling, HandlingFrame
    <3> QED
      BY <2>2, <3>2 DEF GoesOn, Situation
  <2> QED
    BY <2>4, <2>5
<1>5. CASE at.i = base + 4 /\ seen = "read" /\ ReadAnswer
  <2>1. /\ FetchResult
        /\ fetched' = Append(fetched, AnswerWords[n + 1])
        /\ ~quit' /\ UNCHANGED <<STRegisters, floppyDrives>>
        /\ n = 0 => Answers(1)'
        /\ n = 1 => Expects("None", 0)'
    BY <1>1, <1>5, WordIsFetched
  <2>2. HostNext
    BY <1>1, <2>1 DEF HostNext, HostAccess
  <2>3. Steady' /\ AllowedStep /\ HandlingFrame' /\ AnswerWords' = AnswerWords
    BY <1>3, <2>1, <2>2, HandlingFrameKept
  <2>4. at'.i = base + 5
    BY <1>3, <1>5 DEF Proceeds
  <2>5. CASE n = 0
    <3>1. Fetching(9)'
      BY <1>2, <2>4, <2>5 DEF Fetching
    <3>2. AnswerWords[1] = STRegisters[0] /\ \A x : Append(<<>>, x) = <<x>>
      BY DEF AnswerWords
    <3>3. fetched' = <<STRegisters[0]>> /\ STRegisters' = STRegisters
      BY <2>1, <2>5, <3>2
    <3>4. Handling'
      BY <2>1, <2>3, <2>5, <3>1, <3>3 DEF Handling, HandlingFrame
    <3> QED
      BY <2>3, <3>4 DEF GoesOn, Situation
  <2>6. CASE n = 1
    <3>1. Dismissing'
      BY <1>2, <2>4, <2>6 DEF Dismissing
    <3>2. PICK x, y : x = STRegisters[0] /\ y = floppyDrives[0].cylinder % 256
      OBVIOUS
    <3>3. fetched' = AnswerWords
      <4>1. AnswerWords = <<x, y>> /\ fetched = <<x>>
        BY <2>6, <3>2 DEF AnswerWords
      <4>2. n + 1 = 2 /\ <<x, y>>[2] = y
        BY <2>6
      <4>3. Append(<<x>>, y) = <<x, y>>
        BY Appended
      <4>4. fetched' = Append(<<x>>, <<x, y>>[2])
        BY <2>1, <4>1, <4>2, Zenon
      <4> QED
        BY <4>1, <4>2, <4>3, <4>4, Zenon
    <3>4. Handling'
      BY <2>1, <2>3, <2>6, <3>1, <3>3 DEF Handling, HandlingFrame
    <3> QED
      BY <2>3, <3>4 DEF GoesOn, Situation
  <2> QED
    BY <2>5, <2>6
<1> QED
  BY <1>3, <1>4, <1>5

\* It ends its interrupt.
LEMMA HandlerDismisses ==
  ASSUME HostIInv, Steady, HandlingFrame, Processor, ~checking,
         Dismissing, Expects("None", 0), fetched = AnswerWords
  PROVE  GoesOn
<1>1. Instr = Code[at.i] /\ HandlerText(Code) /\ ~quit /\ ~hlt /\ Ready /\ at.i \in 14 .. 16
  BY HandlerRuns DEF HandlingFrame, InHandler, Dismissing
<1>2. CASE at.i \in {14, 15}
  <2>1. /\ Undisturbed /\ Proceeds
        /\ at.i = 14 => AL' = 32
        /\ at.i = 15 => AL' = 32 /\ DX' = 32
    <3>1. at.i = 14 => Instr = LoadsAX(32)
      BY <1>1 DEF HandlerText
    <3>2. at.i = 15 => Instr = LoadsDX(32) /\ AL = 32
      BY <1>1 DEF HandlerText, Dismissing
    <3>3. 32 \in Byte
      BY DEF Byte
    <3> QED
      BY <1>1, <1>2, <3>1, <3>2, <3>3, LoadedAX, LoadedDX
  <2>2. OnlyController /\ UNCHANGED <<hostVars, fetched>>
    BY <2>1 DEF Undisturbed, OnlyController
  <2>3. HostQuiet
    BY <2>2 DEF HostQuiet, hostVars, vars, config, answer, drives
  <2>4. Steady' /\ AllowedStep /\ HandlingFrame' /\ AnswerWords' = AnswerWords
    BY <1>1, <2>1, <2>2, <2>3, HandlingFrameKept DEF HostQuiet
  <2>5. Dismissing'
    BY <1>2, <2>1 DEF Dismissing, Proceeds
  <2>6. Expects("None", 0)' /\ fetched' = fetched
    BY <2>2, <2>3 DEF Expects, HostQuiet
  <2>7. Handling'
    BY <2>4, <2>5, <2>6 DEF Handling, HandlingFrame
  <2> QED
    BY <2>4, <2>7 DEF GoesOn, Situation
<1>3. CASE at.i = 16
  <2>1. /\ OnlyPIC /\ Proceeds
        /\ S!NonSpecificEOI(32) /\ ISR' = {} /\ frames' = HandlerFrame(FALSE)
        /\ frames' = [frames EXCEPT ![Len(frames)].owes = FALSE]
    <3>1. Instr = Does("OUT") /\ DX = 32 /\ AL = 32
      BY <1>1, <1>3 DEF HandlerText, Dismissing
    <3> QED
      BY <1>1, <3>1, InterruptIsEnded DEF HandlingFrame
  <2>2. /\ UNCHANGED <<hostVars, INTF, hlt, target, returns, fetched>>
        /\ checking' = TRUE /\ lost' = lost
    BY <2>1 DEF OnlyPIC, S!Executes
  <2>3. /\ UNCHANGED <<initStatus, firstInterruptVector, autoEOI, intr, picQuit, IMR,
                       priorities, IRLineWithPriority0, specialFullyNestedMode>>
    BY <2>1 DEF S!NonSpecificEOI, S!Retire, S!info, S!order, S!latch
  <2>4. HostQuiet /\ floppyDrives' = floppyDrives
    BY <2>2 DEF HostQuiet, hostVars, vars, config, answer, drives
  <2>5. Steady'
    BY <2>1, <2>2, <2>3, <2>4 DEF Steady, Proceeds, HostQuiet
  <2>6. Reported' /\ AnswerWords' = AnswerWords
    BY <2>2, <2>4 DEF HandlingFrame, InHandler, Reported, AnswerWords, HostQuiet
  <2>7. InHandler'
    BY <2>1, <2>2, <2>3, <2>6 DEF HandlingFrame, InHandler, Ready, Proceeds
  <2>8. Expects("None", 0)' /\ at'.i = 17
    BY <1>3, <2>1, <2>4 DEF Expects, HostQuiet, Proceeds
  <2>9. Leaving'
    BY <2>1, <2>2, <2>6, <2>7, <2>8 DEF Leaving, HandlerFrame
  <2>10. S!EndOfInterrupt
    <3>1. frames # <<>> /\ S!Running.owes
      <4>1. PICK r : r = [line |-> 6, INTF |-> TRUE, owes |-> TRUE]
        OBVIOUS
      <4>2. frames = <<r>>
        BY <4>1 DEF HandlingFrame, HandlerFrame
      <4>3. r.owes = TRUE
        BY <4>1
      <4>4. Len(<<r>>) = 1 /\ <<r>>[1] = r /\ <<r>> # <<>>
        OBVIOUS
      <4>5. S!Running = r
        BY <4>2, <4>4, Zenon DEF S!Running
      <4> QED
        BY <4>2, <4>3, <4>4, <4>5, Zenon
    <3> QED
      BY <2>1, <2>2, <3>1 DEF S!EndOfInterrupt, OnlyPIC
  <2>11. S!ServiceNext
    BY <2>10 DEF S!ServiceNext, S!Instruction
  <2> QED
    BY <2>2, <2>5, <2>9, <2>11 DEF GoesOn, AllowedStep, Situation
<1> QED
  BY <1>1, <1>2, <1>3

\* The handler goes on, up to its return.
LEMMA HandlingGoesOn ==
  ASSUME HostIInv, Steady, Handling, Processor, ~checking
  PROVE  GoesOn
<1>1. HandlingFrame
  BY DEF Handling, HandlingFrame
<1>2. ASSUME Fetching(5), Answers(0), fetched = <<>> PROVE GoesOn
  <2>1. 5 + 4 * 0 = 5
    OBVIOUS
  <2> QED
    BY <1>1, <1>2, <2>1, HandlerFetches
<1>3. ASSUME Fetching(9), Answers(1), fetched = <<STRegisters[0]>> PROVE GoesOn
  <2>1. 5 + 4 * 1 = 9
    OBVIOUS
  <2> QED
    BY <1>1, <1>3, <2>1, HandlerFetches
<1> QED
  BY <1>1, <1>2, <1>3, HandlerAsks, HandlerDismisses DEF Handling

\* The handler returns to the loop.
LEMMA LeavingGoesOn ==
  ASSUME HostIInv, Steady, Leaving, Processor, ~checking
  PROVE  GoesOn
<1>1. Instr = Does("IRET") /\ ~quit /\ ~hlt /\ Ready
  BY HandlerRuns DEF Leaving, InHandler, HandlerText
<1>2. PICK i \in {44, 45} : returns = <<[routine |-> "bios", i |-> i]>>
  BY DEF Leaving, InHandler
<1>3. PICK back : back = [routine |-> "bios", i |-> i]
  OBVIOUS
<1>4. back \in Positions /\ returns = <<back>> /\ back.routine = "bios" /\ back.i = i
  BY <1>2, <1>3 DEF Positions
<1>5. /\ S!IRET /\ INTF' = TRUE /\ frames' = <<>> /\ returns' = <<>> /\ at' = back
      /\ UNCHANGED <<hostVars, interruptController, hlt, target, fetched>>
  BY <1>1, <1>4, HandlerReturns DEF Leaving
<1>6. /\ UNCHANGED <<ISR, initStatus, firstInterruptVector, autoEOI, intr, picQuit, IMR,
                     priorities, IRLineWithPriority0, specialFullyNestedMode>>
      /\ checking' = TRUE /\ lost' = lost
  BY <1>5 DEF interruptController, S!IRET, S!Executes
<1>7. HostQuiet /\ floppyDrives' = floppyDrives
  BY <1>5 DEF HostQuiet, hostVars, vars, config, answer, drives
<1>8. Steady'
  BY <1>4, <1>5, <1>6, <1>7 DEF Steady, HostQuiet
<1>9. InLoop'
  BY <1>4, <1>5, <1>6 DEF Leaving, InHandler, InLoop, Ready
<1>10. Expects("None", 0)' /\ Reported' /\ AnswerWords' = AnswerWords
  BY <1>5, <1>7 DEF Leaving, InHandler, Expects, Reported, AnswerWords, HostQuiet
<1>11. AtRest'
  BY <1>5, <1>6, <1>9, <1>10 DEF AtRest, Leaving, InHandler
<1>12. S!ServiceNext
  BY <1>5 DEF S!ServiceNext, S!Instruction
<1> QED
  BY <1>5, <1>8, <1>11, <1>12 DEF GoesOn, AllowedStep, Situation

\* The check of the latch: nothing is latched, or the end of the seek is.
LEMMA CheckGoesOn ==
  ASSUME HostIInv, Steady, Situation, Processor, checking
  PROVE  GoesOn
<1>1. CASE ~intr
  <2>1. /\ Steady' /\ ServiceKept /\ S!ServiceNext
        /\ UNCHANGED <<hostVars, program>>
    BY <1>1, NothingServed
  <2>2. HostQuiet /\ UNCHANGED <<seen, target, at, returns, AL, DX, fetched>>
    BY <2>1 DEF HostQuiet, hostVars, vars, config, answer, drives, program
  <2> QED
    BY <2>1, <2>2, QuietStep DEF GoesOn, AllowedStep
<1>2. CASE intr
  <2>1. EndIsLatched
    BY <1>2 DEF Situation, Starting, Booting, Configuring, Calm, SeekIsRunning, Handling,
                Leaving, InHandler, AtRest
  <2>2. /\ Serve
        /\ frames' = HandlerFrame(TRUE) /\ INTF' = FALSE /\ ~hlt' /\ ~intr'
        /\ at' = [routine |-> "int6", i |-> 1] /\ returns' = <<at>>
        /\ UNCHANGED <<ISR, initStatus, firstInterruptVector, autoEOI>>
        /\ UNCHANGED <<picQuit, lost, priorities, IRLineWithPriority0, IMR,
                       specialFullyNestedMode>>
        /\ checking' = FALSE
    BY <2>1, HandlerEntered
  <2>3. UNCHANGED <<hostVars, target, fetched>> /\ S!Serve
    BY <2>2 DEF Serve
  <2>4. HostQuiet /\ UNCHANGED <<quit, floppyDrives>>
    BY <2>3 DEF HostQuiet, hostVars, vars, config, answer, drives
  <2>5. at' \in Positions /\ at'.routine = "int6" /\ at'.i = 1
    BY <2>2 DEF Positions
  <2>6. Steady'
    BY <2>2, <2>3, <2>4, <2>5 DEF Steady
  <2>7. \E i \in {44, 45} : at = [routine |-> "bios", i |-> i]
    <3>1. at \in Positions /\ at.routine = "bios" /\ at.i \in {44, 45}
      BY <2>1 DEF Steady, EndIsLatched, InLoop
    <3>2. \A p \in Positions : p = [routine |-> p.routine, i |-> p.i]
      BY DEF Positions
    <3> QED
      BY <3>1, <3>2
  <2>8. Reported'
    BY <2>1, <2>3, <2>4 DEF EndIsLatched, Reported, HostQuiet
  <2>9. InHandler'
    <3>1. Ready'
      BY <2>1, <2>2 DEF EndIsLatched, InLoop, Ready
    <3>2. \E i \in {44, 45} : returns' = <<[routine |-> "bios", i |-> i]>>
      BY <2>2, <2>7
    <3> QED
      BY <2>2, <2>5, <2>8, <3>1, <3>2 DEF InHandler
  <2>10. Sending(0, 8)' /\ Expects("None", 0)' /\ configurationDatas'[1] = 0 /\ fetched' = <<>>
    BY <2>1, <2>3, <2>4, <2>5 DEF EndIsLatched, Sending, Expects, HostQuiet
  <2>11. Handling'
    BY <2>1, <2>2, <2>9, <2>10 DEF Handling, EndIsLatched, HandlerFrame
  <2>12. S!ServiceNext
    BY <2>3 DEF S!ServiceNext, S!Check
  <2> QED
    BY <2>3, <2>6, <2>11, <2>12 DEF GoesOn, AllowedStep, Situation
<1> QED
  BY <1>1, <1>2

\* An instruction.
LEMMA InstructionGoesOn ==
  ASSUME HostIInv, Steady, Situation, Processor, ~checking
  PROVE  GoesOn
BY StartingGoesOn, BootingGoesOn, ConfiguringGoesOn, WaitingGoesOn, HandlingGoesOn,
   LeavingGoesOn DEF Situation

\* A step that leaves the service alone.
LEMMA ServiceLeftAlone ==
  ASSUME Steady, UNCHANGED service, UNCHANGED program, ~quit'
  PROVE  Steady' /\ ServiceKept /\ UNCHANGED (S!vars)
         /\ UNCHANGED <<target, at, returns, AL, DX, fetched>>
<1>1. /\ UNCHANGED <<ISR, IMR, priorities, IRLineWithPriority0, initStatus, singleMode,
                     firstInterruptVector, autoEOI, specialFullyNestedMode,
                     nextRegisterToRead, intr, intr_v, picQuit>>
      /\ UNCHANGED <<INTF, hlt, frames, checking, lost>>
      /\ UNCHANGED <<target, at, returns, AL, DX, fetched>>
  BY DEF service, interruptController, program
<1>2. Steady'
  BY <1>1 DEF Steady
<1>3. UNCHANGED (S!vars)
  BY <1>1 DEF S!vars, S!picVars, S!cpu, S!order, S!info, S!latch
<1> QED
  BY <1>1, <1>2, <1>3 DEF ServiceKept

\* A clock of the controller.
LEMMA ClockGoesOn ==
  ASSUME HostIInv, Steady, Situation, ControllerClock
  PROVE  GoesOn
<1>1. HostClock /\ UNCHANGED program /\ (~irq' => UNCHANGED service)
  BY DEF ControllerClock
<1>2. HostNext
  BY <1>1 DEF HostNext
<1>3. CASE phase # "EXECUTION"
  <2>1. HostQuiet /\ irq' = FALSE /\ seen' = seen /\ ~quit'
    BY <1>1, <1>3, QuietClock DEF Steady, HostQuiet
  <2>2. UNCHANGED service
    BY <1>1, <2>1
  <2>3. Steady' /\ ServiceKept /\ UNCHANGED (S!vars)
        /\ UNCHANGED <<target, at, returns, AL, DX, fetched>>
    BY <1>1, <2>1, <2>2, ServiceLeftAlone
  <2> QED
    BY <1>2, <2>1, <2>3, QuietStep DEF GoesOn, AllowedStep
<1>4. CASE phase = "EXECUTION"
  <2>1. SeekIsRunning
    BY <1>4 DEF Situation, Starting, Booting, Configuring, WordToSend, EndIsLatched, Handling,
                Leaving, AtRest, Expects, Answers
  <2>2. UNCHANGED <<target, at, returns, AL, DX, fetched>>
    BY <1>1 DEF program
  <2>3. /\ ~quit' /\ configurationDatas' = configurationDatas
        /\ ~irq' => phase' = "EXECUTION" /\ selectedCommand' = "Seek"
        /\ irq' => Expects("None", 0)' /\ Reported'
    BY <1>1, <2>1, <2>2, SeekClocked DEF SeekIsRunning
  <2>4. CASE ~irq'
    <3>1. Steady' /\ ServiceKept /\ UNCHANGED (S!vars)
      BY <1>1, <2>3, <2>4, ServiceLeftAlone
    <3>2. SeekIsRunning'
      BY <2>1, <2>2, <2>3, <2>4, <3>1 DEF SeekIsRunning, InLoop, Ready, ServiceKept
    <3> QED
      BY <1>2, <3>1, <3>2 DEF GoesOn, AllowedStep, Situation
  <2>5. CASE irq'
    <3>1. /\ S!DeviceRequest(6)
          /\ ISR' = {6} /\ intr' = TRUE /\ intr_v' = 182
          /\ UNCHANGED <<INTF, hlt, frames, initStatus, firstInterruptVector, autoEOI>>
          /\ UNCHANGED <<picQuit, lost, priorities, IRLineWithPriority0, IMR,
                         specialFullyNestedMode, checking>>
      BY <2>1, <2>5, EndIsHeard DEF SeekIsRunning, InLoop
    <3>2. Steady'
      BY <2>2, <2>3, <3>1 DEF Steady
    <3>3. EndIsLatched'
      BY <2>1, <2>2, <2>3, <2>5, <3>1 DEF SeekIsRunning, EndIsLatched, InLoop, Ready
    <3>4. S!ServiceNext
      BY <3>1 DEF S!ServiceNext
    <3> QED
      BY <1>2, <3>2, <3>3, <3>4 DEF GoesOn, AllowedStep, Situation
  <2> QED
    BY <2>4, <2>5
<1> QED
  BY <1>3, <1>4

\* Disks put in and taken out, and delays that end.
LEMMA OutsideGoesOn ==
  ASSUME HostIInv, Steady, Situation, Outside
  PROVE  GoesOn
<1>1. Environment /\ UNCHANGED <<seen, toSend>> /\ UNCHANGED service /\ UNCHANGED program
  BY DEF Outside
<1>2. HostNext
  BY <1>1 DEF HostNext, Steady
<1>3. HostQuiet /\ ~quit'
  BY <1>1, QuietOutside DEF Steady, HostQuiet
<1>4. Steady' /\ ServiceKept /\ UNCHANGED (S!vars)
      /\ UNCHANGED <<target, at, returns, AL, DX, fetched>>
  BY <1>1, <1>3, ServiceLeftAlone
<1> QED
  BY <1>1, <1>2, <1>3, <1>4, QuietStep DEF GoesOn, AllowedStep

-----------------------------------------------------------------------------
(* The theorems.                                                           *)

\* The machine begins in the first situation, and as FDCHost and Service begin.
THEOREM MachineInitMIInv == MachineInit => MIInv /\ HostInit /\ S!ServiceInit
<1> SUFFICES ASSUME MachineInit PROVE MIInv /\ HostInit /\ S!ServiceInit
  OBVIOUS
<1>1. HostInit /\ S!ServiceInit /\ target \in SeekTargets
      /\ at = [routine |-> "jmp", i |-> 1] /\ returns = <<>> /\ fetched = <<>>
  BY DEF MachineInit
<1>2. HostIInv
  BY <1>1, HostInitIInv
<1>3. S!Rotated(0) = [l \in S!Lines |-> l]
  <2>1. \A l \in S!Lines : (l - 0) % 8 = l
    BY DEF S!Lines
  <2> QED
    BY <2>1 DEF S!Rotated
<1>4. /\ ISR = {} /\ IMR = {} /\ priorities = [l \in S!Lines |-> l] /\ IRLineWithPriority0 = 0
      /\ initStatus = "UNINITIALIZED" /\ ~specialFullyNestedMode /\ ~intr /\ ~picQuit
      /\ INTF = FALSE /\ ~hlt /\ frames = <<>> /\ checking = FALSE /\ lost = 0
  BY <1>1, <1>3 DEF S!ServiceInit, S!Init
<1>5. phase = "COMMAND" /\ selectedCommand = "None" /\ toSend = 0 /\ ~quit
  BY <1>1 DEF HostInit, Init
<1>6. at \in Positions
  BY <1>1 DEF Positions
<1>7. Steady
  BY <1>1, <1>4, <1>5, <1>6 DEF Steady
<1>8. Starting
  BY <1>1, <1>4, <1>5 DEF Starting, Calm, Expects
<1> QED
  BY <1>1, <1>2, <1>7, <1>8 DEF MIInv, Situation

\* Every step leads from a situation to a situation, and is one FDCHost and Service
\* allow.
THEOREM MachineNextMIInv ==
  MIInv /\ [MachineNext]_machineVars => MIInv' /\ AllowedStep
<1> SUFFICES ASSUME MIInv, [MachineNext]_machineVars PROVE MIInv' /\ AllowedStep
  OBVIOUS
<1>1. HostIInv /\ Steady /\ Situation
  BY DEF MIInv
<1>2. GoesOn
  <2>1. CASE Processor
    BY <1>1, <2>1, CheckGoesOn, InstructionGoesOn DEF Steady
  <2>2. CASE ControllerClock
    BY <1>1, <2>2, ClockGoesOn
  <2>3. CASE Outside
    BY <1>1, <2>3, OutsideGoesOn
  <2>4. CASE UNCHANGED machineVars
    <3>1. UNCHANGED <<hostVars, service, program>>
      BY <2>4 DEF machineVars
    <3>2. HostQuiet /\ seen' = seen /\ ~quit'
      BY <1>1, <3>1 DEF HostQuiet, Steady, hostVars, vars, config, answer, drives
    <3>3. Steady' /\ ServiceKept /\ UNCHANGED (S!vars)
          /\ UNCHANGED <<target, at, returns, AL, DX, fetched>>
      BY <1>1, <3>1, <3>2, ServiceLeftAlone
    <3> QED
      BY <1>1, <3>1, <3>2, <3>3, QuietStep DEF GoesOn, AllowedStep
  <2> QED
    BY <2>1, <2>2, <2>3, <2>4 DEF MachineNext
<1>3. HostIInv'
  BY <1>1, <1>2, HostNextIInv DEF GoesOn, AllowedStep
<1> QED
  BY <1>2, <1>3 DEF GoesOn, MIInv

\* The program is always in one of the situations.
THEOREM MachineInvariance == MachineSpec => []MIInv
BY MachineInitMIInv, MachineNextMIInv, PTL DEF MachineSpec

\* The program is a driver as FDCHost describes it, though its macros ignore the
\* status they read.
THEOREM ProgramKeepsHost == MachineSpec => ImplementsHost
BY MachineInitMIInv, MachineNextMIInv, PTL
   DEF MachineSpec, ImplementsHost, HostSpec, AllowedStep

\* ... and its handler one of those Service describes.
THEOREM ProgramKeepsService == MachineSpec => ImplementsService
BY MachineInitMIInv, MachineNextMIInv, PTL
   DEF MachineSpec, ImplementsService, S!ServiceSpec, AllowedStep

\* Of the words the program has read, two are there only as the answer of the seek.
LEMMA AnswerOfSeek ==
  ASSUME MIInv, Cylinders <= 256
  PROVE  AnswerIsOfSeek
<1>1. Situation
  BY DEF MIInv
<1>2. CASE fetched = AnswerWords /\ Reported
  <2>1. floppyDrives[0].cylinder \in 0 .. Cylinders - 1
    <3>1. floppyDrives \in [Drives -> Drive] /\ 0 \in Drives
      BY DEF MIInv, HostIInv, IInv, TypeOK, Drives
    <3> QED
      BY <3>1 DEF Drive
  <2>2. Cylinders \in Nat
    BY FloppyAssumption
  <2>3. floppyDrives[0].cylinder % 256 = floppyDrives[0].cylinder
    BY <2>1, <2>2
  <2>4. fetched[1] = STRegisters[0] /\ fetched[2] = floppyDrives[0].cylinder
    BY <1>2, <2>3 DEF AnswerWords
  <2> QED
    BY <1>2, <2>4 DEF AnswerIsOfSeek, Reported
<1>3. CASE fetched = <<>>
  BY <1>3 DEF AnswerIsOfSeek
<1>4. CASE fetched = <<STRegisters[0]>>
  BY <1>4 DEF AnswerIsOfSeek
<1>5. \/ fetched = <<>> \/ fetched = <<STRegisters[0]>>
      \/ fetched = AnswerWords /\ Reported
  BY <1>1, Zenon DEF Situation, Starting, Booting, Configuring, SeekIsRunning, EndIsLatched,
     Handling, Leaving, InHandler, AtRest
<1> QED
  BY <1>2, <1>3, <1>4, <1>5

\* What the handler fetches is the answer of the seek that the program asked for, as
\* long as the number of a cylinder is a byte.
THEOREM AnswerIsRight ==
  ASSUME Cylinders <= 256
  PROVE  MachineSpec => []AnswerIsOfSeek
<1>1. MIInv => AnswerIsOfSeek
  BY AnswerOfSeek
<1> QED
  BY <1>1, MachineInvariance, PTL

\* Where in the running routine something is done.
Where(op) == {k \in Nat : Code[k].op = op}

DXLoads == Where("MOV DX")
AXLoads == Where("MOV AX")
Outs    == Where("OUT")

\* A load of DX is nothing else ...
LEMMA LoadsDXAt ==
  \A k \in Nat : \A n : Code[k] = LoadsDX(n) =>
    k \in DXLoads /\ k \notin AXLoads /\ k \notin Outs /\ Code[k].n = n
<1>1. \A n : LoadsDX(n).op = "MOV DX" /\ LoadsDX(n).n = n
  BY Zenon DEF LoadsDX
<1>2. "MOV DX" # "MOV AX" /\ "MOV DX" # "OUT"
  OBVIOUS
<1> QED
  BY <1>1, <1>2, Zenon DEF Where, DXLoads, AXLoads, Outs

\* ... nor is one of AX ...
LEMMA LoadsAXAt ==
  \A k \in Nat : \A n : Code[k] = LoadsAX(n) =>
    k \notin DXLoads /\ k \in AXLoads /\ k \notin Outs /\ Code[k].n = n
<1>1. \A n : LoadsAX(n).op = "MOV AX" /\ LoadsAX(n).n = n
  BY Zenon DEF LoadsAX
<1>2. "MOV DX" # "MOV AX" /\ "MOV AX" # "OUT"
  OBVIOUS
<1> QED
  BY <1>1, <1>2, Zenon DEF Where, DXLoads, AXLoads, Outs

Plain == {"XCHG", "STI", "IN", "HLT", "JMP", "JMP FAR", "IRET"}

\* ... and the others load nothing, nor write anything but OUT.
LEMMA PlainAt ==
  \A k \in Nat : \A name : Code[k] = Does(name) =>
    /\ name = "OUT" => k \notin DXLoads /\ k \notin AXLoads
    /\ name \in Plain => k \notin Outs
<1>1. \A name : Does(name).op = name
  BY Zenon DEF Does
<1>2. "MOV DX" # "OUT" /\ "MOV AX" # "OUT" /\ "OUT" \notin Plain
  BY DEF Plain
<1> QED
  BY <1>1, <1>2, Zenon DEF Where, DXLoads, AXLoads, Outs

\* An OUT loads nothing.
LEMMA OutAt ==
  ASSUME NEW k \in Nat, Code[k] = Does("OUT")
  PROVE  k \notin DXLoads /\ k \notin AXLoads
BY PlainAt, Zenon

\* The plain ones of the program.
LEMMA PlainOnes ==
  /\ "XCHG" \in Plain /\ "STI" \in Plain /\ "IN" \in Plain /\ "HLT" \in Plain
  /\ "JMP" \in Plain /\ "JMP FAR" \in Plain /\ "IRET" \in Plain
BY DEF Plain

\* An instruction that is no OUT writes nothing.
LEMMA NoOutput == ASSUME Steady, at.i \notin Outs PROVE OutputsWhatItLoaded
<1>1. at.i \in Nat
  BY DEF Steady, Positions
<1> QED
  BY <1>1, Zenon DEF OutputsWhatItLoaded, Instr, Code, Outs, Where

\* The last load of a register before the instruction the program stands at.
LEMMA LastLoadIs ==
  ASSUME Steady, NEW op, NEW loads, loads = Where(op),
         NEW j \in 1 .. at.i - 1, j \in loads, \A k \in j + 1 .. at.i - 1 : k \notin loads
  PROVE  LastLoad(op) = j
<1>1. at.i \in Nat
  BY DEF Steady, Positions
<1>2. \A l \in 1 .. at.i - 1 :
        l \in loads /\ (\A k \in l + 1 .. at.i - 1 : k \notin loads) => l = j
  BY <1>1
<1>3. \A l \in 1 .. at.i - 1 :
        /\ l \in loads <=> Code[l].op = op
        /\ \A k \in l + 1 .. at.i - 1 : k \notin loads <=> Code[k].op # op
  <2>1. \A k \in Nat : k \in loads <=> Code[k].op = op
    BY Zenon DEF Where
  <2>2. \A l \in 1 .. at.i - 1 : l \in Nat /\ \A k \in l + 1 .. at.i - 1 : k \in Nat
    BY <1>1
  <2> QED
    BY <2>1, <2>2, Zenon
<1>4. \A l \in 1 .. at.i - 1 :
        Code[l].op = op /\ (\A k \in l + 1 .. at.i - 1 : Code[k].op # op) <=> l = j
  BY <1>2, <1>3, Zenon
<1>5. (CHOOSE l \in 1 .. at.i - 1 :
         Code[l].op = op /\ \A k \in l + 1 .. at.i - 1 : Code[k].op # op) = j
  BY <1>4, Zenon
<1> QED
  BY <1>5, Zenon DEF LastLoad, Code

\* The registers hold what was loaded last.
LEMMA RegistersLoaded ==
  ASSUME Steady, NEW d \in 1 .. at.i - 1, NEW a \in 1 .. at.i - 1,
         NEW n, NEW b \in Byte, Code[d] = LoadsDX(n), Code[a] = LoadsAX(b), DX = n, AL = b,
         \A k \in d + 1 .. at.i - 1 : k \notin DXLoads,
         \A k \in a + 1 .. at.i - 1 : k \notin AXLoads
  PROVE  OutputsWhatItLoaded
<1>1. d \in Nat /\ a \in Nat
  BY DEF Steady, Positions
<1>2. d \in DXLoads /\ Code[d].n = n /\ a \in AXLoads /\ Code[a].n = b
  BY <1>1, LoadsDXAt, LoadsAXAt, Zenon
<1>3. LastLoad("MOV DX") = d
  BY <1>2, LastLoadIs, Zenon DEF DXLoads
<1>4. LastLoad("MOV AX") = a
  BY <1>2, LastLoadIs, Zenon DEF AXLoads
<1>5. b % 256 = b
  BY DEF Byte
<1> QED
  BY <1>2, <1>3, <1>4, <1>5, Zenon DEF OutputsWhatItLoaded, Code

\* At the OUT of FDC_COMMAND they do.
LEMMA MacroLoads ==
  ASSUME Steady, NEW base \in Nat, NEW b \in Byte, Sending(base, b),
         Holds(Code, base, FDC_COMMAND(b))
  PROVE  OutputsWhatItLoaded
<1>1. b \in Nat
  BY DEF Byte
<1>2. /\ Code[base + 1] = LoadsDX(1012)
      /\ Code[base + 2] = Does("IN")
      /\ Code[base + 3] = LoadsDX(1013)
      /\ Code[base + 4] = LoadsAX(b)
      /\ Code[base + 5] = Does("OUT")
  BY <1>1, CommandText
<1>3. at.i \in base + 1 .. base + 5 /\ at.i \in Nat
  BY DEF Sending, Steady, Positions
<1>4. CASE at.i \in base + 1 .. base + 4
  <2>1. /\ base + 1 \notin Outs /\ base + 3 \notin Outs /\ base + 4 \notin Outs
    BY <1>2, LoadsDXAt, LoadsAXAt
  <2>2. base + 2 \notin Outs
    <3>1. base + 2 \in Nat
      OBVIOUS
    <3>2. Code[base + 2] = Does("IN")
      BY <1>2
    <3> QED
      BY <3>1, <3>2, PlainAt, PlainOnes, Zenon
  <2>3. at.i \in {base + 1, base + 2, base + 3, base + 4}
    BY <1>4
  <2>4. at.i \notin Outs
    BY <2>1, <2>2, <2>3
  <2> QED
    BY <2>4, NoOutput
<1>5. CASE at.i = base + 5
  <2>1. DX = 1013 /\ AL = b
    BY <1>3, <1>5 DEF Sending
  <2>2. base + 3 \in 1 .. at.i - 1 /\ base + 4 \in 1 .. at.i - 1
    BY <1>5
  <2>3. \A k \in (base + 3) + 1 .. at.i - 1 : k = base + 4
    BY <1>5
  <2>4. \A k \in (base + 4) + 1 .. at.i - 1 : FALSE
    BY <1>5
  <2>5. base + 4 \notin DXLoads
    BY <1>2, LoadsAXAt
  <2> QED
    BY <1>2, <2>1, <2>2, <2>3, <2>4, <2>5, RegistersLoaded
<1> QED
  BY <1>3, <1>4, <1>5

\* At the OUTs of the initialisation they do.
LEMMA BootOutputs ==
  ASSUME Steady, Booting
  PROVE  OutputsWhatItLoaded
<1>1. BiosText(Code, target)
  BY TextRead DEF Steady, Booting, Code
<1>2. /\ Code[1] = Does("XCHG")
      /\ Code[2] = LoadsDX(32) /\ Code[3] = LoadsAX(19) /\ Code[4] = Does("OUT")
      /\ Code[5] = LoadsDX(33) /\ Code[6] = LoadsAX(176) /\ Code[7] = Does("OUT")
      /\ Code[8] = LoadsAX(1) /\ Code[9] = Does("OUT")
      /\ Code[10] = Does("STI")
      /\ Code[11] = LoadsDX(1010) /\ Code[12] = LoadsAX(16) /\ Code[13] = Does("OUT")
  BY <1>1 DEF BiosText
<1>3. 19 \in Byte /\ 176 \in Byte /\ 1 \in Byte /\ 16 \in Byte
  BY DEF Byte
<1>4. CASE at.i = 4
  <2>1. DX = 32 /\ AL = 19
    BY <1>4 DEF Booting
  <2>2. 2 \in 1 .. at.i - 1 /\ 3 \in 1 .. at.i - 1
    BY <1>4
  <2>3. (\A k \in 2 + 1 .. at.i - 1 : k = 3) /\ (\A k \in 3 + 1 .. at.i - 1 : FALSE)
    BY <1>4
  <2>4. 3 \notin DXLoads
    BY <1>2, LoadsAXAt
  <2> QED
    BY <1>2, <1>3, <2>1, <2>2, <2>3, <2>4, RegistersLoaded
<1>5. CASE at.i = 7
  <2>1. DX = 33 /\ AL = 176
    BY <1>5 DEF Booting
  <2>2. 5 \in 1 .. at.i - 1 /\ 6 \in 1 .. at.i - 1
    BY <1>5
  <2>3. (\A k \in 5 + 1 .. at.i - 1 : k = 6) /\ (\A k \in 6 + 1 .. at.i - 1 : FALSE)
    BY <1>5
  <2>4. 6 \notin DXLoads
    BY <1>2, LoadsAXAt
  <2> QED
    BY <1>2, <1>3, <2>1, <2>2, <2>3, <2>4, RegistersLoaded
<1>6. CASE at.i = 9
  <2>1. DX = 33 /\ AL = 1
    BY <1>6 DEF Booting
  <2>2. 5 \in 1 .. at.i - 1 /\ 8 \in 1 .. at.i - 1
    BY <1>6
  <2>3. (\A k \in 5 + 1 .. at.i - 1 : k \in {6, 7, 8}) /\ (\A k \in 8 + 1 .. at.i - 1 : FALSE)
    BY <1>6
  <2>4. \A k \in {6, 7, 8} : k \notin DXLoads
    <3>1. 6 \notin DXLoads /\ 8 \notin DXLoads
      BY <1>2, LoadsAXAt
    <3>2. 7 \in Nat /\ Code[7] = Does("OUT")
      BY <1>2
    <3>3. 7 \notin DXLoads
      BY <3>2, OutAt, Zenon
    <3> QED
      BY <3>1, <3>3
  <2> QED
    BY <1>2, <1>3, <2>1, <2>2, <2>3, <2>4, RegistersLoaded
<1>7. CASE at.i = 13
  <2>1. DX = 1010 /\ AL = 16
    BY <1>7 DEF Booting
  <2>2. 11 \in 1 .. at.i - 1 /\ 12 \in 1 .. at.i - 1
    BY <1>7
  <2>3. (\A k \in 11 + 1 .. at.i - 1 : k = 12) /\ (\A k \in 12 + 1 .. at.i - 1 : FALSE)
    BY <1>7
  <2>4. 12 \notin DXLoads
    BY <1>2, LoadsAXAt
  <2> QED
    BY <1>2, <1>3, <2>1, <2>2, <2>3, <2>4, RegistersLoaded
<1>8. CASE at.i \in {1, 2, 3, 5, 6, 8, 10, 11, 12}
  <2>1. \A k \in {2, 3, 5, 6, 8, 11, 12} : k \notin Outs
    BY <1>2, LoadsDXAt, LoadsAXAt
  <2>2. 1 \in Nat /\ 10 \in Nat
    OBVIOUS
  <2>3. 1 \notin Outs /\ 10 \notin Outs
    <3>1. Code[1] = Does("XCHG") /\ Code[10] = Does("STI")
      BY <1>2
    <3>2. 1 \notin Outs
      BY <2>2, <3>1, PlainAt, PlainOnes, Zenon
    <3>3. 10 \notin Outs
      BY <2>2, <3>1, PlainAt, PlainOnes, Zenon
    <3> QED
      BY <3>2, <3>3
  <2>4. at.i \notin Outs
    BY <1>8, <2>1, <2>3
  <2> QED
    BY <2>4, NoOutput
<1>9. at.i \in 1 .. 13
  BY DEF Booting
<1> QED
  BY <1>4, <1>5, <1>6, <1>7, <1>8, <1>9

\* At the OUTs of SPECIFY and SEEK they do.
LEMMA ConfiguringOutputs ==
  ASSUME Steady, Configuring
  PROVE  OutputsWhatItLoaded
<1>1. Code = Text[target]["bios"] /\ BiosText(Code, target)
  BY TextRead DEF Steady, Configuring, Code
<1>2. /\ Holds(Code, 13, FDC_COMMAND(3)) /\ Holds(Code, 18, FDC_COMMAND(191))
      /\ Holds(Code, 23, FDC_COMMAND(2)) /\ Holds(Code, 28, FDC_COMMAND(15))
      /\ Holds(Code, 33, FDC_COMMAND(0)) /\ Holds(Code, 38, FDC_COMMAND(target))
  BY <1>1 DEF BiosText
<1>3. /\ 3 \in Byte /\ 191 \in Byte /\ 2 \in Byte /\ 15 \in Byte /\ 0 \in Byte
      /\ target \in Byte
  BY TargetsAreBytes DEF Steady, Byte
<1>4. \/ Sending(13, 3) \/ Sending(18, 191) \/ Sending(23, 2)
      \/ Sending(28, 15) \/ Sending(33, 0) \/ Sending(38, target)
  BY Zenon DEF Configuring, WordToSend
<1>5. ASSUME NEW base \in Nat, NEW b \in Byte, Sending(base, b), Holds(Code, base, FDC_COMMAND(b))
      PROVE  OutputsWhatItLoaded
  BY <1>5, MacroLoads
<1>6. \A base \in Nat : \A b \in Byte :
        Sending(base, b) /\ Holds(Code, base, FDC_COMMAND(b)) => OutputsWhatItLoaded
  BY <1>5
<1>7. 13 \in Nat /\ 18 \in Nat /\ 23 \in Nat /\ 28 \in Nat /\ 33 \in Nat /\ 38 \in Nat
  OBVIOUS
<1> QED
  BY <1>2, <1>3, <1>4, <1>6, <1>7, Zenon

\* At those of the handler they do.
LEMMA HandlerOutputs ==
  ASSUME Steady, InHandler,
         Sending(0, 8) \/ Fetching(5) \/ Fetching(9) \/ Dismissing \/ at.i = 17
  PROVE  OutputsWhatItLoaded
<1>1. HandlerText(Code)
  BY HandlerRuns
<1>2. CASE Sending(0, 8)
  BY <1>1, <1>2, MacroLoads DEF HandlerText, Byte
<1>3. ASSUME NEW base \in Nat, Fetching(base), Holds(Code, base, FDC_RESULT)
      PROVE  OutputsWhatItLoaded
  <2>1. /\ Code[base + 1] = LoadsDX(1012)
        /\ Code[base + 2] = Does("IN")
        /\ Code[base + 3] = LoadsDX(1013)
        /\ Code[base + 4] = Does("IN")
    BY <1>3, ResultText
  <2>2. at.i \in {base + 1, base + 2, base + 3, base + 4}
    BY <1>3 DEF Fetching
  <2>3. base + 1 \notin Outs /\ base + 3 \notin Outs
    BY <2>1, LoadsDXAt
  <2>4. base + 2 \in Nat /\ base + 4 \in Nat
    OBVIOUS
  <2>5. base + 2 \notin Outs /\ base + 4 \notin Outs
    <3>1. Code[base + 2] = Does("IN") /\ Code[base + 4] = Does("IN")
      BY <2>1
    <3>2. base + 2 \notin Outs
      BY <2>4, <3>1, PlainAt, PlainOnes, Zenon
    <3>3. base + 4 \notin Outs
      BY <2>4, <3>1, PlainAt, PlainOnes, Zenon
    <3> QED
      BY <3>2, <3>3
  <2>6. at.i \notin Outs
    BY <2>2, <2>3, <2>5
  <2> QED
    BY <2>6, NoOutput
<1>4. CASE Fetching(5)
  BY <1>1, <1>3, <1>4 DEF HandlerText
<1>5. CASE Fetching(9)
  BY <1>1, <1>3, <1>5 DEF HandlerText
<1>6. CASE Dismissing
  <2>1. /\ Code[14] = LoadsAX(32) /\ Code[15] = LoadsDX(32) /\ Code[16] = Does("OUT")
        /\ at.i \in 14 .. 16
    BY <1>1, <1>6 DEF HandlerText, Dismissing
  <2>2. CASE at.i \in {14, 15}
    <3>1. at.i \notin Outs
      BY <2>1, <2>2, LoadsDXAt, LoadsAXAt
    <3> QED
      BY <3>1, NoOutput
  <2>3. CASE at.i = 16
    <3>1. DX = 32 /\ AL = 32 /\ 32 \in Byte
      BY <1>6, <2>3 DEF Dismissing, Byte
    <3>2. 15 \in 1 .. at.i - 1 /\ 14 \in 1 .. at.i - 1
      BY <2>3
    <3>3. (\A k \in 15 + 1 .. at.i - 1 : FALSE) /\ (\A k \in 14 + 1 .. at.i - 1 : k = 15)
      BY <2>3
    <3>4. 15 \notin AXLoads
      BY <2>1, LoadsDXAt
    <3> QED
      BY <2>1, <3>1, <3>2, <3>3, <3>4, RegistersLoaded
  <2> QED
    BY <2>1, <2>2, <2>3
<1>7. CASE at.i = 17
  <2>1. Code[at.i] = Does("IRET") /\ at.i \in Nat
    BY <1>1, <1>7 DEF HandlerText
  <2>2. at.i \notin Outs
    BY <2>1, PlainAt, PlainOnes, Zenon
  <2> QED
    BY <2>2, NoOutput
<1> QED
  BY <1>2, <1>4, <1>5, <1>6, <1>7

\* Every OUT writes what its macro loaded: no interrupt comes between.
THEOREM OutputsAreRight == MachineSpec => []OutputsWhatItLoaded
<1>1. ASSUME MIInv PROVE OutputsWhatItLoaded
  <2>1. Steady /\ Situation
    BY <1>1 DEF MIInv
  <2>2. CASE Starting
    <3>1. Code[at.i] = Does("JMP FAR")
      BY <2>1, <2>2, TextRead DEF Starting, Steady, Instr, Code
    <3>2. at.i \in Nat
      BY <2>1 DEF Steady, Positions
    <3>3. at.i \notin Outs
      BY <3>1, <3>2, PlainAt, PlainOnes, Zenon
    <3> QED
      BY <2>1, <3>3, NoOutput
  <2>3. CASE InLoop
    <3>1. Code = Text[target]["bios"] /\ BiosText(Text[target]["bios"], target)
          /\ at.i \in {44, 45}
      BY <2>1, <2>3, TextRead DEF InLoop, Steady, Code
    <3>2. Code[at.i] = Does("HLT") \/ Code[at.i] = Does("JMP")
      BY <3>1 DEF BiosText
    <3>3. at.i \in Nat
      BY <3>1
    <3>4. at.i \notin Outs
      BY <3>2, <3>3, PlainAt, PlainOnes, Zenon
    <3> QED
      BY <2>1, <3>4, NoOutput
  <2>4. CASE Handling \/ Leaving
    <3>1. InHandler
      BY <2>4 DEF Handling, Leaving
    <3>2. Sending(0, 8) \/ Fetching(5) \/ Fetching(9) \/ Dismissing \/ at.i = 17
      BY <2>4, Zenon DEF Handling, Leaving
    <3> QED
      BY <2>1, <3>1, <3>2, HandlerOutputs
  <2>5. SeekIsRunning \/ EndIsLatched \/ AtRest => InLoop
    BY DEF SeekIsRunning, EndIsLatched, AtRest
  <2> QED
    BY <2>1, <2>2, <2>3, <2>4, <2>5, BootOutputs, ConfiguringOutputs DEF Situation
<1> QED
  BY <1>1, MachineInvariance, PTL
=============================================================================
