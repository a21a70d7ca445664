----------------------------- MODULE MCProcessor ------------------------------
(***************************************************************************)
(* The processor for TLC: small programs over a few inputs, each with what *)
(* it should compute, while a device requests vector 6.  All start at      *)
(* F000:FFF0, as the machine does, with a far jump (test/jmp.s), and have  *)
(* the handlers of vectors 6 and 7 and a far routine in a segment of their *)
(* own.  What the programs compute is defined by mathematics.              *)
(***************************************************************************)
EXTENDS Processor, SequencesExt

Reg(r) == [kind |-> "reg", reg |-> r]
Imm(n) == [kind |-> "imm", value |-> n]
MemByte(a) == [kind |-> "mem", size |-> 1, address |-> a]
MemWord(a) == [kind |-> "mem", size |-> 2, address |-> a]
Far(segment, offset) == [kind |-> "far", segment |-> segment, offset |-> offset]

I0(op) == [op |-> op]
I1(op, a) == [op |-> op, a |-> a]
I2(op, a, b) == [op |-> op, a |-> a, b |-> b]
Software(vector) == [op |-> "INT", vector |-> vector]
Ret(op, drop) == [op |-> op, drop |-> drop]

MainSegment == 57344
SharedSegment == 53248
Data == 1024

\* Vector 6, entered at 0: saves what it changes, and lets itself be interrupted.
Handler6 == <<I0("STI"), I1("PUSH", Reg("AX")), I2("MOV", Reg("AX"), Imm(65535)),
              I1("INC", Reg("AX")), I2("ADD", Reg("AX"), Imm(7)),
              I1("POP", Reg("AX")), I0("IRET")>>
\* Vector 7, entered at 7: complements BX.
Handler7 == <<I1("NOT", Reg("BX")), I0("STC"), I0("IRET")>>
\* A far routine at 10 with one argument, which it drops: doubles CL by MUL.
FarDouble == <<I1("PUSH", Reg("AX")), I2("MOV", Reg("AL"), Imm(2)), I1("MUL", Reg("CL")),
               I2("XCHG", Reg("CX"), Reg("AX")), I1("POP", Reg("AX")), Ret("RETF", 2)>>

Assembled(main, expects) ==
  [code |-> 61440 :> [org |-> 65520, is |-> <<I1("JMP FAR", Far(MainSegment, 0))>>]
            @@ MainSegment :> [org |-> 0, is |-> main]
            @@ SharedSegment :> [org |-> 0, is |-> Handler6 \o Handler7 \o FarDouble],
   expects |-> expects]

\* HLT is where every program ends; after an interrupt it halts again.
Rest == <<I0("HLT"), I1("JMP", Imm(-2))>>

-----------------------------------------------------------------------------
(* Greatest common divisor, by Euclid, in the halves of AX and BX.         *)

Divides(d, n) == \E k \in 0 .. n : d * k = n
GCD(a, b) == CHOOSE d \in 1 .. a : /\ Divides(d, a) /\ Divides(d, b)
                                   /\ \A e \in d + 1 .. a : ~ (Divides(e, a) /\ Divides(e, b))

Euclid(a, b) ==
  Assembled(<<I0("STI"), I2("MOV", Reg("AL"), Imm(a)), I2("MOV", Reg("BL"), Imm(b)),
              I2("CMP", Reg("BL"), Imm(0)), I1("JZ", Imm(4)),
              I1("DIV", Reg("BL")), I2("MOV", Reg("AL"), Reg("BL")),
              I2("MOV", Reg("BL"), Reg("AH")), I1("JMP", Imm(-6))>> \o Rest,
            [AL |-> GCD(a, b)])

\* Factorial, by recursion, on a stack that wraps around under 0.
Product(n) == FoldLeft(LAMBDA x, y : x * y, 1, [i \in 1 .. n |-> i])

Factorial(n) ==
  Assembled(<<I0("STI"), I2("MOV", Reg("SP"), Imm(3)),
              I2("MOV", Reg("AX"), Imm(1)), I2("MOV", Reg("CX"), Imm(n)),
              I1("CALL", Imm(2))>> \o Rest \o
            <<I2("CMP", Reg("CX"), Imm(0)), I1("JZ", Imm(5)), I1("PUSH", Reg("CX")),
              I1("DEC", Reg("CX")), I1("CALL", Imm(-5)), I1("POP", Reg("CX")),
              I1("MUL", Reg("CX")), Ret("RET", 0)>>,
            [AX |-> Product(n), SP |-> 3])

\* Counts a word of memory down and BX up, and then once more with LOOP.
Countdown(n) ==
  Assembled(<<I2("MOV", MemWord(Data), Imm(n)), I2("MOV", Reg("BP"), Imm(n)), I0("STI"),
              I1("INC", Reg("BX")), I1("DEC", MemWord(Data)), I1("JNZ", Imm(-3)),
              I1("INC", Reg("DL")), I1("LOOP", Imm(-2)),
              I2("MOV", Reg("CX"), MemWord(Data)), I1("JCXZ", Imm(1)),
              I1("INC", Reg("BX"))>> \o Rest,
            [BX |-> n, DL |-> n + 1, CX |-> 0, BP |-> 65535])

\* Exchanges BX and CX over the stack, in registers, in memory and in registers
\* again, the bytes of one on the way, and asks vector 7 to complement one.
Exchange(m, n) ==
  Assembled(<<I0("STI"), I2("MOV", Reg("BX"), Imm(m)), I2("MOV", Reg("CX"), Imm(n)),
              I1("PUSH", Reg("BX")), I1("PUSH", Reg("CX")),
              I1("POP", Reg("BX")), I1("POP", Reg("CX")),
              I2("XCHG", Reg("BX"), Reg("CX")),
              I2("MOV", MemWord(Data), Reg("BX")), I2("XCHG", MemWord(Data), Reg("CX")),
              I2("MOV", Reg("BX"), MemWord(Data)), I2("XCHG", Reg("BX"), Reg("CX")),
              I2("XCHG", Reg("CL"), Reg("CH")), I2("XCHG", Reg("CX"), Reg("BX")),
              Software(7)>> \o Rest,
            [BX |-> 65535 - (256 * (n % 256) + (n \div 256)), CX |-> m])

\* Twice n by a far call with an argument, through a pointer in memory; the carry,
\* set before and by the handlers too, comes back with PUSHF and POPF, and AH gets it.
Twice(n) ==
  Assembled(<<I2("MOV", MemWord(Data), Imm(SharedSegment)),
              I2("MOV", MemWord(Data + 2), Imm(10)), I0("STI"), I2("MOV", Reg("CL"), Imm(n)),
              I0("STC"), I0("PUSHF"), I0("CLC"), I1("PUSH", Reg("CX")),
              I1("CALL FAR", MemWord(Data)), I0("POPF"), I0("LAHF"),
              I0("CLC"), I0("SAHF"), I0("LAHF")>> \o Rest,
            [CX |-> 2 * n, AH |-> 3, SP |-> 255])

\* Compares words less than 256 apart, the first the greater or the same: only then
\* do the signed jumps agree with the order.  SUB stores no difference.
Compare(op, m, n) ==
  Assembled(<<I0("STI"), I2("MOV", Reg("AX"), Imm(m)), I2(op, Reg("AX"), Imm(n)),
              I1("JL", Imm(6)), I1("JNL", Imm(1)), I1("INC", Reg("DH")),
              I1("JLE", Imm(3)), I1("JNLE", Imm(1)), I1("INC", Reg("DH")),
              I1("INC", Reg("DL"))>> \o Rest,
            [AX |-> m, DL |-> IF m > n THEN 1 ELSE 0, DH |-> 0])

\* Looks up the opposite of entry i of a table.
Lookup(i) ==
  Assembled(<<I2("MOV", MemByte(Data + i), Imm(200 + i)), I2("LEA", Reg("BX"), MemWord(Data)),
              I0("STI"), I2("MOV", Reg("AL"), Imm(i)), I0("XLAT"),
              I1("NEG", Reg("AL"))>> \o Rest,
            [AL |-> 56 - i, AH |-> 0])

SmallTexts ==
  {Euclid(p[1], p[2]) : p \in {<<12, 18>>, <<255, 34>>, <<7, 0>>, <<200, 125>>}}
  \cup {Factorial(n) : n \in {0, 1, 4, 6}}
  \cup {Countdown(n) : n \in {1, 3}}
  \cup {Exchange(258, 51966), Twice(100), Twice(200), Lookup(0), Lookup(2)}
  \cup {Compare(p[1], p[2], p[3]) : p \in {<<"CMP", 300, 300>>, <<"CMP", 301, 300>>,
                                           <<"SUB", 300, 300>>, <<"SUB", 255, 0>>}}

-----------------------------------------------------------------------------
(* Memory: the vector table, data, and what the stack covers at the start  *)
(* of its segment and on both sides of the wrap around.                    *)

Table == 24 :> 0 @@ 25 :> 0 @@ 26 :> 0 @@ 27 :> 208
         @@ 28 :> 7 @@ 29 :> 0 @@ 30 :> 0 @@ 31 :> 208

StackBottom == 16 * 3824
Covered == Data .. Data + 3 \cup {StackBottom + o : o \in 215 .. 256}
           \cup {StackBottom + o : o \in 0 .. 4} \cup {StackBottom + o : o \in 65490 .. 65536}

SmallRAMs == {Table @@ [a \in Covered |-> garbage] : garbage \in {0, 255}}
=============================================================================
