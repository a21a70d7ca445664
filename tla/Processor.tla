------------------------------ MODULE Processor -------------------------------
(***************************************************************************)
(* The processor executing a program (src/cpu): the registers and their    *)
(* halves, the flags, the memory with the stack and the vector table in    *)
(* it, and one action per instruction, interrupted between any two by a    *)
(* device.  Widths are those of the program.  An `unsigned int' that a     *)
(* subtraction wraps is a negative integer here, with the same low bits.   *)
(*                                                                         *)
(* Decoding is the work of a library: a program is a text of instructions, *)
(* each one address long, by segment.  The memory operands are the ones    *)
(* the program computes, displacements without base or index               *)
(* (8086.cpp:81).  Programs do not divide by zero, which ends the process. *)
(* Cycles that an instruction waits for afterwards are left out, and so    *)
(* are IN and OUT, which module Machine has, and the non-maskable          *)
(* interrupt, which nothing requests.                                      *)
(***************************************************************************)
EXTENDS Bits, Sequences, FiniteSets

CONSTANTS
  Texts,        \* the programs: their code by segment, and the registers that
                \* are expected when they are over
  Vectors,      \* the vectors a device may request
  MaxRequests,  \* bound on the number of requests
  RAMs,         \* what memory may hold at first: the table, data, garbage
  Drops         \* how many bytes of arguments returns may drop

Word == 0 .. 65535

ASSUME ProcessorAssumption ==
  /\ Vectors \subseteq Byte
  /\ MaxRequests \in Nat
  /\ 0 \in Drops /\ Drops \subseteq Word

\* Mutant: registers are wider than words.
TruncNever(n) == n

\* What a register of 16 bits keeps.
Trunc(n) == n % 65536

VARIABLES
  text,         \* the program that runs, one of Texts
  regs, flags, ip, memory, hlt,
  intr, intr_v, \* the latch of requests
  checking,     \* an instruction was executed: the check of the latch is next
  requests,     \* number of requests made
  frames        \* for the properties alone: the routines entered, with what was
                \* left behind when they were

vars == <<text, regs, flags, ip, memory, hlt, intr, intr_v, checking, requests, frames>>

WordRegisters ==
  {"AX", "BX", "CX", "DX", "SI", "DI", "BP", "SP", "CS", "DS", "ES", "SS"}
LowHalf  == [AL |-> "AX", BL |-> "BX", CL |-> "CX", DL |-> "DX"]
HighHalf == [AH |-> "AX", BH |-> "BX", CH |-> "CX", DH |-> "DX"]

\* Flags by their bits in the word; the constructor sets bit 1 and no other.
CARRY   == 0
PARRITY == 2
A_CARRY == 4
ZERRO   == 6
SIGN    == 7
INTF    == 9
DIR     == 10
OVER    == 11

Init ==
  /\ text \in Texts
  /\ regs = [r \in WordRegisters |-> CASE r = "CS" -> 61440
                                       [] r = "SS" -> 3824
                                       [] r = "SP" -> 255
                                       [] OTHER    -> 0]
  /\ flags = {1} /\ ip = 65520
  /\ memory \in RAMs
  /\ hlt = FALSE /\ intr = FALSE /\ intr_v = 0 /\ checking = FALSE
  /\ requests = 0 /\ frames = <<>>

-----------------------------------------------------------------------------
(* Registers, memory, operands.                                            *)

ReadReg(r) == IF r \in DOMAIN LowHalf THEN regs[LowHalf[r]] % 256
              ELSE IF r \in DOMAIN HighHalf THEN regs[HighHalf[r]] \div 256
              ELSE regs[r]

\* What register r holds in the file f becomes the low bits of n.
WriteReg(f, r, n) ==
  IF r \in DOMAIN LowHalf
  THEN [f EXCEPT ![LowHalf[r]] = (n % 256) + 256 * (@ \div 256)]
  ELSE IF r \in DOMAIN HighHalf
  THEN [f EXCEPT ![HighHalf[r]] = (@ % 256) + 256 * (n % 256)]
  ELSE [f EXCEPT ![r] = Trunc(n)]

WordAt(m, a) == m[a] + 256 * m[a + 1]
ReadWord(a) == WordAt(memory, a)

WriteByte(m, a, n) == [m EXCEPT ![a] = n % 256]

WriteWord(m, a, n) == [m EXCEPT ![a] = n % 256, ![a + 1] = (n \div 256) % 256]

\* Operands are registers, immediates, and bytes (size 1) or words (2) of memory.
IsByte(o) == CASE o.kind = "reg" -> o.reg \notin WordRegisters
               [] o.kind = "mem" -> o.size = 1
               [] OTHER          -> FALSE

Load(o, byte) == CASE o.kind = "reg" -> ReadReg(o.reg)
                   [] o.kind = "imm" -> o.value
                   [] o.kind = "mem" -> IF byte THEN memory[o.address]
                                        ELSE ReadWord(o.address)

Store(o, byte, n) ==
  /\ regs' = IF o.kind = "reg" THEN WriteReg(regs, o.reg, n) ELSE regs
  /\ memory' = CASE o.kind # "mem" -> memory
                 [] o.kind = "mem" /\ byte   -> WriteByte(memory, o.address, n)
                 [] o.kind = "mem" /\ ~ byte -> WriteWord(memory, o.address, n)

-----------------------------------------------------------------------------
(* The flags.                                                              *)

Weight(f, i) == IF i \in f THEN 2^i ELSE 0
FlagsWord(f) ==
  (Weight(f, 0) + Weight(f, 1) + Weight(f, 2) + Weight(f, 3)
   + Weight(f, 4) + Weight(f, 5) + Weight(f, 6) + Weight(f, 7))
  + (Weight(f, 8) + Weight(f, 9) + Weight(f, 10) + Weight(f, 11)
     + Weight(f, 12) + Weight(f, 13) + Weight(f, 14) + Weight(f, 15))
FlagsOf(n) == {i \in 0 .. 15 : Bit(n, i)}

StatusFlags == {CARRY, PARRITY, A_CARRY, ZERRO, SIGN, OVER}
LowFlags == {CARRY, PARRITY, A_CARRY, ZERRO, SIGN}

\* The flags after an operation whose whole result is `value'.  Both sizes count as
\* bytes, for the size is passed as a bool (8086.cpp:231); parity is odd and the sign
\* that of the word.
UpdateStatusFlags(f, value) ==
  LET beyond == value < 0 \/ value > 255
      ones   == {i \in 0 .. 7 : Bit(value % 256, i)}
      set    == {i \in StatusFlags :
                   CASE i \in {CARRY, OVER} -> beyond
                     [] i = PARRITY -> Cardinality(ones) % 2 = 1
                     [] i = A_CARRY -> value \in -7 .. -1
                     [] i = ZERRO   -> value = 0
                     [] i = SIGN    -> Bit(Trunc(value), 15)}
  IN  (f \ StatusFlags) \cup set

-----------------------------------------------------------------------------
(* Instructions that go on with the next one.                              *)

Instr == LET segment == text.code[regs.CS] IN segment.is[ip - segment.org + 1]
Follows == Trunc(ip + 1)

Executes(ops) ==
  /\ ~ checking /\ ~ hlt /\ Instr.op \in ops
  /\ checking' = TRUE
  /\ UNCHANGED <<text, intr, requests>>

Straight(ops) ==
  /\ Executes(ops)
  /\ ip' = Follows
  /\ UNCHANGED <<intr_v, frames>>

\* Memory is read as a word, whatever the size of the destination.
MOV == /\ Straight({"MOV"})
       /\ Store(Instr.a, IsByte(Instr.a), Load(Instr.b, FALSE))
       /\ UNCHANGED <<flags, hlt>>

\* The second operand is a register; a byte in memory is exchanged as a word.
XCHG ==
  /\ Straight({"XCHG"})
  /\ LET one == Load(Instr.a, FALSE)
         two == ReadReg(Instr.b.reg)
         got == WriteReg(regs, Instr.b.reg, one)
     IN  IF Instr.a.kind = "reg"
         THEN regs' = WriteReg(got, Instr.a.reg, two) /\ memory' = memory
         ELSE /\ regs' = got
              /\ memory' = IF IsByte(Instr.a) THEN WriteByte(memory, Instr.a.address, two)
                           ELSE WriteWord(memory, Instr.a.address, two)
  /\ UNCHANGED <<flags, hlt>>

XLAT == /\ Straight({"XLAT"})
        /\ regs' = WriteReg(regs, "AL",
                            memory[16 * regs.DS + Trunc(regs.BX + ReadReg("AL"))])
        /\ UNCHANGED <<memory, flags, hlt>>

\* The address is the linear one.
LEA == /\ Straight({"LEA"})
       /\ regs' = WriteReg(regs, Instr.a.reg, Instr.b.address)
       /\ UNCHANGED <<memory, flags, hlt>>

NOT == /\ Straight({"NOT"})
       /\ Store(Instr.a, IsByte(Instr.a), 65535 - Load(Instr.a, IsByte(Instr.a)))
       /\ UNCHANGED <<flags, hlt>>

LAHF == /\ Straight({"LAHF"})
        /\ regs' = WriteReg(regs, "AH", FlagsWord((flags \cap LowFlags) \cup {1}))
        /\ UNCHANGED <<memory, flags, hlt>>

\* Flags are set, and none is cleared.
SAHF == /\ Straight({"SAHF"})
        /\ flags' = flags \cup (FlagsOf(ReadReg("AH")) \cap LowFlags)
        /\ UNCHANGED <<regs, memory, hlt>>

FlagOf == [CLC |-> CARRY, CLD |-> DIR, CLI |-> INTF, STC |-> CARRY, STD |-> DIR, STI |-> INTF]

ChangeFlag == /\ Straight(DOMAIN FlagOf)
              /\ flags' = IF Instr.op \in {"CLC", "CLD", "CLI"}
                          THEN flags \ {FlagOf[Instr.op]}
                          ELSE flags \cup {FlagOf[Instr.op]}
              /\ UNCHANGED <<regs, memory, hlt>>

HLT == /\ Straight({"HLT"})
       /\ hlt' = TRUE
       /\ UNCHANGED <<regs, memory, flags>>

-----------------------------------------------------------------------------
(* Arithmetic.                                                             *)

\* Sums and differences set the flags; they store what the operand held
\* (instructions_arithmetic.cpp:19, 104).  Their operands are registers and
\* immediates: the size of one in memory follows from the numbers that XED gives
\* the forms of the instruction.
ADD == /\ Straight({"ADD"})
       /\ flags' = UpdateStatusFlags(flags, Load(Instr.a, FALSE) + Load(Instr.b, FALSE))
       /\ UNCHANGED <<regs, memory, hlt>>

Difference == Load(Instr.a, IsByte(Instr.a)) - Load(Instr.b, IsByte(Instr.a))

CMP == /\ Straight({"CMP"})
       /\ flags' = UpdateStatusFlags(flags, Difference)
       /\ UNCHANGED <<regs, memory, hlt>>

SUB == /\ Straight({"SUB"})
       /\ flags' = UpdateStatusFlags(flags, Difference)
       /\ UNCHANGED <<regs, memory, hlt>>

INC == /\ Straight({"INC"})
       /\ LET n == Load(Instr.a, IsByte(Instr.a)) + 1
          IN  Store(Instr.a, IsByte(Instr.a), n) /\ flags' = UpdateStatusFlags(flags, n)
       /\ UNCHANGED hlt

\* Mutant: DEC sets the flags by what the operand held before.
DECFlagsBefore ==
  /\ Straight({"DEC"})
  /\ LET n == Load(Instr.a, TRUE)
     IN  Store(Instr.a, TRUE, n - 1) /\ flags' = UpdateStatusFlags(flags, n)
  /\ UNCHANGED hlt

\* In memory always a byte: one of the conditions is an enumerator and not a
\* comparison (instructions_arithmetic.cpp:128).
DEC == /\ Straight({"DEC"})
       /\ LET n == Load(Instr.a, TRUE) - 1
          IN  Store(Instr.a, TRUE, n) /\ flags' = UpdateStatusFlags(flags, n)
       /\ UNCHANGED hlt

\* The product with -1 is not zero beyond 32 bits unless the operand is zero.
NEG == /\ Straight({"NEG"})
       /\ LET n == - Load(Instr.a, IsByte(Instr.a))
          IN  Store(Instr.a, IsByte(Instr.a), n) /\ flags' = UpdateStatusFlags(flags, n)
       /\ UNCHANGED hlt

UpperWord(n) == n \div 65536

\* IMUL takes its operands for unsigned too.  Products are below 2^31.
MUL ==
  /\ Straight({"MUL", "IMUL"})
  /\ LET byte   == IsByte(Instr.a)
         n      == Load(Instr.a, byte) * ReadReg(IF byte THEN "AL" ELSE "AX")
         upper  == IF byte THEN n \div 256 ELSE UpperWord(n)
     IN  /\ regs' = [regs EXCEPT !.AX = Trunc(n), !.DX = IF byte THEN @ ELSE upper]
         /\ flags' = IF upper = 0 THEN flags \ {CARRY, OVER} ELSE flags \cup {CARRY, OVER}
  /\ UNCHANGED <<memory, hlt>>

\* The dividend is as wide as the divisor.
DIV ==
  /\ Straight({"DIV", "IDIV"})
  /\ LET byte == IsByte(Instr.a)
         n    == ReadReg(IF byte THEN "AL" ELSE "AX")
         d    == Load(Instr.a, byte)
         quotient == WriteReg(regs, IF byte THEN "AL" ELSE "AX", n \div d)
     IN  regs' = WriteReg(quotient, IF byte THEN "AH" ELSE "DX", n % d)
  /\ UNCHANGED <<memory, flags, hlt>>

-----------------------------------------------------------------------------
(* The stack.                                                              *)

StackAddress(sp) == 16 * regs.SS + sp

\* Pushing a word on a stack, whose pointer wraps around.
Stack == [sp |-> regs.SP, memory |-> memory]
Pushed(stack, word) ==
  LET sp == Trunc(stack.sp - 2)
  IN  [sp |-> sp, memory |-> WriteWord(stack.memory, StackAddress(sp), word)]

\* The word under n others.
Top(n) == ReadWord(StackAddress(Trunc(regs.SP + 2 * n)))

\* The stack becomes this one, and the other registers those of f.
PutStack(stack, f) == memory' = stack.memory /\ regs' = [f EXCEPT !.SP = stack.sp]

PUSH == /\ Straight({"PUSH"})
        /\ PutStack(Pushed(Stack, Load(Instr.a, FALSE)), regs)
        /\ UNCHANGED <<flags, hlt>>

\* The stack pointer that is popped ends up two beyond.
POP == /\ Straight({"POP"})
       /\ regs' = IF Instr.a.reg = "SP" THEN [regs EXCEPT !.SP = Trunc(Top(0) + 2)]
                  ELSE WriteReg([regs EXCEPT !.SP = Trunc(@ + 2)], Instr.a.reg, Top(0))
       /\ UNCHANGED <<memory, flags, hlt>>

PUSHF == /\ Straight({"PUSHF"})
         /\ PutStack(Pushed(Stack, FlagsWord(flags)), regs)
         /\ UNCHANGED <<flags, hlt>>

POPF == /\ Straight({"POPF"})
        /\ flags' = FlagsOf(Top(0))
        /\ regs' = [regs EXCEPT !.SP = Trunc(@ + 2)]
        /\ UNCHANGED <<memory, hlt>>

-----------------------------------------------------------------------------
(* Control transfer.                                                       *)

\* What the routine entered leaves behind.
Left(kind, resumed) ==
  <<[kind |-> kind, cs |-> regs.CS, ip |-> resumed, sp |-> regs.SP, flags |-> flags]>>
  \o frames

\* The target of a near transfer, a displacement counted from the next instruction
\* unless it is an operand.
Target == IF Instr.a.kind = "imm" THEN Trunc(Follows + Instr.a.value)
          ELSE Load(Instr.a, FALSE)

\* A pointer in memory has the segment first (instructions_control_transfer.cpp:40).
FarTarget == IF Instr.a.kind = "mem"
             THEN [segment |-> ReadWord(Instr.a.address),
                   offset  |-> ReadWord(Instr.a.address + 2)]
             ELSE [segment |-> Instr.a.segment, offset |-> Instr.a.offset]

Condition ==
  LET zero == ZERRO \in flags
      less == (SIGN \in flags) # (OVER \in flags)
  IN  CASE Instr.op = "JZ"   -> zero
        [] Instr.op = "JNZ"  -> ~ zero
        [] Instr.op = "JL"   -> less
        [] Instr.op = "JNL"  -> ~ less
        [] Instr.op = "JLE"  -> zero \/ less
        [] Instr.op = "JNLE" -> ~ (zero \/ less)
        [] Instr.op = "JCXZ" -> regs.CX = 0

ConditionalJump ==
  /\ Executes({"JZ", "JNZ", "JL", "JNL", "JLE", "JNLE", "JCXZ"})
  /\ ip' = IF Condition THEN Target ELSE Follows
  /\ UNCHANGED <<regs, flags, memory, hlt, intr_v, frames>>

\* Counts in BP, which is what m_regs[CX] is, and tests before it counts
\* (instructions_control_transfer.cpp:143).
LOOP ==
  /\ Executes({"LOOP"})
  /\ ip' = IF regs.BP # 0 THEN Target ELSE Follows
  /\ regs' = [regs EXCEPT !.BP = Trunc(@ - 1)]
  /\ UNCHANGED <<flags, memory, hlt, intr_v, frames>>

NEAR_JMP == /\ Executes({"JMP"})
            /\ ip' = Target
            /\ UNCHANGED <<regs, flags, memory, hlt, intr_v, frames>>

FAR_JMP == /\ Executes({"JMP FAR"})
           /\ regs' = [regs EXCEPT !.CS = FarTarget.segment]
           /\ ip' = FarTarget.offset
           /\ UNCHANGED <<flags, memory, hlt, intr_v, frames>>

\* A near call looks at its operand after it has pushed: the stack pointer is the new
\* one, and the operand may be in the word pushed.
CallTarget(stack) ==
  CASE Instr.a.kind = "mem" -> WordAt(stack.memory, Instr.a.address)
    [] Instr.a.kind = "reg" /\ Instr.a.reg = "SP" -> stack.sp
    [] OTHER -> Target

\* Mutant: the return address is that of the call.
NEAR_CALLToItself ==
  /\ Executes({"CALL"})
  /\ PutStack(Pushed(Stack, ip), regs) /\ ip' = CallTarget(Pushed(Stack, ip))
  /\ frames' = Left("near", Follows)
  /\ UNCHANGED <<flags, hlt, intr_v>>

NEAR_CALL == /\ Executes({"CALL"})
             /\ PutStack(Pushed(Stack, Follows), regs)
             /\ ip' = CallTarget(Pushed(Stack, Follows))
             /\ frames' = Left("near", Follows)
             /\ UNCHANGED <<flags, hlt, intr_v>>

FAR_CALL == /\ Executes({"CALL FAR"})
            /\ PutStack(Pushed(Pushed(Stack, regs.CS), Follows),
                        [regs EXCEPT !.CS = FarTarget.segment])
            /\ ip' = FarTarget.offset
            /\ frames' = Left("far", Follows)
            /\ UNCHANGED <<flags, hlt, intr_v>>

\* The routine returned from is over.
Returned == IF frames = <<>> THEN <<>> ELSE Tail(frames)

\* Mutant: a near return pops as many words as a far one.
NEAR_RETPopsTwo ==
  /\ Executes({"RET"})
  /\ ip' = Top(0)
  /\ regs' = [regs EXCEPT !.SP = Trunc(@ + 4 + Instr.drop)]
  /\ frames' = Returned
  /\ UNCHANGED <<flags, memory, hlt, intr_v>>

\* With an operand a return drops that many bytes of arguments.
NEAR_RET == /\ Executes({"RET"})
            /\ ip' = Top(0)
            /\ regs' = [regs EXCEPT !.SP = Trunc(@ + 2 + Instr.drop)]
            /\ frames' = Returned
            /\ UNCHANGED <<flags, memory, hlt, intr_v>>

FAR_RET == /\ Executes({"RETF"})
           /\ ip' = Top(0)
           /\ regs' = [regs EXCEPT !.CS = Top(1), !.SP = Trunc(@ + 4 + Instr.drop)]
           /\ frames' = Returned
           /\ UNCHANGED <<flags, memory, hlt, intr_v>>

\* Mutant: the flags are left as the handler has them.
IRETKeepsFlags ==
  /\ Executes({"IRET"})
  /\ ip' = Top(0) /\ flags' = flags
  /\ regs' = [regs EXCEPT !.CS = Top(1), !.SP = Trunc(@ + 6)]
  /\ frames' = Returned
  /\ UNCHANGED <<memory, hlt, intr_v>>

IRET == /\ Executes({"IRET"})
        /\ ip' = Top(0) /\ flags' = FlagsOf(Top(2))
        /\ regs' = [regs EXCEPT !.CS = Top(1), !.SP = Trunc(@ + 6)]
        /\ frames' = Returned
        /\ UNCHANGED <<memory, hlt, intr_v>>

-----------------------------------------------------------------------------
(* Interrupts.                                                             *)

\* The vector is read after the flags are pushed and before the address to return to
\* is: the arguments of `far_call' come first (8086.cpp:139-141).
Interrupt(kind, vector, resumed) ==
  LET withFlags == Pushed(Stack, FlagsWord(flags))
      segment   == WordAt(withFlags.memory, 4 * vector + 2)
  IN  /\ PutStack(Pushed(Pushed(withFlags, regs.CS), resumed), [regs EXCEPT !.CS = segment])
      /\ ip' = WordAt(withFlags.memory, 4 * vector)
      /\ flags' = flags \ {INTF} /\ hlt' = FALSE
      /\ frames' = Left(kind, resumed)

\* Through the register of the hardware requests.
INT == /\ Executes({"INT"})
       /\ intr_v' = Instr.vector
       /\ Interrupt("INT", Instr.vector, Follows)

\* A processor that halted checks the latch and executes nothing.
Checks == (checking \/ (hlt /\ intr)) /\ checking' = FALSE /\ intr' = FALSE

Serve == /\ Checks /\ intr /\ INTF \in flags
         /\ Interrupt("hardware", intr_v, ip)
         /\ UNCHANGED <<text, intr_v, requests>>

\* Nothing is latched, or it is dropped with interrupts disabled.
PassOn == /\ Checks /\ ~ (intr /\ INTF \in flags)
          /\ UNCHANGED <<text, regs, flags, ip, memory, hlt, intr_v, requests, frames>>

\* A request comes between two clocks of the processor.
DeviceRequest ==
  /\ ~ checking /\ requests < MaxRequests
  /\ intr' = TRUE /\ intr_v' \in Vectors
  /\ requests' = requests + 1
  /\ UNCHANGED <<text, regs, flags, ip, memory, hlt, checking, frames>>

-----------------------------------------------------------------------------
DataTransfer == \/ MOV \/ XCHG \/ XLAT \/ LEA \/ LAHF \/ SAHF
                \/ PUSH \/ POP \/ PUSHF \/ POPF
Arithmetic == ADD \/ SUB \/ CMP \/ INC \/ DEC \/ NEG \/ MUL \/ DIV \/ NOT
ControlTransfer == \/ NEAR_CALL \/ FAR_CALL \/ NEAR_RET \/ FAR_RET \/ INT \/ IRET
                   \/ NEAR_JMP \/ FAR_JMP \/ ConditionalJump \/ LOOP
ProcessorControl == ChangeFlag \/ HLT

Clock == \/ DataTransfer \/ Arithmetic \/ ControlTransfer \/ ProcessorControl
         \/ Serve \/ PassOn

Next == Clock \/ DeviceRequest

\* Arch::startSimulation clocks the processor for ever; devices need not ask.
Spec == Init /\ [][Next]_vars /\ WF_vars(Clock)

-----------------------------------------------------------------------------
(* Properties.                                                             *)

\* Registers and memory hold words and bytes, though every operation computes with
\* wider or negative numbers.
TypeOK ==
  /\ regs \in [WordRegisters -> Word] /\ ip \in Word
  /\ flags \subseteq 0 .. 15
  /\ \A a \in DOMAIN memory : memory[a] \in Byte
  /\ hlt \in BOOLEAN /\ intr \in BOOLEAN /\ intr_v \in Byte /\ checking \in BOOLEAN
  /\ requests \in 0 .. MaxRequests

LastAddress == 16 * 65535 + 65535

Registers  == [kind : {"reg"}, reg : WordRegisters \cup DOMAIN LowHalf \cup DOMAIN HighHalf]
Memories   == [kind : {"mem"}, size : {1, 2}, address : 0 .. LastAddress]
Immediates == [kind : {"imm"}, value : Int]
Pointers   == [kind : {"far"}, segment : Word, offset : Word]
Places     == Registers \cup Memories
Values     == Places \cup Immediates

\* What is executed has operands of the kinds its instruction takes.
Decodes ==
  LET Takes(ops, operands) == Instr.op \in ops => Instr.a \in operands
  IN  ~ checking /\ ~ hlt =>
        /\ Takes({"MOV", "XCHG", "NOT", "INC", "DEC", "NEG", "MUL", "IMUL", "DIV", "IDIV"},
                 Places)
        /\ Takes({"LEA", "POP"}, Registers)
        /\ Takes({"PUSH", "JMP", "CALL"}, Values)
        /\ Takes({"JZ", "JNZ", "JL", "JNL", "JLE", "JNLE", "JCXZ", "LOOP"}, Immediates)
        /\ Takes({"JMP FAR", "CALL FAR"}, Pointers \cup Memories)
        /\ Instr.op = "MOV"  => Instr.b \in Values
        /\ Instr.op = "XCHG" => Instr.b \in Registers
        /\ Instr.op = "LEA"  => Instr.b \in Memories
        /\ Instr.op \in {"RET", "RETF"} => Instr.drop \in Drops
        /\ Instr.op = "INT"  => Instr.vector \in Byte
        /\ Instr.op \in {"DIV", "IDIV"} => Load(Instr.a, IsByte(Instr.a)) # 0

\* The operands that the instruction stores to.
Destinations ==
  CASE Instr.op \in {"MOV", "LEA", "NOT", "INC", "DEC", "NEG", "POP"} -> {Instr.a}
    [] Instr.op = "XCHG" -> {Instr.a, Instr.b}
    [] OTHER -> {}

\* The bytes that entering a routine puts on the stack, and where those of the open
\* routines are.
SavedSize(kind) == CASE kind = "near" -> 2
                     [] kind = "far"  -> 4
                     [] OTHER         -> 6
SavedAddresses ==
  UNION {{StackAddress(Trunc(frames[i].sp - k)) + j :
            k \in {2, 4, 6} \cap 0 .. SavedSize(frames[i].kind), j \in {0, 1}} :
         i \in DOMAIN frames}

\* How far a stack pointer is below where the outermost routine was entered.
Depth(sp) == Trunc(frames[Len(frames)].sp - sp)

Routine == [RET |-> {"near"}, RETF |-> {"far"}, IRET |-> {"INT", "hardware"}]

\* How deep the innermost routine began.
Entered == Depth(frames[1].sp) + SavedSize(frames[1].kind)

\* Its stack pointer stays below that, and never so low that an interrupt would wrap
\* around onto what other routines left there.
StaysBelow == Depth(regs.SP) \in Entered .. 65528

\* It stays in its stack segment and writes over no return address.
SparesFrames ==
  \A o \in Destinations :
    /\ o.kind = "reg" => o.reg # "SS"
    /\ o.kind = "mem" =>
         (o.address .. o.address + o.size - 1) \cap SavedAddresses = {}

\* It ends with the return for its kind, with the stack pointer, and if near the
\* segment, that it began with.
EndsAsItBegan ==
  Instr.op \in DOMAIN Routine =>
    /\ frames[1].kind \in Routine[Instr.op]
    /\ Depth(regs.SP) = Entered
    /\ frames[1].kind = "near" => regs.CS = frames[1].cs

\* The discipline of a program, as long as a routine is open.
KeepsToItsStack ==
  frames # <<>> =>
    StaysBelow /\ (~ checking /\ ~ hlt => SparesFrames /\ EndsAsItBegan)

\* The programs are what the refinement below is promised to, as TypeOK is: they run on
\* in their text and keep to their stack, wherever the interrupts come.
Disciplined == Decodes /\ KeepsToItsStack

\* A processor at rest in the main program has computed what the program is for,
\* whichever of its instructions interrupts came between: no instruction loses a
\* half of a register, a flag between the instruction that sets it and the jump
\* that reads it, or a word of the stack, which wraps around.
ProgramComputes ==
  hlt /\ frames = <<>> =>
    \A r \in DOMAIN text.expects : ReadReg(r) = text.expects[r]

\* Every program comes to its HLT: loops end at the count they were given.
ProgramHalts == <>(hlt /\ frames = <<>>)

Calls == INSTANCE CallStack WITH
  Dropped <- Drops, cs <- regs.CS, sp <- regs.SP

\* Every return, near, far or from an interrupt, goes back to where and in the state
\* the routine was entered, although all that is left of it are words in memory.
ImplementsCallStack == Calls!Spec
=============================================================================
