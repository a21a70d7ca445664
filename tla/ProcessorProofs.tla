-------------------------- MODULE ProcessorProofs ---------------------------
(***************************************************************************)
(* What holds of the processor for every program, memory and schedule of   *)
(* requests: registers and memory hold words and bytes (TypeCorrect), and  *)
(* calls and interrupts are nested routines (KeepsCallStack), the words on *)
(* the stack standing for what was left behind.                            *)
(*                                                                         *)
(* A program is promised this as long as it decodes and, for the second,   *)
(* keeps to its stack: Decodes and Disciplined of module Processor, which  *)
(* TLC checks of the programs it runs.                                     *)
(*                                                                         *)
(* The numbers of this program are large for the provers.  Sets of them    *)
(* have names that stay hidden, and the lemmas below say what is in them.  *)
(***************************************************************************)
EXTENDS Processor, SequenceTheorems, TLAPS

-----------------------------------------------------------------------------
(* Widths.                                                                 *)

\* The memory is an array of 0xF00000 bytes, in which all addresses lie that a
\* processor forms (ram.cpp:3).
MemorySize == 15 * 1048576
Addresses == 0 .. MemorySize - 1
WholeMemory == RAMs \subseteq [Addresses -> Byte]

\* Registers and halves, and the sets of what registers and flags can be.
Names == WordRegisters \cup DOMAIN LowHalf \cup DOMAIN HighHalf
File == [WordRegisters -> Word]
Flags == 0 .. 15

\* What it is to be in an interval, of whatever length.
LEMMA Between ==
  ASSUME NEW m \in Int, NEW S, S = 0 .. m
  PROVE  \A n : n \in S <=> n \in Int /\ 0 <= n /\ n <= m
BY SMT

\* What a word is, a byte, and an address.
LEMMA InWord == \A n : n \in Word <=> n \in Int /\ 0 <= n /\ n <= 65535
<1> DEFINE m == 65535
<1>1. m \in Int /\ Word = 0 .. m
  BY SMT DEF Word
<1> HIDE DEF m
<1>2. \A n : n \in Word <=> n \in Int /\ 0 <= n /\ n <= m
  BY <1>1, Between, SMT
<1> QED
  BY <1>2, SMT DEF m

\* What a byte is.
LEMMA InByte == \A n : n \in Byte <=> n \in Int /\ 0 <= n /\ n <= 255
BY SMT DEF Byte

\* What an address is.
LEMMA InAddresses ==
  /\ MemorySize \in Int /\ MemorySize > 1200000
  /\ \A n : n \in Addresses <=> n \in Int /\ 0 <= n /\ n < MemorySize
<1>1. MemorySize \in Int /\ MemorySize > 1200000
  BY SMT DEF MemorySize
<1>2. \A n : n \in Addresses <=> n \in Int /\ 0 <= n /\ n <= MemorySize - 1
  BY <1>1, Between, SMT DEF Addresses
<1> QED
  BY <1>1, <1>2, SMT

\* What a word, a byte and the upper byte of a number can be.
LEMMA Widths ==
  ASSUME NEW n \in Int
  PROVE  Trunc(n) \in Word /\ n % 256 \in Byte /\ (n \div 256) % 256 \in Byte
BY InWord, InByte, SMT DEF Trunc

\* The bytes of words, and words made of bytes.
LEMMA Halves ==
  /\ \A w \in Word : w % 256 \in Byte /\ w \div 256 \in Byte
  /\ \A l, h \in Byte : l + 256 * h \in Word
  /\ Byte \subseteq Word
BY InWord, InByte, SMT

\* Bytes, words and addresses are numbers.
LEMMA Numbers == Byte \subseteq Word /\ Word \subseteq Int /\ Addresses \subseteq Int
BY InWord, InByte, InAddresses, SMT

\* A word is its two bytes.
LEMMA TwoBytes ==
  ASSUME NEW n \in Word
  PROVE  (n % 256) + 256 * ((n \div 256) % 256) = n
<1>1. n \in Int /\ 0 <= n /\ n <= 65535
  BY InWord, SMT
<1>2. n \div 256 \in 0 .. 255
  BY <1>1, SMT
<1>3. (n \div 256) % 256 = n \div 256
  BY <1>2, SMT
<1> QED
  BY <1>1, <1>3, SMT

\* Which registers have halves: none of the stack's, and no segment.
LEMMA NamesOfHalves ==
  /\ DOMAIN LowHalf = {"AL", "BL", "CL", "DL"}
  /\ DOMAIN HighHalf = {"AH", "BH", "CH", "DH"}
  /\ \A r \in DOMAIN LowHalf : LowHalf[r] \in WordRegisters \ {"SS", "SP", "CS"}
  /\ \A r \in DOMAIN HighHalf : HighHalf[r] \in WordRegisters \ {"SS", "SP", "CS"}
BY DEF LowHalf, HighHalf, WordRegisters

\* A register that is read is a word, and a half of one a byte.
LEMMA ReadsWord ==
  ASSUME regs \in File, NEW r \in Names
  PROVE  ReadReg(r) \in Word /\ (r \notin WordRegisters => ReadReg(r) \in Byte)
<1>1. CASE r \in DOMAIN LowHalf
  <2>1. regs[LowHalf[r]] \in Word
    BY <1>1, NamesOfHalves, SMT DEF File
  <2>2. ReadReg(r) = regs[LowHalf[r]] % 256
    BY <1>1, SMT DEF ReadReg
  <2> QED
    BY <2>1, <2>2, Halves, SMT
<1>2. CASE r \notin DOMAIN LowHalf /\ r \in DOMAIN HighHalf
  <2>1. regs[HighHalf[r]] \in Word
    BY <1>2, NamesOfHalves, SMT DEF File
  <2>2. ReadReg(r) = regs[HighHalf[r]] \div 256
    BY <1>2, SMT DEF ReadReg
  <2> QED
    BY <2>1, <2>2, Halves, SMT
<1>3. CASE r \notin DOMAIN LowHalf /\ r \notin DOMAIN HighHalf
  BY <1>3, SMT DEF ReadReg, Names, File
<1> QED
  BY <1>1, <1>2, <1>3

\* Writing a register, or half of one, changes this register alone.
LEMMA WritesRegister ==
  ASSUME NEW f \in File, NEW r \in Names, NEW n \in Int
  PROVE  /\ WriteReg(f, r, n) \in File
         /\ r # "SS" => WriteReg(f, r, n)["SS"] = f["SS"]
<1>1. CASE r \in DOMAIN LowHalf
  <2> DEFINE s == LowHalf[r]
  <2>1. s \in WordRegisters \ {"SS"} /\ f[s] \in Word
    BY <1>1, NamesOfHalves, SMT DEF File
  <2>2. WriteReg(f, r, n) = [f EXCEPT ![s] = (n % 256) + 256 * (f[s] \div 256)]
    BY <1>1, SMT DEF WriteReg
  <2>3. (n % 256) + 256 * (f[s] \div 256) \in Word
    <3>1. n % 256 \in Byte
      BY Widths, SMT
    <3>2. f[s] \div 256 \in Byte
      <4> HIDE DEF s
      <4> QED
        BY <2>1, Halves, SMT
    <3> QED
      BY <3>1, <3>2, Halves
  <2> HIDE DEF s
  <2> QED
    BY <2>1, <2>2, <2>3, SMT DEF File
<1>2. CASE r \notin DOMAIN LowHalf /\ r \in DOMAIN HighHalf
  <2> DEFINE s == HighHalf[r]
  <2>1. s \in WordRegisters \ {"SS"} /\ f[s] \in Word
    BY <1>2, NamesOfHalves, SMT DEF File
  <2>2. WriteReg(f, r, n) = [f EXCEPT ![s] = (f[s] % 256) + 256 * (n % 256)]
    BY <1>2, SMT DEF WriteReg
  <2>3. (f[s] % 256) + 256 * (n % 256) \in Word
    <3>1. n % 256 \in Byte
      BY Widths, SMT
    <3>2. f[s] % 256 \in Byte
      <4> HIDE DEF s
      <4> QED
        BY <2>1, Halves, SMT
    <3> QED
      BY <3>1, <3>2, Halves
  <2> HIDE DEF s
  <2> QED
    BY <2>1, <2>2, <2>3, SMT DEF File
<1>3. CASE r \notin DOMAIN LowHalf /\ r \notin DOMAIN HighHalf
  <2>1. r \in WordRegisters
    BY <1>3, SMT DEF Names
  <2>2. WriteReg(f, r, n) = [f EXCEPT ![r] = Trunc(n)]
    BY <1>3, SMT DEF WriteReg
  <2> QED
    BY <2>1, <2>2, Widths, SMT DEF File
<1> QED
  BY <1>1, <1>2, <1>3

Changed(f, r, n) == [f EXCEPT ![r] = n]

\* So does writing a word to a register of 16 bits.
LEMMA PutsRegister ==
  ASSUME NEW f \in File, NEW r \in WordRegisters, NEW n \in Word
  PROVE  /\ Changed(f, r, n) \in File /\ Changed(f, r, n)[r] = n
         /\ \A s \in WordRegisters \ {r} : Changed(f, r, n)[s] = f[s]
BY SMT DEF File, Changed

\* Putting a word into the stack pointer leaves the segments alone ...
LEMMA PutsPointer ==
  ASSUME NEW f \in File, NEW n \in Word
  PROVE  /\ Changed(f, "SP", n) \in File /\ Changed(f, "SP", n)["SP"] = n
         /\ Changed(f, "SP", n)["SS"] = f["SS"] /\ Changed(f, "SP", n)["CS"] = f["CS"]
<1>1. /\ "SP" \in WordRegisters
      /\ "SS" \in WordRegisters \ {"SP"} /\ "CS" \in WordRegisters \ {"SP"}
  BY DEF WordRegisters
<1>2. /\ Changed(f, "SP", n) \in File /\ Changed(f, "SP", n)["SP"] = n
      /\ \A s \in WordRegisters \ {"SP"} : Changed(f, "SP", n)[s] = f[s]
  BY <1>1, PutsRegister, ZenonT(60)
<1> QED
  BY <1>1, <1>2, Zenon

\* ... and putting one into the code segment leaves the stack alone.
LEMMA PutsSegment ==
  ASSUME NEW f \in File, NEW n \in Word
  PROVE  /\ Changed(f, "CS", n) \in File /\ Changed(f, "CS", n)["CS"] = n
         /\ Changed(f, "CS", n)["SS"] = f["SS"] /\ Changed(f, "CS", n)["SP"] = f["SP"]
<1>1. /\ "CS" \in WordRegisters
      /\ "SS" \in WordRegisters \ {"CS"} /\ "SP" \in WordRegisters \ {"CS"}
  BY DEF WordRegisters
<1>2. /\ Changed(f, "CS", n) \in File /\ Changed(f, "CS", n)["CS"] = n
      /\ \A s \in WordRegisters \ {"CS"} : Changed(f, "CS", n)[s] = f[s]
  BY <1>1, PutsRegister, ZenonT(60)
<1> QED
  BY <1>1, <1>2, Zenon

-----------------------------------------------------------------------------
(* Memory.                                                                 *)

\* Two bytes of memory are a word.
LEMMA ReadsMemory ==
  ASSUME NEW m \in [Addresses -> Byte], NEW a \in Addresses, a + 1 \in Addresses
  PROVE  m[a] \in Byte /\ WordAt(m, a) \in Word
<1>1. m[a] \in Byte /\ m[a + 1] \in Byte
  BY SMT
<1> QED
  BY <1>1, Halves, SMT DEF WordAt

\* A word that is written can be read, and no other byte changes.
LEMMA WritesMemory ==
  ASSUME NEW m \in [Addresses -> Byte], NEW a \in Addresses, a + 1 \in Addresses,
         NEW n \in Int
  PROVE  /\ WriteByte(m, a, n) \in [Addresses -> Byte]
         /\ \A b \in Addresses \ {a} : WriteByte(m, a, n)[b] = m[b]
         /\ WriteWord(m, a, n) \in [Addresses -> Byte]
         /\ \A b \in Addresses \ {a, a + 1} : WriteWord(m, a, n)[b] = m[b]
         /\ n \in Word => WordAt(WriteWord(m, a, n), a) = n
<1>1. n % 256 \in Byte /\ (n \div 256) % 256 \in Byte
  BY Widths
<1>2. a # a + 1
  BY InAddresses, SMT
<1> DEFINE l == n % 256
           h == (n \div 256) % 256
<1>3. n \in Word => l + 256 * h = n
  BY TwoBytes, SMT
<1>4. WriteByte(m, a, n) = [m EXCEPT ![a] = l]
  BY DEF WriteByte
<1>5. WriteWord(m, a, n) = [m EXCEPT ![a] = l, ![a + 1] = h]
  BY DEF WriteWord
<1>6. l \in Byte /\ h \in Byte
  BY <1>1
<1> HIDE DEF l, h
<1>7. /\ [m EXCEPT ![a] = l] \in [Addresses -> Byte]
      /\ \A b \in Addresses \ {a} : [m EXCEPT ![a] = l][b] = m[b]
  BY <1>6, SMT
<1>8. /\ [m EXCEPT ![a] = l, ![a + 1] = h] \in [Addresses -> Byte]
      /\ \A b \in Addresses \ {a, a + 1} : [m EXCEPT ![a] = l, ![a + 1] = h][b] = m[b]
      /\ [m EXCEPT ![a] = l, ![a + 1] = h][a] = l
      /\ [m EXCEPT ![a] = l, ![a + 1] = h][a + 1] = h
  BY <1>2, <1>6, SMT
<1> QED
  BY <1>3, <1>4, <1>5, <1>7, <1>8, SMT DEF WordAt

-----------------------------------------------------------------------------
(* Flags and the word they make.                                           *)

\* The bits of a byte.
LEMMA EightBits ==
  ASSUME NEW a \in {0, 1}, NEW b \in {0, 1}, NEW c \in {0, 1}, NEW d \in {0, 1},
         NEW e \in {0, 1}, NEW f \in {0, 1}, NEW g \in {0, 1}, NEW h \in {0, 1},
         NEW n, n = a + 2 * b + 4 * c + 8 * d + 16 * e + 32 * f + 64 * g + 128 * h
  PROVE  /\ n \in Byte
         /\ Bit(n, 0) <=> a = 1
         /\ Bit(n, 1) <=> b = 1
         /\ Bit(n, 2) <=> c = 1
         /\ Bit(n, 3) <=> d = 1
         /\ Bit(n, 4) <=> e = 1
         /\ Bit(n, 5) <=> f = 1
         /\ Bit(n, 6) <=> g = 1
         /\ Bit(n, 7) <=> h = 1
<1>1. n \in Byte
  BY InByte, SMT
<1>2. Bit(n, 0) <=> a = 1
  <2>1. (n \div 1) % 2 = a
    BY SMT
  <2> QED
    BY <2>1, SMT DEF Bit
<1>3. Bit(n, 1) <=> b = 1
  <2>1. (n \div 2) % 2 = b
    BY SMT
  <2> QED
    BY <2>1, SMT DEF Bit
<1>4. Bit(n, 2) <=> c = 1
  <2>1. (n \div 4) % 2 = c
    BY SMT
  <2> QED
    BY <2>1, SMT DEF Bit
<1>5. Bit(n, 3) <=> d = 1
  <2>1. (n \div 8) % 2 = d
    BY SMT
  <2> QED
    BY <2>1, SMT DEF Bit
<1>6. Bit(n, 4) <=> e = 1
  <2>1. (n \div 16) % 2 = e
    BY SMT
  <2> QED
    BY <2>1, SMT DEF Bit
<1>7. Bit(n, 5) <=> f = 1
  <2>1. (n \div 32) % 2 = f
    BY SMT
  <2> QED
    BY <2>1, SMT DEF Bit
<1>8. Bit(n, 6) <=> g = 1
  <2>1. (n \div 64) % 2 = g
    BY SMT
  <2> QED
    BY <2>1, SMT DEF Bit
<1>9. Bit(n, 7) <=> h = 1
  <2>1. (n \div 128) % 2 = h
    BY SMT
  <2> QED
    BY <2>1, SMT DEF Bit
<1> QED
  BY <1>1, <1>2, <1>3, <1>4, <1>5, <1>6, <1>7, <1>8, <1>9, Zenon

\* The word with lower byte l and upper byte h.
Joined(l, h) == l + 256 * h

\* Two bytes joined are a word.
LEMMA JoinedIsWord == \A l, h \in Byte : Joined(l, h) \in Word
BY Halves, Zenon DEF Joined

\* The bits of a word are those of its lower byte and those of its upper byte.
LEMMA BitsOfBytes ==
  ASSUME NEW l \in Byte, NEW h \in Byte
  PROVE  /\ Bit(Joined(l, h), 0) <=> Bit(l, 0)
         /\ Bit(Joined(l, h), 1) <=> Bit(l, 1)
         /\ Bit(Joined(l, h), 2) <=> Bit(l, 2)
         /\ Bit(Joined(l, h), 3) <=> Bit(l, 3)
         /\ Bit(Joined(l, h), 4) <=> Bit(l, 4)
         /\ Bit(Joined(l, h), 5) <=> Bit(l, 5)
         /\ Bit(Joined(l, h), 6) <=> Bit(l, 6)
         /\ Bit(Joined(l, h), 7) <=> Bit(l, 7)
         /\ Bit(Joined(l, h), 8) <=> Bit(h, 0)
         /\ Bit(Joined(l, h), 9) <=> Bit(h, 1)
         /\ Bit(Joined(l, h), 10) <=> Bit(h, 2)
         /\ Bit(Joined(l, h), 11) <=> Bit(h, 3)
         /\ Bit(Joined(l, h), 12) <=> Bit(h, 4)
         /\ Bit(Joined(l, h), 13) <=> Bit(h, 5)
         /\ Bit(Joined(l, h), 14) <=> Bit(h, 6)
         /\ Bit(Joined(l, h), 15) <=> Bit(h, 7)
<1>1. Bit(Joined(l, h), 0) <=> Bit(l, 0)
  <2>1. (Joined(l, h) \div 1) % 2 = (l \div 1) % 2
    BY SMT DEF Byte, Joined
  <2> QED
    BY <2>1, SMT DEF Bit
<1>2. Bit(Joined(l, h), 1) <=> Bit(l, 1)
  <2>1. (Joined(l, h) \div 2) % 2 = (l \div 2) % 2
    BY SMT DEF Byte, Joined
  <2> QED
    BY <2>1, SMT DEF Bit
<1>3. Bit(Joined(l, h), 2) <=> Bit(l, 2)
  <2>1. (Joined(l, h) \div 4) % 2 = (l \div 4) % 2
    BY SMT DEF Byte, Joined
  <2> QED
    BY <2>1, SMT DEF Bit
<1>4. Bit(Joined(l, h), 3) <=> Bit(l, 3)
  <2>1. (Joined(l, h) \div 8) % 2 = (l \div 8) % 2
    BY SMT DEF Byte, Joined
  <2> QED
    BY <2>1, SMT DEF Bit
<1>5. Bit(Joined(l, h), 4) <=> Bit(l, 4)
  <2>1. (Joined(l, h) \div 16) % 2 = (l \div 16) % 2
    BY SMT DEF Byte, Joined
  <2> QED
    BY <2>1, SMT DEF Bit
<1>6. Bit(Joined(l, h), 5) <=> Bit(l, 5)
  <2>1. (Joined(l, h) \div 32) % 2 = (l \div 32) % 2
    BY SMT DEF Byte, Joined
  <2> QED
    BY <2>1, SMT DEF Bit
<1>7. Bit(Joined(l, h), 6) <=> Bit(l, 6)
  <2>1. (Joined(l, h) \div 64) % 2 = (l \div 64) % 2
    BY SMT DEF Byte, Joined
  <2> QED
    BY <2>1, SMT DEF Bit
<1>8. Bit(Joined(l, h), 7) <=> Bit(l, 7)
  <2>1. (Joined(l, h) \div 128) % 2 = (l \div 128) % 2
    BY SMT DEF Byte, Joined
  <2> QED
    BY <2>1, SMT DEF Bit
<1>9. Bit(Joined(l, h), 8) <=> Bit(h, 0)
  BY SMTT(60) DEF Bit, Byte, Joined
<1>10. Bit(Joined(l, h), 9) <=> Bit(h, 1)
  BY SMTT(60) DEF Bit, Byte, Joined
<1>11. Bit(Joined(l, h), 10) <=> Bit(h, 2)
  BY SMT DEF Bit, Byte, Joined
<1>12. Bit(Joined(l, h), 11) <=> Bit(h, 3)
  BY SMT DEF Bit, Byte, Joined
<1>13. Bit(Joined(l, h), 12) <=> Bit(h, 4)
  BY SMT DEF Bit, Byte, Joined
<1>14. Bit(Joined(l, h), 13) <=> Bit(h, 5)
  BY SMT DEF Bit, Byte, Joined
<1>15. Bit(Joined(l, h), 14) <=> Bit(h, 6)
  BY SMT DEF Bit, Byte, Joined
<1>16. Bit(Joined(l, h), 15) <=> Bit(h, 7)
  BY SMT DEF Bit, Byte, Joined
<1> QED
  BY <1>1, <1>2, <1>3, <1>4, <1>5, <1>6, <1>7, <1>8, <1>9, <1>10, <1>11,
     <1>12, <1>13, <1>14, <1>15, <1>16, Zenon

\* The flags that are pushed are those that are popped (8086.cpp:138, POPF).
LEMMA FlagsComeBack ==
  ASSUME NEW f \in SUBSET Flags
  PROVE  FlagsWord(f) \in Word /\ FlagsOf(FlagsWord(f)) = f
<1> DEFINE b(i) == IF i \in f THEN 1 ELSE 0
           w(i) == Weight(f, i)
           l == b(0) + 2 * b(1) + 4 * b(2) + 8 * b(3) + 16 * b(4)
                + 32 * b(5) + 64 * b(6) + 128 * b(7)
           h == b(8) + 2 * b(9) + 4 * b(10) + 8 * b(11) + 16 * b(12)
                + 32 * b(13) + 64 * b(14) + 128 * b(15)
<1>1. \A i : b(i) \in {0, 1} /\ (b(i) = 1 <=> i \in f)
  OBVIOUS
<1>2. FlagsWord(f) = Joined(l, h)
  <2>1. w(0) = 1 * b(0)
    BY SMT DEF Weight
  <2>2. w(1) = 2 * b(1)
    BY SMT DEF Weight
  <2>3. w(2) = 4 * b(2)
    BY SMT DEF Weight
  <2>4. w(3) = 8 * b(3)
    BY SMT DEF Weight
  <2>5. w(4) = 16 * b(4)
    BY SMT DEF Weight
  <2>6. w(5) = 32 * b(5)
    BY SMT DEF Weight
  <2>7. w(6) = 64 * b(6)
    BY SMT DEF Weight
  <2>8. w(7) = 128 * b(7)
    BY SMT DEF Weight
  <2>9. w(8) = 256 * b(8)
    BY SMT DEF Weight
  <2>10. w(9) = 512 * b(9)
    BY SMT DEF Weight
  <2>11. w(10) = 1024 * b(10)
    BY SMT DEF Weight
  <2>12. w(11) = 2048 * b(11)
    BY SMT DEF Weight
  <2>13. w(12) = 4096 * b(12)
    BY SMT DEF Weight
  <2>14. w(13) = 8192 * b(13)
    BY SMT DEF Weight
  <2>15. w(14) = 16384 * b(14)
    BY SMT DEF Weight
  <2>16. w(15) = 32768 * b(15)
    BY SMT DEF Weight
  <2> HIDE DEF b
  <2>17. w(0) + w(1) + w(2) + w(3) + w(4) + w(5) + w(6) + w(7) = l /\ l \in Int
    BY <1>1, <2>1, <2>2, <2>3, <2>4, <2>5, <2>6, <2>7, <2>8, SMT
  <2>18. w(8) + w(9) + w(10) + w(11) + w(12) + w(13) + w(14) + w(15) = 256 * h /\ h \in Int
    BY <1>1, <2>9, <2>10, <2>11, <2>12, <2>13, <2>14, <2>15, <2>16, SMT
  <2>19. FlagsWord(f) = (w(0) + w(1) + w(2) + w(3) + w(4) + w(5) + w(6) + w(7))
                        + (w(8) + w(9) + w(10) + w(11) + w(12) + w(13) + w(14) + w(15))
    <3> HIDE DEF l, h
    <3> QED
      BY Zenon DEF FlagsWord
  <2> QED
    BY <2>17, <2>18, <2>19, Zenon DEF Joined
<1> HIDE DEF b, w
<1>3. /\ l \in Byte
      /\ Bit(l, 0) <=> b(0) = 1
      /\ Bit(l, 1) <=> b(1) = 1
      /\ Bit(l, 2) <=> b(2) = 1
      /\ Bit(l, 3) <=> b(3) = 1
      /\ Bit(l, 4) <=> b(4) = 1
      /\ Bit(l, 5) <=> b(5) = 1
      /\ Bit(l, 6) <=> b(6) = 1
      /\ Bit(l, 7) <=> b(7) = 1
  BY <1>1, EightBits
<1>4. /\ h \in Byte
      /\ Bit(h, 0) <=> b(8) = 1
      /\ Bit(h, 1) <=> b(9) = 1
      /\ Bit(h, 2) <=> b(10) = 1
      /\ Bit(h, 3) <=> b(11) = 1
      /\ Bit(h, 4) <=> b(12) = 1
      /\ Bit(h, 5) <=> b(13) = 1
      /\ Bit(h, 6) <=> b(14) = 1
      /\ Bit(h, 7) <=> b(15) = 1
  BY <1>1, EightBits
<1> HIDE DEF l, h
<1>5. FlagsWord(f) \in Word
  BY <1>2, <1>3, <1>4, JoinedIsWord, Zenon
<1>6. ASSUME NEW i \in Flags PROVE Bit(Joined(l, h), i) <=> b(i) = 1
  <2>1. Bit(Joined(l, h), 0) <=> b(0) = 1
    BY <1>3, <1>4, BitsOfBytes, Zenon
  <2>2. Bit(Joined(l, h), 1) <=> b(1) = 1
    BY <1>3, <1>4, BitsOfBytes, Zenon
  <2>3. Bit(Joined(l, h), 2) <=> b(2) = 1
    BY <1>3, <1>4, BitsOfBytes, Zenon
  <2>4. Bit(Joined(l, h), 3) <=> b(3) = 1
    BY <1>3, <1>4, BitsOfBytes, Zenon
  <2>5. Bit(Joined(l, h), 4) <=> b(4) = 1
    BY <1>3, <1>4, BitsOfBytes, Zenon
  <2>6. Bit(Joined(l, h), 5) <=> b(5) = 1
    BY <1>3, <1>4, BitsOfBytes, Zenon
  <2>7. Bit(Joined(l, h), 6) <=> b(6) = 1
    BY <1>3, <1>4, BitsOfBytes, Zenon
  <2>8. Bit(Joined(l, h), 7) <=> b(7) = 1
    BY <1>3, <1>4, BitsOfBytes, Zenon
  <2>9. Bit(Joined(l, h), 8) <=> b(8) = 1
    BY <1>3, <1>4, BitsOfBytes, Zenon
  <2>10. Bit(Joined(l, h), 9) <=> b(9) = 1
    BY <1>3, <1>4, BitsOfBytes, Zenon
  <2>11. Bit(Joined(l, h), 10) <=> b(10) = 1
    BY <1>3, <1>4, BitsOfBytes, Zenon
  <2>12. Bit(Joined(l, h), 11) <=> b(11) = 1
    BY <1>3, <1>4, BitsOfBytes, Zenon
  <2>13. Bit(Joined(l, h), 12) <=> b(12) = 1
    BY <1>3, <1>4, BitsOfBytes, Zenon
  <2>14. Bit(Joined(l, h), 13) <=> b(13) = 1
    BY <1>3, <1>4, BitsOfBytes, Zenon
  <2>15. Bit(Joined(l, h), 14) <=> b(14) = 1
    BY <1>3, <1>4, BitsOfBytes, Zenon
  <2>16. Bit(Joined(l, h), 15) <=> b(15) = 1
    BY <1>3, <1>4, BitsOfBytes, Zenon
  <2>17. i = 0 \/ i = 1 \/ i = 2 \/ i = 3 \/ i = 4 \/ i = 5 \/ i = 6 \/ i = 7
        \/ i = 8 \/ i = 9 \/ i = 10 \/ i = 11 \/ i = 12 \/ i = 13 \/ i = 14 \/ i = 15
    BY SMT DEF Flags
  <2> QED
    BY <2>1, <2>2, <2>3, <2>4, <2>5, <2>6, <2>7, <2>8, <2>9, <2>10, <2>11, <2>12,
       <2>13, <2>14, <2>15, <2>16, <2>17
<1> QED
  BY <1>1, <1>2, <1>5, <1>6, Zenon DEF FlagsOf, Flags

-----------------------------------------------------------------------------
(* Operands.                                                               *)

\* Whole memories, and what is kept of the routines entered.
RAM == [Addresses -> Byte]
Kinds == {"near", "far", "INT", "hardware"}
Frame == [kind : Kinds, cs : Word, ip : Word, sp : Word, flags : SUBSET Flags]

\* The part of the type invariant that operations on numbers have to keep.
Typed ==
  /\ regs \in File /\ ip \in Word /\ flags \in SUBSET Flags
  /\ memory \in RAM /\ intr_v \in Byte /\ frames \in Seq(Frame)

\* The addresses that are formed of a segment, an offset, a vector lie in memory.
LEMMA Fits ==
  /\ \A s, o \in Word : 16 * s + o \in Addresses /\ 16 * s + o + 1 \in Addresses
  /\ \A v \in Byte : /\ 4 * v \in Addresses /\ 4 * v + 1 \in Addresses
                     /\ 4 * v + 2 \in Addresses /\ 4 * v + 2 + 1 \in Addresses
BY InWord, InByte, InAddresses, SMT

\* What the fields of operands are.
LEMMA Operands ==
  /\ \A o \in Registers : o.kind = "reg" /\ o.reg \in Names
  /\ \A o \in Memories : /\ o.kind = "mem" /\ o.size \in {1, 2}
                         /\ o.address \in Addresses /\ o.address + 1 \in Addresses
                         /\ o.address + 2 \in Addresses
                         /\ o.address + 2 + 1 \in Addresses
  /\ \A o \in Immediates : o.kind = "imm" /\ o.value \in Int
  /\ \A o \in Pointers : o.kind = "far" /\ o.segment \in Word /\ o.offset \in Word
<1>1. \A o \in Registers : o.kind = "reg" /\ o.reg \in Names
  BY SMT DEF Registers, Names
<1>2. ASSUME NEW o \in Memories
      PROVE  /\ o.kind = "mem" /\ o.size \in {1, 2}
             /\ o.address \in Addresses /\ o.address + 1 \in Addresses
             /\ o.address + 2 \in Addresses /\ o.address + 2 + 1 \in Addresses
  <2>1. LastAddress \in Int /\ LastAddress < 1200000 - 4
    BY SMT DEF LastAddress
  <2>2. o.kind = "mem" /\ o.size \in {1, 2} /\ o.address \in 0 .. LastAddress
    BY SMT DEF Memories
  <2>3. o.address \in Int /\ 0 <= o.address /\ o.address + 4 < MemorySize
    BY <2>1, <2>2, InAddresses, SMT
  <2> QED
    BY <2>2, <2>3, InAddresses, SMT
<1>3. \A o \in Immediates : o.kind = "imm" /\ o.value \in Int
  BY SMT DEF Immediates
<1>4. \A o \in Pointers : o.kind = "far" /\ o.segment \in Word /\ o.offset \in Word
  BY SMT DEF Pointers
<1> QED
  BY <1>1, <1>2, <1>3, <1>4, Zenon

\* An operand is a number, and what a register or memory holds a word.
LEMMA Loads ==
  ASSUME Typed, NEW o \in Values, NEW byte \in BOOLEAN
  PROVE  Load(o, byte) \in Int /\ (o \in Places => Load(o, byte) \in Word)
<1>1. CASE o \in Registers
  <2>1. o.kind = "reg" /\ o.reg \in Names
    BY <1>1, Operands, Zenon
  <2>2. Load(o, byte) = ReadReg(o.reg)
    BY <2>1 DEF Load
  <2>3. ReadReg(o.reg) \in Word
    BY <2>1, ReadsWord, Zenon DEF Typed
  <2> QED
    BY <2>2, <2>3, Numbers, Zenon
<1>2. CASE o \in Memories
  <2>1. o.kind = "mem" /\ o.address \in Addresses /\ o.address + 1 \in Addresses
    BY <1>2, Operands, Zenon
  <2>2. memory[o.address] \in Byte /\ ReadWord(o.address) \in Word
    BY <2>1, ReadsMemory, Zenon DEF Typed, RAM, ReadWord
  <2>3. Load(o, byte) = IF byte THEN memory[o.address] ELSE ReadWord(o.address)
    BY <2>1 DEF Load
  <2> QED
    BY <2>2, <2>3, Numbers, Zenon
<1>3. CASE o \in Immediates
  <2>1. o.kind = "imm" /\ o.value \in Int
    BY <1>3, Operands, Zenon
  <2>2. Load(o, byte) = o.value
    BY <2>1 DEF Load
  <2>3. o \notin Places
    <3>1. o \notin Registers /\ o \notin Memories
      BY <2>1, Operands
    <3> QED
      BY <3>1 DEF Places
  <2> QED
    BY <2>1, <2>2, <2>3, Zenon
<1> QED
  BY <1>1, <1>2, <1>3, Zenon DEF Values, Places

\* The bytes an operand in memory has.
Bytes(o) == o.address .. o.address + o.size - 1

\* Storing writes words and bytes, and nothing but the operand.
LEMMA Stores ==
  ASSUME Typed, NEW o \in Places, NEW byte \in BOOLEAN, NEW n \in Int,
         Store(o, byte, n), o.kind = "mem" /\ ~ byte => o.size = 2
  PROVE  /\ regs' \in File /\ memory' \in RAM
         /\ o.kind = "reg" =>
              memory' = memory /\ (o.reg # "SS" => regs'["SS"] = regs["SS"])
         /\ o.kind = "mem" =>
              regs' = regs /\ \A a \in Addresses \ Bytes(o) : memory'[a] = memory[a]
<1>1. CASE o \in Registers
  <2>1. o.kind = "reg" /\ o.reg \in Names
    BY <1>1, Operands, Zenon
  <2>2. regs' = WriteReg(regs, o.reg, n) /\ memory' = memory
    BY <2>1 DEF Store
  <2>3. /\ WriteReg(regs, o.reg, n) \in File
        /\ o.reg # "SS" => WriteReg(regs, o.reg, n)["SS"] = regs["SS"]
    BY <2>1, WritesRegister, Zenon DEF Typed
  <2> QED
    BY <2>1, <2>2, <2>3 DEF Typed
<1>2. CASE o \in Memories
  <2>1. /\ o.kind = "mem" /\ o.size \in {1, 2}
        /\ o.address \in Addresses /\ o.address + 1 \in Addresses
    BY <1>2, Operands, Zenon
  <2>2. /\ regs' = regs
        /\ memory' = IF byte THEN WriteByte(memory, o.address, n)
                     ELSE WriteWord(memory, o.address, n)
    BY <2>1 DEF Store
  <2>3. /\ o.address \in Bytes(o)
        /\ o.size = 2 => o.address + 1 \in Bytes(o)
    BY <2>1, InAddresses, SMT DEF Bytes
  <2>4. /\ WriteByte(memory, o.address, n) \in RAM
        /\ \A b \in Addresses \ {o.address} : WriteByte(memory, o.address, n)[b] = memory[b]
        /\ WriteWord(memory, o.address, n) \in RAM
        /\ \A b \in Addresses \ {o.address, o.address + 1} :
             WriteWord(memory, o.address, n)[b] = memory[b]
    BY <2>1, WritesMemory, Zenon DEF Typed, RAM
  <2>5. CASE byte
    BY <2>1, <2>2, <2>3, <2>4, <2>5, Zenon DEF Typed
  <2>6. CASE ~ byte
    BY <2>1, <2>2, <2>3, <2>4, <2>6, Zenon DEF Typed
  <2> QED
    BY <2>5, <2>6
<1> QED
  BY <1>1, <1>2, Zenon DEF Places

-----------------------------------------------------------------------------
(* What instructions leave of the types, and of the open routines' frames.  *)

\* Routines are neither entered nor left; as long as the program keeps to its stack,
\* the stack segment and what entering routines saved stay as they are.
Calm ==
  /\ frames' = frames
  /\ frames # <<>> /\ KeepsToItsStack =>
       /\ regs'["SS"] = regs["SS"]
       /\ \A a \in SavedAddresses \cap Addresses : memory'[a] = memory[a]

\* The size of a register or of memory is one or the other.
LEMMA Sizes ==
  ASSUME NEW o \in Places
  PROVE  IsByte(o) \in BOOLEAN /\ (o.kind = "mem" /\ ~ IsByte(o) => o.size = 2)
<1>1. CASE o \in Registers
  <2>1. o.kind = "reg"
    BY <1>1, Operands, Zenon
  <2> QED
    BY <2>1 DEF IsByte
<1>2. CASE o \in Memories
  <2>1. o.kind = "mem" /\ o.size \in {1, 2}
    BY <1>2, Operands, Zenon
  <2> QED
    BY <2>1 DEF IsByte
<1> QED
  BY <1>1, <1>2, Zenon DEF Places

\* The instructions that store to one operand.
LEMMA StoringIsCalm ==
  ASSUME Typed, ~ checking, ~ hlt, NEW byte \in BOOLEAN, NEW n \in Int,
         Instr.op \in {"MOV", "NOT", "INC", "DEC", "NEG"}, Instr.a \in Places,
         byte \/ ~ IsByte(Instr.a), Store(Instr.a, byte, n), frames' = frames
  PROVE  regs' \in File /\ memory' \in RAM /\ Calm
<1> DEFINE o == Instr.a
<1>1. o \in Places /\ (o.kind = "mem" /\ ~ byte => o.size = 2)
  BY Sizes, Zenon
<1>2. Store(o, byte, n)
  BY Zenon
<1>3. frames # <<>> /\ KeepsToItsStack =>
        /\ o.kind = "reg" => o.reg # "SS"
        /\ o.kind = "mem" => Bytes(o) \cap SavedAddresses = {}
  <2>1. Destinations = {o}
    BY DEF Destinations
  <2> HIDE DEF o
  <2> QED
    BY <2>1, Zenon DEF KeepsToItsStack, SparesFrames, Bytes
<1> HIDE DEF o
<1>4. /\ regs' \in File /\ memory' \in RAM
      /\ o.kind = "reg" =>
           memory' = memory /\ (o.reg # "SS" => regs'["SS"] = regs["SS"])
      /\ o.kind = "mem" =>
           regs' = regs /\ \A a \in Addresses \ Bytes(o) : memory'[a] = memory[a]
  BY <1>1, <1>2, Stores, Zenon
<1>5. o.kind = "reg" \/ o.kind = "mem"
  BY <1>1, Operands, Zenon DEF Places
<1>6. CASE o.kind = "reg"
  BY <1>3, <1>4, <1>6, Zenon DEF Calm
<1>7. CASE o.kind = "mem"
  BY <1>3, <1>4, <1>7, Zenon DEF Calm
<1> QED
  BY <1>5, <1>6, <1>7, Zenon

\* The flags are bits of a word, after an operation too.
LEMMA FlagsStay ==
  ASSUME NEW f \in SUBSET Flags
  PROVE  /\ \A n : UpdateStatusFlags(f, n) \in SUBSET Flags
         /\ \A n : FlagsOf(n) \in SUBSET Flags
<1>1. StatusFlags \subseteq Flags
  BY SMT DEF StatusFlags, Flags, CARRY, PARRITY, A_CARRY, ZERRO, SIGN, OVER
<1>2. ASSUME NEW n PROVE UpdateStatusFlags(f, n) \in SUBSET Flags
  <2>1. UpdateStatusFlags(f, n) \subseteq f \cup StatusFlags
    BY Zenon DEF UpdateStatusFlags
  <2> QED
    BY <1>1, <2>1, Zenon
<1>3. ASSUME NEW n PROVE FlagsOf(n) \in SUBSET Flags
  BY Zenon DEF FlagsOf, Flags
<1> QED
  BY <1>2, <1>3, Zenon

\* The next instruction has an address.
LEMMA Follow == ASSUME Typed PROVE Follows \in Word
<1>1. ip + 1 \in Int
  BY InWord, SMT DEF Typed
<1> QED
  BY <1>1, Widths, Zenon DEF Follows

\* MOV stores a byte or a word: memory is read as a word, whatever is stored.
LEMMA TypedMOV ==
  ASSUME Typed, Decodes, MOV
  PROVE  Typed' /\ Calm
<1> DEFINE byte == IsByte(Instr.a)
           n == Load(Instr.b, FALSE)
<1>1. /\ ~ checking /\ ~ hlt /\ Instr.op = "MOV" /\ ip' = Follows
      /\ UNCHANGED <<intr_v, frames, flags>> /\ Store(Instr.a, byte, n)
  BY Zenon DEF MOV, Straight, Executes
<1>2. Instr.a \in Places /\ Instr.b \in Values
  BY <1>1, Zenon DEF Decodes
<1>3. byte \in BOOLEAN /\ n \in Int
  BY <1>2, Sizes, Loads, Zenon
<1> HIDE DEF byte, n
<1>4. byte \/ ~ IsByte(Instr.a)
  BY Zenon DEF byte
<1>5. regs' \in File /\ memory' \in RAM /\ Calm
  BY <1>1, <1>2, <1>3, <1>4, StoringIsCalm, Zenon
<1> QED
  BY <1>1, <1>5, Follow, Zenon DEF Typed

\* XCHG stores to two operands, one after the other, and either may be the other's
\* other half.
LEMMA TypedXCHG ==
  ASSUME Typed, Decodes, XCHG
  PROVE  Typed' /\ Calm
<1> DEFINE o == Instr.a
           r == Instr.b.reg
           one == Load(o, FALSE)
           two == ReadReg(r)
           got == WriteReg(regs, r, one)
<1>1. /\ ~ checking /\ ~ hlt /\ Instr.op = "XCHG" /\ ip' = Follows
      /\ UNCHANGED <<intr_v, frames, flags>>
  BY Zenon DEF XCHG, Straight, Executes
<1>2. IF o.kind = "reg"
      THEN regs' = WriteReg(got, o.reg, two) /\ memory' = memory
      ELSE /\ regs' = got
           /\ memory' = IF IsByte(o) THEN WriteByte(memory, o.address, two)
                        ELSE WriteWord(memory, o.address, two)
  BY Zenon DEF XCHG
<1>3. o \in Places /\ Instr.b \in Registers
  BY <1>1, Zenon DEF Decodes
<1>4. r \in Names /\ Instr.b.kind = "reg"
  BY <1>3, Operands, Zenon
<1>5. frames # <<>> /\ KeepsToItsStack =>
        /\ r # "SS" /\ (o.kind = "reg" => o.reg # "SS")
        /\ o.kind = "mem" => Bytes(o) \cap SavedAddresses = {}
  <2>1. Destinations = {o, Instr.b}
    BY <1>1 DEF Destinations
  <2> HIDE DEF o
  <2> QED
    BY <1>1, <1>4, <2>1, Zenon DEF KeepsToItsStack, SparesFrames, Bytes
<1>6. one \in Int /\ two \in Int
  BY <1>3, <1>4, Loads, ReadsWord, Numbers, Zenon DEF Typed, Values
<1> HIDE DEF one, two, r, o
<1>7. got \in File /\ (r # "SS" => got["SS"] = regs["SS"])
  BY <1>4, <1>6, WritesRegister, Zenon DEF Typed
<1> HIDE DEF got
<1>8. CASE o \in Registers
  <2>1. o.kind = "reg" /\ o.reg \in Names
    BY <1>8, Operands, Zenon
  <2>2. /\ WriteReg(got, o.reg, two) \in File
        /\ o.reg # "SS" => WriteReg(got, o.reg, two)["SS"] = got["SS"]
    BY <1>6, <1>7, <2>1, WritesRegister, Zenon
  <2>3. regs' = WriteReg(got, o.reg, two) /\ memory' = memory
    BY <1>2, <2>1
  <2>4. Calm
    BY <1>1, <1>5, <1>7, <2>1, <2>2, <2>3, Zenon DEF Calm
  <2> QED
    BY <1>1, <2>2, <2>3, <2>4, Follow, Zenon DEF Typed
<1>9. CASE o \in Memories
  <2>1. /\ o.kind = "mem" /\ o.size \in {1, 2}
        /\ o.address \in Addresses /\ o.address + 1 \in Addresses
    BY <1>9, Operands, Zenon
  <2>2. /\ o.address \in Bytes(o)
        /\ ~ IsByte(o) => o.address + 1 \in Bytes(o)
    <3>1. ~ IsByte(o) => o.size = 2
      BY <1>3, <2>1, Sizes, Zenon DEF o
    <3> QED
      BY <2>1, <3>1, InAddresses, SMT DEF Bytes
  <2>3. /\ WriteByte(memory, o.address, two) \in RAM
        /\ \A b \in Addresses \ {o.address} :
             WriteByte(memory, o.address, two)[b] = memory[b]
        /\ WriteWord(memory, o.address, two) \in RAM
        /\ \A b \in Addresses \ {o.address, o.address + 1} :
             WriteWord(memory, o.address, two)[b] = memory[b]
    BY <1>6, <2>1, WritesMemory, Zenon DEF Typed, RAM
  <2>4. /\ regs' = got
        /\ memory' = IF IsByte(o) THEN WriteByte(memory, o.address, two)
                     ELSE WriteWord(memory, o.address, two)
    BY <1>2, <2>1
  <2>5. memory' \in RAM /\ \A b \in Addresses \ Bytes(o) : memory'[b] = memory[b]
    <3>1. CASE IsByte(o)
      BY <2>2, <2>3, <2>4, <3>1, Zenon
    <3>2. CASE ~ IsByte(o)
      BY <2>2, <2>3, <2>4, <3>2, Zenon
    <3> QED
      BY <3>1, <3>2
  <2>6. Calm
    BY <1>1, <1>5, <1>7, <2>1, <2>4, <2>5, Zenon DEF Calm
  <2> QED
    BY <1>1, <1>7, <2>4, <2>5, <2>6, Follow, Zenon DEF Typed
<1> QED
  BY <1>3, <1>8, <1>9, Zenon DEF Places

\* An instruction that computes a number from its operand and stores it back.
LEMMA TypedNOT ==
  ASSUME Typed, Decodes, NOT
  PROVE  Typed' /\ Calm
<1> DEFINE byte == IsByte(Instr.a)
           x == Load(Instr.a, byte)
           n == 65535 - x
<1> HIDE DEF n
<1>1. /\ ~ checking /\ ~ hlt /\ Instr.op = "NOT" /\ ip' = Follows
      /\ UNCHANGED <<intr_v, frames, flags>> /\ Store(Instr.a, byte, n)
  BY DEF NOT, Straight, Executes, n
<1>2. Instr.a \in Places /\ Instr.a \in Values
  BY <1>1, Zenon DEF Decodes, Values
<1>3. byte \in BOOLEAN /\ x \in Int
  BY <1>2, Sizes, Loads, Zenon
<1> HIDE DEF x
<1>4. n \in Int
  BY <1>3, SMT DEF n
<1> HIDE DEF byte
<1>5. byte \/ ~ IsByte(Instr.a)
  BY Zenon DEF byte
<1>6. regs' \in File /\ memory' \in RAM /\ Calm
  BY <1>1, <1>2, <1>3, <1>4, <1>5, StoringIsCalm, Zenon
<1> QED
  BY <1>1, <1>6, Follow, Zenon DEF Typed

\* INC goes beyond the width of its operand, which keeps the low bits.
LEMMA TypedINC ==
  ASSUME Typed, Decodes, INC
  PROVE  Typed' /\ Calm
<1> DEFINE byte == IsByte(Instr.a)
           x == Load(Instr.a, byte)
           n == x + 1
<1>1. /\ ~ checking /\ ~ hlt /\ Instr.op = "INC" /\ ip' = Follows
      /\ UNCHANGED <<intr_v, frames>> /\ Store(Instr.a, byte, n)
      /\ flags' = UpdateStatusFlags(flags, n)
  BY Zenon DEF INC, Straight, Executes
<1>2. Instr.a \in Places /\ Instr.a \in Values
  BY <1>1, Zenon DEF Decodes, Values
<1>3. byte \in BOOLEAN /\ x \in Int
  BY <1>2, Sizes, Loads, Zenon
<1> HIDE DEF x
<1>4. n \in Int
  BY <1>3, SMT
<1> HIDE DEF byte, n
<1>5. byte \/ ~ IsByte(Instr.a)
  BY Zenon DEF byte
<1>6. regs' \in File /\ memory' \in RAM /\ Calm
  BY <1>1, <1>2, <1>3, <1>4, <1>5, StoringIsCalm, Zenon
<1> QED
  BY <1>1, <1>6, Follow, FlagsStay, Zenon DEF Typed

\* DEC goes below zero, and its operand keeps the low bits.
LEMMA TypedDEC ==
  ASSUME Typed, Decodes, DEC
  PROVE  Typed' /\ Calm
<1> DEFINE x == Load(Instr.a, TRUE)
           n == x - 1
<1>1. /\ ~ checking /\ ~ hlt /\ Instr.op = "DEC" /\ ip' = Follows
      /\ UNCHANGED <<intr_v, frames>> /\ Store(Instr.a, TRUE, n)
      /\ flags' = UpdateStatusFlags(flags, n)
  BY Zenon DEF DEC, Straight, Executes
<1>2. Instr.a \in Places /\ Instr.a \in Values
  BY <1>1, Zenon DEF Decodes, Values
<1>3. x \in Int
  BY <1>2, Loads, Zenon
<1> HIDE DEF x
<1>4. n \in Int
  BY <1>3, SMT
<1> HIDE DEF n
<1>5. regs' \in File /\ memory' \in RAM /\ Calm
  BY <1>1, <1>2, <1>4, StoringIsCalm, Zenon
<1> QED
  BY <1>1, <1>5, Follow, FlagsStay, Zenon DEF Typed

\* NEG computes with negative numbers, and its operand keeps the low bits.
LEMMA TypedNEG ==
  ASSUME Typed, Decodes, NEG
  PROVE  Typed' /\ Calm
<1> DEFINE byte == IsByte(Instr.a)
           x == Load(Instr.a, byte)
           n == - x
<1>1. /\ ~ checking /\ ~ hlt /\ Instr.op = "NEG" /\ ip' = Follows
      /\ UNCHANGED <<intr_v, frames>> /\ Store(Instr.a, byte, n)
      /\ flags' = UpdateStatusFlags(flags, n)
  BY Zenon DEF NEG, Straight, Executes
<1>2. Instr.a \in Places /\ Instr.a \in Values
  BY <1>1, Zenon DEF Decodes, Values
<1>3. byte \in BOOLEAN /\ x \in Int
  BY <1>2, Sizes, Loads, Zenon
<1> HIDE DEF x
<1>4. n \in Int
  BY <1>3, SMT
<1> HIDE DEF byte, n
<1>5. byte \/ ~ IsByte(Instr.a)
  BY Zenon DEF byte
<1>6. regs' \in File /\ memory' \in RAM /\ Calm
  BY <1>1, <1>2, <1>3, <1>4, <1>5, StoringIsCalm, Zenon
<1> QED
  BY <1>1, <1>6, Follow, FlagsStay, Zenon DEF Typed

\* A step that leaves memory and the stack segment alone is calm.
LEMMA RegistersAreCalm ==
  ASSUME memory' = memory, frames' = frames, regs'["SS"] = regs["SS"]
  PROVE  Calm
BY Zenon DEF Calm

\* The instructions that change flags alone.
LEMMA TypedFlags ==
  ASSUME Typed, Decodes, ADD \/ SUB \/ CMP \/ SAHF \/ ChangeFlag \/ HLT
  PROVE  Typed' /\ Calm
<1>1. ip' = Follows /\ UNCHANGED <<intr_v, frames, regs, memory>>
  BY Zenon DEF ADD, SUB, CMP, SAHF, ChangeFlag, HLT, Straight
<1>2. flags' \in SUBSET Flags
  <2>1. CASE ADD \/ SUB \/ CMP
    BY <2>1, FlagsStay, Zenon DEF ADD, SUB, CMP, Typed
  <2>2. CASE SAHF
    BY <2>2, FlagsStay, Zenon DEF SAHF, Typed
  <2>3. CASE ChangeFlag
    <3>1. \A op \in DOMAIN FlagOf : FlagOf[op] \in Flags
      BY SMT DEF FlagOf, Flags, CARRY, DIR, INTF
    <3>2. Instr.op \in DOMAIN FlagOf
      BY <2>3, Zenon DEF ChangeFlag, Straight, Executes
    <3>3. flags' \subseteq flags \cup {FlagOf[Instr.op]}
      BY <2>3, Zenon DEF ChangeFlag
    <3> QED
      BY <3>1, <3>2, <3>3, Zenon DEF Typed
  <2>4. CASE HLT
    BY <2>4, Zenon DEF HLT, Typed
  <2> QED
    BY <2>1, <2>2, <2>3, <2>4
<1>3. Calm
  BY <1>1, RegistersAreCalm, Zenon
<1> QED
  BY <1>1, <1>2, <1>3, Follow, Zenon DEF Typed

\* The product of words is two words.
LEMMA Products ==
  ASSUME NEW a \in Word, NEW b \in Word
  PROVE  a * b \in Int /\ UpperWord(a * b) \in Word
<1>1. /\ a \in Int /\ 0 <= a /\ a <= 65535
      /\ b \in Int /\ 0 <= b /\ b <= 65535
  BY InWord, SMT
<1>2. 0 <= a * b /\ a * b <= 65535 * b
  BY <1>1, SMT
<1>3. a * b \in Int
  BY <1>1, SMT
<1> DEFINE p == a * b
<1>4. p \in Int /\ 0 <= p /\ p <= 65535 * 65535
  BY <1>1, <1>2, <1>3, SMT
<1> HIDE DEF p
<1>5. p \div 65536 \in Int /\ 0 <= p \div 65536 /\ p \div 65536 <= 65535
  BY <1>4, SMT
<1> QED
  BY <1>4, <1>5, InWord, SMT DEF p, UpperWord

\* The registers that multiplications and divisions use.
LEMMA HalvesAX == "AX" \in Names /\ "AL" \in Names /\ "AH" \in Names /\ "DX" \in Names
BY NamesOfHalves, Zenon DEF Names, WordRegisters

\* The product of two words is two words, of two bytes one.
LEMMA TypedMUL ==
  ASSUME Typed, Decodes, MUL
  PROVE  Typed' /\ Calm
<1> DEFINE byte == IsByte(Instr.a)
           a == Load(Instr.a, byte)
           b == ReadReg(IF byte THEN "AL" ELSE "AX")
           n == a * b
           dx == IF byte THEN regs["DX"] ELSE UpperWord(n)
<1>1. ~ checking /\ ~ hlt /\ Instr.op \in {"MUL", "IMUL"}
      /\ ip' = Follows /\ UNCHANGED <<intr_v, frames, memory>>
  BY Zenon DEF MUL, Straight, Executes
<1>2. flags' \subseteq flags \cup {CARRY, OVER}
  BY Zenon DEF MUL
<1>3. regs' = [regs EXCEPT !["AX"] = Trunc(n), !["DX"] = dx]
  BY DEF MUL
<1>4. Instr.a \in Places /\ Instr.a \in Values
  BY <1>1, Zenon DEF Decodes, Values
<1>5. a \in Word
  BY <1>4, Sizes, Loads, Zenon
<1>6. b \in Word
  BY HalvesAX, ReadsWord, Zenon DEF Typed
<1> HIDE DEF a, b
<1>7. n \in Int /\ UpperWord(n) \in Word
  BY <1>5, <1>6, Products, Zenon
<1>8. "AX" \in WordRegisters /\ "DX" \in WordRegisters
  BY Zenon DEF WordRegisters
<1>9. dx \in Word /\ Trunc(n) \in Word
  <2>1. regs["DX"] \in Word
    BY <1>8, SMT DEF Typed, File
  <2> HIDE DEF n
  <2> QED
    BY <1>7, <2>1, Widths, Zenon
<1> HIDE DEF dx, n
<1>10. regs' = Changed(Changed(regs, "AX", Trunc(n)), "DX", dx)
  BY <1>3 DEF Changed
<1>11. /\ Changed(regs, "AX", Trunc(n)) \in File
       /\ \A s \in WordRegisters \ {"AX"} : Changed(regs, "AX", Trunc(n))[s] = regs[s]
  BY <1>8, <1>9, PutsRegister, ZenonT(60) DEF Typed
<1>12. regs' \in File
       /\ \A s \in WordRegisters \ {"DX"} : regs'[s] = Changed(regs, "AX", Trunc(n))[s]
  BY <1>8, <1>9, <1>10, <1>11, PutsRegister, Zenon
<1>13. "SS" \in WordRegisters \ {"AX"} /\ "SS" \in WordRegisters \ {"DX"}
  BY DEF WordRegisters
<1>14. Calm
  BY <1>1, <1>11, <1>12, <1>13, RegistersAreCalm, Zenon
<1>15. {CARRY, OVER} \subseteq Flags
  BY SMT DEF CARRY, OVER, Flags
<1>16. flags' \in SUBSET Flags
  BY <1>2, <1>15, Zenon DEF Typed
<1> QED
  BY <1>1, <1>12, <1>14, <1>16, Follow, Zenon DEF Typed

\* Quotient and remainder are no wider than the dividend, since nothing is divided by
\* zero.
LEMMA TypedDIV ==
  ASSUME Typed, Decodes, DIV
  PROVE  Typed' /\ Calm
<1> DEFINE byte == IsByte(Instr.a)
           n == ReadReg(IF byte THEN "AL" ELSE "AX")
           d == Load(Instr.a, byte)
           r == IF byte THEN "AL" ELSE "AX"
           s == IF byte THEN "AH" ELSE "DX"
           quotient == WriteReg(regs, r, n \div d)
<1>1. ~ checking /\ ~ hlt /\ Instr.op \in {"DIV", "IDIV"}
      /\ ip' = Follows /\ UNCHANGED <<intr_v, frames, memory, flags>>
  BY Zenon DEF DIV, Straight, Executes
<1>2. regs' = WriteReg(quotient, s, n % d)
  BY Zenon DEF DIV
<1>3. Instr.a \in Places /\ Instr.a \in Values /\ d # 0
  BY <1>1, Zenon DEF Decodes, Values
<1>4. d \in Word
  BY <1>3, Sizes, Loads, Zenon
<1>5. n \in Word
  BY HalvesAX, ReadsWord, Zenon DEF Typed
<1>6. r \in Names /\ s \in Names
  BY HalvesAX
<1>7. r # "SS" /\ s # "SS"
  OBVIOUS
<1> HIDE DEF n, d, r, s
<1>8. n \div d \in Int /\ n % d \in Int
  <2>1. n \in Int /\ d \in Int /\ d > 0
    BY <1>3, <1>4, <1>5, InWord, SMT
  <2> QED
    BY <2>1, SMT
<1>9. quotient \in File /\ quotient["SS"] = regs["SS"]
  BY <1>6, <1>7, <1>8, WritesRegister, Zenon DEF Typed
<1> HIDE DEF quotient
<1>10. regs' \in File /\ regs'["SS"] = quotient["SS"]
  BY <1>2, <1>6, <1>7, <1>8, <1>9, WritesRegister, Zenon
<1>11. Calm
  BY <1>1, <1>9, <1>10, RegistersAreCalm, Zenon
<1> QED
  BY <1>1, <1>10, <1>11, Follow, Zenon DEF Typed

-----------------------------------------------------------------------------
(* The stack, and transfers.                                               *)

\* The segment and stack registers are words.
LEMMA Pointing ==
  /\ {"CS", "DS", "SS", "SP", "BP", "BX"} \subseteq WordRegisters
  /\ Typed => regs["CS"] \in Word /\ regs["DS"] \in Word /\ regs["SS"] \in Word
              /\ regs["SP"] \in Word /\ regs["BP"] \in Word /\ regs["BX"] \in Word
<1>1. {"CS", "DS", "SS", "SP", "BP", "BX"} \subseteq WordRegisters
  BY DEF WordRegisters
<1>2. \A r \in WordRegisters : Typed => regs[r] \in Word
  BY SMT DEF Typed, File
<1> QED
  BY <1>1, <1>2, Zenon

\* The words on the stack, wherever its pointer is.
LEMMA Tops ==
  ASSUME Typed, NEW n \in Int
  PROVE  Top(n) \in Word
<1> DEFINE o == Trunc(regs["SP"] + 2 * n)
           a == StackAddress(o)
<1>1. regs["SS"] \in Word /\ regs["SP"] + 2 * n \in Int
  BY Pointing, InWord, SMT
<1>2. o \in Word
  BY <1>1, Widths, Zenon
<1> HIDE DEF o
<1>3. a \in Addresses /\ a + 1 \in Addresses
  BY <1>1, <1>2, Fits, Zenon DEF StackAddress
<1> HIDE DEF a
<1>4. ReadWord(a) \in Word
  BY <1>3, ReadsMemory, Zenon DEF Typed, RAM, ReadWord
<1> QED
  BY <1>4, Zenon DEF Top, a, o

\* The instructions that change registers alone; POP moves the stack pointer too, which
\* may itself be what is popped.
LEMMA TypedRegister ==
  ASSUME Typed, Decodes, XLAT \/ LEA \/ LAHF \/ POP
  PROVE  Typed' /\ Calm
<1> SUFFICES ASSUME ip' = Follows, UNCHANGED <<intr_v, frames, memory, flags>>
             PROVE  /\ regs' \in File
                    /\ frames # <<>> /\ KeepsToItsStack => regs'["SS"] = regs["SS"]
  BY Follow, Zenon DEF XLAT, LEA, LAHF, POP, Straight, Typed, Calm
<1>1. ~ checking /\ ~ hlt
  BY Zenon DEF XLAT, LEA, LAHF, POP, Straight, Executes
<1>2. CASE XLAT
  <2> DEFINE o == Trunc(regs["BX"] + ReadReg("AL"))
             a == 16 * regs["DS"] + o
             v == memory[a]
  <2>1. regs' = WriteReg(regs, "AL", v)
    BY <1>2, Zenon DEF XLAT
  <2>2. o \in Word
    <3> DEFINE x == regs["BX"]
               y == ReadReg("AL")
    <3>1. x \in Word /\ y \in Word
      BY Pointing, HalvesAX, ReadsWord, Zenon DEF Typed
    <3> HIDE DEF x, y
    <3>2. x + y \in Int
      BY <3>1, InWord, SMT
    <3> QED
      BY <3>2, Widths, Zenon DEF x, y
  <2> HIDE DEF o
  <2>3. a \in Addresses
    BY <2>2, Pointing, Fits, Zenon
  <2> HIDE DEF a
  <2>4. v \in Int
    <3>1. v \in Byte
      BY <2>3, Zenon DEF Typed, RAM
    <3> QED
      BY <3>1, Numbers, Zenon
  <2> HIDE DEF v
  <2> QED
    BY <2>1, <2>4, HalvesAX, WritesRegister, Zenon DEF Typed
<1>3. CASE LAHF
  <2> DEFINE f == (flags \cap LowFlags) \cup {1}
             v == FlagsWord(f)
  <2>1. regs' = WriteReg(regs, "AH", v)
    BY <1>3, Zenon DEF LAHF
  <2>2. f \in SUBSET Flags
    <3>1. 1 \in Flags
      BY SMT DEF Flags
    <3> QED
      BY <3>1, Zenon DEF Typed
  <2> HIDE DEF f
  <2>3. v \in Int
    BY <2>2, FlagsComeBack, Numbers, Zenon
  <2> HIDE DEF v
  <2> QED
    BY <2>1, <2>3, HalvesAX, WritesRegister, Zenon DEF Typed
<1>4. CASE LEA
  <2> DEFINE r == Instr.a.reg
             v == Instr.b.address
  <2>1. regs' = WriteReg(regs, r, v) /\ Instr.op = "LEA"
    BY <1>4, Zenon DEF LEA, Straight, Executes
  <2>2. Instr.a \in Registers /\ Instr.b \in Memories
    BY <1>1, <2>1, Zenon DEF Decodes
  <2>3. r \in Names /\ v \in Int /\ Instr.a.kind = "reg"
    BY <2>2, Operands, Numbers, Zenon
  <2>4. frames # <<>> /\ KeepsToItsStack => r # "SS"
    <3>1. Destinations = {Instr.a}
      BY <2>1 DEF Destinations
    <3> QED
      BY <1>1, <2>3, <3>1, Zenon DEF KeepsToItsStack, SparesFrames
  <2> HIDE DEF r, v
  <2> QED
    BY <2>1, <2>3, <2>4, WritesRegister, Zenon DEF Typed
<1>5. CASE POP
  <2> DEFINE r == Instr.a.reg
             t == Top(0)
             up == Trunc(regs["SP"] + 2)
             past == Trunc(t + 2)
             g == Changed(regs, "SP", up)
  <2>1. /\ Instr.op = "POP"
        /\ regs' = IF r = "SP" THEN Changed(regs, "SP", past) ELSE WriteReg(g, r, t)
    BY <1>5, Zenon DEF POP, Straight, Executes, Changed
  <2>2. Instr.a \in Registers
    BY <1>1, <2>1, Zenon DEF Decodes
  <2>3. r \in Names /\ Instr.a.kind = "reg"
    BY <2>2, Operands, Zenon
  <2>4. frames # <<>> /\ KeepsToItsStack => r # "SS"
    <3>1. Destinations = {Instr.a}
      BY <2>1 DEF Destinations
    <3> QED
      BY <1>1, <2>3, <3>1, Zenon DEF KeepsToItsStack, SparesFrames
  <2>5. t \in Word
    BY Tops, SMT
  <2> HIDE DEF t, r
  <2>6. regs["SP"] + 2 \in Int /\ t + 2 \in Int
    BY <2>5, Pointing, InWord, SMT
  <2>7. up \in Word /\ past \in Word
    BY <2>6, Widths, Zenon
  <2> HIDE DEF up, past
  <2>8. /\ g \in File /\ g["SS"] = regs["SS"]
        /\ Changed(regs, "SP", past) \in File
        /\ Changed(regs, "SP", past)["SS"] = regs["SS"]
    BY <2>7, PutsPointer, Zenon DEF Typed
  <2> HIDE DEF g
  <2>9. /\ WriteReg(g, r, t) \in File
        /\ r # "SS" => WriteReg(g, r, t)["SS"] = g["SS"]
    BY <2>3, <2>5, <2>8, Numbers, WritesRegister, Zenon
  <2> QED
    BY <2>1, <2>4, <2>8, <2>9, Zenon
<1> QED
  BY <1>2, <1>3, <1>4, <1>5

\* Where transfers go to is an address.
LEMMA Targets ==
  ASSUME Typed, Instr.a \in Values
  PROVE  Target \in Word
<1>1. CASE Instr.a \in Immediates
  <2> DEFINE v == Instr.a.value
  <2>1. Instr.a.kind = "imm" /\ v \in Int
    BY <1>1, Operands, Zenon
  <2>2. Target = Trunc(Follows + v)
    BY <2>1, Zenon DEF Target
  <2> HIDE DEF v
  <2>3. Follows + v \in Int
    BY <2>1, Follow, InWord, SMT
  <2> QED
    BY <2>2, <2>3, Widths, Zenon
<1>2. CASE Instr.a \in Places
  <2>1. Instr.a.kind # "imm"
    BY <1>2, Operands DEF Places
  <2>2. Load(Instr.a, FALSE) \in Word
    BY <1>2, Loads, Zenon
  <2> QED
    BY <2>1, <2>2, Zenon DEF Target
<1> QED
  BY <1>1, <1>2, Zenon DEF Values

\* A pointer is two words, wherever it comes from.
LEMMA FarTargets ==
  ASSUME Typed, Instr.a \in Pointers \cup Memories
  PROVE  FarTarget.segment \in Word /\ FarTarget.offset \in Word
<1>1. CASE Instr.a \in Pointers
  <2>1. Instr.a.kind = "far" /\ Instr.a.segment \in Word /\ Instr.a.offset \in Word
    BY <1>1, Operands, Zenon
  <2>2. FarTarget = [segment |-> Instr.a.segment, offset |-> Instr.a.offset]
    BY <2>1 DEF FarTarget
  <2> QED
    BY <2>1, <2>2
<1>2. CASE Instr.a \in Memories
  <2> DEFINE s == ReadWord(Instr.a.address)
             o == ReadWord(Instr.a.address + 2)
  <2>1. /\ Instr.a.kind = "mem"
        /\ Instr.a.address \in Addresses /\ Instr.a.address + 1 \in Addresses
        /\ Instr.a.address + 2 \in Addresses /\ Instr.a.address + 2 + 1 \in Addresses
    BY <1>2, Operands, Zenon
  <2>2. FarTarget = [segment |-> s, offset |-> o]
    BY <2>1 DEF FarTarget
  <2>3. s \in Word /\ o \in Word
    BY <2>1, ReadsMemory, Zenon DEF Typed, RAM, ReadWord
  <2> HIDE DEF s, o
  <2> QED
    BY <2>2, <2>3
<1> QED
  BY <1>1, <1>2

\* The instructions that only go elsewhere.
LEMMA TypedJumps ==
  ASSUME Typed, Decodes, NEAR_JMP \/ FAR_JMP \/ ConditionalJump \/ LOOP
  PROVE  Typed' /\ Calm
<1>1. ~ checking /\ ~ hlt /\ UNCHANGED <<intr_v, frames, memory, flags>>
  BY Zenon DEF NEAR_JMP, FAR_JMP, ConditionalJump, LOOP, Executes
<1>2. CASE NEAR_JMP
  <2>1. Instr.op = "JMP" /\ ip' = Target /\ regs' = regs
    BY <1>2, Zenon DEF NEAR_JMP, Executes
  <2>2. Instr.a \in Values
    BY <1>1, <2>1, Zenon DEF Decodes
  <2>3. Target \in Word
    BY <2>2, Targets
  <2> QED
    BY <1>1, <2>1, <2>3, RegistersAreCalm, Zenon DEF Typed
<1>3. CASE ConditionalJump
  <2>1. /\ Instr.op \in {"JZ", "JNZ", "JL", "JNL", "JLE", "JNLE", "JCXZ"}
        /\ ip' \in {Target, Follows} /\ regs' = regs
    BY <1>3, Zenon DEF ConditionalJump, Executes
  <2>2. Instr.a \in Immediates
    BY <1>1, <2>1 DEF Decodes
  <2>3. Target \in Word
    BY <2>2, Targets, Zenon DEF Values
  <2> QED
    BY <1>1, <2>1, <2>3, Follow, RegistersAreCalm, Zenon DEF Typed
<1>4. CASE FAR_JMP
  <2> DEFINE s == FarTarget.segment
  <2>1. /\ Instr.op = "JMP FAR" /\ ip' = FarTarget.offset
        /\ regs' = Changed(regs, "CS", s)
    BY <1>4, Zenon DEF FAR_JMP, Executes, Changed
  <2>2. Instr.a \in Pointers \cup Memories
    BY <1>1, <2>1, Zenon DEF Decodes
  <2>3. s \in Word /\ FarTarget.offset \in Word
    BY <2>2, FarTargets
  <2> HIDE DEF s
  <2>4. regs' \in File /\ regs'["SS"] = regs["SS"]
    BY <2>1, <2>3, PutsSegment, Zenon DEF Typed
  <2> QED
    BY <1>1, <2>1, <2>3, <2>4, RegistersAreCalm, Zenon DEF Typed
<1>5. CASE LOOP
  <2> DEFINE n == Trunc(regs["BP"] - 1)
  <2>1. /\ Instr.op = "LOOP" /\ ip' \in {Target, Follows}
        /\ regs' = Changed(regs, "BP", n)
    BY <1>5, Zenon DEF LOOP, Executes, Changed
  <2>2. Instr.a \in Immediates
    BY <1>1, <2>1 DEF Decodes
  <2>3. Target \in Word
    BY <2>2, Targets, Zenon DEF Values
  <2>4. regs["BP"] - 1 \in Int
    BY Pointing, InWord, SMT
  <2>5. n \in Word
    BY <2>4, Widths, Zenon
  <2> HIDE DEF n
  <2>6. "BP" \in WordRegisters /\ "SS" \in WordRegisters \ {"BP"}
    BY DEF WordRegisters
  <2>7. /\ Changed(regs, "BP", n) \in File
        /\ \A s \in WordRegisters \ {"BP"} : Changed(regs, "BP", n)[s] = regs[s]
    BY <2>5, <2>6, PutsRegister, ZenonT(60) DEF Typed
  <2>8. regs' \in File /\ regs'["SS"] = regs["SS"]
    BY <2>1, <2>6, <2>7, Zenon
  <2> QED
    BY <1>1, <2>1, <2>3, <2>8, Follow, RegistersAreCalm, Zenon DEF Typed
<1> QED
  BY <1>2, <1>3, <1>4, <1>5

\* A stack: a pointer, and the memory it points into.
Stacks == [sp : Word, memory : RAM]

\* Pushing a word writes it where the stack pointer goes, and nothing else.
LEMMA Pushing ==
  ASSUME Typed, NEW s \in Stacks, NEW w \in Int
  PROVE  /\ Pushed(s, w) \in Stacks
         /\ Pushed(s, w).sp = Trunc(s.sp - 2)
         /\ \A b \in Addresses :
              b # StackAddress(Pushed(s, w).sp) /\ b # StackAddress(Pushed(s, w).sp) + 1
                => Pushed(s, w).memory[b] = s.memory[b]
         /\ w \in Word =>
              WordAt(Pushed(s, w).memory, StackAddress(Pushed(s, w).sp)) = w
<1> DEFINE sp == Trunc(s.sp - 2)
           a == StackAddress(sp)
           m == WriteWord(s.memory, a, w)
<1>1. s.sp \in Word /\ s.memory \in RAM
  BY SMT DEF Stacks
<1>2. s.sp - 2 \in Int
  BY <1>1, InWord, SMT
<1>3. sp \in Word
  BY <1>2, Widths, Zenon
<1>4. Pushed(s, w) = [sp |-> sp, memory |-> m]
  BY Zenon DEF Pushed
<1> HIDE DEF sp
<1>5. a \in Addresses /\ a + 1 \in Addresses
  BY <1>3, Pointing, Fits, Zenon DEF StackAddress
<1>6. a = StackAddress(sp)
  OBVIOUS
<1> HIDE DEF a
<1>7. /\ m \in RAM
      /\ \A b \in Addresses \ {a, a + 1} : m[b] = s.memory[b]
      /\ w \in Word => WordAt(m, a) = w
  <2> DEFINE old == s.memory
  <2>1. old \in [Addresses -> Byte]
    BY <1>1, Zenon DEF RAM
  <2> HIDE DEF old
  <2>2. /\ WriteWord(old, a, w) \in [Addresses -> Byte]
        /\ \A b \in Addresses \ {a, a + 1} : WriteWord(old, a, w)[b] = old[b]
        /\ w \in Word => WordAt(WriteWord(old, a, w), a) = w
    BY <1>5, <2>1, WritesMemory, Zenon
  <2> QED
    BY <2>2, Zenon DEF old, RAM
<1> HIDE DEF m
<1>8. Pushed(s, w).sp = sp /\ Pushed(s, w).memory = m
  BY <1>4
<1>9. Pushed(s, w) \in Stacks
  BY <1>3, <1>4, <1>7, SMT DEF Stacks
<1> QED
  BY <1>6, <1>7, <1>8, <1>9, Zenon DEF sp

\* The processor's stack is one.
LEMMA StackIsStack ==
  ASSUME Typed
  PROVE  Stack \in Stacks /\ Stack.sp = regs["SP"] /\ Stack.memory = memory
<1>1. regs["SP"] \in Word /\ memory \in RAM
  BY Pointing, Zenon DEF Typed
<1>2. Stack \in Stacks
  BY <1>1 DEF Stack, Stacks
<1>3. Stack.sp = regs["SP"] /\ Stack.memory = memory
  BY DEF Stack
<1> QED
  BY <1>2, <1>3

\* The stack that is put changes the stack pointer and memory.
LEMMA PutsStack ==
  ASSUME NEW f \in File, NEW s \in Stacks, PutStack(s, f)
  PROVE  /\ regs' \in File /\ memory' = s.memory /\ memory' \in RAM
         /\ regs'["SP"] = s.sp /\ regs'["SS"] = f["SS"] /\ regs'["CS"] = f["CS"]
<1>1. s.sp \in Word /\ s.memory \in RAM
  BY SMT DEF Stacks
<1>2. regs' = Changed(f, "SP", s.sp) /\ memory' = s.memory
  BY Zenon DEF PutStack, Changed
<1> QED
  BY <1>1, <1>2, PutsPointer, Zenon

\* What is left behind is a frame, on top of the others.
LEMMA Leaving ==
  ASSUME Typed, NEW kind \in Kinds, NEW resumed \in Word
  PROVE  Left(kind, resumed) \in Seq(Frame)
<1> DEFINE f == [kind |-> kind, cs |-> regs["CS"], ip |-> resumed, sp |-> regs["SP"],
                 flags |-> flags]
<1>1. regs["CS"] \in Word /\ regs["SP"] \in Word
  BY Pointing, Zenon
<1>2. f \in Frame
  BY <1>1, SMT DEF Frame, Typed
<1>3. Left(kind, resumed) = <<f>> \o frames
  BY Zenon DEF Left
<1> HIDE DEF f
<1> QED
  BY <1>2, <1>3, ConcatProperties, SMT DEF Typed

\* What is left when a routine is over is a list of frames.
LEMMA Returning ==
  ASSUME Typed
  PROVE  Returned \in Seq(Frame)
<1>1. CASE frames = <<>>
  BY <1>1 DEF Returned
<1>2. CASE frames # <<>>
  BY <1>2, SMT DEF Returned, Typed
<1> QED
  BY <1>1, <1>2

\* Moving the stack pointer up by some bytes.
LEMMA PopsPointer ==
  ASSUME Typed, NEW n \in Int
  PROVE  Trunc(regs["SP"] + n) \in Word
<1>1. regs["SP"] + n \in Int
  BY Pointing, InWord, SMT
<1> QED
  BY <1>1, Widths, Zenon

\* PUSH and PUSHF push one word, which is all they do to memory.
LEMMA TypedPUSH ==
  ASSUME Typed, Decodes, PUSH \/ PUSHF
  PROVE  /\ Typed'
         /\ \E w \in Int : PutStack(Pushed(Stack, w), regs)
         /\ frames' = frames
<1>1. /\ ~ checking /\ ~ hlt /\ ip' = Follows
      /\ UNCHANGED <<intr_v, frames, flags>>
  BY Zenon DEF PUSH, PUSHF, Straight, Executes
<1>2. PICK w \in Int : PutStack(Pushed(Stack, w), regs)
  <2>1. CASE PUSH
    <3>1. Instr.op = "PUSH" /\ PutStack(Pushed(Stack, Load(Instr.a, FALSE)), regs)
      BY <2>1, Zenon DEF PUSH, Straight, Executes
    <3>2. Instr.a \in Values
      BY <1>1, <3>1, Zenon DEF Decodes
    <3>3. Load(Instr.a, FALSE) \in Int
      BY <3>2, Loads, Zenon
    <3> QED
      BY <3>1, <3>3, Zenon
  <2>2. CASE PUSHF
    BY <2>2, FlagsComeBack, Numbers, Zenon DEF PUSHF, Typed
  <2> QED
    BY <2>1, <2>2
<1>3. Pushed(Stack, w) \in Stacks
  BY StackIsStack, Pushing, Zenon
<1>4. regs' \in File /\ memory' \in RAM
  BY <1>2, <1>3, PutsStack, Zenon DEF Typed
<1> QED
  BY <1>1, <1>2, <1>4, Follow, Zenon DEF Typed

\* POPF takes the flags from any word on the stack, and these are flags.
LEMMA TypedPOPF ==
  ASSUME Typed, POPF
  PROVE  Typed' /\ Calm
<1> DEFINE up == Trunc(regs["SP"] + 2)
<1>1. /\ ip' = Follows /\ UNCHANGED <<intr_v, frames, memory>>
      /\ flags' = FlagsOf(Top(0)) /\ regs' = Changed(regs, "SP", up)
  BY Zenon DEF POPF, Straight, Changed
<1>2. up \in Word
  BY PopsPointer, SMT
<1> HIDE DEF up
<1>3. regs' \in File /\ regs'["SS"] = regs["SS"]
  BY <1>1, <1>2, PutsPointer, Zenon DEF Typed
<1> QED
  BY <1>1, <1>3, FlagsStay, Follow, RegistersAreCalm, Zenon DEF Typed

\* The operand of a near call is a word after the push too.
LEMMA CallTargets ==
  ASSUME Instr.a \in Values, Target \in Word, NEW s \in Stacks
  PROVE  CallTarget(s) \in Word
<1>1. s.sp \in Word /\ s.memory \in RAM
  BY SMT DEF Stacks
<1>2. CASE Instr.a.kind = "mem"
  <2>1. Instr.a \in Memories
    BY <1>2 DEF Values, Places, Registers, Immediates
  <2>2. Instr.a.address \in Addresses /\ Instr.a.address + 1 \in Addresses
    BY <2>1, Operands, Zenon
  <2>3. WordAt(s.memory, Instr.a.address) \in Word
    BY <1>1, <2>2, ReadsMemory, Zenon DEF RAM
  <2> QED
    BY <1>2, <2>3, Zenon DEF CallTarget
<1>3. CASE Instr.a.kind # "mem"
  BY <1>1, <1>3, Zenon DEF CallTarget
<1> QED
  BY <1>2, <1>3

\* Calls push one word or two and go to a word.
LEMMA TypedCall ==
  ASSUME Typed, Decodes, NEAR_CALL \/ FAR_CALL
  PROVE  Typed'
<1>1. ~ checking /\ ~ hlt /\ UNCHANGED <<intr_v, flags>>
  BY Zenon DEF NEAR_CALL, FAR_CALL, Executes
<1>2. CASE NEAR_CALL
  <2>1. /\ Instr.op = "CALL" /\ PutStack(Pushed(Stack, Follows), regs)
        /\ ip' = CallTarget(Pushed(Stack, Follows)) /\ frames' = Left("near", Follows)
    BY <1>2, Zenon DEF NEAR_CALL, Executes
  <2>2. Target \in Word /\ Instr.a \in Values
    BY <1>1, <2>1, Targets, Zenon DEF Decodes
  <2>3. Pushed(Stack, Follows) \in Stacks
    BY StackIsStack, Follow, Numbers, Pushing, Zenon
  <2>6. ip' \in Word
    BY <2>1, <2>2, <2>3, CallTargets, Zenon
  <2>4. regs' \in File /\ memory' \in RAM
    BY <2>1, <2>3, PutsStack, Zenon DEF Typed
  <2>5. frames' \in Seq(Frame)
    BY <2>1, Leaving, Follow, Zenon DEF Kinds
  <2> QED
    BY <1>1, <2>1, <2>4, <2>5, <2>6, Zenon DEF Typed
<1>3. CASE FAR_CALL
  <2> DEFINE f == Changed(regs, "CS", FarTarget.segment)
             one == Pushed(Stack, regs["CS"])
             two == Pushed(one, Follows)
  <2>1. /\ Instr.op = "CALL FAR" /\ PutStack(two, f)
        /\ ip' = FarTarget.offset /\ frames' = Left("far", Follows)
    BY <1>3, Zenon DEF FAR_CALL, Executes, Changed
  <2>2. FarTarget.offset \in Word /\ f \in File
    <3>1. Instr.a \in Pointers \cup Memories
      BY <1>1, <2>1, Zenon DEF Decodes
    <3> QED
      BY <3>1, FarTargets, PutsSegment, Zenon DEF Typed
  <2>3. one \in Stacks
    BY StackIsStack, Pointing, Numbers, Pushing, Zenon
  <2> HIDE DEF one
  <2>4. two \in Stacks
    BY <2>3, Follow, Numbers, Pushing, Zenon
  <2> HIDE DEF two, f
  <2>5. regs' \in File /\ memory' \in RAM
    BY <2>1, <2>2, <2>4, PutsStack, Zenon
  <2>6. frames' \in Seq(Frame)
    BY <2>1, Leaving, Follow, Zenon DEF Kinds
  <2> QED
    BY <1>1, <2>1, <2>2, <2>5, <2>6, Zenon DEF Typed
<1> QED
  BY <1>2, <1>3

\* The vectors lead to words, and interrupting is another way of calling.
LEMMA Vectored ==
  ASSUME NEW m \in RAM, NEW v \in Byte
  PROVE  WordAt(m, 4 * v) \in Word /\ WordAt(m, 4 * v + 2) \in Word
<1> DEFINE a == 4 * v
           b == 4 * v + 2
<1>1. a \in Addresses /\ a + 1 \in Addresses /\ b \in Addresses /\ b + 1 \in Addresses
  BY Fits, Zenon
<1> HIDE DEF a, b
<1>2. WordAt(m, a) \in Word /\ WordAt(m, b) \in Word
  BY <1>1, ReadsMemory, Zenon DEF RAM
<1> QED
  BY <1>2, Zenon DEF a, b

\* An interrupt pushes three words and takes its target from the table.
LEMMA TypedInterrupt ==
  ASSUME Typed, NEW kind \in Kinds, NEW v \in Byte, NEW resumed \in Word,
         Interrupt(kind, v, resumed), intr_v' \in Byte
  PROVE  Typed'
<1> DEFINE one == Pushed(Stack, FlagsWord(flags))
           two == Pushed(one, regs["CS"])
           three == Pushed(two, resumed)
           f == Changed(regs, "CS", WordAt(one.memory, 4 * v + 2))
<1>1. /\ PutStack(three, f) /\ ip' = WordAt(one.memory, 4 * v)
      /\ flags' = flags \ {INTF} /\ frames' = Left(kind, resumed)
  BY Zenon DEF Interrupt, Changed
<1>2. FlagsWord(flags) \in Int /\ regs["CS"] \in Int /\ resumed \in Int
  BY FlagsComeBack, Pointing, Numbers, Zenon DEF Typed
<1>3. one \in Stacks
  BY <1>2, StackIsStack, Pushing, Zenon
<1> HIDE DEF one
<1>4. two \in Stacks
  BY <1>2, <1>3, Pushing, Zenon
<1> HIDE DEF two
<1>5. three \in Stacks
  BY <1>2, <1>4, Pushing, Zenon
<1> HIDE DEF three
<1>6. f \in File /\ ip' \in Word
  <2>1. one.memory \in RAM
    BY <1>3 DEF Stacks
  <2> QED
    BY <1>1, <2>1, Vectored, PutsSegment, Zenon DEF Typed
<1> HIDE DEF f
<1>7. regs' \in File /\ memory' \in RAM
  BY <1>1, <1>5, <1>6, PutsStack, Zenon
<1>8. frames' \in Seq(Frame)
  BY <1>1, Leaving, Zenon
<1> QED
  BY <1>1, <1>6, <1>7, <1>8, Zenon DEF Typed

\* Returns pop what is on top, whatever that is.
LEMMA TypedReturn ==
  ASSUME Typed, Decodes, NEAR_RET \/ FAR_RET \/ IRET
  PROVE  Typed'
<1>1. /\ ~ checking /\ ~ hlt /\ UNCHANGED <<intr_v, memory>>
      /\ ip' = Top(0) /\ frames' = Returned
  BY Zenon DEF NEAR_RET, FAR_RET, IRET, Executes
<1>2. ip' \in Word /\ Top(1) \in Word
  BY <1>1, Tops, SMT
<1>3. frames' \in Seq(Frame)
  BY <1>1, Returning, Zenon
<1>4. Drops \subseteq Word
  BY ProcessorAssumption, Zenon
<1>5. CASE NEAR_RET
  <2> DEFINE up == Trunc(regs["SP"] + 2 + Instr.drop)
  <2>1. Instr.op = "RET" /\ flags' = flags /\ regs' = Changed(regs, "SP", up)
    BY <1>5, Zenon DEF NEAR_RET, Executes, Changed
  <2>2. Instr.drop \in Word
    BY <1>1, <1>4, <2>1, Zenon DEF Decodes
  <2>3. up \in Word
    <3>1. regs["SP"] + 2 + Instr.drop \in Int
      BY <2>2, Pointing, InWord, SMT
    <3> QED
      BY <3>1, Widths, Zenon
  <2> HIDE DEF up
  <2>4. regs' \in File
    BY <2>1, <2>3, PutsPointer, Zenon DEF Typed
  <2> QED
    BY <1>1, <1>2, <1>3, <2>1, <2>4, Zenon DEF Typed
<1>6. CASE FAR_RET
  <2> DEFINE g == Changed(regs, "CS", Top(1))
             up == Trunc(regs["SP"] + 4 + Instr.drop)
  <2>1. Instr.op = "RETF" /\ flags' = flags /\ regs' = Changed(g, "SP", up)
    BY <1>6 DEF FAR_RET, Executes, Changed
  <2>2. Instr.drop \in Word
    BY <1>1, <1>4, <2>1, Zenon DEF Decodes
  <2>3. up \in Word
    <3>1. regs["SP"] + 4 + Instr.drop \in Int
      BY <2>2, Pointing, InWord, SMT
    <3> QED
      BY <3>1, Widths, Zenon
  <2>4. g \in File
    BY <1>2, PutsSegment, Zenon DEF Typed
  <2> HIDE DEF up, g
  <2>5. regs' \in File
    BY <2>1, <2>3, <2>4, PutsPointer, Zenon
  <2> QED
    BY <1>1, <1>2, <1>3, <2>1, <2>5, Zenon DEF Typed
<1>7. CASE IRET
  <2> DEFINE g == Changed(regs, "CS", Top(1))
             up == Trunc(regs["SP"] + 6)
  <2>1. flags' = FlagsOf(Top(2)) /\ regs' = Changed(g, "SP", up)
    BY <1>7 DEF IRET, Changed
  <2>2. up \in Word
    BY PopsPointer, SMT
  <2>3. g \in File
    BY <1>2, PutsSegment, Zenon DEF Typed
  <2> HIDE DEF up, g
  <2>4. regs' \in File
    BY <2>1, <2>2, <2>3, PutsPointer, Zenon
  <2> QED
    BY <1>1, <1>2, <1>3, <2>1, <2>4, FlagsStay, Zenon DEF Typed
<1> QED
  BY <1>5, <1>6, <1>7

-----------------------------------------------------------------------------
(* The type invariant.                                                     *)

\* The latches and the count of requests.
Switches ==
  /\ hlt \in BOOLEAN /\ intr \in BOOLEAN /\ checking \in BOOLEAN
  /\ requests \in 0 .. MaxRequests

\* The inductive invariant: memory keeps its size too, and what was left behind is a
\* list of frames.
TInv == Typed /\ Switches

\* The inductive invariant has the types.
LEMMA InvariantTypes == TInv => TypeOK
<1> SUFFICES ASSUME TInv PROVE TypeOK
  OBVIOUS
<1>1. regs \in [WordRegisters -> Word] /\ ip \in Word /\ intr_v \in Byte
  BY Zenon DEF TInv, Typed, File
<1>2. flags \subseteq 0 .. 15
  BY Zenon DEF TInv, Typed, Flags
<1>3. \A a \in DOMAIN memory : memory[a] \in Byte
  BY SMT DEF TInv, Typed, RAM
<1> QED
  BY <1>1, <1>2, <1>3, Zenon DEF TypeOK, TInv, Switches

\* What the constructor leaves has the types, in whole memory.
LEMMA InitTypes ==
  ASSUME WholeMemory, Init
  PROVE  TInv
<1>1. regs \in File
  <2>1. 61440 \in Word /\ 3824 \in Word /\ 255 \in Word /\ 0 \in Word
    BY InWord, SMT
  <2>2. regs = [r \in WordRegisters |-> CASE r = "CS" -> 61440
                                          [] r = "SS" -> 3824
                                          [] r = "SP" -> 255
                                          [] OTHER    -> 0]
    BY SMT DEF Init
  <2> QED
    BY <2>1, <2>2, SMT DEF File
<1>2. ip \in Word /\ intr_v \in Byte
  BY InWord, InByte, SMT DEF Init
<1>3. flags \in SUBSET Flags
  BY SMT DEF Init, Flags
<1>4. memory \in RAM
  BY SMT DEF Init, WholeMemory, RAM
<1>5. frames \in Seq(Frame)
  BY SMT DEF Init
<1>6. Switches
  <2>1. hlt = FALSE /\ intr = FALSE /\ checking = FALSE /\ requests = 0
    BY SMT DEF Init
  <2>2. 0 \in 0 .. MaxRequests
    BY ProcessorAssumption, SMT
  <2> QED
    BY <2>1, <2>2, Zenon DEF Switches
<1> QED
  BY <1>1, <1>2, <1>3, <1>4, <1>5, <1>6, Zenon DEF TInv, Typed

\* An instruction sets the latches or leaves them.
LEMMA SwitchesStay ==
  ASSUME Switches, [Next]_vars
  PROVE  Switches'
<1>1. ASSUME NEW ops, Executes(ops) PROVE checking' = TRUE /\ UNCHANGED <<intr, requests>>
  BY <1>1, Zenon DEF Executes
<1>2. ASSUME NEW ops, Straight(ops) PROVE checking' = TRUE /\ UNCHANGED <<intr, requests>>
  BY <1>1, <1>2, Zenon DEF Straight
<1>3. CASE DataTransfer
  <2>1. hlt' = hlt
    BY <1>3, Zenon DEF DataTransfer, MOV, XCHG, XLAT, LEA, LAHF, SAHF, PUSH, POP, PUSHF, POPF
  <2>2. checking' = TRUE /\ UNCHANGED <<intr, requests>>
    BY <1>2, <1>3, Zenon
       DEF DataTransfer, MOV, XCHG, XLAT, LEA, LAHF, SAHF, PUSH, POP, PUSHF, POPF
  <2> QED
    BY <2>1, <2>2, Zenon DEF Switches
<1>4. CASE Arithmetic
  <2>1. hlt' = hlt /\ \E ops : Straight(ops)
    <3>1. CASE ADD \/ SUB \/ CMP \/ INC \/ DEC \/ NEG
      BY <3>1, Zenon DEF ADD, SUB, CMP, INC, DEC, NEG
    <3>2. CASE MUL \/ DIV
      BY <3>2, Zenon DEF MUL, DIV
    <3>3. CASE NOT
      BY <3>3 DEF NOT
    <3> QED
      BY <1>4, <3>1, <3>2, <3>3, Zenon DEF Arithmetic
  <2>2. checking' = TRUE /\ UNCHANGED <<intr, requests>>
    BY <1>2, <2>1, Zenon
  <2> QED
    BY <2>1, <2>2, Zenon DEF Switches
<1>5. CASE ControlTransfer
  <2>1. hlt' \in {hlt, FALSE}
    <3>1. CASE INT
      BY <3>1, Zenon DEF INT, Interrupt
    <3>2. CASE NEAR_CALL \/ FAR_CALL
      BY <3>2, Zenon DEF NEAR_CALL, FAR_CALL
    <3>3. CASE NEAR_RET \/ FAR_RET \/ IRET
      BY <3>3, Zenon DEF NEAR_RET, FAR_RET, IRET
    <3>4. CASE NEAR_JMP \/ FAR_JMP \/ ConditionalJump \/ LOOP
      BY <3>4, Zenon DEF NEAR_JMP, FAR_JMP, ConditionalJump, LOOP
    <3> QED
      BY <1>5, <3>1, <3>2, <3>3, <3>4, Zenon DEF ControlTransfer
  <2>2. checking' = TRUE /\ UNCHANGED <<intr, requests>>
    <3>1. CASE INT
      BY <1>1, <3>1, Zenon DEF INT
    <3>2. CASE NEAR_CALL \/ FAR_CALL
      BY <1>1, <3>2, Zenon DEF NEAR_CALL, FAR_CALL
    <3>3. CASE NEAR_RET \/ FAR_RET \/ IRET
      BY <1>1, <3>3, Zenon DEF NEAR_RET, FAR_RET, IRET
    <3>4. CASE NEAR_JMP \/ FAR_JMP \/ ConditionalJump \/ LOOP
      BY <1>1, <3>4, Zenon DEF NEAR_JMP, FAR_JMP, ConditionalJump, LOOP
    <3> QED
      BY <1>5, <3>1, <3>2, <3>3, <3>4, Zenon DEF ControlTransfer
  <2> QED
    BY <2>1, <2>2, Zenon DEF Switches
<1>6. CASE ProcessorControl
  <2>1. hlt' \in {hlt, TRUE}
    BY <1>6, Zenon DEF ProcessorControl, ChangeFlag, HLT
  <2>2. checking' = TRUE /\ UNCHANGED <<intr, requests>>
    BY <1>2, <1>6, Zenon DEF ProcessorControl, ChangeFlag, HLT
  <2> QED
    BY <2>1, <2>2, Zenon DEF Switches
<1>7. CASE Serve \/ PassOn
  BY <1>7, Zenon DEF Serve, PassOn, Checks, Interrupt, Switches
<1>8. CASE DeviceRequest
  <2>1. /\ intr' = TRUE /\ UNCHANGED <<hlt, checking>>
        /\ requests < MaxRequests /\ requests' = requests + 1
    BY <1>8, Zenon DEF DeviceRequest
  <2> QED
    BY <2>1, ProcessorAssumption, SMT DEF Switches
<1>9. CASE UNCHANGED vars
  BY <1>9, Zenon DEF vars, Switches
<1> QED
  BY <1>3, <1>4, <1>5, <1>6, <1>7, <1>8, <1>9, Zenon DEF Next, Clock

\* Every operation computes with wider or negative numbers, and leaves words and bytes.
LEMMA StepTypes ==
  ASSUME TInv, Decodes, [Next]_vars
  PROVE  TInv'
<1>1. Switches'
  BY SwitchesStay, Zenon DEF TInv
<1> SUFFICES Typed'
  BY <1>1, Zenon DEF TInv
<1> USE DEF TInv
<1>2. CASE DataTransfer
  BY <1>2, TypedMOV, TypedXCHG, TypedRegister, TypedFlags, TypedPUSH, TypedPOPF, Zenon
     DEF DataTransfer
<1>3. CASE Arithmetic
  BY <1>3, TypedFlags, TypedINC, TypedDEC, TypedNEG, TypedMUL, TypedDIV, TypedNOT, Zenon
     DEF Arithmetic
<1>4. CASE INT
  <2>1. /\ ~ checking /\ ~ hlt /\ Instr.op = "INT" /\ intr_v' = Instr.vector
        /\ Interrupt("INT", Instr.vector, Follows)
    BY <1>4, Zenon DEF INT, Executes
  <2>2. Instr.vector \in Byte
    BY <2>1, Zenon DEF Decodes
  <2>3. Follows \in Word /\ "INT" \in Kinds
    BY Follow, Zenon DEF Kinds
  <2> QED
    BY <2>1, <2>2, <2>3, TypedInterrupt, Zenon
<1>5. CASE ControlTransfer
  BY <1>4, <1>5, TypedCall, TypedReturn, TypedJumps, Zenon DEF ControlTransfer
<1>6. CASE ProcessorControl
  BY <1>6, TypedFlags, Zenon DEF ProcessorControl
<1>7. CASE Serve
  <2>1. Interrupt("hardware", intr_v, ip) /\ intr_v' = intr_v
    BY <1>7, Zenon DEF Serve
  <2>2. ip \in Word /\ intr_v \in Byte /\ "hardware" \in Kinds
    BY Zenon DEF Typed, Kinds
  <2> QED
    BY <2>1, <2>2, TypedInterrupt, Zenon
<1>8. CASE PassOn
  BY <1>8, Zenon DEF PassOn, Typed
<1>9. CASE DeviceRequest
  BY <1>9, ProcessorAssumption, Zenon DEF DeviceRequest, Typed
<1>10. CASE UNCHANGED vars
  BY <1>10, Zenon DEF vars, Typed
<1> QED
  BY <1>2, <1>3, <1>5, <1>6, <1>7, <1>8, <1>9, <1>10, Zenon DEF Next, Clock

\* Whatever a program computes, registers hold words and memory bytes, provided that
\* memory is whole, so that every address that instructions form is one, and that what
\* is decoded is an instruction.
THEOREM TypeCorrect ==
  ASSUME WholeMemory
  PROVE  Spec /\ []Decodes => []TypeOK
<1>1. Init => TInv
  BY InitTypes
<1>2. TInv /\ Decodes /\ [Next]_vars => TInv'
  BY StepTypes
<1>3. TInv => TypeOK
  BY InvariantTypes
<1> QED
  BY <1>1, <1>2, <1>3, PTL DEF Spec

-----------------------------------------------------------------------------
(* Stack pointers, which wrap around.                                      *)

\* How far y is below x.
Below(x, y) == Trunc(x - y)

\* Going down, as long as it does not wrap around to x.
LEMMA GoesDown ==
  ASSUME NEW x \in Word, NEW y \in Word, NEW k \in {2, 4, 6}, Below(x, y) + k \in Word
  PROVE  Trunc(y - k) \in Word /\ Below(x, Trunc(y - k)) = Below(x, y) + k
<1>1. /\ x \in Int /\ 0 <= x /\ x <= 65535
      /\ y \in Int /\ 0 <= y /\ y <= 65535
      /\ k \in Int /\ 0 <= k /\ k <= 6 /\ Below(x, y) + k <= 65535
  BY InWord, SMT
<1>2. /\ Trunc(y - k) = IF y >= k THEN y - k ELSE y - k + 65536
      /\ Below(x, y) = IF x >= y THEN x - y ELSE x - y + 65536
  BY <1>1, SMT DEF Trunc, Below
<1> DEFINE z == Trunc(y - k)
<1>3. z \in Int /\ 0 <= z /\ z <= 65535
  BY <1>1, <1>2, SMT
<1>4. z = IF y >= k THEN y - k ELSE y - k + 65536
  BY <1>2, SMT
<1> HIDE DEF z
<1>5. Below(x, z) = IF x >= z THEN x - z ELSE x - z + 65536
  BY <1>1, <1>3, SMT DEF Trunc, Below
<1>6. Below(x, z) = Below(x, y) + k
  BY <1>1, <1>2, <1>3, <1>4, <1>5, SMT
<1> QED
  BY <1>3, <1>6, InWord, SMT DEF z

\* Words at different depths do not overlap, even where the upper byte of one is
\* beyond the segment.
LEMMA NoOverlap ==
  ASSUME NEW x \in Word, NEW y \in Word, NEW z \in Word, NEW s \in Word,
         Below(x, y) + 2 <= Below(x, z), Below(x, z) + 1 \in Word
  PROVE  {16 * s + y, 16 * s + y + 1} \cap {16 * s + z, 16 * s + z + 1} = {}
<1>1. /\ x \in Int /\ 0 <= x /\ x <= 65535
      /\ y \in Int /\ 0 <= y /\ y <= 65535
      /\ z \in Int /\ 0 <= z /\ z <= 65535
      /\ s \in Int /\ Below(x, z) + 1 <= 65535
  BY InWord, SMT
<1>2. /\ Below(x, y) = IF x >= y THEN x - y ELSE x - y + 65536
      /\ Below(x, z) = IF x >= z THEN x - z ELSE x - z + 65536
  BY <1>1, SMT DEF Trunc, Below
<1>3. y # z /\ y + 1 # z /\ y # z + 1
  BY <1>1, <1>2, SMT
<1> QED
  BY <1>1, <1>3, SMT

\* Numbers that differ by the size of a segment are the same word.
LEMMA WrapsAround == \A a \in Int : Trunc(a + 65536) = Trunc(a) /\ Trunc(a - 65536) = Trunc(a)
BY SMT DEF Trunc

\* Whoever is k below x has gone down from there, and comes back.
LEMMA ComesBack ==
  ASSUME NEW x \in Word, NEW y \in Word, NEW z \in Word, NEW k \in 0 .. 6,
         Below(x, z) = Below(x, y) + k
  PROVE  \A n \in Int : Trunc(z + n) = Trunc(y - k + n)
<1>1. /\ x \in Int /\ 0 <= x /\ x <= 65535
      /\ y \in Int /\ 0 <= y /\ y <= 65535
      /\ z \in Int /\ 0 <= z /\ z <= 65535
      /\ k \in Int /\ 0 <= k /\ k <= 6
  BY InWord, SMT
<1>2. /\ Below(x, y) = IF x >= y THEN x - y ELSE x - y + 65536
      /\ Below(x, z) = IF x >= z THEN x - z ELSE x - z + 65536
  BY <1>1, SMT DEF Trunc, Below
<1>3. z = y - k \/ z = y - k + 65536 \/ z = y - k - 65536
  BY <1>1, <1>2, SMT
<1> SUFFICES ASSUME NEW n \in Int PROVE Trunc(z + n) = Trunc(y - k + n)
  OBVIOUS
<1> DEFINE a == y - k + n
<1>4. a \in Int /\ (z + n = a \/ z + n = a + 65536 \/ z + n = a - 65536)
  BY <1>1, <1>3, SMT
<1> HIDE DEF a
<1>5. Trunc(z + n) = Trunc(a)
  BY <1>4, WrapsAround, SMT
<1> QED
  BY <1>5, Zenon DEF a

\* How far one word is below another is a word.
LEMMA BelowIsWord == \A x, y \in Word : Below(x, y) \in Word
<1> SUFFICES ASSUME NEW x \in Word, NEW y \in Word PROVE Trunc(x - y) \in Word
  BY Zenon DEF Below
<1>1. x - y \in Int
  BY InWord, SMT
<1> QED
  BY <1>1, Widths, Zenon

\* Nothing is below itself.
LEMMA BelowItself == \A x \in Word : Below(x, x) = 0
BY InWord, SMT DEF Below, Trunc

-----------------------------------------------------------------------------
(* The frames of the open routines.                                        *)

\* Which bytes below its stack pointer a frame has words at, and which words.
Offsets(f) == {2, 4, 6} \cap 0 .. SavedSize(f.kind)
Slot(f, k) == IF k = SavedSize(f.kind) THEN f.ip
              ELSE IF k = SavedSize(f.kind) - 2 THEN f.cs
              ELSE FlagsWord(f.flags)

\* The words of frame f are in the memory m, in the stack segment s.
Holds(m, s, f) ==
  \A k \in Offsets(f) : WordAt(m, 16 * s + Trunc(f.sp - k)) = Slot(f, k)

Intact == \A i \in DOMAIN frames : Holds(memory, regs["SS"], frames[i])

\* Inner routines were entered below the frames of those around them.
Nested ==
  \A i, j \in DOMAIN frames :
    i < j => Depth(frames[j].sp) + SavedSize(frames[j].kind) <= Depth(frames[i].sp)

SInv == TInv /\ Nested /\ Intact

\* Where the outermost routine was entered.
Base == frames[Len(frames)].sp

\* What the fields of frames hold.
LEMMA FieldsOfFrames ==
  /\ \A f \in Frame : /\ f.kind \in Kinds /\ f.cs \in Word /\ f.ip \in Word
                      /\ f.sp \in Word /\ f.flags \in SUBSET Flags
  /\ Typed => \A i \in DOMAIN frames : frames[i] \in Frame
<1>1. \A f \in Frame : /\ f.kind \in Kinds /\ f.cs \in Word /\ f.ip \in Word
                       /\ f.sp \in Word /\ f.flags \in SUBSET Flags
  BY SMT DEF Frame
<1>2. Typed => \A i \in DOMAIN frames : frames[i] \in Frame
  BY SMT DEF Typed
<1> QED
  BY <1>1, <1>2, Zenon

\* A frame has one, two or three words.
LEMMA SizesOfFrames ==
  ASSUME NEW f \in Frame
  PROVE  /\ SavedSize(f.kind) \in {2, 4, 6}
         /\ f.kind = "near" => SavedSize(f.kind) = 2
         /\ f.kind = "far" => SavedSize(f.kind) = 4
         /\ f.kind \in {"INT", "hardware"} => SavedSize(f.kind) = 6
         /\ \A k : k \in Offsets(f) <=> k \in {2, 4, 6} /\ k <= SavedSize(f.kind)
<1>1. f.kind \in {"near", "far", "INT", "hardware"}
  BY FieldsOfFrames, Zenon DEF Kinds
<1>2. /\ SavedSize(f.kind) \in {2, 4, 6}
      /\ f.kind = "near" => SavedSize(f.kind) = 2
      /\ f.kind = "far" => SavedSize(f.kind) = 4
      /\ f.kind \in {"INT", "hardware"} => SavedSize(f.kind) = 6
  BY <1>1 DEF SavedSize
<1> DEFINE n == SavedSize(f.kind)
<1> HIDE DEF n
<1>3. \A k : k \in {2, 4, 6} \cap 0 .. n <=> k \in {2, 4, 6} /\ k <= n
  <2>1. n \in {2, 4, 6}
    BY <1>2, Zenon DEF n
  <2> QED
    BY <2>1, SMT
<1> QED
  BY <1>2, <1>3, Zenon DEF n, Offsets

\* The outermost routine, if there is one, was entered with a word for stack pointer,
\* and depths are counted from there.
LEMMA Outermost ==
  ASSUME Typed, frames # <<>>
  PROVE  /\ 1 \in DOMAIN frames /\ frames[1] \in Frame
         /\ Base \in Word /\ \A x : Depth(x) = Below(Base, x)
<1>1. 1 \in DOMAIN frames /\ Len(frames) \in DOMAIN frames
  BY SMT DEF Typed
<1>2. frames[1] \in Frame /\ frames[Len(frames)] \in Frame
  BY <1>1, FieldsOfFrames, Zenon
<1>3. \A x : Depth(x) = Below(Base, x)
  BY Zenon DEF Depth, Below, Base
<1> QED
  BY <1>1, <1>2, <1>3, FieldsOfFrames, Zenon DEF Base

\* All words of the frames lie above the stack pointer of the innermost routine.
LEMMA Above ==
  ASSUME Typed, Nested, frames # <<>>, Entered <= Depth(regs["SP"]),
         NEW i \in DOMAIN frames
  PROVE  /\ Depth(frames[i].sp) + SavedSize(frames[i].kind) <= Depth(regs["SP"])
         /\ \A k \in Offsets(frames[i]) :
              /\ Trunc(frames[i].sp - k) \in Word
              /\ Depth(Trunc(frames[i].sp - k)) = Depth(frames[i].sp) + k
              /\ Depth(Trunc(frames[i].sp - k)) <= Depth(regs["SP"])
<1> DEFINE f == frames[i]
           n == SavedSize(f.kind)
           d == Depth(f.sp)
           deep == Depth(regs["SP"])
           first == Depth(frames[1].sp)
           size == SavedSize(frames[1].kind)
<1>1. f \in Frame /\ f.sp \in Word
  BY FieldsOfFrames, Zenon
<1>2. frames[1] \in Frame /\ frames[1].sp \in Word /\ Base \in Word /\ regs["SP"] \in Word
      /\ 1 \in DOMAIN frames
  BY Outermost, FieldsOfFrames, Pointing, Zenon
<1>3. d \in Word /\ deep \in Word /\ first \in Word
  BY <1>1, <1>2, Outermost, BelowIsWord, Zenon
<1>4. n \in {2, 4, 6} /\ size \in {2, 4, 6}
      /\ \A k \in Offsets(f) : k \in {2, 4, 6} /\ k <= n
  BY <1>1, <1>2, SizesOfFrames, Zenon
<1>5. first + size <= deep
  BY Zenon DEF Entered
<1>6. i = 1 \/ 1 < i
  BY SMT DEF Typed
<1>7. d + n <= deep
  <2>1. CASE i = 1
    BY <1>5, <2>1, Zenon
  <2>2. CASE 1 < i
    <3>1. first + size <= deep /\ d + n <= first
      BY <1>2, <1>5, <2>2, Zenon DEF Nested
    <3> HIDE DEF d, n, first, size, deep
    <3> QED
      BY <1>3, <1>4, <3>1, InWord, SMT
  <2> QED
    BY <1>6, <2>1, <2>2
<1>8. ASSUME NEW k \in Offsets(f)
      PROVE  /\ Trunc(f.sp - k) \in Word
             /\ Depth(Trunc(f.sp - k)) = d + k
             /\ Depth(Trunc(f.sp - k)) <= deep
  <2>1. k \in {2, 4, 6} /\ d + k \in Word /\ d + k <= deep
    <3>1. k \in {2, 4, 6} /\ k <= n
      BY <1>4, Zenon
    <3> HIDE DEF d, n, deep
    <3> QED
      BY <1>3, <1>4, <1>7, <3>1, InWord, SMTT(60)
  <2> DEFINE o == f.sp
  <2>2. o \in Word /\ Below(Base, o) = d
    <3>1. o \in Word /\ Depth(o) = d
      BY <1>1, Zenon
    <3> HIDE DEF o, d
    <3> QED
      BY <3>1, Outermost, Zenon
  <2> HIDE DEF o, d, deep
  <2>3. Trunc(o - k) \in Word /\ Below(Base, Trunc(o - k)) = d + k
    <3>1. Below(Base, o) + k \in Word
      BY <2>1, <2>2, Zenon
    <3>2. Base \in Word /\ o \in Word /\ k \in {2, 4, 6}
      BY <1>2, <2>1, <2>2, Zenon
    <3>3. Trunc(o - k) \in Word /\ Below(Base, Trunc(o - k)) = Below(Base, o) + k
      BY <3>1, <3>2, GoesDown, ZenonT(60)
    <3> QED
      BY <2>2, <3>3, Zenon
  <2>4. Depth(Trunc(o - k)) = Below(Base, Trunc(o - k))
    BY Outermost, Zenon
  <2>5. Trunc(o - k) \in Word /\ Depth(Trunc(o - k)) = d + k /\ Depth(Trunc(o - k)) <= deep
    BY <2>1, <2>3, <2>4
  <2> QED
    BY <2>5 DEF o
<1> QED
  BY <1>7, <1>8, Zenon

\* A step that is calm leaves the frames and their words.
LEMMA CalmKeeps ==
  ASSUME SInv, KeepsToItsStack, Calm
  PROVE  Nested' /\ Intact'
<1> USE DEF SInv, TInv
<1>1. CASE frames = <<>>
  <2>1. frames' = <<>>
    BY <1>1, Zenon DEF Calm
  <2>2. DOMAIN frames' = {}
    BY <2>1
  <2> QED
    BY <2>2, Zenon DEF Nested, Intact
<1>2. CASE frames # <<>>
  <2>1. /\ frames' = frames /\ regs'["SS"] = regs["SS"]
        /\ \A a \in SavedAddresses \cap Addresses : memory'[a] = memory[a]
    BY <1>2, Zenon DEF Calm
  <2>2. Nested'
    <3>1. \A x : Depth(x)' = Depth(x')
      BY <2>1, Zenon DEF Depth
    <3> QED
      BY <2>1, Zenon DEF Nested, Depth
  <2>3. ASSUME NEW i \in DOMAIN frames, NEW k \in Offsets(frames[i])
        PROVE  WordAt(memory', 16 * regs["SS"] + Trunc(frames[i].sp - k))
                 = WordAt(memory, 16 * regs["SS"] + Trunc(frames[i].sp - k))
    <3> DEFINE o == Trunc(frames[i].sp - k)
               a == 16 * regs["SS"] + o
    <3>1. o \in Word
      <4>1. frames[i].sp \in Word /\ k \in {2, 4, 6}
        BY <2>3, FieldsOfFrames, Zenon DEF Offsets
      <4>2. frames[i].sp - k \in Int
        BY <4>1, InWord, SMT
      <4> QED
        BY <4>2, Widths, Zenon
    <3>2. k \in {2, 4, 6} \cap 0 .. SavedSize(frames[i].kind)
      BY <2>3, Zenon DEF Offsets
    <3>3. a + 0 \in SavedAddresses /\ a + 1 \in SavedAddresses
      <4> DEFINE at == StackAddress(o)
                 T(n) == {StackAddress(Trunc(frames[n].sp - c)) + j :
                            c \in {2, 4, 6} \cap 0 .. SavedSize(frames[n].kind), j \in {0, 1}}
      <4>1. at + 0 \in T(i) /\ at + 1 \in T(i)
        BY <3>2
      <4>2. SavedAddresses = UNION {T(n) : n \in DOMAIN frames}
        BY DEF SavedAddresses
      <4>3. at = a
        BY DEF StackAddress
      <4> HIDE DEF at, a, T
      <4> QED
        BY <4>1, <4>2, <4>3, Zenon
    <3> HIDE DEF o
    <3>4. a \in Addresses /\ a + 1 \in Addresses
      BY <3>1, Pointing, Fits, Zenon
    <3> HIDE DEF a
    <3>5. a + 0 = a
      BY <3>4, Numbers, SMT
    <3>6. memory'[a] = memory[a] /\ memory'[a + 1] = memory[a + 1]
      BY <2>1, <3>3, <3>4, <3>5, Zenon
    <3>7. WordAt(memory', a) = WordAt(memory, a)
      BY <3>6, Zenon DEF WordAt
    <3> QED
      BY <3>7, Zenon DEF a, o
  <2>4. Intact'
    BY <2>1, <2>3, Zenon DEF Intact, Holds
  <2> QED
    BY <2>2, <2>4
<1> QED
  BY <1>1, <1>2

\* Where depths are counted from, or would be if a routine was entered now.
Bottom == IF frames = <<>> THEN regs["SP"] ELSE Base

\* The words that are not below the stack pointer are in m as they are in memory.
Kept(m) ==
  \A y \in Word : Below(Bottom, y) <= Below(Bottom, regs["SP"]) =>
    WordAt(m, 16 * regs["SS"] + y) = WordAt(memory, 16 * regs["SS"] + y)

\* A program that keeps to its stack leaves room for the words of an interrupt.
LEMMA Room ==
  ASSUME Typed, KeepsToItsStack
  PROVE  /\ Bottom \in Word /\ Below(Bottom, regs["SP"]) \in Word
         /\ Below(Bottom, regs["SP"]) + 7 \in Word
<1> DEFINE d == Below(Bottom, regs["SP"])
<1>1. regs["SP"] \in Word
  BY Pointing, Zenon
<1>2. CASE frames = <<>>
  <2>1. Bottom = regs["SP"]
    BY <1>2, Zenon DEF Bottom
  <2>2. d = 0
    BY <1>1, <2>1, BelowItself, Zenon
  <2> HIDE DEF d
  <2>3. d \in Word /\ d + 7 \in Word
    BY <2>2, InWord, SMT
  <2> QED
    BY <1>1, <2>1, <2>3, Zenon DEF d
<1>3. CASE frames # <<>>
  <2>1. Base \in Word /\ d = Depth(regs["SP"]) /\ Bottom = Base
    BY <1>3, Outermost, Zenon DEF Bottom
  <2>2. d \in Word
    BY <1>1, <2>1, BelowIsWord, Zenon
  <2> DEFINE e == Entered
  <2>3. Depth(regs["SP"]) \in e .. 65528
    BY <1>3 DEF KeepsToItsStack, StaysBelow
  <2> HIDE DEF d, e
  <2>4. d + 7 \in Word
    BY <2>1, <2>2, <2>3, InWord, SMT
  <2> QED
    BY <2>1, <2>2, <2>4, Zenon DEF d
<1> QED
  BY <1>2, <1>3

\* Pushing goes down by two, and keeps what lies above.
LEMMA PushKeeps ==
  ASSUME Typed, NEW s \in Stacks, NEW w \in Int, NEW x \in Word, NEW t, t = Pushed(s, w),
         Below(x, s.sp) + 3 \in Word
  PROVE  /\ t \in Stacks /\ t.sp = Trunc(s.sp - 2)
         /\ Below(x, t.sp) = Below(x, s.sp) + 2
         /\ w \in Word => WordAt(t.memory, 16 * regs["SS"] + t.sp) = w
         /\ \A y \in Word : Below(x, y) <= Below(x, s.sp) =>
              WordAt(t.memory, 16 * regs["SS"] + y) = WordAt(s.memory, 16 * regs["SS"] + y)
<1> DEFINE sp == s.sp
           tp == t.sp
           old == s.memory
           new == t.memory
           ss == regs["SS"]
<1>1. /\ t \in Stacks /\ tp = Trunc(sp - 2)
      /\ \A b \in Addresses : b # 16 * ss + tp /\ b # 16 * ss + tp + 1 => new[b] = old[b]
      /\ w \in Word => WordAt(new, 16 * ss + tp) = w
  BY Pushing, Zenon DEF StackAddress
<1>2. sp \in Word /\ tp \in Word /\ ss \in Word
  <2>1. \A u \in Stacks : u.sp \in Word
    BY SMT DEF Stacks
  <2> QED
    BY <1>1, <2>1, Pointing, Zenon
<1> HIDE DEF sp, tp, old, new, ss
<1>3. Below(x, sp) \in Word /\ Below(x, sp) + 3 \in Word
  BY <1>2, BelowIsWord, Zenon DEF sp
<1>4. Below(x, sp) + 2 \in Word
  BY <1>3, InWord, SMT
<1>5. Below(x, tp) = Below(x, sp) + 2
  BY <1>1, <1>2, <1>4, GoesDown, Zenon
<1>6. ASSUME NEW y \in Word, Below(x, y) <= Below(x, sp)
      PROVE  WordAt(new, 16 * ss + y) = WordAt(old, 16 * ss + y)
  <2>1. Below(x, y) \in Word
    BY BelowIsWord, Zenon
  <2>2. Below(x, y) + 2 <= Below(x, tp) /\ Below(x, tp) + 1 \in Word
    BY <1>3, <1>5, <1>6, <2>1, InWord, SMT
  <2>3. {16 * ss + y, 16 * ss + y + 1} \cap {16 * ss + tp, 16 * ss + tp + 1} = {}
    BY <1>2, <2>2, NoOverlap, Zenon
  <2> DEFINE a == 16 * ss + y
             b == 16 * ss + tp
  <2>4. a \in Addresses /\ a + 1 \in Addresses
    BY <1>2, Fits, Zenon
  <2>5. a # b /\ a # b + 1 /\ a + 1 # b /\ a + 1 # b + 1
    BY <2>3, Zenon
  <2>6. \A c \in Addresses : c # b /\ c # b + 1 => new[c] = old[c]
    BY <1>1, Zenon
  <2> HIDE DEF a, b
  <2>7. WordAt(new, a) = WordAt(old, a)
    BY <2>4, <2>5, <2>6, Zenon DEF WordAt
  <2> QED
    BY <2>7, Zenon DEF a
<1> QED
  BY <1>1, <1>5, <1>6, Zenon DEF sp, tp, old, new, ss

\* The word of the stack t that is k bytes below the stack pointer.
Saved(t, k) == WordAt(t.memory, 16 * regs["SS"] + Trunc(regs["SP"] - k))

\* Words that are pushed one after the other stand below each other, below all that was
\* there.
LEMMA ThreePushes ==
  ASSUME Typed, KeepsToItsStack, NEW w1 \in Word, NEW w2 \in Word, NEW w3 \in Word,
         NEW one, one = Pushed(Stack, w1), NEW two, two = Pushed(one, w2),
         NEW three, three = Pushed(two, w3)
  PROVE  /\ one \in Stacks /\ two \in Stacks /\ three \in Stacks
         /\ Kept(one.memory) /\ Kept(two.memory) /\ Kept(three.memory)
         /\ Saved(one, 2) = w1
         /\ Saved(two, 2) = w1 /\ Saved(two, 4) = w2
         /\ Saved(three, 2) = w1 /\ Saved(three, 4) = w2 /\ Saved(three, 6) = w3
<1> DEFINE x == Bottom
           d == Below(x, regs["SP"])
           ss == regs["SS"]
           sp == regs["SP"]
<1>1. x \in Word /\ d \in Word /\ d + 3 \in Word /\ d + 2 + 3 \in Word /\ d + 2 + 2 + 3 \in Word
      /\ d <= d /\ d <= d + 2 /\ d + 2 <= d + 2 /\ d <= d + 2 + 2 /\ d + 2 <= d + 2 + 2
      /\ d + 2 + 2 <= d + 2 + 2
  <2>1. x \in Word /\ d \in Word /\ d + 7 \in Word
    BY Room, Zenon
  <2> HIDE DEF x, d
  <2> QED
    BY <2>1, InWord, SMT
<1>2. w1 \in Int /\ w2 \in Int /\ w3 \in Int
  BY Numbers, Zenon
<1>3. Stack \in Stacks /\ Stack.sp = sp /\ Stack.memory = memory /\ sp \in Word
  BY StackIsStack, Pointing, Zenon
<1> HIDE DEF x
<1>4. /\ one \in Stacks /\ one.sp = Trunc(sp - 2) /\ Below(x, one.sp) = d + 2
      /\ WordAt(one.memory, 16 * ss + one.sp) = w1
      /\ \A y \in Word : Below(x, y) <= d =>
           WordAt(one.memory, 16 * ss + y) = WordAt(memory, 16 * ss + y)
  <2>1. Below(x, Stack.sp) + 3 \in Word
    BY <1>1, <1>3, Zenon
  <2>2. x \in Word /\ Stack \in Stacks /\ w1 \in Int
    BY <1>1, <1>2, <1>3, Zenon
  <2>3. /\ one \in Stacks /\ one.sp = Trunc(Stack.sp - 2)
        /\ Below(x, one.sp) = Below(x, Stack.sp) + 2
        /\ w1 \in Word => WordAt(one.memory, 16 * ss + one.sp) = w1
        /\ \A y \in Word : Below(x, y) <= Below(x, Stack.sp) =>
             WordAt(one.memory, 16 * ss + y) = WordAt(Stack.memory, 16 * ss + y)
    BY <2>1, <2>2, PushKeeps, SMT
  <2> QED
    BY <1>3, <2>3, Zenon
<1> HIDE DEF d
<1>5. /\ two \in Stacks /\ two.sp = Trunc(one.sp - 2) /\ Below(x, two.sp) = d + 2 + 2
      /\ WordAt(two.memory, 16 * ss + two.sp) = w2
      /\ \A y \in Word : Below(x, y) <= d + 2 =>
           WordAt(two.memory, 16 * ss + y) = WordAt(one.memory, 16 * ss + y)
  <2>1. Below(x, one.sp) + 3 \in Word
    BY <1>1, <1>4, Zenon
  <2>2. x \in Word /\ one \in Stacks /\ w2 \in Int
    BY <1>1, <1>2, <1>4, Zenon
  <2>3. /\ two \in Stacks /\ two.sp = Trunc(one.sp - 2)
        /\ Below(x, two.sp) = Below(x, one.sp) + 2
        /\ w2 \in Word => WordAt(two.memory, 16 * ss + two.sp) = w2
        /\ \A y \in Word : Below(x, y) <= Below(x, one.sp) =>
             WordAt(two.memory, 16 * ss + y) = WordAt(one.memory, 16 * ss + y)
    BY <2>1, <2>2, PushKeeps, SMT
  <2> QED
    BY <1>4, <2>3, Zenon
<1>6. /\ three \in Stacks /\ three.sp = Trunc(two.sp - 2)
      /\ WordAt(three.memory, 16 * ss + three.sp) = w3
      /\ \A y \in Word : Below(x, y) <= d + 2 + 2 =>
           WordAt(three.memory, 16 * ss + y) = WordAt(two.memory, 16 * ss + y)
  <2>1. Below(x, two.sp) + 3 \in Word
    BY <1>1, <1>5, Zenon
  <2>2. x \in Word /\ two \in Stacks /\ w3 \in Int
    BY <1>1, <1>2, <1>5, Zenon
  <2>3. /\ three \in Stacks /\ three.sp = Trunc(two.sp - 2)
        /\ Below(x, three.sp) = Below(x, two.sp) + 2
        /\ w3 \in Word => WordAt(three.memory, 16 * ss + three.sp) = w3
        /\ \A y \in Word : Below(x, y) <= Below(x, two.sp) =>
             WordAt(three.memory, 16 * ss + y) = WordAt(two.memory, 16 * ss + y)
    BY <2>1, <2>2, PushKeeps, SMT
  <2> QED
    BY <1>5, <2>3, Zenon
<1>7. one.sp \in Word /\ two.sp \in Word
  BY <1>4, <1>5, SMT DEF Stacks
<1>8. two.sp = Trunc(sp - 4) /\ three.sp = Trunc(sp - 6)
  <2>1. \A a \in Int : Trunc(Trunc(a) - 2) = Trunc(a - 2)
    BY SMT DEF Trunc
  <2>2. sp \in Int
    BY <1>3, Numbers, Zenon
  <2> HIDE DEF sp
  <2>3. sp - 2 \in Int /\ sp - 4 \in Int /\ (sp - 2) - 2 = sp - 4 /\ (sp - 4) - 2 = sp - 6
    BY <2>2, SMT
  <2> QED
    BY <1>4, <1>5, <1>6, <2>1, <2>3, ZenonT(60)
<1>9. ASSUME NEW y \in Word, Below(x, y) <= d
      PROVE  /\ WordAt(one.memory, 16 * ss + y) = WordAt(memory, 16 * ss + y)
             /\ WordAt(two.memory, 16 * ss + y) = WordAt(memory, 16 * ss + y)
             /\ WordAt(three.memory, 16 * ss + y) = WordAt(memory, 16 * ss + y)
  <2>1. Below(x, y) <= d + 2 /\ Below(x, y) <= d + 2 + 2
    <3>1. Below(x, y) \in Int /\ d \in Int
      BY <1>1, <1>9, BelowIsWord, Numbers, Zenon
    <3> QED
      BY <1>9, <3>1, SMT
  <2> QED
    BY <1>4, <1>5, <1>6, <1>9, <2>1, Zenon
<1>10. Kept(one.memory) /\ Kept(two.memory) /\ Kept(three.memory)
  BY <1>9, Zenon DEF Kept, x, d
<1>11. Saved(one, 2) = w1 /\ Saved(two, 4) = w2 /\ Saved(three, 6) = w3
  BY <1>4, <1>5, <1>6, <1>8, Zenon DEF Saved
<1>12. WordAt(two.memory, 16 * ss + one.sp) = w1
  BY <1>1, <1>4, <1>5, <1>7, Zenon
<1>13. WordAt(three.memory, 16 * ss + one.sp) = w1
  BY <1>1, <1>4, <1>6, <1>7, <1>12, Zenon
<1>14. WordAt(three.memory, 16 * ss + two.sp) = w2
  BY <1>1, <1>5, <1>6, <1>7, Zenon
<1>15. Saved(two, 2) = w1 /\ Saved(three, 2) = w1 /\ Saved(three, 4) = w2
  BY <1>4, <1>8, <1>12, <1>13, <1>14, Zenon DEF Saved
<1> QED
  BY <1>4, <1>5, <1>6, <1>10, <1>11, <1>15, Zenon

\* The stack pointer is below the frame of the innermost routine.
LEMMA DeepEnough ==
  ASSUME Typed, KeepsToItsStack, frames # <<>>
  PROVE  Entered <= Depth(regs["SP"])
<1> DEFINE e == Entered
           d == Depth(regs["SP"])
           g == frames[1]
<1>1. d \in e .. 65528
  BY DEF KeepsToItsStack, StaysBelow
<1>2. e \in Int /\ d \in Int
  <2>1. g \in Frame /\ \A x : Depth(x) = Below(Base, x)
    BY Outermost, Zenon
  <2>2. Depth(g.sp) \in Word /\ d \in Word /\ SavedSize(g.kind) \in {2, 4, 6}
    <3>1. g.sp \in Word /\ Base \in Word /\ regs["SP"] \in Word
      BY <2>1, FieldsOfFrames, Outermost, Pointing, Zenon
    <3> QED
      BY <2>1, <3>1, BelowIsWord, SizesOfFrames, Zenon
  <2>3. e = Depth(g.sp) + SavedSize(g.kind)
    BY Zenon DEF Entered
  <2> HIDE DEF e, d, g
  <2> QED
    BY <2>2, <2>3, InWord, SMT
<1> HIDE DEF e, d
<1>3. e <= d
  BY <1>1, <1>2, SMT
<1> QED
  BY <1>3, Zenon DEF e, d

\* The words of open routines are among those that are kept.
LEMMA KeptHolds ==
  ASSUME SInv, KeepsToItsStack, NEW m, Kept(m), NEW i \in DOMAIN frames
  PROVE  Holds(m, regs["SS"], frames[i])
<1> USE DEF SInv, TInv
<1>1. frames # <<>>
  BY SMT DEF Typed
<1>2. Entered <= Depth(regs["SP"])
  BY <1>1, DeepEnough, Zenon
<1>3. ASSUME NEW k \in Offsets(frames[i])
      PROVE  WordAt(m, 16 * regs["SS"] + Trunc(frames[i].sp - k)) = Slot(frames[i], k)
  <2> DEFINE y == Trunc(frames[i].sp - k)
  <2>1. y \in Word /\ Depth(y) <= Depth(regs["SP"])
    BY <1>1, <1>2, Above, Zenon
  <2>2. Bottom = Base /\ \A x : Depth(x) = Below(Base, x)
    BY <1>1, Outermost, Zenon DEF Bottom
  <2>3. WordAt(memory, 16 * regs["SS"] + y) = Slot(frames[i], k)
    BY Zenon DEF Intact, Holds
  <2> HIDE DEF y
  <2>4. WordAt(m, 16 * regs["SS"] + y) = WordAt(memory, 16 * regs["SS"] + y)
    BY <2>1, <2>2, Zenon DEF Kept
  <2> QED
    BY <2>3, <2>4, Zenon DEF y
<1> QED
  BY <1>3, Zenon DEF Holds

\* So a program that pushes a word keeps the frames.
LEMMA PushKeepsFrames ==
  ASSUME SInv, KeepsToItsStack, NEW w \in Int, PutStack(Pushed(Stack, w), regs),
         frames' = frames
  PROVE  Nested' /\ Intact'
<1> USE DEF SInv, TInv
<1> DEFINE t == Pushed(Stack, w)
<1>1. t \in Stacks /\ Kept(t.memory)
  <2>1. Bottom \in Word /\ Below(Bottom, regs["SP"]) \in Word
        /\ Below(Bottom, regs["SP"]) + 7 \in Word
    BY Room, Zenon
  <2> DEFINE d == Below(Bottom, regs["SP"])
             x == Bottom
  <2>2. d + 3 \in Word
    <3> HIDE DEF d
    <3>1. d \in Word /\ d + 7 \in Word
      BY <2>1, Zenon DEF d
    <3> QED
      BY <3>1, InWord, SMT
  <2>3. Stack \in Stacks /\ Stack.sp = regs["SP"] /\ Stack.memory = memory
    BY StackIsStack, Zenon
  <2>4. Below(x, Stack.sp) + 3 \in Word
    BY <2>2, <2>3, Zenon
  <2>5. x \in Word
    BY <2>1, Zenon
  <2> HIDE DEF x
  <2>6. /\ t \in Stacks
        /\ \A y \in Word : Below(x, y) <= Below(x, Stack.sp) =>
             WordAt(t.memory, 16 * regs["SS"] + y) = WordAt(Stack.memory, 16 * regs["SS"] + y)
    BY <2>3, <2>4, <2>5, PushKeeps, SMT
  <2> QED
    BY <2>3, <2>6, Zenon DEF x, Kept
<1>2. PutStack(t, regs)
  BY Zenon
<1> HIDE DEF t
<1>3. memory' = t.memory /\ regs'["SS"] = regs["SS"]
  BY <1>1, <1>2, PutsStack, Zenon DEF Typed
<1>4. \A i \in DOMAIN frames : Holds(memory', regs'["SS"], frames[i])
  BY <1>1, <1>3, KeptHolds, Zenon
<1>5. Intact'
  BY <1>4, Zenon DEF Intact
<1>6. Nested'
  BY Zenon DEF Nested, Depth
<1> QED
  BY <1>5, <1>6

NewFrame(kind, resumed) ==
  [kind |-> kind, cs |-> regs["CS"], ip |-> resumed, sp |-> regs["SP"], flags |-> flags]

\* One more frame in front of the others.
LEMMA ConsFrames ==
  ASSUME NEW S, NEW s \in Seq(S), NEW e \in S, NEW t, t = <<e>> \o s
  PROVE  /\ t # <<>> /\ Len(t) = Len(s) + 1 /\ t[1] = e
         /\ DOMAIN t = 1 .. Len(s) + 1 /\ DOMAIN s = 1 .. Len(s) /\ Len(s) \in Nat
         /\ \A i \in DOMAIN t : i = 1 \/ (i - 1 \in DOMAIN s /\ t[i] = s[i - 1])
         /\ s # <<>> => t[Len(t)] = s[Len(s)]
<1> DEFINE one == <<e>>
<1>1. one \in Seq(S) /\ Len(one) = 1 /\ one[1] = e /\ t = one \o s
  OBVIOUS
<1> HIDE DEF one
<1>2. /\ t \in Seq(S) /\ Len(t) = Len(one) + Len(s)
      /\ \A i \in 1 .. Len(one) + Len(s) :
           t[i] = IF i <= Len(one) THEN one[i] ELSE s[i - Len(one)]
  <2>1. /\ one \o s \in Seq(S) /\ Len(one \o s) = Len(one) + Len(s)
        /\ \A i \in 1 .. Len(one) + Len(s) :
             (one \o s)[i] = IF i <= Len(one) THEN one[i] ELSE s[i - Len(one)]
    BY <1>1, ConcatProperties
  <2> QED
    BY <1>1, <2>1
<1>3. t \in Seq(S) /\ Len(t) = Len(s) + 1 /\ Len(s) \in Nat
  BY <1>1, <1>2, SMT
<1>4. \A i \in 1 .. Len(s) + 1 : t[i] = IF i = 1 THEN e ELSE s[i - 1]
  BY <1>1, <1>2, <1>3, SMT
<1>5. DOMAIN t = 1 .. Len(s) + 1 /\ DOMAIN s = 1 .. Len(s)
  BY <1>3, SMT
<1>6. t[1] = e /\ t # <<>>
  BY <1>3, <1>4, SMT
<1>7. ASSUME NEW i \in DOMAIN t, i # 1 PROVE i - 1 \in DOMAIN s /\ t[i] = s[i - 1]
  <2>1. i \in 1 .. Len(s) + 1 /\ i - 1 \in 1 .. Len(s)
    BY <1>3, <1>5, <1>7, SMT
  <2> QED
    BY <1>4, <1>5, <1>7, <2>1, Zenon
<1>8. s # <<>> => t[Len(t)] = s[Len(s)]
  BY <1>3, <1>4, SMT
<1>9. \A i \in DOMAIN t : i = 1 \/ (i - 1 \in DOMAIN s /\ t[i] = s[i - 1])
  BY <1>7, Zenon
<1>10. t # <<>> /\ Len(t) = Len(s) + 1 /\ t[1] = e
  BY <1>3, <1>6, Zenon
<1> HIDE DEF one
<1> QED
  BY <1>3, <1>5, <1>8, <1>9, <1>10, Zenon

\* Entering a routine whose frame the memory holds keeps the frames around it.
LEMMA EnteringKeeps ==
  ASSUME SInv, KeepsToItsStack, NEW kind \in Kinds, NEW resumed \in Word,
         frames' = Left(kind, resumed), regs'["SS"] = regs["SS"], Kept(memory'),
         Holds(memory', regs["SS"], NewFrame(kind, resumed))
  PROVE  Nested' /\ Intact'
<1> USE DEF SInv, TInv
<1> DEFINE f == NewFrame(kind, resumed)
<1>1. f \in Frame
  <2>1. regs["CS"] \in Word /\ regs["SP"] \in Word
    BY Pointing, Zenon
  <2> QED
    BY <2>1, SMT DEF Frame, Typed, NewFrame
<1>2. frames' = <<f>> \o frames
  BY Zenon DEF Left, NewFrame
<1>3. f.sp = regs["SP"]
  BY DEF NewFrame
<1> HIDE DEF f
<1>4. /\ Len(frames') = Len(frames) + 1 /\ frames'[1] = f
      /\ DOMAIN frames' = 1 .. Len(frames) + 1 /\ DOMAIN frames = 1 .. Len(frames)
      /\ Len(frames) \in Nat
      /\ \A i \in DOMAIN frames' :
           i = 1 \/ (i - 1 \in DOMAIN frames /\ frames'[i] = frames[i - 1])
      /\ frames # <<>> => frames'[Len(frames')] = frames[Len(frames)]
  <2>1. frames \in Seq(Frame)
    BY Zenon DEF Typed
  <2> QED
    <3> DEFINE t == frames'
               old == frames
    <3>1. old \in Seq(Frame) /\ f \in Frame /\ t = <<f>> \o old
      BY <1>1, <1>2, <2>1
    <3> HIDE DEF t, old
    <3>2. /\ Len(t) = Len(old) + 1 /\ t[1] = f
          /\ DOMAIN t = 1 .. Len(old) + 1 /\ DOMAIN old = 1 .. Len(old)
          /\ Len(old) \in Nat
          /\ \A i \in DOMAIN t : i = 1 \/ (i - 1 \in DOMAIN old /\ t[i] = old[i - 1])
          /\ old # <<>> => t[Len(t)] = old[Len(old)]
      BY <3>1, ConsFrames
    <3> QED
      BY <3>2 DEF t, old
<1>5. Holds(memory', regs'["SS"], f)
  BY Zenon DEF f
<1>6. Intact'
  <2>1. ASSUME NEW i \in DOMAIN frames' PROVE Holds(memory', regs'["SS"], frames'[i])
    <3>1. CASE i = 1
      BY <1>4, <1>5, <3>1, Zenon
    <3>2. CASE i - 1 \in DOMAIN frames /\ frames'[i] = frames[i - 1]
      BY <3>2, KeptHolds, Zenon
    <3> QED
      BY <1>4, <2>1, <3>1, <3>2, Zenon
  <2> QED
    BY <2>1, Zenon DEF Intact
<1>7. Nested'
  <2>1. CASE frames = <<>>
    <3>1. Len(frames) = 0
      BY <2>1
    <3>2. \A i, j \in DOMAIN frames' : ~ (i < j)
      BY <1>4, <3>1, SMT
    <3> QED
      BY <3>2, Zenon DEF Nested
  <2>2. CASE frames # <<>>
    <3>1. \A x : Trunc(frames'[Len(frames')].sp - x) = Depth(x)
      BY <1>4, <2>2, Zenon DEF Depth
    <3>2. ASSUME NEW i \in DOMAIN frames', NEW j \in DOMAIN frames', i < j
          PROVE  Depth(frames'[j].sp) + SavedSize(frames'[j].kind) <= Depth(frames'[i].sp)
      <4>1. j - 1 \in DOMAIN frames /\ frames'[j] = frames[j - 1]
        <5>1. j # 1
          BY <1>4, <3>2, SMT
        <5> QED
          BY <1>4, <5>1, Zenon
      <4>2. CASE i = 1
        <5>1. frames'[i].sp = regs["SP"]
          BY <1>3, <1>4, <4>2, Zenon
        <5>2. Entered <= Depth(regs["SP"])
          BY <2>2, DeepEnough, Zenon
        <5>3. Depth(frames[j - 1].sp) + SavedSize(frames[j - 1].kind) <= Depth(regs["SP"])
          BY <2>2, <4>1, <5>2, Above, Zenon
        <5> QED
          BY <4>1, <5>1, <5>3, Zenon
      <4>3. CASE i # 1
        <5>1. i - 1 \in DOMAIN frames /\ frames'[i] = frames[i - 1]
          BY <1>4, <4>3, Zenon
        <5>2. i - 1 < j - 1
          BY <1>4, <3>2, SMT
        <5> QED
          BY <4>1, <5>1, <5>2, Zenon DEF Nested
      <4> QED
        BY <4>2, <4>3
    <3> QED
      BY <3>1, <3>2, ZenonT(60) DEF Nested, Depth
  <2> QED
    BY <2>1, <2>2
<1> QED
  BY <1>6, <1>7

-----------------------------------------------------------------------------
(* The refinement.                                                         *)

\* Holding a new frame is having its words on the stack.
LEMMA HoldsNew ==
  ASSUME Typed, NEW kind \in Kinds, NEW resumed \in Word, NEW t,
         LET n == SavedSize(kind)
         IN  /\ Saved(t, n) = resumed
             /\ n > 2 => Saved(t, n - 2) = regs["CS"]
             /\ n > 4 => Saved(t, n - 4) = FlagsWord(flags)
  PROVE  Holds(t.memory, regs["SS"], NewFrame(kind, resumed))
<1> DEFINE f == NewFrame(kind, resumed)
<1>1. /\ f.kind = kind /\ f.cs = regs["CS"] /\ f.ip = resumed /\ f.sp = regs["SP"]
      /\ f.flags = flags
  BY DEF NewFrame
<1>2. f \in Frame
  <2>1. regs["CS"] \in Word /\ regs["SP"] \in Word
    BY Pointing, Zenon
  <2> QED
    BY <2>1, SMT DEF Frame, Typed, NewFrame
<1> HIDE DEF f
<1> DEFINE n == SavedSize(kind)
<1>3. n \in {2, 4, 6} /\ \A k : k \in Offsets(f) <=> k \in {2, 4, 6} /\ k <= n
  BY <1>1, <1>2, SizesOfFrames, Zenon
<1>4. /\ Saved(t, n) = resumed
      /\ n > 2 => Saved(t, n - 2) = regs["CS"]
      /\ n > 4 => Saved(t, n - 4) = FlagsWord(flags)
  OBVIOUS
<1>5. ASSUME NEW k \in Offsets(f) PROVE Saved(t, k) = Slot(f, k)
  <2>1. k \in {2, 4, 6} /\ k <= n
    BY <1>3, Zenon
  <2>2. Slot(f, k) = IF k = n THEN resumed ELSE IF k = n - 2 THEN regs["CS"]
                     ELSE FlagsWord(flags)
    BY <1>1, Zenon DEF Slot
  <2> HIDE DEF n
  <2>3. k = n \/ (k = n - 2 /\ n > 2 /\ k # n) \/ (k = n - 4 /\ n > 4 /\ k # n /\ k # n - 2)
    BY <1>3, <2>1, SMT
  <2> QED
    BY <1>4, <2>2, <2>3, Zenon
<1> QED
  BY <1>1, <1>5, Zenon DEF Holds, Saved, f

\* Whatever pushes the words of a new frame enters a routine.
LEMMA Enters ==
  ASSUME SInv, Disciplined, NEW kind \in Kinds, NEW resumed \in Word,
         NEW t \in Stacks, NEW f \in File, PutStack(t, f), f["SS"] = regs["SS"],
         Kept(t.memory), Holds(t.memory, regs["SS"], NewFrame(kind, resumed)),
         frames' = Left(kind, resumed), resumed = IF kind = "hardware" THEN ip ELSE Follows,
         kind \in {"near", "far"} => flags' = flags,
         kind = "near" => f["CS"] = regs["CS"]
  PROVE  /\ Nested' /\ Intact'
         /\ Calls!Enter(kind)
<1>1. /\ memory' = t.memory /\ regs'["SS"] = regs["SS"] /\ regs'["CS"] = f["CS"]
  BY PutsStack, Zenon
<1>2. Nested' /\ Intact'
  BY <1>1, EnteringKeeps, Zenon DEF Disciplined
<1>3. Calls!Enter(kind)
  <2>1. resumed = Calls!Resumed(kind)
    BY SMT DEF Calls!Resumed, Follows, Trunc
  <2>2. frames' = <<[kind |-> kind, cs |-> regs["CS"], ip |-> Calls!Resumed(kind),
                     sp |-> regs["SP"], flags |-> flags]>> \o frames
    BY <2>1, Zenon DEF Left
  <2> QED
    BY <1>1, <2>2, Zenon DEF Calls!Enter
<1> QED
  BY <1>2, <1>3

\* A near call enters a routine, with the address that follows on the stack.
LEMMA NearCallEnters ==
  ASSUME SInv, Disciplined, NEAR_CALL
  PROVE  Nested' /\ Intact' /\ Calls!Enter("near")
<1> USE DEF SInv, TInv
<1> DEFINE t == Pushed(Stack, Follows)
           two == Pushed(t, Follows)
           three == Pushed(two, Follows)
<1>1. /\ PutStack(t, regs) /\ frames' = Left("near", Follows) /\ flags' = flags
  BY Zenon DEF NEAR_CALL
<1>2. Follows \in Word /\ "near" \in Kinds /\ KeepsToItsStack /\ regs \in File
  BY Follow, Zenon DEF Kinds, Disciplined, Typed
<1>3. t = Pushed(Stack, Follows) /\ two = Pushed(t, Follows) /\ three = Pushed(two, Follows)
  OBVIOUS
<1> HIDE DEF t, two, three
<1>4. t \in Stacks /\ Kept(t.memory) /\ Saved(t, 2) = Follows
  <2>1. Typed
    BY Zenon
  <2> QED
    BY <1>2, <1>3, <2>1, ThreePushes, SMT
<1>5. Holds(t.memory, regs["SS"], NewFrame("near", Follows))
  <2>1. SavedSize("near") = 2
    BY DEF SavedSize
  <2> DEFINE n == SavedSize("near")
  <2>2. Saved(t, n) = Follows /\ ~ (n > 2) /\ ~ (n > 4)
    BY <1>4, <2>1
  <2> HIDE DEF n
  <2>3. /\ Saved(t, n) = Follows
        /\ n > 2 => Saved(t, n - 2) = regs["CS"]
        /\ n > 4 => Saved(t, n - 4) = FlagsWord(flags)
    BY <2>2, Zenon
  <2> QED
    BY <1>2, <2>3, HoldsNew, Zenon DEF n
<1> QED
  <2>1. /\ Follows = IF "near" = "hardware" THEN ip ELSE Follows
        /\ "near" \in {"near", "far"} => flags' = flags
        /\ "near" = "near" => regs["CS"] = regs["CS"]
        /\ regs["SS"] = regs["SS"]
    BY <1>1
  <2>2. SInv
    BY Zenon
  <2> QED
    BY <1>1, <1>2, <1>4, <1>5, <2>1, <2>2, Enters, Zenon

\* A far call does with its segment too.
LEMMA FarCallEnters ==
  ASSUME SInv, Disciplined, FAR_CALL
  PROVE  Nested' /\ Intact' /\ Calls!Enter("far")
<1> USE DEF SInv, TInv
<1> DEFINE one == Pushed(Stack, regs["CS"])
           two == Pushed(one, Follows)
           three == Pushed(two, Follows)
           g == Changed(regs, "CS", FarTarget.segment)
<1>1. /\ ~ checking /\ ~ hlt /\ Instr.op = "CALL FAR"
      /\ PutStack(two, g) /\ frames' = Left("far", Follows) /\ flags' = flags
  BY Zenon DEF FAR_CALL, Executes, Changed
<1>2. Typed /\ Follows \in Word /\ "far" \in Kinds /\ KeepsToItsStack /\ regs["CS"] \in Word
  BY Follow, Pointing, Zenon DEF Kinds, Disciplined
<1>3. g \in File /\ g["SS"] = regs["SS"]
  <2>1. Instr.a \in Pointers \cup Memories
    BY <1>1, Zenon DEF Decodes, Disciplined
  <2>2. FarTarget.segment \in Word
    BY <2>1, FarTargets, Zenon
  <2> QED
    BY <2>2, PutsSegment, Zenon DEF Typed
<1>4. /\ one = Pushed(Stack, regs["CS"]) /\ two = Pushed(one, Follows)
      /\ three = Pushed(two, Follows)
  OBVIOUS
<1> HIDE DEF one, two, three, g
<1>5. two \in Stacks /\ Kept(two.memory) /\ Saved(two, 2) = regs["CS"] /\ Saved(two, 4) = Follows
  BY <1>2, <1>4, ThreePushes, SMT
<1>6. Holds(two.memory, regs["SS"], NewFrame("far", Follows))
  <2>1. SavedSize("far") = 4
    BY DEF SavedSize
  <2> DEFINE n == SavedSize("far")
  <2>2. /\ Saved(two, n) = Follows
        /\ n > 2 => Saved(two, n - 2) = regs["CS"]
        /\ ~ (n > 4)
    BY <1>5, <2>1
  <2> HIDE DEF n
  <2>3. /\ Saved(two, n) = Follows
        /\ n > 2 => Saved(two, n - 2) = regs["CS"]
        /\ n > 4 => Saved(two, n - 4) = FlagsWord(flags)
    BY <2>2, Zenon
  <2> QED
    BY <1>2, <2>3, HoldsNew, Zenon DEF n
<1> QED
  <2>1. /\ Follows = IF "far" = "hardware" THEN ip ELSE Follows
        /\ "far" \in {"near", "far"} => flags' = flags
        /\ "far" = "near" => g["CS"] = regs["CS"]
    BY <1>1
  <2>2. SInv
    BY Zenon
  <2> QED
    BY <1>1, <1>2, <1>3, <1>5, <1>6, <2>1, <2>2, Enters, Zenon

\* An interrupt does with the flags too, which the routine has with INTF cleared.
LEMMA InterruptEnters ==
  ASSUME SInv, Disciplined, NEW kind \in {"INT", "hardware"}, NEW v \in Byte,
         NEW resumed \in Word, Interrupt(kind, v, resumed),
         resumed = IF kind = "hardware" THEN ip ELSE Follows
  PROVE  Nested' /\ Intact' /\ Calls!Enter(kind)
<1> USE DEF SInv, TInv
<1> DEFINE one == Pushed(Stack, FlagsWord(flags))
           two == Pushed(one, regs["CS"])
           three == Pushed(two, resumed)
           g == Changed(regs, "CS", WordAt(one.memory, 4 * v + 2))
<1>1. PutStack(three, g) /\ frames' = Left(kind, resumed)
  BY Zenon DEF Interrupt, Changed
<1>2. /\ Typed /\ resumed \in Word /\ kind \in Kinds /\ KeepsToItsStack
      /\ regs["CS"] \in Word /\ FlagsWord(flags) \in Word
  BY Pointing, FlagsComeBack, Zenon DEF Kinds, Disciplined, Typed
<1>3. g \in File /\ g["SS"] = regs["SS"]
  <2>1. FlagsWord(flags) \in Int
    BY <1>2, Numbers, Zenon
  <2>2. one \in Stacks
    BY <1>2, <2>1, StackIsStack, Pushing, Zenon
  <2> HIDE DEF one
  <2>3. one.memory \in RAM
    BY <2>2 DEF Stacks
  <2>4. WordAt(one.memory, 4 * v + 2) \in Word
    BY <2>3, Vectored, Zenon
  <2> QED
    BY <1>2, <2>4, PutsSegment, Zenon DEF Typed
<1>4. /\ one = Pushed(Stack, FlagsWord(flags)) /\ two = Pushed(one, regs["CS"])
      /\ three = Pushed(two, resumed)
  OBVIOUS
<1> HIDE DEF one, two, three, g
<1>5. /\ three \in Stacks /\ Kept(three.memory) /\ Saved(three, 2) = FlagsWord(flags)
      /\ Saved(three, 4) = regs["CS"] /\ Saved(three, 6) = resumed
  <2> DEFINE w == FlagsWord(flags)
  <2>1. w \in Word /\ one = Pushed(Stack, w)
    BY <1>2, <1>4, Zenon
  <2> HIDE DEF w
  <2>2. /\ three \in Stacks /\ Kept(three.memory) /\ Saved(three, 2) = w
        /\ Saved(three, 4) = regs["CS"] /\ Saved(three, 6) = resumed
    BY <1>2, <1>4, <2>1, ThreePushes, SMT
  <2> QED
    BY <2>2, Zenon DEF w
<1>6. Holds(three.memory, regs["SS"], NewFrame(kind, resumed))
  <2>1. SavedSize(kind) = 6
    BY DEF SavedSize
  <2> DEFINE n == SavedSize(kind)
  <2>2. n = 6
    BY <2>1, Zenon
  <2> HIDE DEF n
  <2>3. n - 2 = 4 /\ n - 4 = 2
    BY <2>2, SMT
  <2>4. /\ Saved(three, n) = resumed
        /\ n > 2 => Saved(three, n - 2) = regs["CS"]
        /\ n > 4 => Saved(three, n - 4) = FlagsWord(flags)
    BY <1>5, <2>2, <2>3, Zenon
  <2> QED
    BY <1>2, <2>4, HoldsNew, Zenon DEF n
<1> QED
  <2>1. /\ kind \in {"near", "far"} => flags' = flags
        /\ kind = "near" => g["CS"] = regs["CS"]
    OBVIOUS
  <2>2. SInv
    BY Zenon
  <2> QED
    BY <1>1, <1>2, <1>3, <1>5, <1>6, <2>1, <2>2, Enters, Zenon

\* The frames behind the first.
LEMMA TailFrames ==
  ASSUME NEW S, NEW s \in Seq(S), s # <<>>
  PROVE  /\ Len(s) \in Nat /\ DOMAIN s = 1 .. Len(s)
         /\ DOMAIN Tail(s) = 1 .. Len(s) - 1
         /\ Len(Tail(s)) = Len(s) - 1 /\ Tail(s) \in Seq(S)
         /\ \A i \in 1 .. Len(s) - 1 : Tail(s)[i] = s[i + 1]
BY SMT

\* A return takes the innermost frame off and leaves the others, with their words.
LEMMA LeavingKeeps ==
  ASSUME SInv, frames # <<>>, frames' = Tail(frames), memory' = memory,
         regs'["SS"] = regs["SS"]
  PROVE  Nested' /\ Intact'
<1> USE DEF SInv, TInv
<1> DEFINE t == Tail(frames)
           n == Len(frames)
<1>1. /\ n \in Nat /\ DOMAIN frames = 1 .. n /\ DOMAIN t = 1 .. n - 1 /\ Len(t) = n - 1
      /\ \A i \in 1 .. n - 1 : t[i] = frames[i + 1]
  <2>1. frames \in Seq(Frame)
    BY Zenon DEF Typed
  <2> QED
    BY <2>1, TailFrames, Zenon
<1>2. frames' = t
  OBVIOUS
<1> HIDE DEF t, n
<1>3. ASSUME NEW i \in DOMAIN t PROVE i + 1 \in DOMAIN frames /\ t[i] = frames[i + 1]
  BY <1>1, SMT
<1>4. Intact'
  <2>1. ASSUME NEW i \in DOMAIN t PROVE Holds(memory', regs'["SS"], t[i])
    <3>1. i + 1 \in DOMAIN frames /\ t[i] = frames[i + 1]
      BY <1>3, Zenon
    <3>2. Holds(memory, regs["SS"], frames[i + 1])
      BY <3>1, Zenon DEF Intact
    <3> QED
      BY <3>1, <3>2, Zenon
  <2> QED
    BY <1>2, <2>1, Zenon DEF Intact
<1>5. Nested'
  <2>1. ASSUME NEW i \in DOMAIN t, NEW j \in DOMAIN t, i < j
        PROVE  Trunc(t[Len(t)].sp - t[j].sp) + SavedSize(t[j].kind)
                 <= Trunc(t[Len(t)].sp - t[i].sp)
    <3>1. i + 1 \in DOMAIN frames /\ j + 1 \in DOMAIN frames /\ i + 1 < j + 1
          /\ t[i] = frames[i + 1] /\ t[j] = frames[j + 1]
      BY <1>1, <2>1, SMT
    <3>2. t[Len(t)] = frames[Len(frames)]
      <4>1. n - 1 \in 1 .. n - 1 /\ (n - 1) + 1 = n
        BY <1>1, <2>1, SMT
      <4> QED
        BY <1>1, <4>1, Zenon DEF n
    <3>3. Depth(frames[j + 1].sp) + SavedSize(frames[j + 1].kind) <= Depth(frames[i + 1].sp)
      BY <3>1, Zenon DEF Nested
    <3> QED
      BY <3>1, <3>2, <3>3, Zenon DEF Depth
  <2> QED
    BY <1>2, <2>1, Zenon DEF Nested, Depth
<1> QED
  BY <1>4, <1>5

\* When the stack pointer is where the innermost routine began, its frame is on top of
\* the stack, and what is above goes from where the routine was entered.
LEMMA OnTop ==
  ASSUME SInv, frames # <<>>, Depth(regs["SP"]) = Entered
  PROVE  LET f == frames[1]
             n == SavedSize(f.kind)
         IN  /\ Top(0) = f.ip
             /\ n > 2 => Top(1) = f.cs
             /\ n > 4 => Top(2) = FlagsWord(f.flags)
             /\ \A d \in Int : Trunc(regs["SP"] + n + d) = Trunc(f.sp + d)
<1> USE DEF SInv, TInv
<1> DEFINE f == frames[1]
           n == SavedSize(f.kind)
           top == f.sp
           low == regs["SP"]
<1>1. /\ 1 \in DOMAIN frames /\ f \in Frame /\ top \in Word /\ low \in Word /\ Base \in Word
      /\ n \in {2, 4, 6} /\ \A k : k \in Offsets(f) <=> k \in {2, 4, 6} /\ k <= n
  BY Outermost, FieldsOfFrames, Pointing, SizesOfFrames, Zenon
<1>2. Below(Base, low) = Below(Base, top) + n
  BY Outermost, Zenon DEF Entered
<1>3. \A k \in Offsets(f) : WordAt(memory, 16 * regs["SS"] + Trunc(top - k)) = Slot(f, k)
  BY <1>1, Zenon DEF Intact, Holds
<1>4. \A k : Slot(f, k) = IF k = n THEN f.ip ELSE IF k = n - 2 THEN f.cs
                          ELSE FlagsWord(f.flags)
  BY Zenon DEF Slot
<1>5. \A j : Top(j) = WordAt(memory, 16 * regs["SS"] + Trunc(low + 2 * j))
  BY Zenon DEF Top, StackAddress, ReadWord, WordAt
<1> HIDE DEF f, n, top, low
<1>6. \A c \in Int : Trunc(low + c) = Trunc(top - n + c)
  <2>1. n \in 0 .. 6
    BY <1>1, SMT
  <2> QED
    BY <1>1, <1>2, <2>1, ComesBack, ZenonT(60)
<1>7. ASSUME NEW j \in {0, 1, 2}, n > 2 * j
      PROVE  Top(j) = Slot(f, n - 2 * j)
  <2> DEFINE k == n - 2 * j
  <2>1. k \in {2, 4, 6} /\ k <= n /\ 2 * j \in Int
    BY <1>1, <1>7, SMT
  <2>2. top - n + 2 * j = top - k
    BY <1>1, <1>7, InWord, SMT
  <2> HIDE DEF k
  <2>3. Trunc(low + 2 * j) = Trunc(top - k)
    BY <1>6, <2>1, <2>2, Zenon
  <2>4. k \in Offsets(f)
    BY <1>1, <2>1, Zenon
  <2>5. Top(j) = Slot(f, k)
    BY <1>3, <1>5, <2>3, <2>4, Zenon
  <2> QED
    BY <2>5, Zenon DEF k
<1>8. Top(0) = f.ip
  <2>1. n - 2 * 0 = n /\ n > 2 * 0
    BY <1>1, SMT
  <2> QED
    BY <1>4, <1>7, <2>1, Zenon
<1>9. n > 2 => Top(1) = f.cs
  <2> SUFFICES ASSUME n > 2 PROVE Top(1) = f.cs
    OBVIOUS
  <2>1. n - 2 * 1 = n - 2 /\ n - 2 # n /\ n > 2 * 1
    BY <1>1, SMT
  <2> QED
    BY <1>4, <1>7, <2>1, Zenon
<1>10. n > 4 => Top(2) = FlagsWord(f.flags)
  <2> SUFFICES ASSUME n > 4 PROVE Top(2) = FlagsWord(f.flags)
    OBVIOUS
  <2>1. n - 2 * 2 # n /\ n - 2 * 2 # n - 2 /\ n > 2 * 2
    BY <1>1, SMT
  <2> QED
    BY <1>4, <1>7, <2>1, Zenon
<1>11. ASSUME NEW d \in Int PROVE Trunc(low + n + d) = Trunc(top + d)
  <2>1. low + n + d = low + (n + d) /\ top - n + (n + d) = top + d /\ n + d \in Int
    BY <1>1, InWord, SMTT(60)
  <2> QED
    BY <1>6, <2>1, Zenon
<1> QED
  BY <1>8, <1>9, <1>10, <1>11, Zenon DEF f, n, top, low

\* Returning with what was left behind is leaving the routine.
LEMMA Leaves ==
  ASSUME SInv, frames # <<>>, NEW d \in Drops,
         frames' = Tail(frames), memory' = memory, regs'["SS"] = regs["SS"],
         regs'["CS"] = frames[1].cs, ip' = frames[1].ip,
         regs'["SP"] = Trunc(frames[1].sp + d),
         flags' = IF frames[1].kind \in {"near", "far"} THEN flags ELSE frames[1].flags
  PROVE  Nested' /\ Intact' /\ Calls!Leave(d)
<1>1. Nested' /\ Intact'
  BY LeavingKeeps, Zenon
<1>2. Head(frames) = frames[1]
  BY SMT DEF SInv, TInv, Typed
<1>3. Trunc(frames[1].sp + d) = (frames[1].sp + d) % 65536
  BY SMT DEF Trunc
<1>4. Calls!Leave(d)
  BY <1>2, <1>3, SMT DEF Calls!Leave
<1> QED
  BY <1>1, <1>4

\* A return leaves the innermost routine, when it is the one for its kind, and in the
\* main program it is a jump.
LEMMA Returns ==
  ASSUME SInv, Disciplined, NEAR_RET \/ FAR_RET \/ IRET
  PROVE  Nested' /\ Intact' /\ (frames' = frames \/ \E d \in Drops : Calls!Leave(d))
<1> USE DEF SInv, TInv
<1>1. /\ ~ checking /\ ~ hlt /\ memory' = memory
      /\ ip' = Top(0) /\ frames' = Returned
  BY Zenon DEF NEAR_RET, FAR_RET, IRET, Executes
<1>2. CASE frames = <<>>
  <2>1. frames' = <<>> /\ DOMAIN frames' = {}
    BY <1>1, <1>2 DEF Returned
  <2> QED
    BY <1>2, <2>1, Zenon DEF Nested, Intact
<1>3. CASE frames # <<>>
  <2> DEFINE f == frames[1]
             n == SavedSize(f.kind)
  <2>1. frames' = Tail(frames)
    BY <1>1, <1>3, Zenon DEF Returned
  <2>2. Instr.op \in DOMAIN Routine =>
          /\ f.kind \in Routine[Instr.op]
          /\ Depth(regs["SP"]) = Entered
          /\ f.kind = "near" => regs["CS"] = f.cs
    BY <1>1, <1>3, Zenon DEF Disciplined, KeepsToItsStack, EndsAsItBegan
  <2>3. f.sp \in Word /\ f.cs \in Word /\ f.flags \in SUBSET Flags
        /\ (f.kind = "near" => n = 2) /\ (f.kind = "far" => n = 4)
        /\ (f.kind \in {"INT", "hardware"} => n = 6)
    BY <1>3, Outermost, FieldsOfFrames, SizesOfFrames, Zenon
  <2>4. Depth(regs["SP"]) = Entered =>
          /\ Top(0) = f.ip
          /\ n > 2 => Top(1) = f.cs
          /\ n > 4 => Top(2) = FlagsWord(f.flags)
          /\ \A d \in Int : Trunc(regs["SP"] + n + d) = Trunc(f.sp + d)
    BY <1>3, OnTop, Zenon
  <2>5. regs \in File /\ Drops \subseteq Word /\ 0 \in Drops
    BY ProcessorAssumption, Zenon DEF Typed
  <2> HIDE DEF n
  <2>6. CASE NEAR_RET
    <3> DEFINE d == Instr.drop
               up == Trunc(regs["SP"] + 2 + d)
    <3>1. Instr.op = "RET" /\ flags' = flags /\ regs' = Changed(regs, "SP", up)
      BY <2>6, Zenon DEF NEAR_RET, Executes, Changed
    <3>2. d \in Drops /\ d \in Int
      BY <1>1, <2>5, <3>1, Numbers, Zenon DEF Decodes, Disciplined
    <3>3. f.kind = "near" /\ Depth(regs["SP"]) = Entered /\ regs["CS"] = f.cs
      BY <2>2, <3>1 DEF Routine
    <3> HIDE DEF f, d
    <3>4. up = Trunc(f.sp + d) /\ Top(0) = f.ip
      BY <2>3, <2>4, <3>2, <3>3
    <3>5. up \in Word
      <4>1. regs["SP"] + 2 + d \in Int
        BY <3>2, Pointing, InWord, SMT
      <4> QED
        BY <4>1, Widths, Zenon
    <3> HIDE DEF up
    <3>6. regs'["SS"] = regs["SS"] /\ regs'["CS"] = regs["CS"] /\ regs'["SP"] = up
      BY <2>5, <3>1, <3>5, PutsPointer, Zenon
    <3>7. flags' = IF f.kind \in {"near", "far"} THEN flags ELSE f.flags
      BY <3>1, <3>3, Zenon
    <3>8. Nested' /\ Intact' /\ Calls!Leave(d)
      BY <1>1, <1>3, <2>1, <3>2, <3>3, <3>4, <3>6, <3>7, Leaves, Zenon DEF f
    <3> QED
      BY <3>2, <3>8, Zenon
  <2>7. CASE FAR_RET
    <3> DEFINE d == Instr.drop
               up == Trunc(regs["SP"] + 4 + d)
               g == Changed(regs, "CS", Top(1))
    <3>1. Instr.op = "RETF" /\ flags' = flags /\ regs' = Changed(g, "SP", up)
      BY <2>7 DEF FAR_RET, Executes, Changed
    <3>2. d \in Drops /\ d \in Int
      BY <1>1, <2>5, <3>1, Numbers, Zenon DEF Decodes, Disciplined
    <3>3. f.kind = "far" /\ Depth(regs["SP"]) = Entered
      BY <2>2, <3>1 DEF Routine
    <3> HIDE DEF f, d
    <3>4. up = Trunc(f.sp + d) /\ Top(0) = f.ip /\ Top(1) = f.cs
      <4>1. n = 4 /\ n > 2
        BY <2>3, <3>3, SMT
      <4> QED
        BY <2>4, <3>2, <3>3, <4>1
    <3>5. up \in Word
      <4>1. regs["SP"] + 4 + d \in Int
        BY <3>2, Pointing, InWord, SMT
      <4> QED
        BY <4>1, Widths, Zenon
    <3>6. g \in File /\ g["SS"] = regs["SS"] /\ g["CS"] = f.cs
      BY <2>3, <2>5, <3>4, PutsSegment, Zenon DEF f
    <3> HIDE DEF up, g
    <3>7. regs'["SS"] = regs["SS"] /\ regs'["CS"] = f.cs /\ regs'["SP"] = up
      BY <3>1, <3>5, <3>6, PutsPointer, Zenon
    <3>8. flags' = IF f.kind \in {"near", "far"} THEN flags ELSE f.flags
      BY <3>1, <3>3, Zenon
    <3>9. Nested' /\ Intact' /\ Calls!Leave(d)
      BY <1>1, <1>3, <2>1, <3>2, <3>4, <3>7, <3>8, Leaves, Zenon DEF f
    <3> QED
      BY <3>2, <3>9, Zenon
  <2>8. CASE IRET
    <3> DEFINE up == Trunc(regs["SP"] + 6)
               g == Changed(regs, "CS", Top(1))
    <3>1. Instr.op = "IRET" /\ flags' = FlagsOf(Top(2)) /\ regs' = Changed(g, "SP", up)
      BY <2>8 DEF IRET, Executes, Changed
    <3>2. f.kind \in {"INT", "hardware"} /\ Depth(regs["SP"]) = Entered
      BY <2>2, <3>1 DEF Routine
    <3> HIDE DEF f
    <3>3. Top(0) = f.ip /\ Top(1) = f.cs /\ Top(2) = FlagsWord(f.flags)
          /\ Trunc(regs["SP"] + n + 0) = Trunc(f.sp + 0)
      <4>1. n = 6 /\ n > 2 /\ n > 4
        BY <2>3, <3>2, SMT
      <4>2. 0 \in Int
        BY SMT
      <4> QED
        BY <2>4, <3>2, <4>1, <4>2, Zenon
    <3>4. up = Trunc(f.sp + 0)
      <4>1. n = 6
        BY <2>3, <3>2, Zenon
      <4>2. regs["SP"] + n + 0 = regs["SP"] + 6
        BY <4>1, Pointing, InWord, SMT
      <4> QED
        BY <3>3, <4>2, Zenon
    <3>5. up \in Word
      BY PopsPointer, SMT
    <3>6. g \in File /\ g["SS"] = regs["SS"] /\ g["CS"] = f.cs
      BY <2>3, <2>5, <3>3, PutsSegment, Zenon DEF f
    <3> HIDE DEF up, g
    <3>7. regs'["SS"] = regs["SS"] /\ regs'["CS"] = f.cs /\ regs'["SP"] = up
      BY <3>1, <3>5, <3>6, PutsPointer, Zenon
    <3>8. FlagsOf(FlagsWord(f.flags)) = f.flags
      BY <2>3, FlagsComeBack, Zenon DEF f
    <3>9. flags' = IF f.kind \in {"near", "far"} THEN flags ELSE f.flags
      <4>1. f.kind \notin {"near", "far"}
        BY <3>2
      <4>2. flags' = f.flags
        BY <3>1, <3>3, <3>8, Zenon
      <4> QED
        BY <4>1, <4>2, Zenon
    <3>10. Nested' /\ Intact' /\ Calls!Leave(0)
      BY <1>1, <1>3, <2>1, <2>5, <3>3, <3>4, <3>7, <3>9, Leaves, Zenon DEF f
    <3> QED
      BY <2>5, <3>10, Zenon
  <2> QED
    BY <2>6, <2>7, <2>8
<1> QED
  BY <1>2, <1>3

\* Instructions within a routine leave the frames and their words; pushing does
\* because it writes below them.
LEMMA StaysWithin ==
  ASSUME SInv, Disciplined,
         \/ DataTransfer \/ Arithmetic \/ ProcessorControl
         \/ NEAR_JMP \/ FAR_JMP \/ ConditionalJump \/ LOOP
         \/ PassOn \/ DeviceRequest \/ UNCHANGED vars
  PROVE  Nested' /\ Intact' /\ frames' = frames
<1>1. Typed /\ Decodes /\ KeepsToItsStack
  BY Zenon DEF SInv, TInv, Disciplined
<1>2. CASE PUSH \/ PUSHF
  <2>1. PICK w \in Int : PutStack(Pushed(Stack, w), regs) /\ frames' = frames
    BY <1>1, <1>2, TypedPUSH, Zenon
  <2> QED
    BY <1>1, <2>1, PushKeepsFrames, Zenon
<1>3. ASSUME Calm PROVE Nested' /\ Intact' /\ frames' = frames
  BY <1>1, <1>3, CalmKeeps, Zenon DEF Calm
<1>4. CASE DataTransfer
  BY <1>1, <1>2, <1>3, <1>4, TypedMOV, TypedXCHG, TypedRegister, TypedFlags, TypedPOPF, Zenon
     DEF DataTransfer
<1>5. CASE Arithmetic
  BY <1>1, <1>3, <1>5, TypedFlags, TypedINC, TypedDEC, TypedNEG, TypedMUL, TypedDIV, TypedNOT,
     Zenon DEF Arithmetic
<1>6. CASE ProcessorControl
  BY <1>1, <1>3, <1>6, TypedFlags, Zenon DEF ProcessorControl
<1>7. CASE NEAR_JMP \/ FAR_JMP \/ ConditionalJump \/ LOOP
  BY <1>1, <1>3, <1>7, TypedJumps, Zenon
<1>8. CASE PassOn \/ DeviceRequest \/ UNCHANGED vars
  <2>1. memory' = memory /\ frames' = frames /\ regs' = regs
    BY <1>8, Zenon DEF PassOn, DeviceRequest, vars
  <2>2. regs'["SS"] = regs["SS"]
    BY <2>1, Zenon
  <2> QED
    BY <1>3, <2>1, <2>2, RegistersAreCalm, Zenon
<1> QED
  BY <1>4, <1>5, <1>6, <1>7, <1>8

\* Every step leaves the open routines their words, and is one of the abstract machine.
LEMMA StepKeeps ==
  ASSUME SInv, Disciplined, [Next]_vars
  PROVE  SInv' /\ [Calls!Next]_(Calls!callVars)
<1>1. TInv'
  BY StepTypes, Zenon DEF SInv, Disciplined
<1>2. Typed
  BY Zenon DEF SInv, TInv
<1> SUFFICES /\ Nested' /\ Intact'
             /\ \/ frames' = frames
                \/ \E d \in Drops : Calls!Leave(d)
                \/ \E kind \in {"near", "far", "INT", "hardware"} : Calls!Enter(kind)
  BY <1>1, Zenon DEF SInv, Calls!Next, Calls!Within
<1>3. CASE NEAR_CALL
  BY <1>3, NearCallEnters, Zenon
<1>4. CASE FAR_CALL
  BY <1>4, FarCallEnters, Zenon
<1>5. CASE INT
  <2>1. /\ ~ checking /\ ~ hlt /\ Instr.op = "INT"
        /\ Interrupt("INT", Instr.vector, Follows)
    BY <1>5, Zenon DEF INT, Executes
  <2>2. Instr.vector \in Byte /\ Follows \in Word
    BY <1>2, <2>1, Follow, Zenon DEF Decodes, Disciplined
  <2>3. /\ "INT" \in {"INT", "hardware"}
        /\ Follows = IF "INT" = "hardware" THEN ip ELSE Follows
    OBVIOUS
  <2>4. Nested' /\ Intact' /\ Calls!Enter("INT")
    BY <2>1, <2>2, <2>3, InterruptEnters, Zenon
  <2> QED
    BY <2>4, Zenon
<1>6. CASE Serve
  <2>1. Interrupt("hardware", intr_v, ip)
    BY <1>6, Zenon DEF Serve
  <2>2. ip \in Word /\ intr_v \in Byte
    BY <1>2, Zenon DEF Typed
  <2>3. /\ "hardware" \in {"INT", "hardware"}
        /\ ip = IF "hardware" = "hardware" THEN ip ELSE Follows
    OBVIOUS
  <2>4. Nested' /\ Intact' /\ Calls!Enter("hardware")
    BY <2>1, <2>2, <2>3, InterruptEnters, Zenon
  <2> QED
    BY <2>4, Zenon
<1>7. CASE NEAR_RET \/ FAR_RET \/ IRET
  BY <1>7, Returns, Zenon
<1>8. CASE \/ DataTransfer \/ Arithmetic \/ ProcessorControl
           \/ NEAR_JMP \/ FAR_JMP \/ ConditionalJump \/ LOOP
           \/ PassOn \/ DeviceRequest \/ UNCHANGED vars
  BY <1>8, StaysWithin, Zenon
<1> QED
  BY <1>3, <1>4, <1>5, <1>6, <1>7, <1>8, Zenon DEF Next, Clock, ControlTransfer

\* Calls and interrupts are nested routines for every disciplined program: whatever
\* instruction the interrupts come at, and wherever the stack is, around the end of its
\* segment included, a return goes back to where and in the state its routine was
\* entered, although it pops words and the flags go through one.
THEOREM KeepsCallStack ==
  ASSUME WholeMemory
  PROVE  Spec /\ []Disciplined => ImplementsCallStack
<1>1. Init => SInv
  <2> SUFFICES ASSUME Init PROVE SInv
    OBVIOUS
  <2>1. DOMAIN frames = {}
    BY SMT DEF Init
  <2> QED
    BY <2>1, InitTypes, Zenon DEF SInv, Nested, Intact
<1>2. SInv /\ Disciplined /\ [Next]_vars => SInv' /\ [Calls!Next]_(Calls!callVars)
  BY StepKeeps, Zenon
<1>3. Init => Calls!Init
  BY SMT DEF Init, Calls!Init
<1> QED
  BY <1>1, <1>2, <1>3, PTL DEF Spec, ImplementsCallStack, Calls!Spec
=============================================================================
