------------------------------- MODULE AluProofs -------------------------------
(***************************************************************************)
(* For words of any number of bits: the arithmetic instructions keep the   *)
(* types of the registers, the flags tell of the last comparison, and      *)
(* additions and subtractions by halves are exact, but for the carry that  *)
(* an immediate of ones loses.                                             *)
(***************************************************************************)
EXTENDS Alu, TLAPS

\* The facts of word arithmetic everything below rests on.
LEMMA Modulus == M \in Nat \ {0} /\ H \in Nat \ {0} /\ M = 2 * H /\ H < M
  BY WordAssumption DEF M

LEMMA CutIsWord == ASSUME NEW n \in Int PROVE n % M \in Word
  BY Modulus DEF Word

LEMMA CutOnce ==
  ASSUME NEW n \in Int, n >= -M, n < 2 * M
  PROVE  n % M = IF n < 0 THEN n + M ELSE IF n < M THEN n ELSE n - M
<1>. DEFINE m == M
<1>1. m \in Nat \ {0}  BY Modulus
<1>2. n >= -m /\ n < 2 * m  OBVIOUS
<1>. HIDE DEF m
<1>3. n % m = IF n < 0 THEN n + m ELSE IF n < m THEN n ELSE n - m
  <2>1. CASE n < 0  BY <1>1, <1>2, <2>1, SMT
  <2>2. CASE n >= 0 /\ n < m  BY <1>1, <1>2, <2>2, SMT
  <2>3. CASE n >= m  BY <1>1, <1>2, <2>3, SMT
  <2>. QED  BY <1>1, <2>1, <2>2, <2>3
<1>. QED  BY <1>3 DEF m

-----------------------------------------------------------------------------
(* The flags.                                                              *)

LEMMA AddFlags ==
  ASSUME NEW v1, NEW v2, NEW c PROVE update_reg_add(v1, v2, c) \in Flag
  BY DEF update_reg_add, Flag, CarryOut, SignBit

LEMMA SubFlags == ASSUME NEW v1, NEW v2 PROVE update_reg_sub(v1, v2) \in Flag
  BY DEF update_reg_sub, Flag, CarryOut, SignBit

LEMMA LogicFlags == ASSUME NEW x PROVE update_reg_logic(x) \in Flag
  BY DEF update_reg_logic, Flag, SignBit

LEMMA ProductFlags ==
  ASSUME NEW f \in Flag, NEW v1, NEW v2
  PROVE  update_reg_mul(f, v1, v2) \in Flag /\ update_reg_imul(f, v1, v2) \in Flag
  BY DEF update_reg_mul, update_reg_imul, Flag

LEMMA FlagRecord ==
  ASSUME NEW c \in BOOLEAN, NEW z \in BOOLEAN, NEW s \in BOOLEAN, NEW o \in BOOLEAN
  PROVE  [c |-> c, z |-> z, s |-> s, o |-> o] \in Flag
  BY DEF Flag

LEMMA ShlFlags ==
  ASSUME NEW f \in Flag, NEW v, NEW c PROVE update_reg_shl(f, v, c) \in Flag
<1>1. f.o \in BOOLEAN  BY DEF Flag
<1>. DEFINE r == (v * 2^c) % M
            out == Bit(v, W - c)
            o == IF c = 1 THEN Bit(v, W - 1) # Bit(v, W - 2) ELSE f.o
<1>2. out \in BOOLEAN  BY DEF Bit
<1>3. o \in BOOLEAN  BY <1>1
<1>4. SignBit(r) \in BOOLEAN  BY DEF SignBit
<1>5. (r = 0) \in BOOLEAN  OBVIOUS
<1>6. update_reg_shl(f, v, c) = [c |-> out, z |-> r = 0, s |-> SignBit(r), o |-> o]
  BY Zenon DEF update_reg_shl
<1>. HIDE DEF r, out, o
<1>7. [c |-> out, z |-> r = 0, s |-> SignBit(r), o |-> o] \in Flag
  BY <1>2, <1>3, <1>4, <1>5, FlagRecord, Zenon
<1>. QED  BY <1>6, <1>7, Zenon

LEMMA ShrFlags ==
  ASSUME NEW f \in Flag, NEW v, NEW c PROVE update_reg_shr(f, v, c) \in Flag
<1>1. f.o \in BOOLEAN  BY DEF Flag
<1>. DEFINE r == v \div 2^c
            out == Bit(v, c - 1)
            o == IF c = 1 THEN SignBit(v) ELSE f.o
<1>2. out \in BOOLEAN  BY DEF Bit
<1>3. o \in BOOLEAN
  <2>1. SignBit(v) \in BOOLEAN  BY DEF SignBit
  <2>. QED  BY <1>1, <2>1, Zenon
<1>4. SignBit(r) \in BOOLEAN  BY DEF SignBit
<1>5. (r = 0) \in BOOLEAN  OBVIOUS
<1>6. update_reg_shr(f, v, c) = [c |-> out, z |-> r = 0, s |-> SignBit(r), o |-> o]
  BY Zenon DEF update_reg_shr
<1>. HIDE DEF r, out, o
<1>7. [c |-> out, z |-> r = 0, s |-> SignBit(r), o |-> o] \in Flag
  BY <1>2, <1>3, <1>4, <1>5, FlagRecord, Zenon
<1>. QED  BY <1>6, <1>7, Zenon

\* After a subtraction the flags order its operands, unsigned and signed.
LEMMA SubTells ==
  ASSUME NEW v1 \in Word, NEW v2 \in Word
  PROVE  Tells(update_reg_sub(v1, v2), Compared(v1, v2))
<1>. DEFINE d == v1 - v2
            f == update_reg_sub(v1, v2)
            s1 == v1 >= H
            s2 == v2 >= H
            sd == d % M >= H
<1>1. v1 \in Int /\ v2 \in Int /\ d \in Int /\ v1 >= 0 /\ v2 >= 0 /\ v1 < M /\ v2 < M
  BY Modulus DEF Word
<1>2. v1 % M = v1 /\ v2 % M = v2  BY <1>1, CutOnce, Modulus
<1>3. d % M = IF d < 0 THEN d + M ELSE d
  <2>1. d >= -M /\ d < M /\ d < 2 * M  BY <1>1, Modulus
  <2>. HIDE DEF d
  <2>2. d % M = IF d < 0 THEN d + M ELSE IF d < M THEN d ELSE d - M
    BY <1>1, <2>1, CutOnce
  <2>. QED  BY <1>1, <2>1, <2>2
<1>4. /\ f.c <=> d < 0
      /\ f.z <=> d = 0
      /\ f.s <=> sd
      /\ f.o <=> (~(s1 <=> s2) /\ ~(s1 <=> sd))
  <2>1. d \notin Word <=> d < 0  BY <1>1, Modulus DEF Word
  <2>2. f.c = CarryOut(d) /\ f.z = (d = 0) /\ f.s = SignBit(d)
    BY Zenon DEF update_reg_sub
  <2>3. f.o = (SignBit(v1) # SignBit(v2) /\ SignBit(v1) # SignBit(d))
    BY Zenon DEF update_reg_sub
  <2>4. SignBit(v1) = s1 /\ SignBit(v2) = s2 /\ SignBit(d) = sd
    BY <1>2, Zenon DEF SignBit
  <2>5. CarryOut(d) = (d \notin Word)  BY Zenon DEF CarryOut
  <2>6. s1 \in BOOLEAN /\ s2 \in BOOLEAN /\ sd \in BOOLEAN  OBVIOUS
  <2>. HIDE DEF d, f, s1, s2, sd
  <2>7. (s1 # s2) <=> ~(s1 <=> s2)  BY <2>6, Zenon
  <2>8. (s1 # sd) <=> ~(s1 <=> sd)  BY <2>6, Zenon
  <2>9. f.o = (s1 # s2 /\ s1 # sd)  BY <2>3, <2>4, Zenon
  <2>10. f.o <=> (~(s1 <=> s2) /\ ~(s1 <=> sd))  BY <2>7, <2>8, <2>9, Zenon
  <2>11. (f.c <=> d < 0) /\ (f.z <=> d = 0)  BY <2>1, <2>2, <2>5, Zenon
  <2>12. f.s <=> sd  BY <2>2, <2>4, Zenon
  <2>. QED  BY <2>10, <2>11, <2>12
<1>5. f.s # f.o <=> Signed(v1) < Signed(v2)
  <2>1. f.s \in BOOLEAN /\ f.o \in BOOLEAN  BY SubFlags DEF Flag
  <2>2. (f.s # f.o) <=> ~(f.s <=> f.o)  BY <2>1, Zenon
  <2>3. CASE s1 <=> s2
    <3>1. sd <=> Signed(v1) < Signed(v2)  BY <2>3, <1>1, <1>3, Modulus DEF Signed
    <3>. HIDE DEF f, s1, s2, sd
    <3>2. ~f.o /\ (f.s <=> sd)  BY <1>4, <2>3, Zenon
    <3>. QED  BY <2>2, <3>1, <3>2, Zenon
  <2>4. CASE s1 /\ ~s2
    <3>1. Signed(v1) < Signed(v2)  BY <2>4, <1>1, Modulus DEF Signed
    <3>. HIDE DEF f, s1, s2, sd
    <3>2. (f.o <=> ~sd) /\ (f.s <=> sd)  BY <1>4, <2>4, Zenon
    <3>. QED  BY <2>2, <3>1, <3>2, Zenon
  <2>5. CASE ~s1 /\ s2
    <3>1. ~(Signed(v1) < Signed(v2))  BY <2>5, <1>1, Modulus DEF Signed
    <3>. HIDE DEF f, s1, s2, sd
    <3>2. (f.o <=> sd) /\ (f.s <=> sd)  BY <1>4, <2>5, Zenon
    <3>. QED  BY <2>2, <3>1, <3>2, Zenon
  <2>. QED  BY <2>3, <2>4, <2>5, Zenon
<1>6. Signed(v1) \in Int /\ Signed(v2) \in Int  BY <1>1, Modulus DEF Signed
<1>7. Signed(v1) = Signed(v2) <=> d = 0  BY <1>1, Modulus DEF Signed
<1>8. \A n \in Int : /\ Sgn(n) = 0 <=> n = 0
                     /\ Sgn(n) < 0 <=> n < 0
                     /\ Sgn(n) <= 0 <=> n <= 0
  BY DEF Sgn
<1>9. Compared(v1, v2).u = Sgn(d) /\ Compared(v1, v2).s = Sgn(Signed(v1) - Signed(v2))
  BY DEF Compared
<1>. HIDE DEF d, f
<1>10. /\ Sgn(d) = 0 <=> d = 0
       /\ Sgn(d) < 0 <=> d < 0
       /\ Sgn(d) <= 0 <=> d <= 0
  BY <1>1, <1>8
<1>11. /\ Sgn(Signed(v1) - Signed(v2)) < 0 <=> Signed(v1) < Signed(v2)
       /\ Sgn(Signed(v1) - Signed(v2)) <= 0 <=> Signed(v1) <= Signed(v2)
  BY <1>6, <1>8
<1>12. (d = 0 \/ d < 0) <=> d <= 0  BY <1>1
<1>13. Signed(v1) <= Signed(v2) <=> (d = 0 \/ Signed(v1) < Signed(v2))  BY <1>6, <1>7
<1>14. Tells(f, Compared(v1, v2))
  <2>1. Condition("z", f) <=> Compared(v1, v2).u = 0
    BY <1>4, <1>9, <1>10 DEF Condition
  <2>2. Condition("b", f) <=> Compared(v1, v2).u < 0
    BY <1>4, <1>9, <1>10 DEF Condition
  <2>3. Condition("be", f) <=> Compared(v1, v2).u <= 0
    BY <1>4, <1>9, <1>10, <1>12 DEF Condition
  <2>4. Condition("l", f) <=> Compared(v1, v2).s < 0
    BY <1>5, <1>9, <1>11 DEF Condition
  <2>5. Condition("le", f) <=> Compared(v1, v2).s <= 0
    BY <1>4, <1>5, <1>9, <1>11, <1>13 DEF Condition
  <2>. QED  BY <2>1, <2>2, <2>3, <2>4, <2>5 DEF Tells
<1>. QED  BY <1>14 DEF f

-----------------------------------------------------------------------------
(* The types of what the instructions write.                               *)

LEMMA SignedInt == ASSUME NEW v \in Word PROVE Signed(v) \in Int
  BY Modulus DEF Signed, Word

LEMMA WordInt == ASSUME NEW v \in Word PROVE v \in Int
  BY DEF Word

LEMMA SmallWords == 0 \in Word /\ 1 \in Word /\ M - 1 \in Word
  BY Modulus DEF Word

LEMMA PutWord ==
  ASSUME TypeOK, NEW r \in Reg, NEW x \in Word, Put(r, x) PROVE reg' \in [Reg -> Word]
  BY DEF TypeOK, Put

LEMMA PutCut ==
  ASSUME TypeOK, NEW r \in Reg, NEW n \in Int, Put(r, n % M) PROVE reg' \in [Reg -> Word]
<1>1. n % M \in Word  BY CutIsWord
<1>2. reg' = [reg EXCEPT ![r] = n % M]  BY Zenon DEF Put
<1>. HIDE DEF Word
<1>. QED  BY <1>1, <1>2 DEF TypeOK

LEMMA PutPairWord ==
  ASSUME TypeOK, NEW lo \in Word, NEW hi \in Word, PutPair(lo, hi)
  PROVE  reg' \in [Reg -> Word]
  BY DEF TypeOK, PutPair, Reg

LEMMA Registers ==
  ASSUME TypeOK
  PROVE  /\ \A r \in Reg : reg[r] \in Word /\ reg[r] \in Int
         /\ reg.ax \in Word /\ reg.dx \in Word
         /\ reg.ax \in Int /\ reg.dx \in Int
         /\ Pair \in Int /\ SignedPair \in Int
<1>1. \A r \in Reg : reg[r] \in Word  BY DEF TypeOK
<1>2. reg.ax \in Word /\ reg.dx \in Word  BY <1>1 DEF Reg
<1>3. Signed(reg.dx) \in Int  BY <1>2, SignedInt
<1>4. reg.ax \in Int /\ reg.dx \in Int  BY <1>2, WordInt
<1>5. Pair \in Int /\ SignedPair \in Int  BY <1>3, <1>4, Modulus DEF Pair, SignedPair
<1>. QED  BY <1>1, <1>2, <1>4, <1>5, WordInt

LEMMA ComparedType ==
  ASSUME NEW v1 \in Word, NEW v2 \in Word PROVE {Compared(v1, v2)} \in SUBSET Comparison
<1>1. \A n : Sgn(n) \in {-1, 0, 1}  BY DEF Sgn
<1>. QED  BY <1>1 DEF Compared, Comparison

LEMMA LowerType ==
  ASSUME NEW op \in {"add", "sub"}, NEW r, NEW n \in Int PROVE Lower(op, r, n) \in SUBSET Chain
  BY DEF Lower, Chain

LEMMA UpperType ==
  ASSUME TypeOK, NEW op \in {"add", "sub"}, NEW r, NEW v \in Word, NEW ones \in BOOLEAN
  PROVE  Upper(op, r, v, ones) \in SUBSET Chain
<1>. DEFINE by == IF op = "add" THEN v * M ELSE -(v * M)
<1>1. v * M \in Int  BY WordInt, Modulus
<1>2. by \in Int  BY <1>1
<1>3. \A k \in chain : k.n \in Int  BY DEF TypeOK, Chain
<1>. HIDE DEF by
<1>4. \A k \in chain : [op |-> op, n |-> k.n + by, done |-> TRUE, ones |-> ones] \in Chain
  BY <1>2, <1>3 DEF Chain
<1>5. Upper(op, r, v, ones) \in {{}, {[op |-> op, n |-> k.n + by, done |-> TRUE, ones |-> ones] :
                                        k \in {k \in chain : k.op = op /\ ~k.done}}}
  BY DEF Upper, by
<1>. QED  BY <1>4, <1>5

LEMMA AndFlagsType ==
  ASSUME NEW r, NEW v, NEW x PROVE AndFlags(r, v, x) \in Flag
  BY AddFlags, LogicFlags DEF AndFlags

-----------------------------------------------------------------------------
(* One step.                                                               *)

\* What the sizes allow, forgotten: a step is one instruction.
LEMMA OneInstruction ==
  ASSUME Next
  PROVE  \/ \E r \in Reg, v \in Word : TwoOperand(r, v) \/ Adc(r, v) \/ ImulReg(r, v)
         \/ \E r \in Reg : OneOperand(r) \/ Inc(r) \/ Dec(r)
         \/ \E v \in Word : OnPair(v)
         \/ Xchg \/ SignExtend \/ DivideError
         \/ \E f \in Flag : Popf(f)
  BY Zenon DEF Next, Instr8, Instr16, Instr32, Common, Wider

\* Who works at the registers leaves the processor running at the same size.
LEMMA RunningType == ASSUME TypeOK, Running PROVE size' \in {8, 16, 32} /\ cpu' \in {"run", "ended"}
  BY DEF TypeOK, Running

LEMMA TypeFromParts ==
  ASSUME TypeOK, Running, reg' \in [Reg -> Word], fl' \in Flag,
         cmp' \in SUBSET Comparison, chain' \in SUBSET Chain, exact' \in SUBSET Exact
  PROVE  TypeOK'
  BY RunningType DEF TypeOK

LEMMA NoHistoryType ==
  ASSUME TypeOK, Running, NoHistory, reg' \in [Reg -> Word], fl' \in Flag PROVE TypeOK'
  BY TypeFromParts DEF NoHistory

LEMMA FlagsStayType ==
  ASSUME TypeOK, Running, FlagsStay, reg' \in [Reg -> Word] PROVE TypeOK'
<1>1. fl' \in Flag /\ cmp' \in SUBSET Comparison  BY DEF TypeOK, FlagsStay
<1>. QED  BY <1>1, TypeFromParts DEF FlagsStay

LEMMA AdditionTypes ==
  ASSUME TypeOK, NEW r \in Reg, NEW v \in Word,
         \/ Add(r, v) \/ Sub(r, v) \/ Cmp(r, v) \/ Adc(r, v)
         \/ AdcImm(r, v) \/ SbbImm(r, v) \/ Inc(r) \/ Dec(r) \/ Neg(r)
  PROVE  TypeOK'
<1>. DEFINE w == (v + CarryIn(fl)) % M
<1>1. reg[r] \in Word /\ reg[r] \in Int /\ v \in Int /\ Pair \in Int  BY Registers, WordInt
<1>2. CarryIn(fl) \in Int  BY DEF CarryIn
<1>3. w \in Word  BY <1>1, <1>2, CutIsWord
<1>4. w \in Int  BY <1>3, WordInt
<1>5. reg \in [Reg -> Word]  BY DEF TypeOK
<1>6. /\ {} \in SUBSET Comparison /\ {} \in SUBSET Chain /\ {} \in SUBSET Exact
  OBVIOUS
<1>16. OnesAndCarry(v) \in BOOLEAN  BY DEF OnesAndCarry
<1>7. CASE Add(r, v)
  <2>1. reg' \in [Reg -> Word]
    <3>1. reg[r] + v \in Int  BY <1>1
    <3>2. Put(r, (reg[r] + v) % M)  BY <1>7, Zenon DEF Add
    <3>. QED  BY <3>1, <3>2, PutCut
  <2>2. fl' \in Flag  BY <1>7, AddFlags DEF Add
  <2>3. chain' \in SUBSET Chain  BY <1>1, <1>7, LowerType DEF Add
  <2>. QED  BY <1>6, <1>7, <2>1, <2>2, <2>3, TypeFromParts DEF Add
<1>8. CASE Sub(r, v)
  <2>1. reg' \in [Reg -> Word]
    <3>1. reg[r] - v \in Int  BY <1>1
    <3>2. Put(r, (reg[r] - v) % M)  BY <1>8, Zenon DEF Sub
    <3>. QED  BY <3>1, <3>2, PutCut
  <2>2. fl' \in Flag  BY <1>8, SubFlags DEF Sub
  <2>3. chain' \in SUBSET Chain  BY <1>1, <1>8, LowerType DEF Sub
  <2>4. cmp' \in SUBSET Comparison  BY <1>1, <1>8, ComparedType DEF Sub
  <2>. QED  BY <1>6, <1>8, <2>1, <2>2, <2>3, <2>4, TypeFromParts DEF Sub
<1>9. CASE Cmp(r, v)
  <2>1. fl' \in Flag  BY <1>9, SubFlags DEF Cmp
  <2>2. cmp' \in SUBSET Comparison  BY <1>1, <1>9, ComparedType DEF Cmp
  <2>. QED  BY <1>5, <1>6, <1>9, <2>1, <2>2, TypeFromParts DEF Cmp
<1>10. CASE Adc(r, v)
  <2>1. reg' \in [Reg -> Word]
    <3>1. reg[r] + v + CarryIn(fl) \in Int  BY <1>1, <1>2
    <3>2. Put(r, (reg[r] + v + CarryIn(fl)) % M)  BY <1>10, Zenon DEF Adc
    <3>. QED  BY <3>1, <3>2, PutCut
  <2>2. fl' \in Flag  BY <1>10, AddFlags DEF Adc
  <2>3. chain' \in SUBSET Chain  BY <1>10, UpperType DEF Adc
  <2>. QED  BY <1>6, <1>10, <2>1, <2>2, <2>3, TypeFromParts DEF Adc
<1>11. CASE AdcImm(r, v)
  <2>1. reg' \in [Reg -> Word]
    <3>1. reg[r] + w \in Int  BY <1>1, <1>4
    <3>2. Put(r, (reg[r] + w) % M)  BY <1>11, Zenon DEF AdcImm
    <3>. QED  BY <3>1, <3>2, PutCut
  <2>2. fl' \in Flag  BY <1>11, AddFlags DEF AdcImm
  <2>3. chain' \in SUBSET Chain  BY <1>16, <1>11, UpperType DEF AdcImm
  <2>. QED  BY <1>6, <1>11, <2>1, <2>2, <2>3, TypeFromParts DEF AdcImm
<1>12. CASE SbbImm(r, v)
  <2>1. reg' \in [Reg -> Word]
    <3>1. reg[r] - w \in Int  BY <1>1, <1>4
    <3>2. Put(r, (reg[r] - w) % M)  BY <1>12, Zenon DEF SbbImm
    <3>. QED  BY <3>1, <3>2, PutCut
  <2>2. fl' \in Flag  BY <1>12, SubFlags DEF SbbImm
  <2>3. chain' \in SUBSET Chain  BY <1>16, <1>12, UpperType DEF SbbImm
  <2>. QED  BY <1>6, <1>12, <2>1, <2>2, <2>3, TypeFromParts DEF SbbImm
<1>13. CASE Inc(r)
  <2>1. reg' \in [Reg -> Word]
    <3>1. reg[r] + 1 \in Int  BY <1>1
    <3>2. Put(r, (reg[r] + 1) % M)  BY <1>13, Zenon DEF Inc
    <3>. QED  BY <3>1, <3>2, PutCut
  <2>2. fl' \in Flag  BY <1>13, AddFlags DEF Inc
  <2>. QED  BY <1>13, <2>1, <2>2, NoHistoryType DEF Inc
<1>14. CASE Dec(r)
  <2>1. reg' \in [Reg -> Word]
    <3>1. reg[r] - 1 \in Int  BY <1>1
    <3>2. Put(r, (reg[r] - 1) % M)  BY <1>14, Zenon DEF Dec
    <3>. QED  BY <3>1, <3>2, PutCut
  <2>2. fl' \in Flag  BY <1>14, SubFlags DEF Dec
  <2>3. cmp' \in SUBSET Comparison  BY <1>1, <1>14, SmallWords, ComparedType DEF Dec
  <2>. QED  BY <1>6, <1>14, <2>1, <2>2, <2>3, TypeFromParts DEF Dec
<1>15. CASE Neg(r)
  <2>1. reg' \in [Reg -> Word]
    <3>1. 0 - reg[r] \in Int  BY <1>1
    <3>2. Put(r, (0 - reg[r]) % M)  BY <1>15, Zenon DEF Neg
    <3>. QED  BY <3>1, <3>2, PutCut
  <2>2. fl' \in Flag  BY <1>15, SubFlags DEF Neg
  <2>3. cmp' \in SUBSET Comparison  BY <1>1, <1>15, SmallWords, ComparedType DEF Neg
  <2>. QED  BY <1>6, <1>15, <2>1, <2>2, <2>3, TypeFromParts DEF Neg
<1>. QED
  BY <1>7, <1>8, <1>9, <1>10, <1>11, <1>12, <1>13, <1>14, <1>15, Zenon

LEMMA LogicTypes ==
  ASSUME TypeOK, NEW r \in Reg, NEW v \in Word,
         And(r, v) \/ Test(r, v) \/ Or(r, v) \/ Xor(r, v) \/ Mov(r, v) \/ Not(r)
  PROVE  TypeOK'
<1>1. reg \in [Reg -> Word]  BY DEF TypeOK
<1>2. CASE And(r, v)
  <2>1. PICK x \in Word : /\ Running /\ Put(r, x) /\ NoHistory
                          /\ fl' = AndFlags(r, v, x)
    BY <1>2, Zenon DEF And
  <2>. QED  BY <2>1, PutWord, AndFlagsType, NoHistoryType
<1>3. CASE Test(r, v)
  <2>1. PICK x \in Word : /\ Running /\ NoHistory /\ UNCHANGED reg
                          /\ fl' = AndFlags(r, v, x)
    BY <1>3, Zenon DEF Test
  <2>. QED  BY <1>1, <2>1, AndFlagsType, NoHistoryType
<1>4. CASE Or(r, v)
  <2>1. PICK x \in Word : /\ Running /\ Put(r, x) /\ NoHistory
                          /\ fl' = update_reg_logic(x)
    BY <1>4, Zenon DEF Or
  <2>. QED  BY <2>1, PutWord, LogicFlags, NoHistoryType
<1>5. CASE Xor(r, v)
  <2>1. PICK x \in Word : Running /\ Put(r, x) /\ FlagsStay  BY <1>5, Zenon DEF Xor
  <2>. QED  BY <2>1, PutWord, FlagsStayType
<1>6. CASE Mov(r, v)
  BY <1>6, PutWord, FlagsStayType DEF Mov
<1>7. CASE Not(r)
  <2>1. M - 1 - reg[r] \in Word  BY Registers, Modulus DEF Word
  <2>. QED  BY <1>7, <2>1, PutWord, FlagsStayType DEF Not
<1>. QED  BY <1>2, <1>3, <1>4, <1>5, <1>6, <1>7, Zenon

LEMMA ShiftTypes ==
  ASSUME TypeOK, NEW r \in Reg, NEW c, Shl(r, c) \/ Shr(r, c) \/ Sal(r, c) \/ Sar(r, c)
  PROVE  TypeOK'
<1>1. fl \in Flag  BY DEF TypeOK
<1>2. CASE Shl(r, c)
  <2>1. PICK x \in Word : /\ Running /\ Put(r, x) /\ NoHistory
                          /\ fl' = update_reg_shl(fl, reg[r], c)
    BY <1>2, Zenon DEF Shl
  <2>. QED  BY <1>1, <2>1, PutWord, ShlFlags, NoHistoryType
<1>3. CASE Shr(r, c)
  <2>1. PICK x \in Word : /\ Running /\ Put(r, x) /\ NoHistory
                          /\ fl' = update_reg_shr(fl, reg[r], c)
    BY <1>3, Zenon DEF Shr
  <2>. QED  BY <1>1, <2>1, PutWord, ShrFlags, NoHistoryType
<1>4. CASE Sal(r, c) \/ Sar(r, c)
  <2>1. PICK x \in Word : Running /\ Put(r, x) /\ FlagsStay  BY <1>4, Zenon DEF Sal, Sar
  <2>. QED  BY <2>1, PutWord, FlagsStayType
<1>. QED  BY <1>2, <1>3, <1>4, Zenon

LEMMA MoveTypes ==
  ASSUME TypeOK,
         \/ Xchg \/ SignExtend
         \/ \E r \in Reg, cc \in Conditions : Setcc(r, cc)
         \/ \E f \in Flag : Popf(f)
  PROVE  TypeOK'
<1>1. CASE Xchg
  BY <1>1, Registers, PutPairWord, FlagsStayType DEF Xchg
<1>2. CASE SignExtend
  <2>1. PICK x \in Word : Running /\ Put("dx", x) /\ FlagsStay
    <3>1. (IF SignBit(reg.ax) THEN M - 1 ELSE 0) \in Word  BY SmallWords
    <3>. QED  BY <1>2, <3>1, Zenon DEF SignExtend
  <2>2. "dx" \in Reg  BY DEF Reg
  <2>. QED  BY <2>1, <2>2, PutWord, FlagsStayType
<1>3. CASE \E r \in Reg, cc \in Conditions : Setcc(r, cc)
  <2>1. PICK r \in Reg, cc \in Conditions : Setcc(r, cc)  BY <1>3
  <2>. DEFINE bit == IF Condition(cc, fl) THEN 1 ELSE 0
  <2>2. bit \in Word  BY SmallWords
  <2>3. Running /\ FlagsStay /\ (PutPair(bit, 0) \/ Put(r, bit))
    BY <2>1, Zenon DEF Setcc
  <2>. HIDE DEF bit
  <2>4. reg' \in [Reg -> Word]  BY <2>2, <2>3, SmallWords, PutWord, PutPairWord
  <2>. QED  BY <2>3, <2>4, FlagsStayType
<1>4. CASE \E f \in Flag : Popf(f)
  <2>1. reg \in [Reg -> Word]  BY DEF TypeOK
  <2>. QED  BY <1>4, <2>1, NoHistoryType DEF Popf
<1>. QED  BY <1>1, <1>2, <1>3, <1>4, Zenon

LEMMA PutProductWord ==
  ASSUME TypeOK, NEW n \in Int, PutProduct(n) PROVE reg' \in [Reg -> Word]
<1>1. n \div M \in Int  BY Modulus
<1>2. n % M \in Word /\ (n \div M) % M \in Word  BY <1>1, CutIsWord
<1>3. PutPair(n % M, (n \div M) % M)  BY Zenon DEF PutProduct
<1>. QED  BY <1>2, <1>3, PutPairWord

LEMMA ExactType ==
  ASSUME NEW op \in {"mul", "imul", "div", "idiv"}, NEW n \in Int, NEW v \in Word
  PROVE  {[op |-> op, n |-> n, v |-> v]} \in SUBSET Exact
  BY DEF Exact

LEMMA ProductTypes ==
  ASSUME TypeOK, NEW v \in Word, Mul(v) \/ Imul(v) PROVE TypeOK'
<1>. DEFINE n == reg.ax * v
            m == Signed(reg.ax) * Signed(v)
<1>1. fl \in Flag  BY DEF TypeOK
<1>2. n \in Int /\ m \in Int
  <2>1. Signed(reg.ax) \in Int /\ Signed(v) \in Int  BY Registers, SignedInt
  <2>. QED  BY <2>1, Registers, WordInt
<1>3. Product(n) \in Int /\ \A p \in SignedProducts(m) : p \in Int
  <2>. HIDE DEF n, m
  <2>1. n % M \in Word /\ m % M \in Word  BY <1>2, CutIsWord
  <2>2. n % M \in Int /\ Signed(m % M) \in Int  BY <2>1, WordInt, SignedInt
  <2>. QED  BY <1>2, <2>2 DEF Product, SignedProducts
<1>4. {} \in SUBSET Comparison /\ {} \in SUBSET Chain /\ {} \in SUBSET Exact  OBVIOUS
<1>5. CASE Mul(v)
  <2>1. /\ Running /\ PutProduct(Product(n))
        /\ fl' = update_reg_mul(fl, reg.ax, v)
        /\ cmp' = {} /\ chain' = {}
        /\ exact' = IF size = 32 THEN {} ELSE {[op |-> "mul", n |-> n, v |-> v]}
    BY <1>5, Zenon DEF Mul
  <2>. HIDE DEF n, m
  <2>2. exact' \in SUBSET Exact  BY <1>2, <1>4, <2>1, ExactType
  <2>3. fl' \in Flag  BY <1>1, <2>1, ProductFlags
  <2>. QED  BY <1>3, <1>4, <2>1, <2>2, <2>3, PutProductWord, TypeFromParts
<1>6. CASE Imul(v)
  <2>1. /\ Running /\ \E p \in SignedProducts(m) : PutProduct(p)
        /\ fl' = update_reg_imul(fl, Signed(reg.ax), Signed(v))
        /\ cmp' = {} /\ chain' = {}
        /\ exact' = IF size = 32 THEN {} ELSE {[op |-> "imul", n |-> m, v |-> v]}
    BY <1>6, Zenon DEF Imul
  <2>. HIDE DEF n, m
  <2>2. exact' \in SUBSET Exact  BY <1>2, <1>4, <2>1, ExactType
  <2>3. fl' \in Flag  BY <1>1, <2>1, ProductFlags
  <2>. QED  BY <1>3, <1>4, <2>1, <2>2, <2>3, PutProductWord, TypeFromParts
<1>. QED  BY <1>5, <1>6, Zenon

LEMMA ImulRegTypes ==
  ASSUME TypeOK, NEW r \in Reg, NEW v \in Word, ImulReg(r, v) PROVE TypeOK'
<1>. DEFINE m == Signed(reg[r]) * Signed(v)
<1>1. m \in Int
  <2>1. Signed(reg[r]) \in Int /\ Signed(v) \in Int  BY Registers, SignedInt
  <2>. QED  BY <2>1
<1>2. Put(r, m % M) /\ Running /\ NoHistory  BY Zenon DEF ImulReg
<1>3. fl \in Flag  BY DEF TypeOK
<1>4. fl' \in Flag  BY <1>3, ProductFlags DEF ImulReg
<1>. HIDE DEF m
<1>. QED  BY <1>1, <1>2, <1>4, PutCut, NoHistoryType

LEMMA QuotientInt ==
  ASSUME NEW n \in Int, NEW d \in Int, d # 0 PROVE Quotient(n, d) \in Int /\ Remainder(n, d) \in Int
<1>1. Sgn(n) \in Int /\ Sgn(d) \in Int  BY DEF Sgn
<1>2. Abs(n) \in Int /\ Abs(d) \in Nat \ {0}  BY DEF Abs
<1>3. Abs(n) \div Abs(d) \in Int  BY <1>2
<1>4. Sgn(n) * Sgn(d) \in Int  BY <1>1
<1>5. Quotient(n, d) \in Int  BY <1>3, <1>4 DEF Quotient
<1>6. d * Quotient(n, d) \in Int  BY <1>5
<1>. QED  BY <1>5, <1>6 DEF Remainder

LEMMA DivisionTypes ==
  ASSUME TypeOK, NEW v \in Word, Div(v) \/ Idiv(v) PROVE TypeOK'
<1>. DEFINE n == Pair
            m == SignedPair
            d == Signed(v)
            q == Quotient(m, d)
            t == Remainder(m, d)
<1>1. fl \in Flag /\ cmp \in SUBSET Comparison  BY DEF TypeOK
<1>2. n \in Int /\ m \in Int /\ v \in Int /\ d \in Int  BY Registers, WordInt, SignedInt
<1>3. {} \in SUBSET Chain /\ {} \in SUBSET Exact  OBVIOUS
<1>4. CASE Div(v)
  <2>1. /\ Running /\ v # 0
        /\ PutPair((n \div v) % M, n % v)
        /\ exact' = IF n \div v \in Word THEN {[op |-> "div", n |-> n, v |-> v]} ELSE {}
        /\ chain' = {}
        /\ UNCHANGED <<fl, cmp>>
    BY <1>4, Zenon DEF Div
  <2>. HIDE DEF n
  <2>2. v > 0 /\ v < M  BY <2>1, Modulus DEF Word
  <2>3. n \div v \in Int /\ n % v \in 0..(v - 1)  BY <1>2, <2>2
  <2>4. (n \div v) % M \in Word  BY <2>3, CutIsWord
  <2>5. n % v \in Word  BY <1>2, <2>2, <2>3, Modulus DEF Word
  <2>6. reg' \in [Reg -> Word]  BY <2>1, <2>4, <2>5, PutPairWord
  <2>7. exact' \in SUBSET Exact  BY <1>2, <1>3, <2>1, ExactType
  <2>. QED  BY <1>1, <1>3, <2>1, <2>6, <2>7, TypeFromParts
<1>5. CASE Idiv(v)
  <2>1. /\ Running /\ v # 0
        /\ PutPair(q % M, t % M)
        /\ exact' = IF q \in (-H)..(H - 1) THEN {[op |-> "idiv", n |-> m, v |-> v]} ELSE {}
        /\ chain' = {}
        /\ UNCHANGED <<fl, cmp>>
    BY <1>5, Zenon DEF Idiv
  <2>2. d # 0  BY <1>2, <2>1, Modulus DEF Signed, Word
  <2>3. q \in Int /\ t \in Int
    <3>. HIDE DEF m, d
    <3>. QED  BY <1>2, <2>2, QuotientInt
  <2>. HIDE DEF n, m, d, q, t
  <2>4. q % M \in Word /\ t % M \in Word  BY <2>3, CutIsWord
  <2>5. reg' \in [Reg -> Word]  BY <2>1, <2>4, PutPairWord
  <2>6. exact' \in SUBSET Exact  BY <1>2, <1>3, <2>1, ExactType
  <2>. QED  BY <1>1, <1>3, <2>1, <2>5, <2>6, TypeFromParts
<1>. QED  BY <1>4, <1>5, Zenon

LEMMA TypeStep == ASSUME TypeOK, [Next]_vars PROVE TypeOK'
<1>1. CASE UNCHANGED vars  BY <1>1 DEF vars, TypeOK
<1>2. CASE Next
  <2>1. CASE \E r \in Reg, v \in Word : TwoOperand(r, v) \/ Adc(r, v) \/ ImulReg(r, v)
    BY <2>1, AdditionTypes, LogicTypes, ImulRegTypes, Zenon DEF TwoOperand
  <2>2. CASE \E r \in Reg : OneOperand(r) \/ Inc(r) \/ Dec(r)
    BY <2>2, AdditionTypes, LogicTypes, ShiftTypes, MoveTypes, SmallWords, Zenon DEF OneOperand
  <2>3. CASE \E v \in Word : OnPair(v)
    BY <2>3, ProductTypes, DivisionTypes, Zenon DEF OnPair
  <2>4. CASE Xchg \/ SignExtend \/ \E f \in Flag : Popf(f)
    BY <2>4, MoveTypes, Zenon
  <2>5. CASE DivideError  BY <2>5 DEF DivideError, TypeOK
  <2>. QED  BY <1>2, <2>1, <2>2, <2>3, <2>4, <2>5, OneInstruction, Zenon
<1>. QED  BY <1>1, <1>2, Zenon

\* For words of any number of bits and whatever the guest computes, the
\* registers hold words, every flag a bit, and what is remembered of the last
\* comparison, addition by halves and division is well formed.
THEOREM AluTypes == Spec => []TypeOK
<1>1. Init => TypeOK
  <2>. SUFFICES ASSUME Init PROVE TypeOK  OBVIOUS
  <2>1. reg \in [Reg -> Word]  BY SmallWords DEF Init
  <2>2. fl \in Flag  BY DEF Init, Flag
  <2>. QED  BY <2>1, <2>2, SizesAssumption DEF Init, TypeOK
<1>. QED  BY <1>1, TypeStep, PTL DEF Spec

-----------------------------------------------------------------------------
(* Comparisons.                                                            *)

\* What an instruction may do to the flags and to what they tell.
Forgets == cmp' = {}
Keeps == UNCHANGED <<fl, cmp>>
Compares == \E v1, v2 \in Word : cmp' = {Compared(v1, v2)} /\ fl' = update_reg_sub(v1, v2)

LEMMA StepCompares ==
  ASSUME TypeOK, [Next]_vars PROVE Forgets \/ Keeps \/ Compares
<1>. USE DEF Forgets, Keeps
<1>1. CASE UNCHANGED vars  BY <1>1 DEF vars
<1>2. CASE \E r \in Reg, v \in Word : TwoOperand(r, v) \/ Adc(r, v) \/ ImulReg(r, v)
  <2>. PICK r \in Reg, v \in Word : TwoOperand(r, v) \/ Adc(r, v) \/ ImulReg(r, v)  BY <1>2
  <2>1. CASE Sub(r, v) \/ Cmp(r, v)  BY <2>1, Registers, Zenon DEF Sub, Cmp, Compares
  <2>2. CASE Add(r, v) \/ Adc(r, v) \/ AdcImm(r, v) \/ SbbImm(r, v) \/ ImulReg(r, v)
    BY <2>2, Zenon DEF Add, Adc, AdcImm, SbbImm, ImulReg, NoHistory
  <2>3. CASE And(r, v) \/ Test(r, v) \/ Or(r, v)  BY <2>3, Zenon DEF And, Test, Or, NoHistory
  <2>4. CASE Xor(r, v) \/ Mov(r, v)  BY <2>4, Zenon DEF Xor, Mov, FlagsStay
  <2>. QED  BY <2>1, <2>2, <2>3, <2>4, Zenon DEF TwoOperand
<1>3. CASE \E r \in Reg : OneOperand(r) \/ Inc(r) \/ Dec(r)
  <2>. PICK r \in Reg : OneOperand(r) \/ Inc(r) \/ Dec(r)  BY <1>3
  <2>1. CASE Dec(r) \/ Neg(r)  BY <2>1, Registers, SmallWords, Zenon DEF Dec, Neg, Compares
  <2>2. CASE Inc(r)  BY <2>2, Zenon DEF Inc, NoHistory
  <2>3. CASE \E c \in 1..(W - 1) : Shl(r, c) \/ Shr(r, c)  BY <2>3, Zenon DEF Shl, Shr, NoHistory
  <2>4. CASE \E c \in 1..(W - 1) : Sal(r, c) \/ Sar(r, c)  BY <2>4, Zenon DEF Sal, Sar, FlagsStay
  <2>5. CASE Not(r) \/ \E cc \in Conditions : Setcc(r, cc)
    BY <2>5, Zenon DEF Not, Setcc, FlagsStay
  <2>. QED  BY <2>1, <2>2, <2>3, <2>4, <2>5, Zenon DEF OneOperand
<1>4. CASE \E v \in Word : OnPair(v)
  BY <1>4, Zenon DEF OnPair, Mul, Imul, Div, Idiv
<1>5. CASE Xchg \/ SignExtend  BY <1>5, Zenon DEF Xchg, SignExtend, FlagsStay
<1>6. CASE DivideError  BY <1>6, Zenon DEF DivideError
<1>7. CASE \E f \in Flag : Popf(f)  BY <1>7, Zenon DEF Popf, NoHistory
<1>. QED  BY <1>1, <1>2, <1>3, <1>4, <1>5, <1>6, <1>7, OneInstruction, Zenon

\* After a comparison (or sub, dec, neg) of words of any number of bits, every
\* conditional jump or set decides as the operands compare, until an
\* instruction that changes the flags.
THEOREM Comparisons == Spec => []CompareHolds
<1>1. Init => CompareHolds  BY DEF Init, CompareHolds
<1>2. ASSUME TypeOK, CompareHolds, [Next]_vars PROVE CompareHolds'
  <2>1. CASE Forgets  BY <2>1 DEF Forgets, CompareHolds
  <2>2. CASE Keeps  BY <1>2, <2>2, Zenon DEF Keeps, CompareHolds
  <2>3. CASE Compares
    <3>1. PICK v1 \in Word, v2 \in Word :
            cmp' = {Compared(v1, v2)} /\ fl' = update_reg_sub(v1, v2)
      BY <2>3, Zenon DEF Compares
    <3>. QED  BY <3>1, SubTells, Zenon DEF CompareHolds
  <2>. QED  BY <1>2, <2>1, <2>2, <2>3, StepCompares, Zenon
<1>. QED  BY <1>1, <1>2, AluTypes, PTL DEF Spec

-----------------------------------------------------------------------------
(* Addition and subtraction by halves.                                     *)

\* What is cut from a sum or a difference is what the carry says.
Out(n) == IF CarryOut(n) THEN 1 ELSE 0

LEMMA CarryIsCut ==
  ASSUME NEW n \in Int, n >= -M, n < 2 * M, NEW c, c = Out(n)
  PROVE  (n >= 0 => n = (n % M) + c * M) /\ (n < M => n = (n % M) - c * M)
<1>1. n % M = IF n < 0 THEN n + M ELSE IF n < M THEN n ELSE n - M  BY CutOnce
<1>2. c = IF n < 0 \/ n >= M THEN 1 ELSE 0  BY Modulus DEF Out, CarryOut, Word
<1>3. M \in Int /\ M > 0  BY Modulus
<1>4. CASE n < 0
  <2>1. c = 1 /\ c * M = M  BY <1>2, <1>3, <1>4
  <2>. QED  BY <1>1, <1>3, <1>4, <2>1
<1>5. CASE n >= 0 /\ n < M
  <2>1. c = 0 /\ c * M = 0  BY <1>2, <1>3, <1>5
  <2>. QED  BY <1>1, <1>3, <1>5, <2>1
<1>6. CASE n >= M
  <2>1. c = 1 /\ c * M = M  BY <1>2, <1>3, <1>6
  <2>. QED  BY <1>1, <1>3, <1>6, <2>1
<1>. QED  BY <1>3, <1>4, <1>5, <1>6

LEMMA Distribute ==
  ASSUME NEW a \in Int, NEW b \in Int, NEW m \in Int
  PROVE  /\ a * m \in Int /\ (a * m) * m = a * (m * m)
         /\ (a + b) * m = a * m + b * m
         /\ (a - b) * m = a * m - b * m
  OBVIOUS

\* What an element of the history says, by the number its carry stands for.
Balanced(k, f, pair, unit) ==
  LET out == (IF k.ones THEN 1 ELSE CarryIn(f)) * unit
  IN  /\ k.n = IF k.op = "add" THEN pair + out ELSE pair - out
      /\ k.ones => ~f.c

LEMMA ChainBalanced ==
  ChainExact <=> \A k \in chain : Balanced(k, fl, Pair, IF k.done THEN M * M ELSE M)
  BY Zenon DEF ChainExact, Balanced, Owed

\* Only the upper half meets an immediate of ones and a carry.
ChainInv == ChainExact /\ \A k \in chain : k.ones => k.done

LEMMA AddCarry ==
  ASSUME NEW v1, NEW v2, NEW c
  PROVE  CarryIn(update_reg_add(v1, v2, c)) = Out(v1 + v2 + c)
  BY Zenon DEF update_reg_add, CarryIn, Out

LEMMA SubCarry ==
  ASSUME NEW v1, NEW v2
  PROVE  CarryIn(update_reg_sub(v1, v2)) = Out(v1 - v2)
  BY Zenon DEF update_reg_sub, CarryIn, Out

LEMMA LowerHalf ==
  ASSUME NEW a \in Word, NEW b \in Word, NEW d \in Word
  PROVE  /\ (d * M + a) + b = (d * M + ((a + b) % M)) + Out(a + b + 0) * M
         /\ (d * M + a) - b = (d * M + ((a - b) % M)) - Out(a - b) * M
<1>1. a \in Int /\ b \in Int /\ d \in Int /\ M \in Int /\ d * M \in Int  BY WordInt, Modulus
<1>2. a >= 0 /\ a < M /\ b >= 0 /\ b < M  BY Modulus DEF Word
<1>3. a + b + 0 = a + b  BY <1>1
<1>4. a + b \in Int /\ a - b \in Int  BY <1>1
<1>5. a + b >= 0 /\ a + b >= -M /\ a + b < 2 * M  BY <1>1, <1>2
<1>6. a - b < M /\ a - b >= -M /\ a - b < 2 * M  BY <1>1, <1>2
<1>7. (d * M + a) + b = (d * M + ((a + b) % M)) + Out(a + b) * M
  <2>. DEFINE c == Out(a + b)
              x == (a + b) % M
              y == c * M
  <2>1. a + b = x + y  BY <1>4, <1>5, CarryIsCut
  <2>2. c \in Int  BY DEF Out
  <2>3. x \in Word  BY <1>4, CutIsWord
  <2>. HIDE DEF c
  <2>4. y \in Int  BY <1>1, <2>2
  <2>. HIDE DEF x, y
  <2>5. x \in Int  BY <2>3, WordInt
  <2>6. (d * M + a) + b = (d * M + x) + y  BY <1>1, <2>1, <2>4, <2>5
  <2>. QED  BY <2>6 DEF x, y, c
<1>8. (d * M + a) - b = (d * M + ((a - b) % M)) - Out(a - b) * M
  <2>. DEFINE c == Out(a - b)
              x == (a - b) % M
              y == c * M
  <2>1. a - b = x - y  BY <1>4, <1>6, CarryIsCut
  <2>2. c \in Int  BY DEF Out
  <2>3. x \in Word  BY <1>4, CutIsWord
  <2>. HIDE DEF c
  <2>4. y \in Int  BY <1>1, <2>2
  <2>. HIDE DEF x, y
  <2>5. x \in Int  BY <2>3, WordInt
  <2>6. (d * M + a) - b = (d * M + x) - y  BY <1>1, <2>1, <2>4, <2>5
  <2>. QED  BY <2>6 DEF x, y, c
<1>. QED  BY <1>3, <1>7, <1>8

LEMMA UpperSum ==
  ASSUME NEW a \in Word, NEW b \in Word, NEW d \in Word, NEW i \in {0, 1}
  PROVE  ((d * M + a) + i * M) + b * M
            = (((d + b + i) % M) * M + a) + Out(d + b + i) * (M * M)
<1>1. a \in Int /\ b \in Int /\ d \in Int /\ i \in Int /\ M \in Int  BY WordInt, Modulus
<1>2. a >= 0 /\ a < M /\ b >= 0 /\ b < M /\ d >= 0 /\ d < M /\ i >= 0 /\ i <= 1 /\ M > 0
  BY Modulus DEF Word
<1>3. d * M \in Int /\ i * M \in Int /\ b * M \in Int  BY <1>1
<1>. DEFINE n == d + b + i
            c == Out(n)
            x == n % M
            y == c * M
<1>4. n \in Int /\ n >= 0 /\ n >= -M /\ n < 2 * M  BY <1>1, <1>2
<1>5. c \in Int /\ y \in Int
  <2>1. c \in Int  BY DEF Out
  <2>. HIDE DEF c
  <2>. QED  BY <1>1, <2>1
<1>6. x \in Word  BY <1>4, CutIsWord
<1>7. x \in Int  BY <1>6, WordInt
<1>8. n = x + y
  <2>. HIDE DEF n
  <2>. QED  BY <1>4, CarryIsCut
<1>9. n * M = d * M + b * M + i * M
  <2>1. (d + b) * M = d * M + b * M  BY <1>1, Distribute
  <2>2. d + b \in Int  BY <1>1
  <2>3. n * M = (d + b) * M + i * M  BY <1>1, <2>2, Distribute
  <2>. QED  BY <2>1, <2>3
<1>10. n * M = x * M + c * (M * M)
  <2>. HIDE DEF n, x, c
  <2>1. (x + y) * M = x * M + y * M  BY <1>1, <1>5, <1>7, Distribute
  <2>2. y * M = c * (M * M)  BY <1>1, <1>5, Distribute
  <2>. HIDE DEF y
  <2>. QED  BY <1>8, <2>1, <2>2
<1>. HIDE DEF c
<1>11. x * M \in Int /\ n * M \in Int /\ c * (M * M) \in Int  BY <1>1, <1>4, <1>5, <1>7
<1>. DEFINE xM == x * M
            nM == n * M
            cMM == c * (M * M)
            dM == d * M
            iM == i * M
            bM == b * M
<1>. HIDE DEF xM, nM, cMM, dM, iM, bM
<1>12. nM = dM + bM + iM  BY <1>9 DEF nM, dM, bM, iM
<1>13. nM = xM + cMM  BY <1>10 DEF nM, xM, cMM
<1>14. xM \in Int /\ nM \in Int /\ cMM \in Int /\ dM \in Int /\ iM \in Int /\ bM \in Int
  BY <1>3, <1>11 DEF xM, nM, cMM, dM, iM, bM
<1>15. ((dM + a) + iM) + bM = (xM + a) + cMM  BY <1>1, <1>12, <1>13, <1>14
<1>. QED  BY <1>15 DEF xM, cMM, dM, iM, bM, c

LEMMA UpperDifference ==
  ASSUME NEW a \in Word, NEW b \in Word, NEW d \in Word, NEW i \in {0, 1}, b + i < M
  PROVE  ((d * M + a) - i * M) + -(b * M)
            = (((d - (b + i)) % M) * M + a) - Out(d - (b + i)) * (M * M)
<1>1. a \in Int /\ b \in Int /\ d \in Int /\ i \in Int /\ M \in Int  BY WordInt, Modulus
<1>2. a >= 0 /\ a < M /\ b >= 0 /\ b < M /\ d >= 0 /\ d < M /\ i >= 0 /\ i <= 1 /\ M > 0
  BY Modulus DEF Word
<1>3. d * M \in Int /\ i * M \in Int /\ b * M \in Int  BY <1>1
<1>. DEFINE n == d - (b + i)
            c == Out(n)
            x == n % M
            y == c * M
<1>4. n \in Int /\ n < M /\ n >= -M /\ n < 2 * M  BY <1>1, <1>2
<1>5. c \in Int /\ y \in Int
  <2>1. c \in Int  BY DEF Out
  <2>. HIDE DEF c
  <2>. QED  BY <1>1, <2>1
<1>6. x \in Word  BY <1>4, CutIsWord
<1>7. x \in Int  BY <1>6, WordInt
<1>8. n = x - y
  <2>. HIDE DEF n
  <2>. QED  BY <1>4, CarryIsCut
<1>9. n * M = d * M - (b * M + i * M)
  <2>1. (b + i) * M = b * M + i * M  BY <1>1, Distribute
  <2>2. b + i \in Int  BY <1>1
  <2>3. n * M = d * M - (b + i) * M  BY <1>1, <2>2, Distribute
  <2>. QED  BY <2>1, <2>3
<1>10. n * M = x * M - c * (M * M)
  <2>. HIDE DEF n, x, c
  <2>1. (x - y) * M = x * M - y * M  BY <1>1, <1>5, <1>7, Distribute
  <2>2. y * M = c * (M * M)  BY <1>1, <1>5, Distribute
  <2>. HIDE DEF y
  <2>. QED  BY <1>8, <2>1, <2>2
<1>. HIDE DEF c
<1>11. x * M \in Int /\ n * M \in Int /\ c * (M * M) \in Int  BY <1>1, <1>4, <1>5, <1>7
<1>. DEFINE xM == x * M
            nM == n * M
            cMM == c * (M * M)
            dM == d * M
            iM == i * M
            bM == b * M
<1>. HIDE DEF xM, nM, cMM, dM, iM, bM
<1>12. nM = dM - (bM + iM)  BY <1>9 DEF nM, dM, bM, iM
<1>13. nM = xM - cMM  BY <1>10 DEF nM, xM, cMM
<1>14. xM \in Int /\ nM \in Int /\ cMM \in Int /\ dM \in Int /\ iM \in Int /\ bM \in Int
  BY <1>3, <1>11 DEF xM, nM, cMM, dM, iM, bM
<1>15. ((dM + a) - iM) + -bM = (xM + a) - cMM  BY <1>1, <1>12, <1>13, <1>14
<1>. QED  BY <1>15 DEF xM, cMM, dM, iM, bM, c

LEMMA StepChains ==
  ASSUME TypeOK, [Next]_vars
  PROVE  \/ chain' = {}
         \/ UNCHANGED <<reg, fl, chain>>
         \/ \E r \in Reg, v \in Word :
              Add(r, v) \/ Sub(r, v) \/ Adc(r, v) \/ AdcImm(r, v) \/ SbbImm(r, v)
<1>1. CASE UNCHANGED vars  BY <1>1 DEF vars
<1>2. CASE \E r \in Reg, v \in Word : TwoOperand(r, v) \/ Adc(r, v) \/ ImulReg(r, v)
  <2>. PICK r \in Reg, v \in Word : TwoOperand(r, v) \/ Adc(r, v) \/ ImulReg(r, v)  BY <1>2
  <2>1. CASE Add(r, v) \/ Sub(r, v) \/ Adc(r, v) \/ AdcImm(r, v) \/ SbbImm(r, v)
    BY <2>1
  <2>2. CASE Cmp(r, v) \/ ImulReg(r, v)  BY <2>2, Zenon DEF Cmp, ImulReg, NoHistory
  <2>3. CASE And(r, v) \/ Test(r, v) \/ Or(r, v)  BY <2>3, Zenon DEF And, Test, Or, NoHistory
  <2>4. CASE Xor(r, v) \/ Mov(r, v)  BY <2>4, Zenon DEF Xor, Mov, FlagsStay
  <2>. QED  BY <2>1, <2>2, <2>3, <2>4, Zenon DEF TwoOperand
<1>3. CASE \E r \in Reg : OneOperand(r) \/ Inc(r) \/ Dec(r)
  BY <1>3, Zenon
  DEF OneOperand, Inc, Dec, Neg, Not, Shl, Shr, Sal, Sar, Setcc, NoHistory, FlagsStay
<1>4. CASE \E v \in Word : OnPair(v)
  BY <1>4, Zenon DEF OnPair, Mul, Imul, Div, Idiv
<1>5. CASE Xchg \/ SignExtend  BY <1>5, Zenon DEF Xchg, SignExtend, FlagsStay
<1>6. CASE DivideError  BY <1>6, Zenon DEF DivideError
<1>7. CASE \E f \in Flag : Popf(f)  BY <1>7, Zenon DEF Popf, NoHistory
<1>. QED  BY <1>1, <1>2, <1>3, <1>4, <1>5, <1>6, <1>7, OneInstruction, Zenon

LEMMA LowerBalanced ==
  ASSUME TypeOK, NEW r \in Reg, NEW v \in Word, Add(r, v) \/ Sub(r, v), NEW k \in chain'
  PROVE  ~k.done /\ ~k.ones /\ Balanced(k, fl', Pair', M)
<1>1. reg \in [Reg -> Word]  BY DEF TypeOK
<1>2. reg.ax \in Word /\ reg.dx \in Word  BY Registers
<1>3. CASE Add(r, v)
  <2>1. chain' = Lower("add", r, Pair + v)  BY <1>3, Zenon DEF Add
  <2>2. r = "ax" /\ k = [op |-> "add", n |-> Pair + v, done |-> FALSE, ones |-> FALSE]
    BY <2>1, Zenon DEF Lower
  <2>3. reg' = [reg EXCEPT !["ax"] = (reg.ax + v) % M]  BY <1>3, <2>2, Zenon DEF Add, Put
  <2>4. reg'.ax = (reg.ax + v) % M /\ reg'.dx = reg.dx  BY <1>1, <2>3, Zenon DEF Reg
  <2>5. fl' = update_reg_add(reg.ax, v, 0)  BY <1>3, <2>2, Zenon DEF Add
  <2>6. CarryIn(fl') = Out(reg.ax + v + 0)  BY <2>5, AddCarry, Zenon
  <2>7. (reg.dx * M + reg.ax) + v
         = (reg.dx * M + ((reg.ax + v) % M)) + Out(reg.ax + v + 0) * M
    BY <1>2, LowerHalf, Zenon
  <2>8. k.op = "add" /\ k.n = Pair + v /\ ~k.done /\ ~k.ones  BY <2>2
  <2>9. k.n = Pair' + CarryIn(fl') * M  BY <2>4, <2>6, <2>7, <2>8, Zenon DEF Pair
  <2>. QED  BY <2>8, <2>9, Zenon DEF Balanced
<1>4. CASE Sub(r, v)
  <2>1. chain' = Lower("sub", r, Pair - v)  BY <1>4, Zenon DEF Sub
  <2>2. r = "ax" /\ k = [op |-> "sub", n |-> Pair - v, done |-> FALSE, ones |-> FALSE]
    BY <2>1, Zenon DEF Lower
  <2>3. reg' = [reg EXCEPT !["ax"] = (reg.ax - v) % M]  BY <1>4, <2>2, Zenon DEF Sub, Put
  <2>4. reg'.ax = (reg.ax - v) % M /\ reg'.dx = reg.dx  BY <1>1, <2>3, Zenon DEF Reg
  <2>5. fl' = update_reg_sub(reg.ax, v)  BY <1>4, <2>2, Zenon DEF Sub
  <2>6. CarryIn(fl') = Out(reg.ax - v)  BY <2>5, SubCarry, Zenon
  <2>7. (reg.dx * M + reg.ax) - v
         = (reg.dx * M + ((reg.ax - v) % M)) - Out(reg.ax - v) * M
    BY <1>2, LowerHalf, Zenon
  <2>8. k.op = "sub" /\ k.op # "add" /\ k.n = Pair - v /\ ~k.done /\ ~k.ones  BY <2>2
  <2>9. k.n = Pair' - CarryIn(fl') * M  BY <2>4, <2>6, <2>7, <2>8, Zenon DEF Pair
  <2>. QED  BY <2>8, <2>9, Zenon DEF Balanced
<1>. QED  BY <1>3, <1>4, Zenon

LEMMA UpperMember ==
  ASSUME NEW op, NEW r, NEW v, NEW ones, NEW k \in Upper(op, r, v, ones)
  PROVE  /\ r = "dx"
         /\ \E j \in chain :
              /\ j.op = op /\ ~j.done /\ k.op = op /\ k.done /\ k.ones = ones
              /\ k.n = j.n + (IF op = "add" THEN v * M ELSE -(v * M))
<1>. DEFINE by == IF op = "add" THEN v * M ELSE -(v * M)
<1>1. Upper(op, r, v, ones) =
        IF r = "dx" THEN {[op |-> op, n |-> j.n + by, done |-> TRUE, ones |-> ones] :
                             j \in {i \in chain : i.op = op /\ ~i.done}}
                    ELSE {}
  BY Zenon DEF Upper
<1>. HIDE DEF by
<1>2. r = "dx"  BY <1>1, Zenon
<1>3. PICK j \in chain : /\ j.op = op /\ ~j.done
                         /\ k = [op |-> op, n |-> j.n + by, done |-> TRUE, ones |-> ones]
  BY <1>1, <1>2, Zenon
<1>4. k.op = op /\ k.done /\ k.n = j.n + by /\ k.ones = ones  BY <1>3, Zenon
<1>. QED  BY <1>2, <1>3, <1>4, Zenon DEF by

\* The lower half an upper half goes on from.
LEMMA Continued ==
  ASSUME ChainInv, NEW op \in {"add", "sub"}, NEW r, NEW v, NEW ones, NEW k \in Upper(op, r, v, ones)
  PROVE  /\ r = "dx" /\ k.op = op /\ k.done /\ k.ones = ones
         /\ op = "add" => k.n = (Pair + CarryIn(fl) * M) + v * M
         /\ op = "sub" => k.n = (Pair - CarryIn(fl) * M) + -(v * M)
<1>. DEFINE vM == v * M
            iM == CarryIn(fl) * M
<1>. HIDE DEF vM, iM
<1>1. r = "dx"  BY UpperMember, Zenon
<1>2. PICK j \in chain : /\ j.op = op /\ ~j.done /\ k.op = op /\ k.done /\ k.ones = ones
                         /\ k.n = j.n + (IF op = "add" THEN vM ELSE -vM)
  BY UpperMember DEF vM
<1>3. ~j.ones  BY <1>2, Zenon DEF ChainInv
<1>4. Balanced(j, fl, Pair, M)  BY <1>2, ChainBalanced, Zenon DEF ChainInv
<1>5. j.n = IF j.op = "add" THEN Pair + iM ELSE Pair - iM
  BY <1>3, <1>4, Zenon DEF Balanced, iM
<1>6. "sub" # "add"  OBVIOUS
<1>7. op = "add" => k.n = (Pair + iM) + vM  BY <1>2, <1>5, Zenon
<1>8. op = "sub" => k.n = (Pair - iM) + -vM  BY <1>2, <1>5, <1>6, Zenon
<1>. QED  BY <1>1, <1>2, <1>7, <1>8, Zenon DEF vM, iM

LEMMA CarryInType == ASSUME NEW f PROVE CarryIn(f) \in {0, 1}
  BY DEF CarryIn

\* A word of ones and a carry aside, the immediate takes the carry whole.
LEMMA CarryKept ==
  ASSUME NEW v \in Word, ~OnesAndCarry(v)
  PROVE  (v + CarryIn(fl)) % M = v + CarryIn(fl) /\ v + CarryIn(fl) < M
<1>1. v \in Int /\ v >= 0 /\ v < M /\ M \in Int  BY Modulus DEF Word
<1>2. CarryIn(fl) \in {0, 1} /\ (fl.c \/ CarryIn(fl) = 0)  BY DEF CarryIn
<1>3. v # M - 1 \/ CarryIn(fl) = 0  BY <1>2 DEF OnesAndCarry
<1>. DEFINE n == v + CarryIn(fl)
<1>4. n \in Int /\ n >= 0 /\ n < M /\ n >= -M /\ n < 2 * M  BY <1>1, <1>2, <1>3
<1>. HIDE DEF n
<1>5. n % M = n  BY <1>4, CutOnce
<1>. QED  BY <1>4, <1>5 DEF n

\* A word of ones and a carry make nothing: the instruction changes no register
\* and clears the carry.
LEMMA OnesNothing ==
  ASSUME TypeOK, NEW v \in Word, OnesAndCarry(v),
         AdcImm("dx", v) \/ SbbImm("dx", v)
  PROVE  Pair' = Pair /\ ~fl'.c /\ CarryIn(fl) = 1 /\ v = M - 1
<1>. DEFINE w == (v + CarryIn(fl)) % M
<1>1. CarryIn(fl) = 1 /\ v = M - 1  BY DEF OnesAndCarry, CarryIn
<1>2. w = 0
  <2>1. v + CarryIn(fl) = M /\ M \in Int /\ M < 2 * M /\ M >= -M /\ ~(M < 0) /\ M - M = 0
    BY <1>1, Modulus
  <2>2. M % M = 0  BY <2>1, CutOnce
  <2>. QED  BY <2>1, <2>2
<1>3. reg.dx \in Word /\ reg.dx \in Int /\ reg \in [Reg -> Word]  BY Registers DEF TypeOK
<1>4. /\ reg.dx + 0 = reg.dx /\ reg.dx - 0 = reg.dx /\ reg.dx + 0 + 0 = reg.dx
      /\ reg.dx % M = reg.dx
  <2>. DEFINE d == reg.dx
  <2>1. d \in Int /\ d >= 0 /\ d < M /\ d >= -M /\ d < 2 * M  BY <1>3, Modulus DEF Word
  <2>. HIDE DEF d
  <2>2. d % M = d  BY <2>1, CutOnce
  <2>3. d + 0 = d /\ d - 0 = d /\ d + 0 + 0 = d  BY <2>1
  <2>. QED  BY <2>2, <2>3 DEF d
<1>5. ~CarryOut(reg.dx)  BY <1>3 DEF CarryOut
<1>6. reg' = [reg EXCEPT !["dx"] = reg.dx] /\ ~fl'.c
  <2>1. CASE AdcImm("dx", v)
    <3>1. Put("dx", (reg.dx + 0) % M) /\ fl' = update_reg_add(reg.dx, 0, 0)
      BY <1>2, <2>1, Zenon DEF AdcImm
    <3>2. reg' = [reg EXCEPT !["dx"] = reg.dx]  BY <1>4, <3>1, Zenon DEF Put
    <3>3. fl'.c = CarryOut(reg.dx + 0 + 0)  BY <3>1, Zenon DEF update_reg_add
    <3>. QED  BY <1>4, <1>5, <3>2, <3>3, Zenon
  <2>2. CASE SbbImm("dx", v)
    <3>1. Put("dx", (reg.dx - 0) % M) /\ fl' = update_reg_sub(reg.dx, 0)
      BY <1>2, <2>2, Zenon DEF SbbImm
    <3>2. reg' = [reg EXCEPT !["dx"] = reg.dx]  BY <1>4, <3>1, Zenon DEF Put
    <3>3. fl'.c = CarryOut(reg.dx - 0)  BY <3>1, Zenon DEF update_reg_sub
    <3>. QED  BY <1>4, <1>5, <3>2, <3>3, Zenon
  <2>. QED  BY <2>1, <2>2
<1>7. reg' = reg
  BY <1>3, <1>6 DEF Reg
<1>8. Pair' = Pair  BY <1>7, Zenon DEF Pair
<1>. QED  BY <1>1, <1>6, <1>8

\* What the lower half owed and the word of ones make a unit beyond the pair.
LEMMA OnesSum ==
  ASSUME NEW p \in Int
  PROVE  /\ (p + 1 * M) + (M - 1) * M = p + 1 * (M * M)
         /\ (p - 1 * M) + -((M - 1) * M) = p - 1 * (M * M)
<1>. DEFINE m == M
            mm == m * m
<1>1. m \in Int  BY Modulus
<1>. HIDE DEF m
<1>2. (m - 1) * m = m * m - 1 * m  BY <1>1, Distribute
<1>3. (m - 1) * m = mm - m /\ mm \in Int  BY <1>1, <1>2
<1>. HIDE DEF mm
<1>4. (p + 1 * m) + (mm - m) = p + 1 * mm /\ (p - 1 * m) + -(mm - m) = p - 1 * mm
  BY <1>1, <1>3
<1>. QED  BY <1>3, <1>4 DEF m, mm

LEMMA UpperBalanced ==
  ASSUME TypeOK, ChainInv, NEW r \in Reg, NEW v \in Word,
         Adc(r, v) \/ AdcImm(r, v) \/ SbbImm(r, v), NEW k \in chain'
  PROVE  k.done /\ Balanced(k, fl', Pair', M * M)
<1>. DEFINE i == CarryIn(fl)
            w == (v + i) % M
<1>1. reg \in [Reg -> Word]  BY DEF TypeOK
<1>2. /\ reg.ax \in Word /\ reg.dx \in Word /\ reg.dx \in Int /\ v \in Int
      /\ Pair \in Int
  BY Registers, WordInt
<1>3. i \in {0, 1} /\ i \in Int  BY CarryInType
<1>4. ASSUME \/ Adc(r, v) /\ k \in Upper("add", r, v, FALSE)
             \/ AdcImm(r, v) /\ ~OnesAndCarry(v) /\ k \in Upper("add", r, v, FALSE)
      PROVE  k.done /\ Balanced(k, fl', Pair', M * M)
  <2>1. r = "dx" /\ k.op = "add" /\ k.done /\ ~k.ones /\ k.n = (Pair + i * M) + v * M
    <3>1. k \in Upper("add", r, v, FALSE) /\ "add" \in {"add", "sub"}  BY <1>4
    <3>. HIDE DEF i
    <3>. QED  BY <3>1, Continued, Zenon DEF i
  <2>5. /\ reg' = [reg EXCEPT !["dx"] = (reg.dx + v + i) % M]
        /\ CarryIn(fl') = Out(reg.dx + v + i)
    <3>1. CASE Adc(r, v)
      <4>1. fl' = update_reg_add(reg.dx, v, i)  BY <2>1, <3>1, Zenon DEF Adc
      <4>2. CarryIn(fl') = Out(reg.dx + v + i)
        <5>. HIDE DEF i
        <5>1. CarryIn(update_reg_add(reg.dx, v, i)) = Out(reg.dx + v + i)  BY AddCarry, Zenon
        <5>. QED  BY <4>1, <5>1, Zenon
      <4>3. reg' = [reg EXCEPT !["dx"] = (reg.dx + v + i) % M]  BY <2>1, <3>1, Zenon DEF Adc, Put
      <4>. QED  BY <4>2, <4>3
    <3>2. CASE AdcImm(r, v) /\ ~OnesAndCarry(v)
      <4>2. w = v + i  BY <3>2, CarryKept, Zenon
      <4>3. fl' = update_reg_add(reg.dx, w, 0)  BY <2>1, <3>2, Zenon DEF AdcImm
      <4>4. reg' = [reg EXCEPT !["dx"] = (reg.dx + w) % M]  BY <2>1, <3>2, Zenon DEF AdcImm, Put
      <4>5. CarryIn(fl') = Out(reg.dx + w + 0)  BY <4>3, AddCarry, Zenon
      <4>. HIDE DEF i, w
      <4>6. reg.dx + w + 0 = reg.dx + v + i /\ reg.dx + w = reg.dx + v + i  BY <1>2, <1>3, <4>2
      <4>7. CarryIn(fl') = Out(reg.dx + v + i)  BY <4>5, <4>6, Zenon
      <4>8. reg' = [reg EXCEPT !["dx"] = (reg.dx + v + i) % M]  BY <4>4, <4>6, Zenon
      <4>. QED  BY <4>7, <4>8
    <3>. QED  BY <1>4, <3>1, <3>2, Zenon
  <2>6. reg'.dx = (reg.dx + v + i) % M /\ reg'.ax = reg.ax  BY <1>1, <2>5, Zenon DEF Reg
  <2>7. ((reg.dx * M + reg.ax) + i * M) + v * M
         = (((reg.dx + v + i) % M) * M + reg.ax) + Out(reg.dx + v + i) * (M * M)
    <3>. HIDE DEF i
    <3>1. reg.ax \in Word /\ reg.dx \in Word /\ i \in {0, 1}  BY <1>2, <1>3, Zenon
    <3>2. \A a \in Word, d \in Word, b \in {0, 1} :
            ((d * M + a) + b * M) + v * M = (((d + v + b) % M) * M + a) + Out(d + v + b) * (M * M)
      BY UpperSum, Zenon
    <3>. QED  BY <3>1, <3>2, Zenon
  <2>8. k.n = Pair' + CarryIn(fl') * (M * M)
    BY <2>1, <2>5, <2>6, <2>7, Zenon DEF Pair
  <2>. QED  BY <2>1, <2>8, Zenon DEF Balanced
<1>5. ASSUME SbbImm(r, v), ~OnesAndCarry(v), k \in Upper("sub", r, v, FALSE)
      PROVE  k.done /\ Balanced(k, fl', Pair', M * M)
  <2>2. r = "dx" /\ k.op = "sub" /\ k.done /\ ~k.ones /\ k.n = (Pair - i * M) + -(v * M)
    <3>1. k \in Upper("sub", r, v, FALSE) /\ "sub" \in {"add", "sub"}  BY <1>5
    <3>. HIDE DEF i
    <3>. QED  BY <3>1, Continued, ZenonT(60) DEF i
  <2>4. "sub" # "add"  OBVIOUS
  <2>6. w = v + i /\ v + i < M  BY <1>5, CarryKept, Zenon
  <2>7. reg' = [reg EXCEPT !["dx"] = (reg.dx - w) % M]  BY <1>5, <2>2, Zenon DEF SbbImm, Put
  <2>8. fl' = update_reg_sub(reg.dx, w)  BY <1>5, <2>2, Zenon DEF SbbImm
  <2>9. CarryIn(fl') = Out(reg.dx - (v + i))  BY <2>6, <2>8, SubCarry, Zenon
  <2>10. reg'.dx = (reg.dx - (v + i)) % M /\ reg'.ax = reg.ax
    BY <1>1, <2>6, <2>7, Zenon DEF Reg
  <2>11. ((reg.dx * M + reg.ax) - i * M) + -(v * M)
          = (((reg.dx - (v + i)) % M) * M + reg.ax) - Out(reg.dx - (v + i)) * (M * M)
    <3>. HIDE DEF i
    <3>1. reg.ax \in Word /\ reg.dx \in Word /\ i \in {0, 1} /\ v + i < M
      BY <1>2, <1>3, <2>6, Zenon
    <3>2. \A a \in Word, d \in Word, b \in {0, 1} : v + b < M =>
            ((d * M + a) - b * M) + -(v * M)
              = (((d - (v + b)) % M) * M + a) - Out(d - (v + b)) * (M * M)
      BY UpperDifference, Zenon
    <3>. QED  BY <3>1, <3>2, Zenon
  <2>12. k.n = Pair' - CarryIn(fl') * (M * M)
    BY <2>2, <2>9, <2>10, <2>11, Zenon DEF Pair
  <2>. QED  BY <2>2, <2>4, <2>12, Zenon DEF Balanced
<1>6. ASSUME AdcImm(r, v), OnesAndCarry(v), k \in Upper("add", r, v, TRUE)
      PROVE  k.done /\ Balanced(k, fl', Pair', M * M)
  <2>1. r = "dx" /\ k.op = "add" /\ k.done /\ k.ones /\ k.n = (Pair + i * M) + v * M
    <3>1. k \in Upper("add", r, v, TRUE) /\ "add" \in {"add", "sub"}  BY <1>6
    <3>. HIDE DEF i
    <3>. QED  BY <3>1, Continued, Zenon DEF i
  <2>2. Pair' = Pair /\ ~fl'.c /\ i = 1 /\ v = M - 1
    BY <1>6, <2>1, OnesNothing, Zenon
  <2>3. (Pair + 1 * M) + (M - 1) * M = Pair + 1 * (M * M)
    BY <1>2, OnesSum, Zenon
  <2>4. k.n = Pair' + 1 * (M * M)
    <3>. HIDE DEF i
    <3>. QED  BY <2>1, <2>2, <2>3, Zenon
  <2>. QED  BY <2>1, <2>2, <2>4, Zenon DEF Balanced
<1>7. ASSUME SbbImm(r, v), OnesAndCarry(v), k \in Upper("sub", r, v, TRUE)
      PROVE  k.done /\ Balanced(k, fl', Pair', M * M)
  <2>1. r = "dx" /\ k.op = "sub" /\ k.done /\ k.ones /\ k.n = (Pair - i * M) + -(v * M)
    <3>1. k \in Upper("sub", r, v, TRUE) /\ "sub" \in {"add", "sub"}  BY <1>7
    <3>. HIDE DEF i
    <3>. QED  BY <3>1, Continued, ZenonT(60) DEF i
  <2>2. Pair' = Pair /\ ~fl'.c /\ i = 1 /\ v = M - 1
    BY <1>7, <2>1, OnesNothing, Zenon
  <2>3. (Pair - 1 * M) + -((M - 1) * M) = Pair - 1 * (M * M)
    BY <1>2, OnesSum, Zenon
  <2>4. k.n = Pair' - 1 * (M * M)
    <3>. HIDE DEF i
    <3>. QED  BY <2>1, <2>2, <2>3, Zenon
  <2>5. "sub" # "add"  OBVIOUS
  <2>. QED  BY <2>1, <2>2, <2>4, <2>5, Zenon DEF Balanced
<1>8. Adc(r, v) => k \in Upper("add", r, v, FALSE)  BY Zenon DEF Adc
<1>9. AdcImm(r, v) => k \in Upper("add", r, v, OnesAndCarry(v))  BY Zenon DEF AdcImm
<1>10. SbbImm(r, v) => k \in Upper("sub", r, v, OnesAndCarry(v))  BY Zenon DEF SbbImm
<1>11. \/ OnesAndCarry(v) /\ OnesAndCarry(v) = TRUE
       \/ ~OnesAndCarry(v) /\ OnesAndCarry(v) = FALSE
  BY DEF OnesAndCarry
<1>12. CASE AdcImm(r, v)  BY <1>4, <1>6, <1>9, <1>11, <1>12
<1>13. CASE SbbImm(r, v)  BY <1>5, <1>7, <1>10, <1>11, <1>13
<1>14. CASE Adc(r, v)  BY <1>4, <1>8, <1>14, Zenon
<1>. QED  BY <1>12, <1>13, <1>14, Zenon

\* Adding to and subtracting from a number of two words by halves, for words of any
\* number of bits: the registers hold the result but for a multiple of their
\* modulus, and that multiple is in the carry; where the upper half met an
\* immediate of ones and a carry, the multiple is one and the carry flag is clear.
THEOREM Chains == Spec => []ChainExact
<1>1. Init => ChainInv  BY DEF Init, ChainInv, ChainExact
<1>2. ASSUME TypeOK, ChainInv, [Next]_vars PROVE ChainInv'
  <2>1. CASE chain' = {}  BY <2>1 DEF ChainInv, ChainExact
  <2>2. CASE UNCHANGED <<reg, fl, chain>>
    BY <1>2, <2>2 DEF ChainInv, ChainExact, Pair, Owed
  <2>3. ASSUME NEW r \in Reg, NEW v \in Word,
               Add(r, v) \/ Sub(r, v) \/ Adc(r, v) \/ AdcImm(r, v) \/ SbbImm(r, v)
        PROVE  ChainInv'
    <3>1. \A k \in chain' :
            /\ Balanced(k, fl', Pair', IF k.done THEN M * M ELSE M)
            /\ k.ones => k.done
      <4>. TAKE k \in chain'
      <4>1. CASE Add(r, v) \/ Sub(r, v)
        <5>1. ~k.done /\ ~k.ones /\ Balanced(k, fl', Pair', M)
          BY <1>2, <4>1, LowerBalanced, Zenon
        <5>. QED  BY <5>1, Zenon
      <4>2. CASE Adc(r, v) \/ AdcImm(r, v) \/ SbbImm(r, v)
        <5>1. k.done /\ Balanced(k, fl', Pair', M * M)  BY <1>2, <4>2, UpperBalanced, Zenon
        <5>. QED  BY <5>1, Zenon
      <4>. QED  BY <2>3, <4>1, <4>2, Zenon
    <3>. QED  BY <3>1, Zenon DEF ChainInv, ChainExact, Balanced, Owed
  <2>. QED  BY <1>2, <2>1, <2>2, <2>3, StepChains, Zenon
<1>3. ChainInv => ChainExact  BY DEF ChainInv
<1>. QED  BY <1>1, <1>2, <1>3, AluTypes, PTL DEF Spec

-----------------------------------------------------------------------------
(* Multiplication and division.                                            *)

LEMMA TimesMonotone ==
  ASSUME NEW a \in Int, NEW b \in Int, NEW m \in Nat, a <= b PROVE a * m <= b * m
<1>1. (b - a) * m >= 0
  <2>1. b - a \in Nat  BY SMT
  <2>. QED  BY <2>1, SMT
<1>2. (b - a) * m = b * m - a * m  BY Distribute
<1>3. a * m \in Int /\ b * m \in Int  OBVIOUS
<1>. QED  BY <1>1, <1>2, <1>3

LEMMA DivMod ==
  ASSUME NEW n \in Int, NEW m \in Nat \ {0}
  PROVE  /\ n \div m \in Int /\ n % m \in Int /\ n % m >= 0 /\ n % m < m
         /\ n = ((n \div m) * m) + (n % m)
  OBVIOUS

LEMMA SignedCut ==
  ASSUME NEW q \in Int, -H <= q, q < H PROVE q % M \in Word /\ Signed(q % M) = q
<1>1. q >= -M /\ q < M /\ q < 2 * M /\ M = 2 * H /\ H \in Nat \ {0}  BY Modulus
<1>2. q % M = IF q < 0 THEN q + M ELSE q  BY <1>1, CutOnce
<1>3. q % M \in Word  BY CutIsWord
<1>. DEFINE x == q % M
<1>. HIDE DEF x
<1>4. Signed(x) = q  BY <1>1, <1>2 DEF Signed, x
<1>. QED  BY <1>3, <1>4 DEF x

LEMMA SignedRange ==
  ASSUME NEW v \in Word PROVE Signed(v) \in Int /\ -H <= Signed(v) /\ Signed(v) < H
  BY Modulus DEF Signed, Word

\* The product of two words has two halves that are words.
LEMMA ProductFits ==
  ASSUME NEW a \in Word, NEW v \in Word
  PROVE  ((((a * v) \div M) % M) * M) + ((a * v) % M) = a * v
<1>. DEFINE m == M
            n == a * v
            q == n \div m
<1>1. a \in Nat /\ v \in Nat /\ a < m /\ v < m /\ m \in Nat \ {0}  BY Modulus DEF Word
<1>2. n \in Nat /\ n < m * m
  <2>. HIDE DEF m
  <2>1. v * a <= m * a  BY <1>1, TimesMonotone
  <2>2. a * m <= (m - 1) * m  BY <1>1, TimesMonotone
  <2>3. (m - 1) * m = m * m - m  BY <1>1
  <2>4. v * a = n /\ m * a = a * m  BY <1>1
  <2>5. n \in Nat /\ a * m \in Nat /\ m * m \in Nat  BY <1>1
  <2>. HIDE DEF n
  <2>. QED  BY <1>1, <2>1, <2>2, <2>3, <2>4, <2>5
<1>. HIDE DEF n, m
<1>3. q \in Int /\ n % m \in Int /\ n % m >= 0 /\ n % m < m /\ n = (q * m) + (n % m)
  BY <1>1, <1>2, DivMod
<1>. HIDE DEF q
<1>4. q < m
  <2>1. SUFFICES ASSUME m <= q PROVE FALSE  BY <1>1, <1>3
  <2>2. m * m <= q * m  BY <1>1, <1>3, <2>1, TimesMonotone
  <2>3. q * m \in Int /\ m * m \in Int  BY <1>1, <1>3
  <2>. QED  BY <1>2, <1>3, <2>2, <2>3
<1>5. q >= 0
  <2>1. SUFFICES ASSUME q <= -1 PROVE FALSE  BY <1>3
  <2>2. q * m <= (-1) * m  BY <1>1, <1>3, <2>1, TimesMonotone
  <2>3. q * m \in Int /\ (-1) * m = -m  BY <1>1, <1>3
  <2>. QED  BY <1>1, <1>2, <1>3, <2>2, <2>3
<1>6. q % m = q  BY <1>1, <1>3, <1>4, <1>5
<1>7. ((q % m) * m) + (n % m) = n  BY <1>3, <1>6
<1>. QED  BY <1>7 DEF q, n, m

LEMMA SignedProductFits ==
  ASSUME NEW x \in Int, NEW y \in Int, -H <= x, x < H, -H <= y, y < H
  PROVE  (Signed(((x * y) \div M) % M) * M) + ((x * y) % M) = x * y
<1>. DEFINE n == x * y
            q == n \div M
<1>1. H \in Nat \ {0} /\ M \in Nat \ {0} /\ M = 2 * H  BY Modulus
<1>2. n \in Int /\ n <= H * H /\ n >= -(H * H)
  <2>. DEFINE ax == Abs(x)
              ay == Abs(y)
  <2>1. ax \in Nat /\ ay \in Nat /\ ax <= H /\ ay <= H  BY <1>1 DEF Abs
  <2>2. ax * ay \in Nat /\ ax * ay <= H * H
    <3>. HIDE DEF ax, ay
    <3>1. ax * ay <= H * ay  BY <1>1, <2>1, TimesMonotone
    <3>2. ay * H <= H * H  BY <1>1, <2>1, TimesMonotone
    <3>3. ay * H = H * ay /\ ax * ay \in Nat /\ H * H \in Nat /\ ay * H \in Nat  BY <1>1, <2>1
    <3>. QED  BY <3>1, <3>2, <3>3
  <2>3. n = ax * ay \/ n = -(ax * ay)  BY DEF Abs
  <2>4. n \in Int /\ H * H \in Int  BY <1>1
  <2>. HIDE DEF n, ax, ay
  <2>. QED  BY <2>2, <2>3, <2>4
<1>. HIDE DEF n
<1>3. q \in Int /\ n % M \in Int /\ n % M >= 0 /\ n % M < M /\ n = (q * M) + (n % M)
  BY <1>1, <1>2, DivMod
<1>. HIDE DEF q
<1>4. q * M = 2 * (q * H) /\ q * H \in Int /\ H * H \in Int /\ H * H >= H
  <2>1. 1 * H <= H * H  BY <1>1, TimesMonotone
  <2>. QED  BY <1>1, <1>3, <2>1
<1>5. q < H
  <2>1. SUFFICES ASSUME H <= q PROVE FALSE  BY <1>1, <1>3
  <2>2. H * H <= q * H  BY <1>1, <1>3, <2>1, TimesMonotone
  <2>. QED  BY <1>1, <1>2, <1>3, <1>4, <2>2
<1>6. -H <= q
  <2>1. SUFFICES ASSUME q <= -H - 1 PROVE FALSE  BY <1>1, <1>3
  <2>2. q * H <= (-H - 1) * H  BY <1>1, <1>3, <2>1, TimesMonotone
  <2>3. (-H - 1) * H = -(H * H) - H  BY <1>1
  <2>. QED  BY <1>1, <1>2, <1>3, <1>4, <2>2, <2>3
<1>7. Signed(q % M) = q  BY <1>3, <1>5, <1>6, SignedCut
<1>8. (Signed(q % M) * M) + (n % M) = n  BY <1>3, <1>7
<1>. QED  BY <1>8 DEF q, n

\* Division rounds towards zero: the remainder has the dividend's sign.
LEMMA RoundsToZero ==
  ASSUME NEW n \in Int, NEW d \in Int, d # 0
  PROVE  /\ Quotient(n, d) * d + Remainder(n, d) = n
         /\ Abs(Remainder(n, d)) < Abs(d)
         /\ Sgn(Remainder(n, d)) \in {0, Sgn(n)}
<1>. DEFINE b == Abs(d)
            a == Abs(n)
            p == a \div b
            r == a % b
            q == Quotient(n, d)
            t == Remainder(n, d)
<1>1. a \in Nat /\ b \in Nat \ {0}  BY DEF Abs
<1>2. q \in Int /\ t \in Int  BY QuotientInt
<1>3. p \in Int /\ r \in Int /\ r >= 0 /\ r < b /\ a = (p * b) + r
  <2>. HIDE DEF a, b
  <2>. QED  BY <1>1, DivMod
<1>4. t = n - d * q  BY Zenon DEF Remainder
<1>5. q = Sgn(n) * Sgn(d) * p  BY Zenon DEF Quotient
<1>. HIDE DEF p, r, q, t
<1>6. p * b \in Int  BY <1>1, <1>3
<1>7. d * q = IF n < 0 THEN -(p * b) ELSE IF n = 0 THEN 0 ELSE p * b
  <2>1. CASE n = 0
    <3>1. Sgn(n) = 0 /\ Sgn(d) \in Int  BY <2>1 DEF Sgn
    <3>. QED  BY <1>3, <1>5, <2>1, <3>1
  <2>2. CASE n < 0 /\ d < 0
    <3>1. Sgn(n) = -1 /\ Sgn(d) = -1 /\ b = -d  BY <2>2 DEF Sgn, Abs
    <3>2. q = p  BY <1>3, <1>5, <3>1
    <3>. QED  BY <1>3, <2>2, <3>1, <3>2
  <2>3. CASE n < 0 /\ d > 0
    <3>1. Sgn(n) = -1 /\ Sgn(d) = 1 /\ b = d  BY <2>3 DEF Sgn, Abs
    <3>2. q = -p  BY <1>3, <1>5, <3>1
    <3>. QED  BY <1>3, <2>3, <3>1, <3>2
  <2>4. CASE n > 0 /\ d < 0
    <3>1. Sgn(n) = 1 /\ Sgn(d) = -1 /\ b = -d  BY <2>4 DEF Sgn, Abs
    <3>2. q = -p  BY <1>3, <1>5, <3>1
    <3>. QED  BY <1>3, <2>4, <3>1, <3>2
  <2>5. CASE n > 0 /\ d > 0
    <3>1. Sgn(n) = 1 /\ Sgn(d) = 1 /\ b = d  BY <2>5 DEF Sgn, Abs
    <3>2. q = p  BY <1>3, <1>5, <3>1
    <3>. QED  BY <1>3, <2>5, <3>1, <3>2
  <2>. QED  BY <2>1, <2>2, <2>3, <2>4, <2>5
<1>8. t = IF n < 0 THEN -r ELSE IF n = 0 THEN 0 ELSE r
  <2>1. a = IF n < 0 THEN -n ELSE n  BY DEF Abs
  <2>. HIDE DEF a, b
  <2>. QED  BY <1>3, <1>4, <1>6, <1>7, <2>1
<1>9. Abs(t) < b /\ Sgn(t) \in {0, Sgn(n)}
  <2>. HIDE DEF b
  <2>. QED  BY <1>1, <1>3, <1>8 DEF Abs, Sgn
<1>10. q * d + t = n
  <2>1. q * d = d * q /\ d * q \in Int  BY <1>2
  <2>. QED  BY <1>2, <1>4, <2>1
<1>. QED  BY <1>9, <1>10 DEF q, t

\* What is true of one product or division.
MulDivHolds(k, r) ==
  CASE k.op = "mul" -> r.dx * M + r.ax = k.n
    [] k.op = "imul" -> Signed(r.dx) * M + r.ax = k.n
    [] k.op = "div" -> r.ax * k.v + r.dx = k.n /\ r.dx < k.v
    [] k.op = "idiv" -> /\ Signed(r.ax) * Signed(k.v) + Signed(r.dx) = k.n
                        /\ Abs(Signed(r.dx)) < Abs(Signed(k.v))
                        /\ Sgn(Signed(r.dx)) \in {0, Sgn(k.n)}

LEMMA StepExact ==
  ASSUME [Next]_vars
  PROVE  \/ exact' = {}
         \/ UNCHANGED <<reg, exact>>
         \/ \E v \in Word : OnPair(v)
<1>1. CASE UNCHANGED vars  BY <1>1 DEF vars
<1>2. CASE \E r \in Reg, v \in Word : TwoOperand(r, v) \/ Adc(r, v) \/ ImulReg(r, v)
  <2>. PICK r \in Reg, v \in Word : TwoOperand(r, v) \/ Adc(r, v) \/ ImulReg(r, v)  BY <1>2
  <2>1. CASE \/ Add(r, v) \/ Sub(r, v) \/ Cmp(r, v) \/ Adc(r, v)
            \/ AdcImm(r, v) \/ SbbImm(r, v) \/ ImulReg(r, v)
    BY <2>1, Zenon DEF Add, Sub, Cmp, Adc, AdcImm, SbbImm, ImulReg, NoHistory
  <2>2. CASE And(r, v) \/ Test(r, v) \/ Or(r, v)  BY <2>2, Zenon DEF And, Test, Or, NoHistory
  <2>3. CASE Xor(r, v) \/ Mov(r, v)  BY <2>3, Zenon DEF Xor, Mov, FlagsStay
  <2>. QED  BY <2>1, <2>2, <2>3, Zenon DEF TwoOperand
<1>3. CASE \E r \in Reg : OneOperand(r) \/ Inc(r) \/ Dec(r)
  BY <1>3, Zenon
  DEF OneOperand, Inc, Dec, Neg, Not, Shl, Shr, Sal, Sar, Setcc, NoHistory, FlagsStay
<1>4. CASE Xchg \/ SignExtend  BY <1>4, Zenon DEF Xchg, SignExtend, FlagsStay
<1>5. CASE DivideError  BY <1>5, Zenon DEF DivideError
<1>6. CASE \E f \in Flag : Popf(f)  BY <1>6, Zenon DEF Popf, NoHistory
<1>. QED  BY <1>1, <1>2, <1>3, <1>4, <1>5, <1>6, OneInstruction, Zenon

LEMMA PairWritten ==
  ASSUME TypeOK, NEW lo, NEW hi, PutPair(lo, hi) PROVE reg'.ax = lo /\ reg'.dx = hi
  BY DEF TypeOK, PutPair, Reg

LEMMA OnPairExact ==
  ASSUME TypeOK, NEW v \in Word, OnPair(v), NEW k \in exact' PROVE MulDivHolds(k, reg')
<1>1. reg.ax \in Word /\ v \in Int /\ Pair \in Int /\ SignedPair \in Int  BY Registers, WordInt
<1>2. CASE Mul(v)
  <2>. DEFINE n == reg.ax * v
  <2>1. size # 32 /\ k = [op |-> "mul", n |-> n, v |-> v]  BY <1>2, Zenon DEF Mul
  <2>2. PutPair(n % M, (n \div M) % M)
    BY <1>2, <2>1, Zenon DEF Mul, Product, PutProduct
  <2>3. reg'.ax = n % M /\ reg'.dx = (n \div M) % M  BY <2>2, PairWritten, Zenon
  <2>4. (((n \div M) % M) * M) + (n % M) = n  BY <1>1, ProductFits, Zenon
  <2>5. k.op = "mul" /\ k.n = n  BY <2>1
  <2>6. reg'.dx * M + reg'.ax = k.n  BY <2>3, <2>4, <2>5, Zenon
  <2>. QED  BY <2>5, <2>6, SMT DEF MulDivHolds
<1>3. CASE Imul(v)
  <2>. DEFINE n == Signed(reg.ax) * Signed(v)
  <2>1. size # 32 /\ k = [op |-> "imul", n |-> n, v |-> v]  BY <1>3, Zenon DEF Imul
  <2>2. PutPair(n % M, (n \div M) % M)
    BY <1>3, <2>1, Zenon DEF Imul, SignedProducts, PutProduct
  <2>3. reg'.ax = n % M /\ reg'.dx = (n \div M) % M  BY <2>2, PairWritten, Zenon
  <2>4. (Signed((n \div M) % M) * M) + (n % M) = n
    BY <1>1, SignedRange, SignedProductFits, Zenon
  <2>5. k.op = "imul" /\ k.n = n  BY <2>1
  <2>6. Signed(reg'.dx) * M + reg'.ax = k.n  BY <2>3, <2>4, <2>5, Zenon
  <2>. QED  BY <2>5, <2>6, SMT DEF MulDivHolds
<1>4. CASE Div(v)
  <2>. DEFINE n == Pair
  <2>1. /\ v # 0 /\ PutPair((n \div v) % M, n % v)
        /\ n \div v \in Word /\ k = [op |-> "div", n |-> n, v |-> v]
    BY <1>4, Zenon DEF Div
  <2>2. reg'.ax = (n \div v) % M /\ reg'.dx = n % v  BY <2>1, PairWritten, Zenon
  <2>. HIDE DEF n
  <2>3. v \in Nat \ {0}  BY <1>1, <2>1, Modulus DEF Word
  <2>4. n = ((n \div v) * v) + (n % v) /\ n % v < v  BY <1>1, <2>3, DivMod DEF n
  <2>5. (n \div v) % M = n \div v
    <3>. DEFINE q == n \div v
    <3>1. q \in Word  BY <2>1
    <3>. HIDE DEF q
    <3>2. q \in Int /\ q >= 0 /\ q < M /\ q >= -M /\ q < 2 * M  BY <3>1, Modulus DEF Word
    <3>3. q % M = q  BY <3>2, CutOnce
    <3>. QED  BY <3>3 DEF q
  <2>6. k.op = "div" /\ k.n = n /\ k.v = v  BY <2>1
  <2>7. reg'.ax * k.v + reg'.dx = k.n /\ reg'.dx < k.v  BY <2>2, <2>4, <2>5, <2>6, Zenon
  <2>. QED  BY <2>6, <2>7, SMT DEF MulDivHolds
<1>5. CASE Idiv(v)
  <2>. DEFINE n == SignedPair
              d == Signed(v)
              q == Quotient(n, d)
              t == Remainder(n, d)
  <2>1. /\ v # 0 /\ PutPair(q % M, t % M)
        /\ q \in (-H)..(H - 1) /\ k = [op |-> "idiv", n |-> n, v |-> v]
    BY <1>5, Zenon DEF Idiv
  <2>2. reg'.ax = q % M /\ reg'.dx = t % M  BY <2>1, PairWritten, Zenon
  <2>3. d \in Int /\ -H <= d /\ d < H  BY SignedRange
  <2>4. d # 0  BY <1>1, <2>1, Modulus DEF Signed, Word
  <2>5. n \in Int  BY <1>1
  <2>. HIDE DEF n, d
  <2>6. q * d + t = n /\ Abs(t) < Abs(d) /\ Sgn(t) \in {0, Sgn(n)}
    BY <2>3, <2>4, <2>5, RoundsToZero
  <2>7. q \in Int /\ t \in Int  BY <2>3, <2>4, <2>5, QuotientInt
  <2>. HIDE DEF q, t
  <2>8. Signed(q % M) = q  BY <2>1, <2>7, Modulus, SignedCut
  <2>9. -H <= t /\ t < H  BY <2>3, <2>6, <2>7, Modulus DEF Abs
  <2>10. Signed(t % M) = t  BY <2>7, <2>9, SignedCut
  <2>11. k.op = "idiv" /\ k.n = n /\ k.v = v  BY <2>1
  <2>12. Signed(k.v) = d  BY <2>11 DEF d
  <2>13. /\ Signed(reg'.ax) * Signed(k.v) + Signed(reg'.dx) = k.n
         /\ Abs(Signed(reg'.dx)) < Abs(Signed(k.v))
         /\ Sgn(Signed(reg'.dx)) \in {0, Sgn(k.n)}
    BY <2>2, <2>6, <2>8, <2>10, <2>11, <2>12, Zenon
  <2>. QED  BY <2>11, <2>13, SMT DEF MulDivHolds
<1>. QED  BY <1>2, <1>3, <1>4, <1>5, Zenon DEF OnPair

\* Below 32 bits no bit of a product is lost, signed or not; and a quotient
\* that fits its register, and its remainder, give the dividend back.
THEOREM MulDiv == Spec => []MulDivExact
<1>1. MulDivExact <=> \A k \in exact : MulDivHolds(k, reg)
  BY Zenon DEF MulDivExact, MulDivHolds, Pair, SignedPair
<1>2. MulDivExact' <=> \A k \in exact' : MulDivHolds(k, reg')
  BY Zenon DEF MulDivExact, MulDivHolds, Pair, SignedPair
<1>3. Init => MulDivExact  BY <1>1, Zenon DEF Init
<1>4. ASSUME TypeOK, MulDivExact, [Next]_vars PROVE MulDivExact'
  <2>1. CASE exact' = {}  BY <1>2, <2>1, Zenon
  <2>2. CASE UNCHANGED <<reg, exact>>  BY <1>1, <1>2, <1>4, <2>2, Zenon
  <2>3. CASE \E v \in Word : OnPair(v)  BY <1>2, <1>4, <2>3, OnPairExact, Zenon
  <2>. QED  BY <1>4, <2>1, <2>2, <2>3, StepExact, Zenon
<1>. QED  BY <1>3, <1>4, AluTypes, PTL DEF Spec
=============================================================================
