---------------------------------- MODULE Alu ----------------------------------
(***************************************************************************)
(* The arithmetic instructions (instr/instr_handlers.cpp): the handlers of *)
(* 8, 16 and 32 bits are written apart and do not all do the same.  A      *)
(* guest works at one size; ax is its accumulator (al, ax, eax) and dx the *)
(* upper half of double words (ah, dx, edx).  The other operand is any     *)
(* word: a register, memory or an immediate.                               *)
(*                                                                         *)
(* The guest shifts by less than the size and by more than nothing: what   *)
(* the handlers do otherwise is undefined in C++.  Parity is left out, and *)
(* so are conversions between sizes and imul of two 32-bit registers,      *)
(* which multiplies their lower 16 bits.                                   *)
(***************************************************************************)
EXTENDS Flags

CONSTANT Sizes     \* the operand sizes the guest may work at

ASSUME SizesAssumption == Sizes \subseteq {8, 16, 32}

Reg == {"ax", "dx"}
Sgn(n) == IF n < 0 THEN -1 ELSE IF n = 0 THEN 0 ELSE 1

VARIABLES
  size,        \* the operand size
  reg, fl,     \* the registers and the flags
  cpu,         \* "run", or "ended" when the emulator has exited
  cmp,         \* the outcome of the comparison the flags still tell, if any
  chain,       \* the exact result of an addition or subtraction by halves, if any
  exact        \* the double word and the factor of the last product or division

vars == <<size, reg, fl, cpu, cmp, chain, exact>>

Comparison == [u : {-1, 0, 1}, s : {-1, 0, 1}]
Chain == [op : {"add", "sub"}, n : Int, done : BOOLEAN, ones : BOOLEAN]
Exact == [op : {"mul", "imul", "div", "idiv"}, n : Int, v : Word]

TypeOK ==
  /\ size \in {8, 16, 32}
  /\ reg \in [Reg -> Word]
  /\ fl \in Flag
  /\ cpu \in {"run", "ended"}
  /\ cmp \in SUBSET Comparison
  /\ chain \in SUBSET Chain
  /\ exact \in SUBSET Exact

Init ==
  /\ size \in Sizes
  /\ reg = [r \in Reg |-> 0]
  /\ fl = [c |-> FALSE, z |-> FALSE, s |-> FALSE, o |-> FALSE]
  /\ cpu = "run"
  /\ cmp = {} /\ chain = {} /\ exact = {}

-----------------------------------------------------------------------------
(* What an instruction does to the history.                                *)

Pair == reg.dx * M + reg.ax
SignedPair == Signed(reg.dx) * M + reg.ax

Compared(v1, v2) == [u |-> Sgn(v1 - v2), s |-> Sgn(Signed(v1) - Signed(v2))]

\* The guest treats dx:ax as one number: it starts at ax and goes on at dx.  ones
\* is set when the upper half met a word of ones, as an immediate, and a carry.
Lower(op, r, n) ==
  IF r = "ax" THEN {[op |-> op, n |-> n, done |-> FALSE, ones |-> FALSE]} ELSE {}

Upper(op, r, v, ones) ==
  LET by == IF op = "add" THEN v * M ELSE -(v * M) IN
  IF r = "dx" THEN {[op |-> op, n |-> k.n + by, done |-> TRUE, ones |-> ones] :
                     k \in {k \in chain : k.op = op /\ ~k.done}}
              ELSE {}

Put(r, x) == reg' = [reg EXCEPT ![r] = x]
PutPair(lo, hi) == reg' = [reg EXCEPT !.ax = lo, !.dx = hi]

Running == cpu = "run" /\ UNCHANGED <<size, cpu>>

\* The flags tell of no comparison any more.
NoHistory == cmp' = {} /\ chain' = {} /\ exact' = {}

\* The flags stay, and with them what they tell; the registers do not.
FlagsStay == UNCHANGED <<fl, cmp>> /\ chain' = {} /\ exact' = {}

-----------------------------------------------------------------------------
(* Addition and subtraction.                                               *)

Add(r, v) ==
  /\ Running
  /\ Put(r, (reg[r] + v) % M)
  /\ fl' = update_reg_add(reg[r], v, 0)
  /\ chain' = Lower("add", r, Pair + v)
  /\ cmp' = {} /\ exact' = {}

Sub(r, v) ==
  /\ Running
  /\ Put(r, (reg[r] - v) % M)
  /\ fl' = update_reg_sub(reg[r], v)
  /\ chain' = Lower("sub", r, Pair - v)
  /\ cmp' = {Compared(reg[r], v)} /\ exact' = {}

Cmp(r, v) ==
  /\ Running
  /\ fl' = update_reg_sub(reg[r], v)
  /\ cmp' = {Compared(reg[r], v)}
  /\ chain' = {} /\ exact' = {}
  /\ UNCHANGED reg

\* adc of two registers.
Adc(r, v) ==
  /\ Running
  /\ Put(r, (reg[r] + v + CarryIn(fl)) % M)
  /\ fl' = update_reg_add(reg[r], v, CarryIn(fl))
  /\ chain' = Upper("add", r, v, FALSE)
  /\ cmp' = {} /\ exact' = {}

\* With an immediate, the carry is added to it before the flags are computed:
\* a word of ones and a carry make nothing, and the carry out is lost.
OnesAndCarry(v) == fl.c /\ v = M - 1

AdcImm(r, v) ==
  LET w == (v + CarryIn(fl)) % M IN
  /\ Running
  /\ Put(r, (reg[r] + w) % M)
  /\ fl' = update_reg_add(reg[r], w, 0)
  /\ chain' = Upper("add", r, v, OnesAndCarry(v))
  /\ cmp' = {} /\ exact' = {}

SbbImm(r, v) ==
  LET w == (v + CarryIn(fl)) % M IN
  /\ Running
  /\ Put(r, (reg[r] - w) % M)
  /\ fl' = update_reg_sub(reg[r], w)
  /\ chain' = Upper("sub", r, v, OnesAndCarry(v))
  /\ cmp' = {} /\ exact' = {}

\* inc and dec change the carry as additions do.
Inc(r) ==
  /\ Running
  /\ Put(r, (reg[r] + 1) % M)
  /\ fl' = update_reg_add(reg[r], 1, 0)
  /\ NoHistory

Dec(r) ==
  /\ Running
  /\ Put(r, (reg[r] - 1) % M)
  /\ fl' = update_reg_sub(reg[r], 1)
  /\ cmp' = {Compared(reg[r], 1)}
  /\ chain' = {} /\ exact' = {}

Neg(r) ==
  /\ Running
  /\ Put(r, (0 - reg[r]) % M)
  /\ fl' = update_reg_sub(0, reg[r])
  /\ cmp' = {Compared(0, reg[r])}
  /\ chain' = {} /\ exact' = {}

-----------------------------------------------------------------------------
(* Logic, shifts and moves.                                                *)

\* At 16 bits, and and test leave the flags of an addition.
AndFlags(r, v, x) ==
  IF size = 16 THEN update_reg_add(reg[r], v, 0) ELSE update_reg_logic(x)

And(r, v) ==
  \E x \in Word :
    /\ Running /\ IsAnd(x, reg[r], v)
    /\ Put(r, x)
    /\ fl' = AndFlags(r, v, x)
    /\ NoHistory

Test(r, v) ==
  \E x \in Word :
    /\ Running /\ IsAnd(x, reg[r], v)
    /\ fl' = AndFlags(r, v, x)
    /\ NoHistory
    /\ UNCHANGED reg

Or(r, v) ==
  \E x \in Word :
    /\ Running /\ IsOr(x, reg[r], v)
    /\ Put(r, x)
    /\ fl' = update_reg_logic(x)
    /\ NoHistory

\* xor, not, sal and sar leave the flags alone.
Xor(r, v) ==
  \E x \in Word :
    /\ Running /\ IsXor(x, reg[r], v)
    /\ Put(r, x)
    /\ FlagsStay

\* Slip: the complement is not cut to the word.
NotUncut(r) == Running /\ Put(r, -1 - reg[r]) /\ FlagsStay

Not(r) == Running /\ Put(r, M - 1 - reg[r]) /\ FlagsStay

Shl(r, c) ==
  \E x \in Word :
    /\ Running /\ x = (reg[r] * 2^c) % M
    /\ Put(r, x)
    /\ fl' = update_reg_shl(fl, reg[r], c)
    /\ NoHistory

Shr(r, c) ==
  \E x \in Word :
    /\ Running /\ x = reg[r] \div 2^c
    /\ Put(r, x)
    /\ fl' = update_reg_shr(fl, reg[r], c)
    /\ NoHistory

Sal(r, c) ==
  \E x \in Word : Running /\ x = (Signed(reg[r]) * 2^c) % M /\ Put(r, x) /\ FlagsStay

Sar(r, c) ==
  \E x \in Word : Running /\ x = (Signed(reg[r]) \div 2^c) % M /\ Put(r, x) /\ FlagsStay

Mov(r, v) == Running /\ Put(r, v) /\ FlagsStay

Xchg == Running /\ PutPair(reg.dx, reg.ax) /\ FlagsStay

\* cwd and cdq: the sign of ax fills dx.
SignExtend ==
  /\ Running
  /\ Put("dx", IF SignBit(reg.ax) THEN M - 1 ELSE 0)
  /\ FlagsStay

\* setcc writes the 32-bit register: at 8 bits, setting al clears ah.
Setcc(r, cc) ==
  LET bit == IF Condition(cc, fl) THEN 1 ELSE 0 IN
  /\ Running
  /\ IF size = 8 THEN r = "ax" /\ PutPair(bit, 0) ELSE Put(r, bit)
  /\ FlagsStay

Popf(f) == Running /\ fl' = f /\ NoHistory /\ UNCHANGED reg

-----------------------------------------------------------------------------
(* Multiplication and division, of dx:ax.                                  *)

\* Slip: at every size the product is computed in a word.
ProductCut(n) == n % M

\* At 32 bits the product is computed in 32 bits; one of signed numbers that
\* does not fit is undefined in C++, and the build may cut it or not.
Product(n) == IF size = 32 THEN n % M ELSE n
SignedProducts(n) == IF size = 32 THEN {n, Signed(n % M)} ELSE {n}

PutProduct(n) == PutPair(n % M, (n \div M) % M)

Mul(v) ==
  LET n == reg.ax * v IN
  /\ Running
  /\ PutProduct(Product(n))
  /\ fl' = update_reg_mul(fl, reg.ax, v)
  /\ cmp' = {} /\ chain' = {}
  /\ exact' = IF size = 32 THEN {} ELSE {[op |-> "mul", n |-> n, v |-> v]}

Imul(v) ==
  LET n == Signed(reg.ax) * Signed(v) IN
  /\ Running
  /\ \E p \in SignedProducts(n) : PutProduct(p)
  /\ fl' = update_reg_imul(fl, Signed(reg.ax), Signed(v))
  /\ cmp' = {} /\ chain' = {}
  /\ exact' = IF size = 32 THEN {} ELSE {[op |-> "imul", n |-> n, v |-> v]}

\* imul of two registers at 16 bits, and with an immediate.
ImulReg(r, v) ==
  /\ Running
  /\ Put(r, (Signed(reg[r]) * Signed(v)) % M)
  /\ fl' = update_reg_imul(fl, Signed(reg[r]), Signed(v))
  /\ NoHistory

\* Division in C++ rounds towards zero.
Abs(n) == IF n < 0 THEN -n ELSE n
Quotient(n, d) == Sgn(n) * Sgn(d) * (Abs(n) \div Abs(d))
Remainder(n, d) == n - d * Quotient(n, d)

\* A quotient that does not fit in ax is cut, and no exception is raised.
Div(v) ==
  LET n == Pair IN
  /\ Running /\ v # 0
  /\ PutPair((n \div v) % M, n % v)
  /\ exact' = IF n \div v \in Word THEN {[op |-> "div", n |-> n, v |-> v]} ELSE {}
  /\ chain' = {}
  /\ UNCHANGED <<fl, cmp>>

\* The host itself cannot divide the least number of 32 or 64 bits by -1; at 8
\* bits it divides numbers of 16 bits as numbers of 32.
Traps(n, d) == size # 8 /\ n = -(H * M) /\ d = -1

Idiv(v) ==
  LET n == SignedPair
      q == Quotient(n, Signed(v))
  IN
  /\ Running /\ v # 0 /\ ~Traps(n, Signed(v))
  /\ PutPair(q % M, Remainder(n, Signed(v)) % M)
  /\ exact' = IF q \in (-H)..(H - 1) THEN {[op |-> "idiv", n |-> n, v |-> v]} ELSE {}
  /\ chain' = {}
  /\ UNCHANGED <<fl, cmp>>

\* Dividing by zero ends the emulator: at 8 bits the host traps, at 16 and 32
\* the exception does (main.cpp:111).  So does a quotient the host traps on.
DivideError ==
  /\ cpu = "run" /\ cpu' = "ended"
  /\ UNCHANGED <<size, reg, fl, cmp, chain, exact>>

-----------------------------------------------------------------------------
\* Instructions of two operands that exist at every size.
TwoOperand(r, v) ==
  \/ Add(r, v) \/ Sub(r, v) \/ Cmp(r, v)
  \/ And(r, v) \/ Test(r, v) \/ Or(r, v) \/ Xor(r, v)
  \/ AdcImm(r, v) \/ SbbImm(r, v) \/ Mov(r, v)

OneOperand(r) ==
  \/ Neg(r) \/ Not(r)
  \/ \E c \in 1..(W - 1) : Shl(r, c) \/ Shr(r, c) \/ Sal(r, c) \/ Sar(r, c)
  \/ \E cc \in Conditions : Setcc(r, cc)

OnPair(v) == Mul(v) \/ Imul(v) \/ Div(v) \/ Idiv(v)

Common ==
  \/ \E r \in Reg, v \in Word : TwoOperand(r, v)
  \/ \E r \in Reg : OneOperand(r)
  \/ \E v \in Word : OnPair(v)
  \/ Xchg

\* Those that do not exist at 8 bits.
Wider ==
  \/ \E r \in Reg, v \in Word : ImulReg(r, v)
  \/ \E r \in Reg : Inc(r) \/ Dec(r)
  \/ SignExtend

Instr8 == size = 8 /\ Common
Instr16 == size = 16 /\ (Common \/ Wider \/ \E r \in Reg, v \in Word : Adc(r, v))
Instr32 == size = 32 /\ (Common \/ Wider)

Next == Instr8 \/ Instr16 \/ Instr32 \/ DivideError \/ (\E f \in Flag : Popf(f))

Spec == Init /\ [][Next]_vars

-----------------------------------------------------------------------------
(* Properties.                                                             *)

Tells(f, k) ==
  /\ Condition("z", f)  <=> k.u = 0
  /\ Condition("b", f)  <=> k.u < 0
  /\ Condition("be", f) <=> k.u <= 0
  /\ Condition("l", f)  <=> k.s < 0
  /\ Condition("le", f) <=> k.s <= 0

\* A conditional instruction decides as the last comparison did, at every size,
\* for the signed and for the unsigned reading, however many instructions that
\* leave the flags alone (xor, not, sal, sar, division among them) came between.
CompareHolds == \A k \in cmp : Tells(fl, k)

\* A number of two words is added to and subtracted from by halves, the lower one
\* first.  The registers hold the result, and the carry what they do not hold,
\* after either half and at every size.  The code has one exception: where the
\* upper half met an immediate of ones and a carry, the result is beyond what the
\* registers hold and the carry is clear all the same.
Owed(k) == IF k.ones THEN 1 ELSE CarryIn(fl)
ChainExact ==
  \A k \in chain :
    LET out == Owed(k) * (IF k.done THEN M * M ELSE M)
    IN  /\ k.n = IF k.op = "add" THEN Pair + out ELSE Pair - out
        /\ k.ones => ~fl.c

\* A product of 8 or 16 bits is whole, in both halves; a quotient that fits and
\* its remainder give the dividend back, and the remainder has its sign and is
\* less than the divisor.
MulDivExact ==
  \A k \in exact :
    CASE k.op = "mul" -> Pair = k.n
      [] k.op = "imul" -> SignedPair = k.n
      [] k.op = "div" -> reg.ax * k.v + reg.dx = k.n /\ reg.dx < k.v
      [] k.op = "idiv" -> /\ Signed(reg.ax) * Signed(k.v) + Signed(reg.dx) = k.n
                          /\ Abs(Signed(reg.dx)) < Abs(Signed(k.v))
                          /\ Sgn(Signed(reg.dx)) \in {0, Sgn(k.n)}
================================================================================
