--------------------------------- MODULE Flags ---------------------------------
(***************************************************************************)
(* Words of W bits and the condition flags the processor derives from them *)
(* (registers/flags_reg.cpp).  The code computes on 64-bit integers and    *)
(* takes bits out of the result; here the result is an integer, and a bit  *)
(* above the word says whether the result left the word.                   *)
(*                                                                         *)
(* The parity flag is left out.                                            *)
(***************************************************************************)
EXTENDS Integers

CONSTANTS
  W,           \* the number of bits of a word
  H            \* the weight of its sign bit

ASSUME WordAssumption ==
  /\ W \in Nat \ {0}
  /\ H \in Nat \ {0}
  /\ H = 2^(W - 1)

M == 2 * H
Word == 0..(M - 1)
Flag == [c : BOOLEAN, z : BOOLEAN, s : BOOLEAN, o : BOOLEAN]

\* The value of a word read as a signed integer, and the sign bit of a result.
Signed(v) == IF v < H THEN v ELSE v - M
SignBit(r) == r % M >= H

Bit(v, i) == (v \div 2^i) % 2 = 1

IsAnd(r, v1, v2) == \A i \in 0..(W - 1) : Bit(r, i) <=> Bit(v1, i) /\ Bit(v2, i)
IsOr(r, v1, v2)  == \A i \in 0..(W - 1) : Bit(r, i) <=> Bit(v1, i) \/ Bit(v2, i)
IsXor(r, v1, v2) == \A i \in 0..(W - 1) : Bit(r, i) <=> (Bit(v1, i) # Bit(v2, i))

\* Slip: off by one at the first number that is not a word.
CarryOutLate(r) == r < 0 \/ r > M

\* Bit W of a 64-bit result of an addition or a subtraction of words.
CarryOut(r) == r \notin Word

CarryIn(f) == IF f.c THEN 1 ELSE 0

\* Zero is tested before the result is cut to the word.
update_reg_add(v1, v2, hasCarry) ==
  LET r == v1 + v2 + hasCarry IN
  [c |-> CarryOut(r),
   z |-> r = 0,
   s |-> SignBit(r),
   o |-> SignBit(v1) = SignBit(v2) /\ SignBit(v1) # SignBit(r)]

\* Slip: the overflow of an addition.
update_reg_sub_as_add(v1, v2) ==
  LET r == v1 - v2 IN
  [c |-> CarryOut(r),
   z |-> r = 0,
   s |-> SignBit(r),
   o |-> SignBit(v1) = SignBit(v2) /\ SignBit(v1) # SignBit(r)]

update_reg_sub(v1, v2) ==
  LET r == v1 - v2 IN
  [c |-> CarryOut(r),
   z |-> r = 0,
   s |-> SignBit(r),
   o |-> SignBit(v1) # SignBit(v2) /\ SignBit(v1) # SignBit(r)]

\* update_reg_or and update_reg_and, of the word they computed.
update_reg_logic(r) == [c |-> FALSE, z |-> r = 0, s |-> SignBit(r), o |-> FALSE]

\* One bit of the upper half of the product goes into a field of one bit.
update_reg_mul(f, v1, v2) ==
  LET high == ((v1 * v2) \div M) % 2 = 1 IN [f EXCEPT !.c = high, !.o = high]

\* Of signed values: only an upper half of all ones counts as no overflow.
update_reg_imul(f, v1, v2) ==
  LET high == (v1 * v2) \div M # -1 IN [f EXCEPT !.c = high, !.o = high]

\* A shift by c, with 0 < c < W.
update_reg_shl(f, v, c) ==
  LET r == (v * 2^c) % M IN
  [c |-> Bit(v, W - c),
   z |-> r = 0,
   s |-> SignBit(r),
   o |-> IF c = 1 THEN Bit(v, W - 1) # Bit(v, W - 2) ELSE f.o]

update_reg_shr(f, v, c) ==
  LET r == v \div 2^c IN
  [c |-> Bit(v, c - 1),
   z |-> r = 0,
   s |-> SignBit(r),
   o |-> IF c = 1 THEN SignBit(v) ELSE f.o]

\* The conditions of the jcc and setcc instructions.
Conditions == {"o", "no", "b", "nb", "z", "nz", "be", "a", "s", "ns", "l", "nl", "le", "nle"}

Condition(cc, f) ==
  CASE cc = "o"  -> f.o
    [] cc = "no" -> ~f.o
    [] cc = "b"  -> f.c
    [] cc = "nb" -> ~f.c
    [] cc = "z"  -> f.z
    [] cc = "nz" -> ~f.z
    [] cc = "be" -> f.c \/ f.z
    [] cc = "a"  -> ~(f.c \/ f.z)
    [] cc = "s"  -> f.s
    [] cc = "ns" -> ~f.s
    [] cc = "l"  -> f.s # f.o
    [] cc = "nl" -> f.s = f.o
    [] cc = "le" -> f.z \/ f.s # f.o
    [] cc = "nle" -> ~f.z /\ f.s = f.o
================================================================================
