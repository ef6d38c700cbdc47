---------------------------------- MODULE Pic ----------------------------------
(***************************************************************************)
(* One programmable interrupt controller (class pic, pic/pic.hpp and       *)
(* pic/pic.cpp) as a record and the operators that change it.  The module  *)
(* has no state of its own: Interrupts.tla keeps one record per controller *)
(* and runs these operators from the CPU's clock cycle.                    *)
(*                                                                         *)
(* A register whose bits are tested one line at a time (imr, irr, isr) is  *)
(* the set of the lines whose bit is 1.  The initialization words stay     *)
(* bytes, because one byte is read through several overlapping bit fields. *)
(***************************************************************************)
EXTENDS Integers, FiniteSets, FiniteSetsExt

CONSTANT NLines      \* NO_IRQ_LINES

\* The registers are bytes: one bit per line.
ASSUME NLinesAssumption == NLines \in 1..8

Lines == 0..(NLines - 1)
Byte == 0..255

NotStarted == -1     \* INIT_ICW_NOTSTARTED
Finished == 0        \* INIT_ICW_FINISHED

\* int8_t -1, once it is stored in the uint8_t id of an interrupt.  It marks
\* "the slave raised it", and is also what an empty irr yields.
SlaveIntr == 255

Bit(v, i) == (v \div 2^i) % 2 = 1
LineSet(v) == {i \in Lines : Bit(v, i)}
RegisterValue(S) == MapThenSumSet(LAMBDA i : 2^i, S)

PicState ==
  [cnt : {NotStarted, Finished, 2, 3, 4},
   icw1 : Byte, icw2 : Byte, icw3 : Byte, icw4 : Byte,
   imr : SUBSET Lines, irr : SUBSET Lines, isr : SUBSET Lines]

\* The constructor leaves icr and imr uninitialized: g is what the memory held.
PowerOn(g) ==
  [cnt |-> NotStarted,
   icw1 |-> g, icw2 |-> g, icw3 |-> g, icw4 |-> g,
   imr |-> LineSet(g), irr |-> {}, isr |-> {}]

-----------------------------------------------------------------------------
(* Fields of the initialization words.                                     *)

IC4(p) == Bit(p.icw1, 0)
SNGL(p) == Bit(p.icw1, 1)
PM(p) == Bit(p.icw4, 0)
AEOI(p) == Bit(p.icw4, 1)
SlaveId(p) == p.icw3 % 8
SlaveOnLine(p, line) == Bit(p.icw3, line)

\* First interrupt number of the controller: ICW2's five high bits in x86
\* mode, the two halves of the MCS-80 address otherwise (a uint8_t).
VectorBase(p) ==
  IF PM(p) THEN (p.icw2 \div 8) * 8
           ELSE (p.icw1 \div 32 + (p.icw2 % 8) * 8) % 256

-----------------------------------------------------------------------------
(* poll_next_irq: raised is the set of connected lines whose chk_intr_req  *)
(* would return true.  The scan stops at the first unmasked raised line,   *)
(* and only that line's request is consumed (Polled).  The priority test   *)
(* comes after the consumption and compares the line's bit with the whole  *)
(* in-service register.                                                    *)

Polled(p, raised) ==
  IF p.cnt = Finished /\ raised \ p.imr # {}
    THEN {Min(raised \ p.imr)} ELSE {}

Blocked(p, line) == p.isr # {} /\ 2^line >= RegisterValue(p.isr)

Accepted(p, raised) == {i \in Polled(p, raised) : ~Blocked(p, i)}

MarkRequest(p, accepted) == [p EXCEPT !.irr = @ \cup accepted]

\* get_next_intr_num's effect on the registers, and the line it takes.
NextLine(p) == Min(p.irr)

\* Slips (see the README): AEOI forgotten, the request left marked.
TakeRequestNoAeoi(p) ==
  IF p.irr = {} THEN p
  ELSE [p EXCEPT !.isr = @ \cup {NextLine(p)}, !.irr = @ \ {NextLine(p)}]
TakeRequestKeepIrr(p) ==
  IF p.irr = {} THEN p
  ELSE [p EXCEPT !.isr = IF AEOI(p) THEN @ ELSE @ \cup {NextLine(p)}]

TakeRequest(p) ==
  IF p.irr = {} THEN p
  ELSE [p EXCEPT !.isr = IF AEOI(p) THEN @ ELSE @ \cup {NextLine(p)},
                 !.irr = @ \ {NextLine(p)}]

DeviceVector(p) == IF p.irr = {} THEN SlaveIntr
                                 ELSE (VectorBase(p) + NextLine(p)) % 256

\* Slip: the cascade line taken for a device's.
FromSlaveNever(p) == FALSE

\* The master, which has no master itself, hands a cascaded line to its slave.
FromSlave(p) == p.irr # {} /\ ~SNGL(p) /\ SlaveOnLine(p, NextLine(p))

\* The slave's DEBUG_ERROR: the master is not configured to have it.
Misconnected(p, master) ==
  p.irr # {} /\ (SNGL(master) \/ ~SlaveOnLine(master, SlaveId(p)))

-----------------------------------------------------------------------------
(* The command port.  Once started, every byte is an OCW2: ICW1 is never   *)
(* recognized again.                                                       *)

EndOfInterrupt(v) == Bit(v, 5)
SpecificLine(v) == Bit(v, 6)

\* Slip: only a specific EOI clears anything.
EoiLinesSpecific(p, v) ==
  IF EndOfInterrupt(v) /\ SpecificLine(v) THEN {v % 8} \cap Lines ELSE {}

\* set_isr_on_line(ocw2.L, false), or the first line of the isr.
EoiLines(p, v) ==
  IF ~EndOfInterrupt(v) THEN {}
  ELSE IF SpecificLine(v) THEN {v % 8} \cap Lines
  ELSE IF p.isr = {} THEN {} ELSE {Min(p.isr)}

\* Slip: a later command is counted as one more initialization word.
SendCommandCounted(p, v) ==
  IF p.cnt = NotStarted
    THEN [p EXCEPT !.icw1 = v, !.cnt = 2]
    ELSE [p EXCEPT !.isr = @ \ EoiLines(p, v), !.cnt = @ + 1]

SendCommand(p, v) ==
  IF p.cnt = NotStarted
    THEN [p EXCEPT !.icw1 = v, !.cnt = 2]
    ELSE [p EXCEPT !.isr = @ \ EoiLines(p, v)]

(* The data port: the next initialization word, or the mask register.      *)

\* This byte ends the initialization, which then drains every device's request.
EndsInit(p) == \/ p.cnt = 2 /\ SNGL(p)
               \/ p.cnt = 3 /\ ~IC4(p)
               \/ p.cnt = 4

NextCnt(p) == IF EndsInit(p) THEN Finished ELSE p.cnt + 1

SendData(p, v) ==
  CASE p.cnt = 2 -> [p EXCEPT !.icw2 = v, !.cnt = NextCnt(p)]
    [] p.cnt = 3 -> [p EXCEPT !.icw3 = v, !.cnt = NextCnt(p)]
    [] p.cnt = 4 -> [p EXCEPT !.icw4 = v, !.cnt = NextCnt(p)]
    [] OTHER     -> [p EXCEPT !.imr = LineSet(v)]
=============================================================================
