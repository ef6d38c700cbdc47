---------------------------------- MODULE Cpu ----------------------------------
(***************************************************************************)
(* The processor: the main loop (main.cpp) polls for a device's interrupt, *)
(* enters the next handler, decodes an instruction and executes it.        *)
(*                                                                         *)
(* Moves, the stack, transfers of control, interrupts, tasks, the system   *)
(* registers, ports and strings are executed here, with additions and      *)
(* comparisons to steer them; the other arithmetic is in Alu.  A family of *)
(* handlers that differ only in the size of their operands is one action.  *)
(*                                                                         *)
(* An exception ends the emulator (main.cpp:111).  The arguments of        *)
(* read_mem and write_mem are evaluated from the last to the first, as gcc *)
(* does: in the other order the segment of an operand would be taken       *)
(* before its address has set it.                                          *)
(***************************************************************************)
EXTENDS Decode, SequencesExt

CONSTANTS
  Guests,      \* programs: what is in RAM, where it begins, what is to come of it
  PortBytes    \* what a device may answer

ASSUME GuestsAssumption ==
  /\ Guests \subseteq [start : Word(32), vector : Word(8), irqs : Nat, gp : Seq(Int),
                       steps : SUBSET (Nat \X Nat), ram : [0..(RamSize - 1) -> Word(8)]]
  /\ PortBytes \subseteq Word(8)

VARIABLES
  m,           \* the machine
  instr,       \* the instruction decoded
  pc,          \* where the loop is
  que,         \* the interrupts accepted
  guest,       \* the program in RAM
  irqs,        \* the interrupts the device has raised
  frames,      \* history: the contexts that handlers were entered from
  left         \* history: the contexts that tasks were left in, by selector

vars == <<m, instr, pc, que, guest, irqs, frames, left>>

IF_ == 9
DF == 10
NT == 14

\* What an interrupted program may look at.
Context(n) == [gp |-> n.gp, ip |-> n.ip, fl |-> n.fl, sel |-> n.sel]

Cache0(code) == [base |-> IF code THEN M32 - M16 ELSE 0, limit |-> M16 - 1,
                 acc |-> IF code THEN 139 ELSE 131, db |-> FALSE, g |-> FALSE]

\* The constructor of registers; of cr0 only ET is kept.
registers(g) ==
  [gp |-> [r \in Gp |-> 0],
   sel |-> [s \in Sreg |-> 0],
   cache |-> [s \in Sreg |-> Cache0(s = "CS")],
   dt |-> [t \in Table |->
            [sel |-> 0, base |-> 0, limit |-> IF t = "TR" THEN 0 ELSE M16 - 1]],
   ip |-> g.start, fl |-> 2, cr |-> [n \in 0..4 |-> IF n = 0 THEN 16 ELSE 0],
   ram |-> g.ram, tlb |-> [p \in {} |-> 0],
   a20 |-> FALSE, halt |-> FALSE, fault |-> "none"]

Init ==
  /\ \E g \in Guests : m = registers(g) /\ guest = [g EXCEPT !.ram = "in m"]
  /\ instr = Blank /\ pc = "poll" /\ que = <<>>
  /\ irqs = 0 /\ frames = <<>> /\ left = [t \in {} |-> 0]

-----------------------------------------------------------------------------
(* Flags, instruction pointer and operands.                                *)

Flag(n, b) == Has(n.fl, b)
Bit(b) == IF b THEN 1 ELSE 0
WithBit(v, i, b) == v + (Bit(b) - Bit(Has(v, i))) * 2^i
SetFlag(n, i, b) == [n EXCEPT !.fl = WithBit(@, i, b)]

F8 == INSTANCE Flags WITH W <- 8, H <- 128
F16 == INSTANCE Flags WITH W <- 16, H <- 32768
F32 == INSTANCE Flags WITH W <- 24, H <- 8388608

FlagsOf(n) == [c |-> Flag(n, 0), z |-> Flag(n, 6), s |-> Flag(n, 7), o |-> Flag(n, 11)]
WithFlags(n, f) ==
  [n EXCEPT !.fl = WithBit(WithBit(WithBit(WithBit(@, 0, f.c), 6, f.z), 7, f.s), 11, f.o)]

Compare(n, bits, v, w) ==
  WithFlags(n, CASE bits = 8 -> F8!update_reg_sub(v, w)
                 [] bits = 16 -> F16!update_reg_sub(v, w)
                 [] bits = 32 -> F32!update_reg_sub(v, w))
Summed(n, bits, v, w) ==
  WithFlags(n, CASE bits = 8 -> F8!update_reg_add(v, w, 0)
                 [] bits = 16 -> F16!update_reg_add(v, w, 0)
                 [] bits = 32 -> F32!update_reg_add(v, w, 0))

\* ip is the lower half of eip.
Ip(n, bits) == n.ip % Mod(bits)
Jump(n, bits, t) == [n EXCEPT !.ip = @ - (@ % Mod(bits)) + (t % Mod(bits))]
JumpBy(n, bits, k) == Jump(n, bits, n.ip + k)

\* calc_modrm16: the default segment and the offset, which is not cut to 16 bits.
calc_modrm16(n, i) ==
  LET bp == i.rm \in {2, 3} \/ (i.rm = 6 /\ i.mod # 0)
      base == CASE i.rm \in {0, 1, 7} -> Get(n, 16, EBX)
                [] bp -> Get(n, 16, EBP)
                [] OTHER -> 0
      index == IF i.rm >= 6 THEN 0 ELSE Get(n, 16, IF i.rm % 2 = 1 THEN EDI ELSE ESI)
  IN [s |-> IF bp THEN "SS" ELSE "DS", a |-> (i.disp + base + index) % M32]

\* calc_sib: the stack pointer as a base is dropped, but as an index it counts.
calc_sib(n, i) ==
  LET base == IF i.base = 4 \/ (i.base = 5 /\ i.mod = 0) THEN 0 ELSE n.gp[i.base] IN
  [s |-> IF i.base = 4 THEN "SS" ELSE "DS",
   a |-> (i.disp + base + n.gp[i.index] * 2^i.scale) % M32]

calc_modrm32(n, i) ==
  CASE i.rm = 4 -> calc_sib(n, i)
    [] i.rm = 5 /\ i.mod = 0 -> [s |-> "DS", a |-> i.disp % M32]
    [] OTHER -> [s |-> IF i.rm = 5 THEN "SS" ELSE "DS", a |-> (i.disp + n.gp[i.rm]) % M32]

calc_modrm(n, i) ==
  LET e == IF AddressSize(n, i) = 32 THEN calc_modrm32(n, i) ELSE calc_modrm16(n, i) IN
  IF i.seg = "none" THEN e ELSE [e EXCEPT !.s = i.seg]

\* Only a ModR/M byte that means memory has an address, and a scaled index
\* on the stack pointer is not implemented.
Addressed(n, i) ==
  LET scaled == AddressSize(n, i) = 32 /\ i.rm = 4 /\ i.base = 4 /\ i.scale # 0 IN
  IF i.mod = 3 \/ scaled THEN Raise(n, "assert") ELSE n

\* The operand of the ModR/M byte, the machine after reading it and after
\* writing it.
Rm(n, i, bits) ==
  LET e == calc_modrm(n, i) IN
  IF i.mod = 3 THEN Get(n, bits, i.rm) ELSE Read(n, bits, e.s, e.a)

AfterRm(n, i) ==
  LET e == calc_modrm(n, i) IN
  IF i.mod = 3 THEN n ELSE AfterRead(Addressed(n, i), e.s, e.a)

PutRm(n, i, bits, v) ==
  LET e == calc_modrm(n, i) IN
  IF i.mod = 3 THEN Put(n, bits, i.rm, v) ELSE Write(Addressed(n, i), bits, e.s, e.a, v)

\* The offset in moffs is in DS unless the instruction says otherwise.
MoffsSegment(i) == IF i.seg = "none" THEN "DS" ELSE i.seg

-----------------------------------------------------------------------------
(* Interrupts.                                                             *)

TssLimit == 103

\* The stack of ring 0, with the pointer to the interrupted one on it.  CS is
\* still that of the outer ring.
InnerStack(n) ==
  LET t == n.dt["TR"] IN
  CASE t.limit < TssLimit -> Raise(n, "TS")
    [] t.limit >= TssLimit /\ ~InRange(t.base, TssLimit + 1) -> Raise(n, "assert")
    [] OTHER ->
         Push(Push(Put(set_segment(n, "SS", ReadRam(n, 16, t.base + 8)), 32, ESP,
                       ReadRam(n, 32, t.base + 4)),
                   32, n.sel["SS"]), 32, n.gp[ESP])

SavedBits(n) == IF Protected(n) THEN 32 ELSE 16

\* Slip: the instruction pointer is saved below the segment.
save_regs_swapped(n, chpl) ==
  LET bits == SavedBits(n) IN
  Push(Push(Push(IF chpl THEN InnerStack(n) ELSE n,
                 bits, n.fl % Mod(bits)), bits, Ip(n, bits)), bits, n.sel["CS"])

save_regs(n, chpl) ==
  LET bits == SavedBits(n) IN
  Push(Push(Push(IF chpl THEN InnerStack(n) ELSE n,
                 bits, n.fl % Mod(bits)), bits, n.sel["CS"]), bits, Ip(n, bits))

Gate(n, a) ==
  [offset |-> ReadRam(n, 16, a) + M16 * ReadRam(n, 8, a + 6),
   sel |-> ReadRam(n, 16, a + 2),
   type |-> ReadRam(n, 8, a + 5) % 8,
   dpl |-> (ReadRam(n, 8, a + 5) \div 32) % 4,
   p |-> Has(ReadRam(n, 8, a + 5), 7)]

GateFault(n, g, hard) ==
  CASE ~g.p -> "NP"
    [] g.p /\ (Cpl(n) < g.sel % 4 \/ (~hard /\ Cpl(n) > g.dpl)) -> "GP"
    [] OTHER -> "none"

\* A gate of type 6 closes the gate behind it; in real mode interrupts stay on.
Enter(n, g) ==
  [set_segment(n, "CS", g.sel) EXCEPT
    !.ip = g.offset, !.fl = WithBit(@, IF_, Has(@, IF_) /\ g.type # 6)]
PassGate(n, g, fault) ==
  IF fault # "none" THEN Raise(n, fault)
  ELSE Enter(save_regs(n, Cpl(n) # g.sel % 4), g)
ThroughGate(n, q) ==
  LET a == n.dt["IDTR"].base + 8 * q.id
      g == Gate(n, a)
  IN IF InRange(a, 8) THEN PassGate(n, g, GateFault(n, g, q.hard)) ELSE Raise(n, "assert")

ThroughVector(n, q) ==
  LET a == n.dt["IDTR"].base + 4 * q.id IN
  Jump(set_segment(save_regs(n, FALSE), "CS", ReadRam(n, 16, a + 2)), 16, ReadRam(n, 16, a))

Interrupted(n, q) ==
  CASE q.id * (IF Protected(n) THEN 8 ELSE 4) > n.dt["IDTR"].limit -> Raise(n, "GP")
    [] Protected(n) -> ThroughGate(n, q)
    [] OTHER -> ThroughVector(n, q)

-----------------------------------------------------------------------------
(* Tasks and far transfers.                                                *)

IsTss(n, sel) ==
  LET a == ReadRam(n, 8, n.dt["GDTR"].base + sel + 5) IN ~Has(a, 4) /\ a % 8 \in {1, 3}

DtReg(sel, d) == [sel |-> sel, base |-> d.base, limit |-> d.limit % M16]

\* The descriptor of a table or a task is read from the GDT, or that fails.
Unreadable(n, sel) ==
  CASE sel > n.dt["GDTR"].limit -> "GP"
    [] sel <= n.dt["GDTR"].limit /\ ~InRange(n.dt["GDTR"].base + sel, 8) -> "assert"
    [] OTHER -> "none"

set_ldtr(n, sel) ==
  IF Unreadable(n, sel) # "none" THEN Raise(n, Unreadable(n, sel))
  ELSE [n EXCEPT !.dt["LDTR"] = DtReg(sel, Descriptor(n, n.dt["GDTR"].base + sel))]

set_tr(n, sel) ==
  LET d == Descriptor(n, n.dt["GDTR"].base + sel) IN
  CASE Unreadable(n, sel) # "none" -> Raise(n, Unreadable(n, sel))
    [] Unreadable(n, sel) = "none" /\ d.acc % 8 # 1 -> Raise(n, "GP")
    [] OTHER -> [n EXCEPT !.dt["TR"] = DtReg(sel, d)]

\* What a task is made of: where in its state segment, how wide, what.
TaskWord(at, bits, v) == [at |-> at, bytes |-> bits \div 8, v |-> v]
TaskWords(n) ==
  {TaskWord(28, 32, n.cr[3]), TaskWord(32, 32, n.ip), TaskWord(36, 32, n.fl)}
    \cup {TaskWord(40 + 4 * r, 32, n.gp[r]) : r \in Gp}
    \cup {TaskWord(68 + 4 * k, 16, n.sel[SegReg[k]]) : k \in 1..6}
    \cup {TaskWord(96, 16, n.dt["LDTR"].sel)}

\* The segment is read, its words replaced, and written back.
Holds(w, k) == k \in w.at..(w.at + w.bytes - 1)
TaskByte(words, k, old) ==
  IF \E w \in words : Holds(w, k)
  THEN LET w == CHOOSE w \in words : Holds(w, k) IN ByteOf(w.v, k - w.at)
  ELSE old
StoreTask(n) ==
  LET t == n.dt["TR"].base
      words == TaskWords(n)
  IN [n EXCEPT !.ram = [a \in DOMAIN @ |-> TaskByte(words, a - t, @[a])]]

\* The segments are loaded before the LDTR that some of them may mean, and the
\* cached translations stay.
LoadTask(n, prev) ==
  LET t == n.dt["TR"].base
      linked == WriteRam(n, 16, t, prev)
      loaded == [linked EXCEPT !.cr[3] = ReadRam(n, 32, t + 28),
                               !.ip = ReadRam(n, 32, t + 32),
                               !.fl = ReadRam(n, 32, t + 36),
                               !.gp = [r \in Gp |-> ReadRam(n, 32, t + 40 + 4 * r)]]
      Segment(o, k) == set_segment(o, SegReg[k], ReadRam(n, 16, t + 68 + 4 * k))
      half == Segment(Segment(Segment(loaded, 1), 2), 3)
      segments == Segment(Segment(Segment(half, 4), 5), 6)
  IN set_ldtr(segments, ReadRam(n, 16, t + 96))

TaskFits(n) == n.dt["TR"].limit >= TssLimit /\ InRange(n.dt["TR"].base, TssLimit + 1)

Resume(n, prev) ==
  IF Faulted(n) \/ ~TaskFits(n) THEN Raise(n, "GP") ELSE LoadTask(n, prev)
switch_task(n, sel) ==
  IF TaskFits(n) THEN Resume(set_tr(StoreTask(n), sel), n.dt["TR"].sel) ELSE Raise(n, "GP")

Switches(n, sel) == Protected(n) /\ Unreadable(n, sel) = "none" /\ IsTss(n, sel)

jmpf(n, sel, eip) ==
  CASE Protected(n) /\ Unreadable(n, sel) # "none" -> Raise(n, Unreadable(n, sel))
    [] Switches(n, sel) -> switch_task(n, sel)
    [] OTHER -> [set_segment(n, "CS", sel) EXCEPT !.ip = eip % M32]

\* An inward return address of 32 bits, whatever the size of the call.
PushSp(n) == Push(n, 32, n.gp[ESP])
callf(n, sel, eip) ==
  LET stacked == IF Cpl(n) # sel % 4 THEN PushSp(Push(n, 32, n.sel["SS"])) ELSE n
      called == Push(Push(stacked, 32, n.sel["CS"]), 32, n.ip)
  IN IF sel % 4 < Cpl(n) THEN Raise(n, "GP")
     ELSE [set_segment(called, "CS", sel) EXCEPT !.ip = eip % M32]

\* The stack of the outer ring is popped from that of the inner one.
LoadStack(p) == set_segment(Put(p.m, 32, ESP, p.words[1]), "SS", p.words[2] % M16)
OuterStack(n) == LoadStack(Pop2(n, 32))

ReturnTo(n, cs) == set_segment(IF cs % 4 # Cpl(n) THEN OuterStack(n) ELSE n, "CS", cs)
Return(p) == ReturnTo([p.m EXCEPT !.ip = p.words[1]], p.words[2] % M16)
retf(n) == Return(Pop2(n, 32))

\* iret pops the instruction pointer, CS and the flags: p is what it popped.
\* Slip: the flags are popped and dropped.
PoppedWithoutFlags(p, bits) == Jump(p.m, bits, p.words[1])

Popped(p, bits) ==
  [Jump(p.m, bits, p.words[1]) EXCEPT !.fl = @ - (@ % Mod(bits)) + p.words[3]]

ReturnIn(n, cs, bits) ==
  CASE bits = 32 /\ Flag(n, NT) -> switch_task(n, ReadRam(n, 16, n.dt["TR"].base))
    [] bits = 32 /\ ~Flag(n, NT) /\ cs % 4 > Cpl(n) -> OuterStack(n)
    [] OTHER -> n

iret(p, bits) ==
  LET cs == p.words[2] % M16 IN set_segment(ReturnIn(Popped(p, bits), cs, bits), "CS", cs)

-----------------------------------------------------------------------------
(* The main loop.  A device's interrupt is accepted before an instruction  *)
(* if the guest lets it, and only such an interrupt wakes a processor that *)
(* is halted.  The handler of the oldest interrupt accepted is entered,    *)
(* and its first instruction is the one executed.                          *)

After(n, next) == IF Faulted(n) THEN "ended" ELSE next

chk_irq ==
  /\ pc = "poll" /\ Flag(m, IF_)
  /\ irqs < guest.irqs \/ m.halt
  /\ que' = Append(que, [id |-> guest.vector, hard |-> TRUE])
  /\ m' = [m EXCEPT !.halt = FALSE]
  /\ irqs' = IF irqs < guest.irqs THEN irqs + 1 ELSE irqs
  /\ pc' = "dispatch"
  /\ UNCHANGED <<instr, guest, frames, left>>

NoIrq ==
  /\ pc = "poll" /\ ~m.halt
  /\ pc' = "dispatch"
  /\ UNCHANGED <<m, instr, que, guest, irqs, frames, left>>

Sleep ==
  /\ pc = "poll" /\ m.halt
  /\ pc' = "asleep"
  /\ UNCHANGED <<m, instr, que, guest, irqs, frames, left>>

Wake ==
  /\ pc = "asleep"
  /\ pc' = "poll"
  /\ UNCHANGED <<m, instr, que, guest, irqs, frames, left>>

NoInterrupt ==
  /\ pc = "dispatch" /\ que = <<>>
  /\ pc' = "decode"
  /\ UNCHANGED <<m, instr, que, guest, irqs, frames, left>>

hundle_interrupt ==
  /\ pc = "dispatch" /\ que # <<>>
  /\ m' = Interrupted(m, Head(que))
  /\ que' = Tail(que)
  /\ frames' = Append(frames, Context(m))
  /\ pc' = After(m', "decode")
  /\ UNCHANGED <<instr, guest, irqs, left>>

decode_prefixes ==
  /\ pc = "decode" /\ Code(m, 8) \in PrefixCodes
  /\ m' = AfterCode(m, 1)
  /\ instr' = Prefix(instr, Code(m, 8))
  /\ pc' = After(m', "decode")
  /\ UNCHANGED <<que, guest, irqs, frames, left>>

DecodeInstr ==
  /\ pc = "decode" /\ Code(m, 8) \notin PrefixCodes
  /\ \E d \in {decode(m, instr)} : m' = d.m /\ instr' = d.i
  /\ pc' = After(m', "execute")
  /\ UNCHANGED <<que, guest, irqs, frames, left>>

-----------------------------------------------------------------------------
(* The handlers.  b is the size of the operands.                           *)

b == instr.bits
Executes(h) == pc = "execute" /\ instr.h = h

\* n is what the handler made of the machine.
Leaves(n) ==
  m' = n /\ instr' = Blank /\ pc' = After(n, "poll") /\ UNCHANGED <<guest, irqs>>
Done(n) == Leaves(n) /\ UNCHANGED <<que, frames, left>>

Reg == instr.op % 8
RegOperand == Get(m, b, instr.reg)
Operand == Rm(m, instr, b)
MoffsAfter == AfterRead(m, MoffsSegment(instr), instr.moffs)
SregOfOpcode == SegReg[instr.op \div 8 + 1]
Numbered == instr.reg < 6
SregOfModrm == SegReg[instr.reg + 1]
Ring0(n) == IF Cpl(m) = 0 THEN n ELSE Raise(m, "GP")

mov_rm_r == Executes("mov_rm_r") /\ Done(PutRm(m, instr, b, RegOperand))
mov_r_rm == Executes("mov_r_rm") /\ Done(Put(AfterRm(m, instr), b, instr.reg, Operand))
mov_r_imm == Executes("mov_r_imm") /\ Done(Put(m, b, Reg, instr.imm))
mov_rm_imm == Executes("mov_rm_imm") /\ Done(PutRm(m, instr, b, instr.imm))
\* There are six segment registers: another number fails, after the operand is read.
mov_rm_sreg ==
  /\ Executes("mov_rm_sreg")
  /\ Done(IF Numbered THEN PutRm(m, instr, b, m.sel[SregOfModrm]) ELSE Raise(m, "assert"))
mov_sreg_rm16 ==
  /\ Executes("mov_sreg_rm16")
  /\ Done(IF Numbered THEN set_segment(AfterRm(m, instr), SregOfModrm, Rm(m, instr, 16))
          ELSE Raise(AfterRm(m, instr), "assert"))
mov_ax_moffs ==
  /\ Executes("mov_ax_moffs")
  /\ Done(Put(MoffsAfter, b, EAX, Read(m, b, MoffsSegment(instr), instr.moffs)))
mov_moffs_ax ==
  /\ Executes("mov_moffs_ax")
  /\ Done(Write(m, b, MoffsSegment(instr), instr.moffs, Get(m, b, EAX)))

\* The register is written first: an address that depends on it moves.
xchg_r_rm ==
  /\ Executes("xchg_r_rm")
  /\ Done(PutRm(Put(AfterRm(m, instr), b, instr.reg, Operand), instr, b, RegOperand))

lea_r_m ==
  /\ Executes("lea_r_m")
  /\ Done(Put(Addressed(m, instr), b, instr.reg, calc_modrm(m, instr).a))
cbw ==
  Executes("cbw") /\ Done(Put(m, b, EAX, SignedWord(b \div 2, Get(m, b \div 2, EAX))))

movzx_r_rm(h, bits) ==
  Executes(h) /\ Done(Put(AfterRm(m, instr), b, instr.reg, Rm(m, instr, bits)))
movsx_r_rm(h, bits) ==
  /\ Executes(h)
  /\ Done(Put(AfterRm(m, instr), b, instr.reg, SignedWord(bits, Rm(m, instr, bits))))

\* Additions, subtractions and comparisons, of immediates that are not negative.
ToPlace(n, place, v) ==
  CASE place = "rm" -> PutRm(n, instr, b, v)
    [] place = "reg" -> Put(n, b, instr.reg, v)
    [] place = "ax" -> Put(n, b, EAX, v)
    [] place = "opcode" -> Put(n, b, Reg, v)

Sum(n, v, w, place) == Summed(ToPlace(n, place, v + w), b, v, w)
Difference(n, v, w, place) == Compare(ToPlace(n, place, v - w), b, v, w)

Calculated(op, n, v, w, place) ==
  CASE op = 0 -> Sum(n, v, w, place)
    [] op = 5 -> Difference(n, v, w, place)
    [] op = 7 -> Compare(n, b, v, w)

\* The operations calculated here; the others are in Alu.
Here == {0, 5, 7}
AluOp == instr.op \div 8

alu_rm_r ==
  /\ Executes("alu_rm_r") /\ AluOp \in Here
  /\ Done(Calculated(AluOp, AfterRm(m, instr), Operand, RegOperand, "rm"))
alu_r_rm ==
  /\ Executes("alu_r_rm") /\ AluOp \in Here
  /\ Done(Calculated(AluOp, AfterRm(m, instr), RegOperand, Operand, "reg"))
alu_ax_imm ==
  /\ Executes("alu_ax_imm") /\ AluOp \in Here
  /\ Done(Calculated(AluOp, m, Get(m, b, EAX), instr.imm, "ax"))
code_alu ==
  /\ Executes("code_alu") /\ instr.reg \in Here
  /\ Done(Calculated(instr.reg, AfterRm(m, instr), Operand, instr.imm, "rm"))
inc_r == Executes("inc_r") /\ Done(Sum(m, Get(m, b, Reg), 1, "opcode"))
dec_r == Executes("dec_r") /\ Done(Difference(m, Get(m, b, Reg), 1, "opcode"))

-----------------------------------------------------------------------------
(* The stack.                                                              *)

push_r == Executes("push_r") /\ Done(Push(m, b, Get(m, b, Reg)))
push_imm == Executes("push_imm") /\ Done(Push(m, b, instr.imm % Mod(b)))
push_sreg == Executes("push_sreg") /\ Done(Push(m, b, m.sel[SregOfOpcode]))
pushf == Executes("pushf") /\ Done(Push(m, b, m.fl % Mod(b)))
pop_r == Executes("pop_r") /\ Done(PopTo(m, b, Reg))
pop_sreg ==
  Executes("pop_sreg") /\ Done(set_segment(Drop(m, b), SregOfOpcode, Top(m, b) % M16))
popf ==
  Executes("popf") /\ Done([Drop(m, b) EXCEPT !.fl = @ - (@ % Mod(b)) + Top(m, b)])

\* All registers as they are before the first is pushed, in two halves.
PushReg(n, r) == Push(n, b, Get(m, b, r))
pusha ==
  /\ Executes("pusha")
  /\ \E n \in {PushReg(PushReg(PushReg(PushReg(m, EAX), ECX), EDX), EBX)} :
       Done(PushReg(PushReg(PushReg(PushReg(n, ESP), EBP), ESI), EDI))

\* The stack pointer that was pushed is put back too.
PopReg(n, r) == PopTo(n, b, r)
popa ==
  /\ Executes("popa")
  /\ \E n \in {PopReg(PopReg(PopReg(m, EDI), ESI), EBP)} :
       LET o == PopReg(PopReg(PopReg(PopReg(Drop(n, b), EBX), EDX), ECX), EAX) IN
       Done(Put(o, b, ESP, Top(n, b)))

leave ==
  /\ Executes("leave")
  /\ \E n \in {Put(m, 32, ESP, Get(m, b, EBP))} : Done(Put(Drop(n, b), 32, EBP, Top(n, b)))

-----------------------------------------------------------------------------
(* Transfers of control.  Short jumps move ip whatever the mode, and       *)
(* conditional ones of 16 bits move the whole of eip.                      *)

Conditional == <<"o", "no", "b", "nb", "z", "nz", "be", "a", "s", "ns", "p", "np",
                 "l", "nl", "le", "nle">>
Taken ==
  /\ Conditional[(instr.op % 16) + 1] \in F8!Conditions
  /\ F8!Condition(Conditional[(instr.op % 16) + 1], FlagsOf(m))

jmp == Executes("jmp") /\ Done(JumpBy(m, 16, instr.imm))
jmp_rel == Executes("jmp_rel") /\ Done(JumpBy(m, b, instr.imm))
jcc_rel8 == Executes("jcc_rel8") /\ Done(IF Taken THEN JumpBy(m, 16, instr.imm) ELSE m)
jcc_rel == Executes("jcc_rel") /\ Done(IF Taken THEN JumpBy(m, 32, instr.imm) ELSE m)
call_rel ==
  Executes("call_rel") /\ Done(JumpBy(Push(m, b, Ip(m, b)), b, instr.imm))
ret == Executes("ret") /\ Done(Jump(Drop(m, b), b, Top(m, b)))

\* What is left behind when a task switches to another.
Leaving(n) ==
  [t \in DOMAIN left \cup {n.dt["TR"].sel} |->
    IF t = n.dt["TR"].sel THEN Context(n) ELSE left[t]]

Goes(n, sel, eip) ==
  /\ Leaves(jmpf(n, sel, eip))
  /\ left' = IF Switches(n, sel) THEN Leaving(n) ELSE left
  /\ UNCHANGED <<que, frames>>

\* A far pointer in memory: that of 16 bits is read where the offset alone
\* points in RAM, that of 32 through the segment.
FarPointer ==
  LET e == calc_modrm(m, instr)
      n == Addressed(m, instr)
      a == e.a % M16
      up == (e.a + 4) % M32
  IN IF b = 16
     THEN [m |-> n, ip |-> ReadRam(m, 16, a), sel |-> ReadRam(m, 16, a + 2)]
     ELSE [m |-> AfterRead(AfterRead(n, e.s, e.a), e.s, up),
           ip |-> Read(m, 32, e.s, e.a), sel |-> Read(m, 16, e.s, up)]

jmpf_ptr16 == Executes("jmpf_ptr16") /\ Goes(m, instr.ptr16, instr.imm % Mod(b))
callf_ptr16 == Executes("callf_ptr16") /\ Done(callf(m, instr.ptr16, instr.imm % Mod(b)))
Retf == Executes("retf") /\ Done(retf(m))

code_ff(op) == Executes("code_ff") /\ instr.reg = op
inc_rm == code_ff(0) /\ Done(Sum(AfterRm(m, instr), Operand, 1, "rm"))
dec_rm == code_ff(1) /\ Done(Difference(AfterRm(m, instr), Operand, 1, "rm"))
call_rm == code_ff(2) /\ Done(Jump(Push(AfterRm(m, instr), b, Ip(m, b)), b, Operand))
callf_m16 == code_ff(3) /\ \E p \in {FarPointer} : Done(callf(p.m, p.sel, p.ip))
jmp_rm == code_ff(4) /\ Done(Jump(AfterRm(m, instr), b, Operand))
jmpf_m16 == code_ff(5) /\ \E p \in {FarPointer} : Goes(p.m, p.sel, p.ip)
push_rm == code_ff(6) /\ Done(Push(AfterRm(m, instr), b, Operand))

int_imm8 ==
  /\ Executes("int_imm8")
  /\ Leaves(m)
  /\ que' = Append(que, [id |-> instr.imm % 256, hard |-> FALSE])
  /\ UNCHANGED <<frames, left>>

\* A return with NT set goes back to the task before, and is no handler's.
Iret ==
  LET size == OperandSize(m, instr) IN
  /\ Executes("iret")
  /\ \E p \in {Pop3(m, size)} : \E n \in {Popped(p, size)} :
       LET nested == size = 32 /\ Flag(n, NT) IN
       /\ Leaves(iret(p, size))
       /\ frames' = IF nested \/ frames = <<>> THEN frames ELSE Front(frames)
       /\ left' = IF nested THEN Leaving(n) ELSE left
  /\ UNCHANGED que

-----------------------------------------------------------------------------
(* The system: flags, registers of control, tables, ports.                 *)

nop == (Executes("nop") \/ Executes("int3")) /\ Done(m)
hlt == Executes("hlt") /\ Done(Ring0([m EXCEPT !.halt = TRUE]))
cli == Executes("cli") /\ Done(SetFlag(m, IF_, FALSE))
sti == Executes("sti") /\ Done(SetFlag(m, IF_, TRUE))
cld == Executes("cld") /\ Done(SetFlag(m, DF, FALSE))
std == Executes("std") /\ Done(SetFlag(m, DF, TRUE))

\* A number is checked against 40, the bytes of an array of five pointers: after
\* them is the RAM object, whose second word is the pointer to its bytes.
get_crn(n, k) == IF k < 5 THEN n.cr[k] ELSE ReadRam(n, 32, 0)
set_crn(n, k, v) == IF k < 5 THEN [n EXCEPT !.cr[k] = v] ELSE WriteRam(n, 32, 0, v)
Pointed(n) == IF instr.reg \in {5, 7} THEN Raise(m, "crash") ELSE n

mov_r32_crn ==
  /\ Executes("mov_r32_crn")
  /\ Done(Pointed(Put(m, 32, instr.rm, get_crn(m, instr.reg))))
mov_crn_r32 ==
  /\ Executes("mov_crn_r32")
  /\ Done(Ring0(Pointed(set_crn(m, instr.reg, m.gp[instr.rm]))))

ltr_rm16 ==
  /\ Executes("code_0f00") /\ instr.reg = 3
  /\ Done(Ring0(set_tr(AfterRm(m, instr), Rm(m, instr, 16))))

\* lgdt and lidt; of 16 bits the base too is a word of 16.
LoadTable(r) ==
  LET e == calc_modrm(m, instr)
      n == Addressed(m, instr)
      a == e.a % M16
      up == (e.a + 2) % M32
      o == IF b = 16 THEN n ELSE AfterRead(AfterRead(n, e.s, e.a), e.s, up)
      limit == IF b = 16 THEN ReadRam(m, 16, a) ELSE Read(m, 16, e.s, e.a)
      base == IF b = 16 THEN ReadRam(m, 16, a + 2) ELSE Read(m, 32, e.s, up)
  IN Ring0([o EXCEPT !.dt[r] = [sel |-> 0, base |-> base, limit |-> limit]])

lgdt == Executes("code_0f01") /\ instr.reg = 2 /\ Done(LoadTable("GDTR"))
lidt == Executes("code_0f01") /\ instr.reg = 3 /\ Done(LoadTable("IDTR"))

\* A wider access to a port is one for every byte, all answered alike here.  The
\* gate of the line A20 is at port 0x92 and is meant for bytes.
A20Port == \h92
Ones == CASE b = 8 -> 1 [] b = 16 -> 257 [] b = 32 -> 65793

In(port) ==
  \E v \in (IF port = A20Port THEN {2 * Bit(m.a20)} ELSE PortBytes) :
    Done(Put(m, b, EAX, v * Ones))
Out(port) ==
  Done(IF port = A20Port THEN [m EXCEPT !.a20 = Has(Get(m, 8, EAX), 1)] ELSE m)

\* Of the wider instructions the immediate port is extended by its sign.
ImmPort == instr.imm % (IF b = 8 THEN 256 ELSE M16)
in_ax_imm8 == Executes("in_ax_imm8") /\ In(ImmPort)
in_ax_dx == Executes("in_ax_dx") /\ In(Get(m, 16, EDX))
out_imm8_ax == Executes("out_imm8_ax") /\ Out(ImmPort)
out_dx_ax == Executes("out_dx_ax") /\ Out(Get(m, 16, EDX))

-----------------------------------------------------------------------------
(* Strings, one repetition a step.  The count is decremented before it is  *)
(* tested, and the pointers of comparisons move by one at every size.      *)

Along(n, r, k) == Add(n, b, r, IF Flag(m, DF) THEN -k ELSE k)

Repeated(n, again) ==
  LET counted == Add(n, b, ECX, -1)
      more == instr.rep # "none" /\ again /\ Get(counted, b, ECX) # 0
      o == IF instr.rep = "none" THEN n ELSE counted
  IN /\ m' = o
     /\ pc' = After(o, IF more THEN "execute" ELSE "poll")
     /\ instr' = IF more THEN instr ELSE Blank
     /\ UNCHANGED <<que, guest, irqs, frames, left>>

\* On the zero flag: repz wants it, repnz does not; a move is repeated while it
\* is clear by either.
While(n) == Flag(n, 6) = (instr.rep = "REPZ")

movsw ==
  /\ Executes("movsw")
  /\ LET from == Get(m, 16, ESI)
         to == Get(m, 16, EDI)
         n == Write(AfterRead(m, "DS", from), 16, "ES", to, Read(m, 16, "DS", from))
     IN Repeated(Along(Along(n, ESI, 2), EDI, 2), ~Flag(m, 6))

lodsb ==
  /\ Executes("lodsb")
  /\ LET from == Get(m, 16, ESI)
         n == Put(AfterRead(m, "DS", from), 8, EAX, Read(m, 8, "DS", from))
     IN Repeated(Along(n, ESI, 1), While(m))

\* The first segment is ES unless the instruction says otherwise: nothing has
\* set the default.
Compares(h, size) ==
  LET s == IF instr.seg = "none" THEN "ES" ELSE instr.seg
      v == Read(m, size, s, Get(m, b, ESI))
      w == Read(m, size, "ES", Get(m, b, EDI))
      o == AfterRead(AfterRead(m, s, Get(m, b, ESI)), "ES", Get(m, b, EDI))
      n == Compare(o, size, v, w)
  IN Executes(h) /\ Repeated(Along(Along(n, ESI, 1), EDI, 1), While(n))

cmps8 == Compares("cmps8", 8)
cmps == Compares("cmps", b)

Moves ==
  \/ mov_rm_r \/ mov_r_rm \/ mov_r_imm \/ mov_rm_imm \/ mov_rm_sreg \/ mov_sreg_rm16
  \/ mov_ax_moffs \/ mov_moffs_ax \/ xchg_r_rm \/ lea_r_m \/ cbw
  \/ movzx_r_rm("movzx_r_rm8", 8) \/ movzx_r_rm("movzx_r_rm16", 16)
  \/ movsx_r_rm("movsx_r_rm8", 8) \/ movsx_r_rm("movsx_r_rm16", 16)
  \/ alu_rm_r \/ alu_r_rm \/ alu_ax_imm \/ code_alu \/ inc_r \/ dec_r \/ inc_rm \/ dec_rm

Stack ==
  \/ push_r \/ push_imm \/ push_sreg \/ push_rm \/ pushf \/ pusha
  \/ pop_r \/ pop_sreg \/ popf \/ popa \/ leave

Transfers ==
  \/ jmp \/ jmp_rel \/ jcc_rel8 \/ jcc_rel \/ call_rel \/ ret \/ call_rm \/ jmp_rm
  \/ jmpf_ptr16 \/ callf_ptr16 \/ Retf \/ callf_m16 \/ jmpf_m16 \/ int_imm8 \/ Iret

System ==
  \/ nop \/ hlt \/ cli \/ sti \/ cld \/ std \/ mov_r32_crn \/ mov_crn_r32 \/ ltr_rm16
  \/ lgdt \/ lidt \/ in_ax_imm8 \/ in_ax_dx \/ out_imm8_ax \/ out_dx_ax

Strings == movsw \/ lodsb \/ cmps8 \/ cmps

Loop ==
  \/ chk_irq \/ NoIrq \/ Sleep \/ Wake \/ NoInterrupt \/ hundle_interrupt
  \/ decode_prefixes \/ DecodeInstr

Next == Loop \/ Moves \/ Stack \/ Transfers \/ System \/ Strings

\* The loop never stops by itself, and a device interrupts again and again a guest
\* that lets it.  Some step is always possible (no state is a deadlock), so that
\* []<><<Next>>_vars says what WF_vars(Next) does, without ENABLED.
Spec == Init /\ [][Next]_vars /\ []<><<Next>>_vars /\ SF_vars(chk_irq)

-----------------------------------------------------------------------------
Loops == {"poll", "asleep", "dispatch", "decode", "execute", "ended"}

\* Every register and byte stays in its width, through all the prefixes, extended
\* immediates and wrapping stack pointers.
TypeOK ==
  /\ m.gp \in [Gp -> Word(32)] /\ m.ip \in Word(32) /\ m.fl \in Word(32)
  /\ m.sel \in [Sreg -> Word(16)]
  /\ \A s \in Sreg : m.cache[s].base \in Word(32) /\ m.cache[s].limit \in 0..(M20 - 1)
  /\ \A t \in Table : m.dt[t].sel \in Word(16) /\ m.dt[t].base \in Word(32) /\ m.dt[t].limit \in Word(16)
  /\ m.cr \in [0..4 -> Word(32)]
  /\ \A a \in 0..(RamSize - 1) : m.ram[a] \in Word(8)
  /\ \A e \in DOMAIN que : que[e].id \in Word(8) /\ que[e].hard \in BOOLEAN
  /\ pc \in Loops

\* The decoder never loses its step (instr_decoder.cpp:106 reads four bytes for
\* a displacement of two): what it decodes begins where an instruction of the
\* guest begins, and eip is then where the next one does.
InStep ==
  /\ pc = "decode" /\ instr = Blank => \E s \in guest.steps : s[1] = m.ip
  /\ pc = "execute" => \E s \in guest.steps : s[2] = m.ip

\* What interrupts and tasks save is what they restore (cpu_i386.cpp:436,
\* helper_funcs.cpp:301): a handler gives back every general register, selector,
\* flag and the instruction pointer of what it interrupted, the outer stack
\* included, and a task goes on with those it was left with.
ContextRestored ==
  [][ /\ Len(frames') < Len(frames) => Context(m') = Last(frames)
      /\ m'.dt["TR"].sel # m.dt["TR"].sel /\ m'.dt["TR"].sel \in DOMAIN left
           => Context(m') = left[m'.dt["TR"].sel] ]_vars

\* A cached translation is the one in the page table (paging_system.cpp:43), for
\* guests that change no entry after its first use: the code has no way to drop
\* a translation.
TranslationCurrent ==
  \A p \in DOMAIN m.tlb : m.tlb[p] = TableEntry(m, p * PageSize)

\* Nothing drops or replaces a translation once it is cached (paging_system.cpp:32):
\* not the access that finds it refused, not another page of the same index in its
\* table, not a load of cr3, not a task with page tables of its own.
TranslationsKept ==
  [][\A p \in DOMAIN m.tlb : p \in DOMAIN m'.tlb /\ m'.tlb[p] = m.tlb[p]]_vars

\* Every guest comes to its last instruction, with interrupts off, the registers
\* that its program is to end with and no exception.
Finished(p) ==
  /\ m.halt /\ ~Flag(m, IF_) /\ ~Faulted(m)
  /\ \A r \in Gp : m.gp[r] = p.gp[r + 1]
GuestFinishes == <>[]Finished(guest)
================================================================================
