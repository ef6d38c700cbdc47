------------------------------- MODULE CpuProofs -------------------------------
(***************************************************************************)
(* The processor, for every guest: its machine keeps its type, and the     *)
(* translations it has cached; in real mode, the return from an interrupt  *)
(* gives back what the interrupt found.                                    *)
(***************************************************************************)
EXTENDS Cpu, MemoryProofs

-----------------------------------------------------------------------------
(* Flags, the instruction pointer and operands.                            *)

LEMMA WordInt ==
  ASSUME NEW bits \in {8, 16, 32}, NEW v \in Word(bits)
  PROVE  v \in Int /\ v >= 0
BY WordBounds

\* A flag of weight w, and the flags that instructions set.
LEMMA WeightedBit ==
  ASSUME NEW v \in Word(32), NEW i, NEW x, NEW w \in {1, 64, 128, 512, 1024, 2048}, 2^i = w
  PROVE  WithBit(v, i, x) \in Word(32)
<1>1. v \in Int /\ 0 <= v /\ v < 16777216
  BY WordBounds
<1>2. Bit(x) \in {0, 1}
  BY DEF Bit
<1>3. Has(v, i) <=> (v \div w) % 2 = 1
  BY DEF Has
<1>4. WithBit(v, i, x) = v + (Bit(x) - (IF (v \div w) % 2 = 1 THEN 1 ELSE 0)) * w
  BY <1>3 DEF WithBit, Bit
<1> DEFINE y == (Bit(x) - (IF (v \div w) % 2 = 1 THEN 1 ELSE 0)) * w
<1>5. y \in Int /\ 0 <= v + y /\ v + y < 16777216
  <2>1. CASE w = 1
    BY <1>1, <1>2, <2>1
  <2>2. CASE w = 64
    BY <1>1, <1>2, <2>2
  <2>3. CASE w = 128
    BY <1>1, <1>2, <2>3
  <2>4. CASE w = 512
    BY <1>1, <1>2, <2>4
  <2>5. CASE w = 1024
    BY <1>1, <1>2, <2>5
  <2>6. CASE w = 2048
    BY <1>1, <1>2, <2>6
  <2>. QED BY <2>1, <2>2, <2>3, <2>4, <2>5, <2>6
<1>. HIDE DEF y
<1>6. v + y \in Word(32)
  BY <1>1, <1>5, WordBounds
<1>. QED BY <1>4, <1>6 DEF y

LEMMA WithBitType ==
  ASSUME NEW v \in Word(32), NEW i \in {0, 6, 7, 9, 10, 11}, NEW x
  PROVE  WithBit(v, i, x) \in Word(32)
<1>1. ASSUME i = 0 PROVE 2^i = 1
  BY <1>1
<1>2. ASSUME i = 6 PROVE 2^i = 64
  BY <1>2
<1>3. ASSUME i = 7 PROVE 2^i = 128
  BY <1>3
<1>4. ASSUME i = 9 PROVE 2^i = 512
  BY <1>4
<1>5. ASSUME i = 10 PROVE 2^i = 1024
  BY <1>5
<1>6. ASSUME i = 11 PROVE 2^i = 2048
  BY <1>6
<1>. QED BY <1>1, <1>2, <1>3, <1>4, <1>5, <1>6, WeightedBit

LEMMA FlKeeps ==
  ASSUME NEW T, NEW n \in Holding(T), NEW x \in Word(32)
  PROVE  [n EXCEPT !.fl = x] \in Holding(T) /\ [n EXCEPT !.ip = x] \in Holding(T)
BY Replaced

LEMMA SetFlagKeeps ==
  ASSUME NEW T, NEW n \in Holding(T), NEW i \in {0, 6, 7, 9, 10, 11}, NEW x
  PROVE  SetFlag(n, i, x) \in Holding(T)
<1> DEFINE w == WithBit(n.fl, i, x)
<1>1. w \in Word(32)
  BY Held, Parts, WithBitType
<1>2. SetFlag(n, i, x) = [n EXCEPT !.fl = w]
  BY Held, Parts DEF SetFlag, Fields
<1>. HIDE DEF w
<1>3. [n EXCEPT !.fl = w] \in Holding(T)
  BY <1>1, FlKeeps
<1>. QED BY <1>2, <1>3

LEMMA WithFlagsKeeps ==
  ASSUME NEW T, NEW n \in Holding(T), NEW f
  PROVE  WithFlags(n, f) \in Holding(T)
<1> DEFINE w == WithBit(WithBit(WithBit(WithBit(n.fl, 0, f.c), 6, f.z), 7, f.s), 11, f.o)
<1>1. w \in Word(32)
  BY Held, Parts, WithBitType
<1>2. WithFlags(n, f) = [n EXCEPT !.fl = w]
  BY Held, Parts DEF WithFlags, Fields
<1>. HIDE DEF w
<1>3. [n EXCEPT !.fl = w] \in Holding(T)
  BY <1>1, FlKeeps
<1>. QED BY <1>2, <1>3

LEMMA CompareKeeps ==
  ASSUME NEW T, NEW n \in Holding(T), NEW bits, NEW v, NEW w
  PROVE  Compare(n, bits, v, w) \in Holding(T) /\ Summed(n, bits, v, w) \in Holding(T)
BY WithFlagsKeeps DEF Compare, Summed

\* A register with its lower part replaced.
LEMMA LowerReplaced ==
  ASSUME NEW x \in Word(32), NEW bits \in {8, 16, 32}, NEW t \in Int
  PROVE  /\ x - (x % Mod(bits)) + (t % Mod(bits)) \in Word(32)
         /\ t % Mod(bits) \in Word(bits)
         /\ t \in Word(bits) => x - (x % Mod(bits)) + t \in Word(32)
<1>1. x \in Int /\ 0 <= x /\ x < 16777216
  BY WordBounds
<1>2. PICK w \in {256, 65536, 16777216} : w = Mod(bits)
  BY DEF Mod, M16, M32
<1>3. 0 <= x - (x % w) + (t % w) /\ x - (x % w) + (t % w) < 16777216 /\ t % w >= 0 /\ t % w < w
  BY <1>1
<1>4. t % w \in Word(bits)
  BY <1>2, <1>3 DEF Word
<1>5. x - (x % w) + (t % w) \in Word(32)
  BY <1>1, <1>3, WordBounds
<1>6. t \in Word(bits) => t % w = t
  BY <1>2 DEF Word
<1>. QED BY <1>2, <1>4, <1>5, <1>6

LEMMA JumpKeeps ==
  ASSUME NEW T, NEW n \in Holding(T), NEW bits \in {8, 16, 32}, NEW t \in Int
  PROVE  Jump(n, bits, t) \in Holding(T) /\ JumpBy(n, bits, t) \in Holding(T) /\ Ip(n, bits) \in Int
<1>1. n.ip \in Word(32) /\ n.ip \in Int
  BY Held, Parts, WordBounds
<1>2. ASSUME NEW u \in Int PROVE Jump(n, bits, u) \in Holding(T)
  <2> DEFINE w == n.ip - (n.ip % Mod(bits)) + (u % Mod(bits))
  <2>1. w \in Word(32)
    BY <1>1, LowerReplaced
  <2>2. Jump(n, bits, u) = [n EXCEPT !.ip = w]
    BY Held, Parts DEF Jump, Fields
  <2>. HIDE DEF w
  <2>3. [n EXCEPT !.ip = w] \in Holding(T)
    BY <2>1, FlKeeps
  <2>. QED BY <2>2, <2>3
<1>3. n.ip + t \in Int
  BY <1>1
<1>4. Ip(n, bits) \in Int
  <2>1. Ip(n, bits) \in Word(bits)
    BY <1>1, LowerReplaced DEF Ip
  <2>. QED BY <2>1, WordInt
<1>. QED BY <1>2, <1>3, <1>4 DEF JumpBy

-----------------------------------------------------------------------------
(* The type of an instruction.  The handler of cbw is in the tables of     *)
(* wider operands only, and the opcodes of push_sreg and pop_sreg number   *)
(* segment registers that exist.                                           *)

Handlers == {"none"} \cup {r.h : r \in setup_common \cup setup16}

\* As it is being decoded.
Undecoded ==
  [h : Handlers, bits : {8, 16, 32}, op : Word(16), rep : {"none", "REPZ", "REPNZ"},
   seg : Sreg \cup {"none"}, oov : BOOLEAN, aov : BOOLEAN,
   mod : 0..3, reg : Gp, rm : Gp, base : Gp, index : Gp, scale : 0..3,
   disp : Int, imm : Int, ptr16 : Word(16), moffs : Word(32)]

Instruction ==
  {i \in Undecoded : /\ i.h = "cbw" => i.bits \in {16, 32}
                     /\ i.h \in {"push_sreg", "pop_sreg"} => i.op \div 8 + 1 \in 1..6}

\* The numbers of the registers.
LEMMA Registers ==
  /\ EAX \in Gp /\ ECX \in Gp /\ EDX \in Gp /\ EBX \in Gp
  /\ ESP \in Gp /\ EBP \in Gp /\ ESI \in Gp /\ EDI \in Gp
BY DEF Gp, EAX, ECX, EDX, EBX, ESP, EBP, ESI, EDI

LEMMA RegisterInt ==
  ASSUME NEW n \in Machine, NEW bits \in {8, 16, 32}, NEW r \in Gp
  PROVE  Get(n, bits, r) \in Int /\ n.gp[r] \in Int
BY GetType, WordInt, Parts

\* The segment and the address of an operand in memory.
LEMMA EffectiveType ==
  ASSUME NEW n \in Machine, NEW i \in Instruction
  PROVE  calc_modrm(n, i).s \in Sreg /\ calc_modrm(n, i).a \in Word(32) /\ calc_modrm(n, i).a \in Int
<1>1. /\ i.disp \in Int /\ i.rm \in Gp /\ i.base \in Gp /\ i.index \in Gp /\ i.scale \in 0..3
      /\ i.seg \in Sreg \cup {"none"}
  BY DEF Instruction, Undecoded
<1>2. "SS" \in Sreg /\ "DS" \in Sreg
  BY DEF Sreg
<1>3. \A v \in Int : v % M32 \in Word(32)
  BY CutTo
<1>4. calc_modrm16(n, i).s \in Sreg /\ calc_modrm16(n, i).a \in Word(32)
  <2> DEFINE bp == i.rm \in {2, 3} \/ (i.rm = 6 /\ i.mod # 0)
             base == CASE i.rm \in {0, 1, 7} -> Get(n, 16, EBX)
                       [] bp -> Get(n, 16, EBP)
                       [] OTHER -> 0
             index == IF i.rm >= 6 THEN 0 ELSE Get(n, 16, IF i.rm % 2 = 1 THEN EDI ELSE ESI)
  <2>1. base \in Int /\ index \in Int
    BY Registers, RegisterInt
  <2>2. i.disp + base + index \in Int
    BY <1>1, <2>1
  <2>3. calc_modrm16(n, i) = [s |-> IF bp THEN "SS" ELSE "DS", a |-> (i.disp + base + index) % M32]
    BY DEF calc_modrm16
  <2>. HIDE DEF bp, base, index
  <2>. QED BY <1>2, <1>3, <2>2, <2>3
<1>5. calc_sib(n, i).s \in Sreg /\ calc_sib(n, i).a \in Word(32)
  <2> DEFINE base == IF i.base = 4 \/ (i.base = 5 /\ i.mod = 0) THEN 0 ELSE n.gp[i.base]
  <2>1. base \in Int /\ n.gp[i.index] \in Int /\ 2^i.scale \in Int
    BY <1>1, RegisterInt
  <2>2. n.gp[i.index] * 2^i.scale \in Int
    BY <2>1
  <2>3. i.disp + base + n.gp[i.index] * 2^i.scale \in Int
    BY <1>1, <2>1, <2>2
  <2>4. calc_sib(n, i) = [s |-> IF i.base = 4 THEN "SS" ELSE "DS",
                          a |-> (i.disp + base + n.gp[i.index] * 2^i.scale) % M32]
    BY DEF calc_sib
  <2>. HIDE DEF base
  <2>. QED BY <1>2, <1>3, <2>3, <2>4
<1>6. calc_modrm32(n, i).s \in Sreg /\ calc_modrm32(n, i).a \in Word(32)
  <2>1. i.disp + n.gp[i.rm] \in Int
    BY <1>1, RegisterInt
  <2>. QED BY <1>1, <1>2, <1>3, <1>5, <2>1 DEF calc_modrm32
<1> DEFINE e == IF AddressSize(n, i) = 32 THEN calc_modrm32(n, i) ELSE calc_modrm16(n, i)
<1>7. e.s \in Sreg /\ e.a \in Word(32) /\ e = [s |-> e.s, a |-> e.a]
  BY <1>4, <1>5, <1>6 DEF calc_modrm16, calc_modrm32, calc_sib
<1>8. calc_modrm(n, i) = IF i.seg = "none" THEN e ELSE [e EXCEPT !.s = i.seg]
  BY DEF calc_modrm
<1>. HIDE DEF e
<1>. QED BY <1>1, <1>7, <1>8, WordInt

LEMMA AddressedKeeps ==
  ASSUME NEW T, NEW n \in Holding(T), NEW i
  PROVE  Addressed(n, i) \in Holding(T)
BY RaiseKeeps DEF Addressed, Exceptions

LEMMA RmType ==
  ASSUME NEW n \in Machine, NEW i \in Instruction, NEW bits \in {8, 16, 32}
  PROVE  Rm(n, i, bits) \in Word(bits) /\ Rm(n, i, bits) \in Int
<1>1. i.rm \in Gp
  BY DEF Instruction, Undecoded
<1>. QED BY <1>1, EffectiveType, GetType, RegisterInt, ReadType DEF Rm

LEMMA AfterRmKeeps ==
  ASSUME NEW T, NEW n \in Holding(T), NEW i \in Instruction
  PROVE  AfterRm(n, i) \in Holding(T)
BY Held, EffectiveType, AddressedKeeps, AfterReadKeeps DEF AfterRm

LEMMA PutRmKeeps ==
  ASSUME NEW T, NEW n \in Holding(T), NEW i \in Instruction, NEW bits \in {8, 16, 32}, NEW v \in Int
  PROVE  PutRm(n, i, bits, v) \in Holding(T)
<1>1. i.rm \in Gp
  BY DEF Instruction, Undecoded
<1>. QED BY <1>1, Held, EffectiveType, AddressedKeeps, PutKeeps, WriteKeeps DEF PutRm

LEMMA MoffsType ==
  ASSUME NEW i \in Instruction
  PROVE  MoffsSegment(i) \in Sreg /\ i.moffs \in Int
<1>1. i.seg \in Sreg \cup {"none"} /\ i.moffs \in Word(32) /\ "DS" \in Sreg
  BY DEF Instruction, Undecoded, Sreg
<1>. QED BY <1>1, WordInt DEF MoffsSegment

-----------------------------------------------------------------------------
(* Interrupts.                                                             *)

LEMMA TableType ==
  ASSUME NEW n \in Machine, NEW t \in Table
  PROVE  /\ n.dt[t].sel \in Word(16) /\ n.dt[t].base \in Word(32) /\ n.dt[t].limit \in Word(16)
         /\ n.dt[t].sel \in Int /\ n.dt[t].base \in Int /\ n.dt[t].limit \in Int
BY Parts, WordInt

LEMMA SelectorType ==
  ASSUME NEW n \in Machine
  PROVE  \A s \in Sreg : n.sel[s] \in Word(16) /\ n.sel[s] \in Int
BY Parts, WordInt

LEMMA InnerStackKeeps ==
  ASSUME NEW T, NEW n \in Holding(T)
  PROVE  InnerStack(n) \in Holding(T)
<1>. n \in Machine
  BY Held
<1> DEFINE t == n.dt["TR"]
           o == set_segment(n, "SS", ReadRam(n, 16, t.base + 8))
           p == Put(o, 32, ESP, ReadRam(n, 32, t.base + 4))
<1>1. t.base + 8 \in Int /\ t.base + 4 \in Int /\ "SS" \in Sreg
  BY TableType DEF Table, Sreg
<1>2. o \in Holding(T)
  BY <1>1, ReadRamType, set_segmentKeeps
<1>3. ReadRam(n, 32, t.base + 4) \in Int
  BY <1>1, ReadRamType, WordInt
<1>. HIDE DEF o
<1>4. p \in Holding(T)
  BY <1>2, <1>3, Registers, PutKeeps
<1>. HIDE DEF p
<1>5. Push(Push(p, 32, n.sel["SS"]), 32, n.gp[ESP]) \in Holding(T)
  BY <1>1, <1>4, SelectorType, EspType, PushKeeps
<1>6. Raise(n, "TS") \in Holding(T) /\ Raise(n, "assert") \in Holding(T)
  BY RaiseKeeps DEF Exceptions
<1>. QED BY <1>5, <1>6 DEF InnerStack, o, p

LEMMA save_regsKeeps ==
  ASSUME NEW T, NEW n \in Holding(T), NEW chpl
  PROVE  save_regs(n, chpl) \in Holding(T)
<1>. n \in Machine
  BY Held
<1> DEFINE bits == SavedBits(n)
           o == IF chpl THEN InnerStack(n) ELSE n
<1>1. bits \in {8, 16, 32}
  BY DEF SavedBits
<1>2. o \in Holding(T)
  BY InnerStackKeeps
<1>3. n.fl % Mod(bits) \in Int /\ Ip(n, bits) \in Int /\ n.sel["CS"] \in Int
  <2>1. n.fl \in Int /\ n.fl \in Word(32)
    BY Parts, WordInt
  <2>2. n.fl % Mod(bits) \in Int
    BY <1>1, <2>1, LowerReplaced, WordInt
  <2>. QED BY <1>1, <2>2, JumpKeeps, Held, SelectorType DEF Sreg
<1>4. save_regs(n, chpl) = Push(Push(Push(o, bits, n.fl % Mod(bits)), bits, n.sel["CS"]), bits, Ip(n, bits))
  BY DEF save_regs
<1>. HIDE DEF bits, o
<1>5. Push(o, bits, n.fl % Mod(bits)) \in Holding(T)
  BY <1>1, <1>2, <1>3, PushKeeps
<1>6. Push(Push(o, bits, n.fl % Mod(bits)), bits, n.sel["CS"]) \in Holding(T)
  BY <1>1, <1>3, <1>5, PushKeeps
<1>. QED BY <1>1, <1>3, <1>4, <1>6, PushKeeps

\* The offset in a gate, its selector and the exception it raises.
LEMMA GateType ==
  ASSUME NEW n \in Machine, NEW a \in Int, NEW hard
  PROVE  /\ Gate(n, a).offset \in Word(32) /\ Gate(n, a).sel \in Word(16)
         /\ GateFault(n, Gate(n, a), hard) \in Exceptions
<1>1. ReadRam(n, 16, a) \in Word(16) /\ ReadRam(n, 8, a + 6) \in Word(8) /\ ReadRam(n, 16, a + 2) \in Word(16)
  BY ReadRamType
<1>2. ReadRam(n, 16, a) + M16 * ReadRam(n, 8, a + 6) \in Word(32)
  BY <1>1, WordBounds, Sizes
<1>3. GateFault(n, Gate(n, a), hard) \in Exceptions
  BY DEF GateFault, Exceptions
<1>. QED BY <1>1, <1>2, <1>3 DEF Gate

LEMMA EnterKeeps ==
  ASSUME NEW T, NEW n \in Holding(T), NEW g, g.offset \in Word(32), g.sel \in Word(16)
  PROVE  Enter(n, g) \in Holding(T)
<1> DEFINE o == set_segment(n, "CS", g.sel)
           w == WithBit(o.fl, IF_, Has(o.fl, IF_) /\ g.type # 6)
<1>1. o \in Holding(T)
  BY set_segmentKeeps DEF Sreg
<1>. HIDE DEF o
<1>2. o \in Machine
  BY <1>1, Held
<1>3. o.fl \in Word(32) /\ IF_ \in {0, 6, 7, 9, 10, 11}
  BY <1>2, Parts DEF IF_
<1>4. w \in Word(32)
  BY <1>3, WithBitType
<1>5. Enter(n, g) = [[o EXCEPT !.ip = g.offset] EXCEPT !.fl = w]
  BY <1>2, Parts DEF Enter, o, Fields
<1>. HIDE DEF w
<1>6. [o EXCEPT !.ip = g.offset] \in Holding(T)
  BY <1>1, FlKeeps
<1>7. [[o EXCEPT !.ip = g.offset] EXCEPT !.fl = w] \in Holding(T)
  BY <1>4, <1>6, FlKeeps
<1>. QED BY <1>5, <1>7

LEMMA InterruptedKeeps ==
  ASSUME NEW T, NEW n \in Holding(T), NEW q, q.id \in Int
  PROVE  Interrupted(n, q) \in Holding(T)
<1>. n \in Machine
  BY Held
<1>1. n.dt["IDTR"].base \in Int
  BY TableType DEF Table
<1>2. Raise(n, "GP") \in Holding(T) /\ Raise(n, "assert") \in Holding(T)
  BY RaiseKeeps DEF Exceptions
<1>3. ThroughGate(n, q) \in Holding(T)
  <2> DEFINE a == n.dt["IDTR"].base + 8 * q.id
             g == Gate(n, a)
             f == GateFault(n, g, q.hard)
  <2>1. a \in Int
    BY <1>1
  <2>. HIDE DEF a
  <2>2. g.offset \in Word(32) /\ g.sel \in Word(16) /\ f \in Exceptions
    BY <2>1, GateType
  <2>. HIDE DEF g, f
  <2>3. Enter(save_regs(n, Cpl(n) # g.sel % 4), g) \in Holding(T)
    BY <2>2, save_regsKeeps, EnterKeeps
  <2>4. PassGate(n, g, f) \in Holding(T)
    BY <2>2, <2>3, RaiseKeeps DEF PassGate
  <2>. QED BY <1>2, <2>4 DEF ThroughGate, a, g, f
<1>4. ThroughVector(n, q) \in Holding(T)
  <2> DEFINE a == n.dt["IDTR"].base + 4 * q.id
             o == set_segment(save_regs(n, FALSE), "CS", ReadRam(n, 16, a + 2))
  <2>1. a \in Int /\ a + 2 \in Int
    BY <1>1
  <2>. HIDE DEF a
  <2>2. ReadRam(n, 16, a) \in Int /\ ReadRam(n, 16, a + 2) \in Word(16)
    BY <2>1, ReadRamType, WordInt
  <2>3. o \in Holding(T)
    BY <2>2, save_regsKeeps, set_segmentKeeps DEF Sreg
  <2>. HIDE DEF o
  <2>4. Jump(o, 16, ReadRam(n, 16, a)) \in Holding(T)
    BY <2>2, <2>3, JumpKeeps
  <2>. QED BY <2>4 DEF ThroughVector, o, a
<1>. QED BY <1>2, <1>3, <1>4 DEF Interrupted

-----------------------------------------------------------------------------
(* Tasks and far transfers.                                                *)

LEMMA TableKeeps ==
  ASSUME NEW T, NEW n \in Holding(T), NEW t \in Table,
         NEW sel \in Word(16), NEW base \in Word(32), NEW limit \in Word(16)
  PROVE  [n EXCEPT !.dt[t] = [sel |-> sel, base |-> base, limit |-> limit]] \in Holding(T)
<1> DEFINE d == [sel |-> sel, base |-> base, limit |-> limit]
<1>1. [n.dt EXCEPT ![t] = d] \in [Table -> [sel : Word(16), base : Word(32), limit : Word(16)]]
  BY Held, Parts
<1>. HIDE DEF d
<1>2. [n EXCEPT !.dt[t] = d] = [n EXCEPT !.dt = [n.dt EXCEPT ![t] = d]]
  BY Held, Parts DEF Fields
<1>3. [n EXCEPT !.dt = [n.dt EXCEPT ![t] = d]] \in Holding(T)
  BY <1>1, Replaced
<1>. QED BY <1>2, <1>3 DEF d

\* A descriptor that can be read, as the register of a table.
LEMMA DtRegKeeps ==
  ASSUME NEW T, NEW n \in Holding(T), NEW t \in Table, NEW sel \in Word(16),
         Unreadable(n, sel) = "none"
  PROVE  [n EXCEPT !.dt[t] = DtReg(sel, Descriptor(n, n.dt["GDTR"].base + sel))] \in Holding(T)
<1> DEFINE d == Descriptor(n, n.dt["GDTR"].base + sel)
<1>1. sel \in Int /\ n.dt["GDTR"].base \in Int /\ n.dt["GDTR"].limit \in Int
  BY Held, TableType, WordInt DEF Table
<1>2. InRange(n.dt["GDTR"].base + sel, 8)
  BY <1>1 DEF Unreadable
<1>3. d \in SegmentCache
  BY <1>1, <1>2, Held, DescriptorType
<1>. HIDE DEF d
<1>4. d.base \in Word(32) /\ d.limit \in Int
  BY <1>3, LimitBounds DEF SegmentCache
<1>5. d.limit % M16 \in Word(16)
  BY <1>4, CutTo
<1>6. [n EXCEPT !.dt[t] = [sel |-> sel, base |-> d.base, limit |-> d.limit % M16]] \in Holding(T)
  BY <1>4, <1>5, TableKeeps
<1>. QED BY <1>6 DEF DtReg, d

LEMMA UnreadableType ==
  ASSUME NEW n, NEW sel
  PROVE  Unreadable(n, sel) \in Exceptions
BY DEF Unreadable, Exceptions

LEMMA set_ldtrKeeps ==
  ASSUME NEW T, NEW n \in Holding(T), NEW sel \in Word(16)
  PROVE  set_ldtr(n, sel) \in Holding(T)
<1>1. CASE Unreadable(n, sel) = "none"
  BY <1>1, DtRegKeeps DEF set_ldtr, Table
<1>2. CASE Unreadable(n, sel) # "none"
  BY <1>2, UnreadableType, RaiseKeeps DEF set_ldtr
<1>. QED BY <1>1, <1>2

LEMMA set_trKeeps ==
  ASSUME NEW T, NEW n \in Holding(T), NEW sel \in Word(16)
  PROVE  set_tr(n, sel) \in Holding(T)
<1>1. CASE Unreadable(n, sel) = "none"
  <2> DEFINE d == Descriptor(n, n.dt["GDTR"].base + sel)
             o == [n EXCEPT !.dt["TR"] = DtReg(sel, d)]
  <2>1. o \in Holding(T)
    BY <1>1, DtRegKeeps DEF Table
  <2>2. Raise(n, "GP") \in Holding(T)
    BY RaiseKeeps DEF Exceptions
  <2>3. set_tr(n, sel) = IF d.acc % 8 # 1 THEN Raise(n, "GP") ELSE o
    BY <1>1 DEF set_tr
  <2>. HIDE DEF o, d
  <2>. QED BY <2>1, <2>2, <2>3
<1>2. CASE Unreadable(n, sel) # "none"
  BY <1>2, UnreadableType, RaiseKeeps DEF set_tr
<1>. QED BY <1>1, <1>2

\* What is written into a task's state segment is bytes.
LEMMA TaskWordsType ==
  ASSUME NEW n \in Machine, NEW w \in TaskWords(n)
  PROVE  w.at \in Int /\ w.bytes \in {2, 4} /\ w.v \in Int
<1>1. /\ n.cr[3] \in Int /\ n.ip \in Int /\ n.fl \in Int /\ \A r \in Gp : n.gp[r] \in Int
      /\ \A k \in 1..6 : n.sel[SegReg[k]] \in Int
      /\ n.dt["LDTR"].sel \in Int
  <2>1. \A k \in 1..6 : SegReg[k] \in Sreg
    BY DEF SegReg, Sreg
  <2>2. n.cr[3] \in Word(32) /\ n.ip \in Word(32) /\ n.fl \in Word(32)
    BY Parts
  <2>. QED BY <2>1, <2>2, WordInt, RegisterInt, SelectorType, TableType DEF Table
<1>2. \A r \in Gp : 40 + 4 * r \in Int
  BY DEF Gp
<1>3. 32 \div 8 = 4 /\ 16 \div 8 = 2
  OBVIOUS
<1>. QED BY <1>1, <1>2, <1>3 DEF TaskWords, TaskWord

LEMMA StoreTaskKeeps ==
  ASSUME NEW T, NEW n \in Holding(T)
  PROVE  StoreTask(n) \in Holding(T)
<1>. n \in Machine
  BY Held
<1> DEFINE t == n.dt["TR"].base
           words == TaskWords(n)
           x == [a \in DOMAIN n.ram |-> TaskByte(words, a - t, n.ram[a])]
<1>1. t \in Int
  BY TableType DEF Table
<1>2. DOMAIN n.ram = 0..(RamSize - 1) /\ \A a \in DOMAIN n.ram : n.ram[a] \in Word(8)
  BY Parts
<1>3. ASSUME NEW k \in Int, NEW old \in Word(8) PROVE TaskByte(words, k, old) \in Word(8)
  <2>1. CASE \E w \in words : Holds(w, k)
    <3> DEFINE w == CHOOSE w \in words : Holds(w, k)
    <3>1. w \in words /\ Holds(w, k)
      BY <2>1
    <3>2. TaskByte(words, k, old) = ByteOf(w.v, k - w.at)
      BY <2>1 DEF TaskByte
    <3>. HIDE DEF w
    <3>3. w.at \in Int /\ w.bytes \in {2, 4} /\ w.v \in Int
      BY <3>1, TaskWordsType
    <3>4. k - w.at \in 0..3
      BY <3>1, <3>3 DEF Holds
    <3>. QED BY <3>2, <3>3, <3>4, ByteOfType
  <2>. QED BY <2>1 DEF TaskByte
<1>. HIDE DEF t, words
<1>4. \A a \in DOMAIN n.ram : a - t \in Int
  BY <1>1, <1>2
<1>5. x \in [0..(RamSize - 1) -> Word(8)]
  BY <1>2, <1>3, <1>4
<1>6. StoreTask(n) = [n EXCEPT !.ram = x]
  BY Parts DEF StoreTask, Fields, t, words
<1>. HIDE DEF x
<1>7. [n EXCEPT !.ram = x] \in Holding(T)
  BY <1>5, Replaced
<1>. QED BY <1>6, <1>7

LEMMA LoadTaskKeeps ==
  ASSUME NEW T, NEW n \in Holding(T), NEW prev \in Int
  PROVE  LoadTask(n, prev) \in Holding(T)
<1>. n \in Machine
  BY Held
<1> DEFINE t == n.dt["TR"].base
           linked == WriteRam(n, 16, t, prev)
           gp == [r \in Gp |-> ReadRam(n, 32, t + 40 + 4 * r)]
           cr == [linked.cr EXCEPT ![3] = ReadRam(n, 32, t + 28)]
           ip == ReadRam(n, 32, t + 32)
           fl == ReadRam(n, 32, t + 36)
           loaded == [linked EXCEPT !.cr[3] = ReadRam(n, 32, t + 28), !.ip = ip, !.fl = fl, !.gp = gp]
           Segment(o, k) == set_segment(o, SegReg[k], ReadRam(n, 16, t + 68 + 4 * k))
           half == Segment(Segment(Segment(loaded, 1), 2), 3)
           segments == Segment(Segment(Segment(half, 4), 5), 6)
<1>1. t \in Int
  BY TableType DEF Table
<1>2. linked \in Holding(T)
  BY <1>1, WriteRamKeeps
<1>3. gp \in [Gp -> Word(32)]
  <2>1. \A r \in Gp : t + 40 + 4 * r \in Int
    BY <1>1 DEF Gp
  <2>. QED BY <2>1, ReadRamType
<1>. HIDE DEF linked, gp
<1>4. cr \in [0..4 -> Word(32)]
  <2>1. linked.cr \in [0..4 -> Word(32)]
    BY <1>2, Held, Parts
  <2>2. ReadRam(n, 32, t + 28) \in Word(32)
    BY <1>1, ReadRamType
  <2>. QED BY <2>1, <2>2
<1>5. ip \in Word(32) /\ fl \in Word(32)
  BY <1>1, ReadRamType
<1>6. loaded = [[[[linked EXCEPT !.cr = cr] EXCEPT !.ip = ip] EXCEPT !.fl = fl] EXCEPT !.gp = gp]
  BY <1>2, Held, Parts DEF Fields
<1>. HIDE DEF cr, ip, fl
<1>7. loaded \in Holding(T)
  <2>1. [linked EXCEPT !.cr = cr] \in Holding(T)
    BY <1>2, <1>4, Replaced
  <2>2. [[linked EXCEPT !.cr = cr] EXCEPT !.ip = ip] \in Holding(T)
    BY <1>5, <2>1, FlKeeps
  <2>3. [[[linked EXCEPT !.cr = cr] EXCEPT !.ip = ip] EXCEPT !.fl = fl] \in Holding(T)
    BY <1>5, <2>2, FlKeeps
  <2>4. [[[[linked EXCEPT !.cr = cr] EXCEPT !.ip = ip] EXCEPT !.fl = fl] EXCEPT !.gp = gp] \in Holding(T)
    BY <1>3, <2>3, Replaced
  <2>. QED BY <1>6, <2>4
<1>8. ASSUME NEW o \in Holding(T), NEW k \in 1..6 PROVE Segment(o, k) \in Holding(T)
  <2>1. SegReg[k] \in Sreg
    BY DEF SegReg, Sreg
  <2>2. ReadRam(n, 16, t + 68 + 4 * k) \in Word(16)
    BY <1>1, ReadRamType
  <2>. QED BY <2>1, <2>2, set_segmentKeeps
<1>9. ReadRam(n, 16, t + 96) \in Word(16)
  BY <1>1, ReadRamType
<1>10. LoadTask(n, prev) = set_ldtr(segments, ReadRam(n, 16, t + 96))
  BY DEF LoadTask, linked, gp, cr, ip, fl
<1>. HIDE DEF t, loaded, Segment
<1>11. segments \in Holding(T)
  <2>1. half \in Holding(T)
    BY <1>7, <1>8
  <2>. HIDE DEF half
  <2>. QED BY <1>8, <2>1
<1>. HIDE DEF segments
<1>. QED BY <1>9, <1>10, <1>11, set_ldtrKeeps

LEMMA switch_taskKeeps ==
  ASSUME NEW T, NEW n \in Holding(T), NEW sel \in Word(16)
  PROVE  switch_task(n, sel) \in Holding(T)
<1>1. n.dt["TR"].sel \in Int
  BY Held, TableType DEF Table
<1>2. \A o \in Holding(T) : Raise(o, "GP") \in Holding(T)
  BY RaiseKeeps DEF Exceptions
<1>3. \A o \in Holding(T), prev \in Int : Resume(o, prev) \in Holding(T)
  BY <1>2, LoadTaskKeeps DEF Resume
<1>4. set_tr(StoreTask(n), sel) \in Holding(T)
  BY StoreTaskKeeps, set_trKeeps
<1>. QED BY <1>1, <1>2, <1>3, <1>4 DEF switch_task

\* A code segment and the instruction pointer in it.
LEMMA EntryKeeps ==
  ASSUME NEW T, NEW n \in Holding(T), NEW sel \in Word(16), NEW ip \in Word(32)
  PROVE  [set_segment(n, "CS", sel) EXCEPT !.ip = ip] \in Holding(T)
<1> DEFINE o == set_segment(n, "CS", sel)
<1>1. o \in Holding(T)
  BY set_segmentKeeps DEF Sreg
<1>. HIDE DEF o
<1>2. [o EXCEPT !.ip = ip] \in Holding(T)
  BY <1>1, FlKeeps
<1>. QED BY <1>2 DEF o

LEMMA jmpfKeeps ==
  ASSUME NEW T, NEW n \in Holding(T), NEW sel \in Word(16), NEW eip \in Int
  PROVE  jmpf(n, sel, eip) \in Holding(T)
<1>1. eip % M32 \in Word(32)
  BY CutTo
<1>2. [set_segment(n, "CS", sel) EXCEPT !.ip = eip % M32] \in Holding(T)
  BY <1>1, EntryKeeps
<1>. QED BY <1>2, switch_taskKeeps, UnreadableType, RaiseKeeps DEF jmpf

LEMMA callfKeeps ==
  ASSUME NEW T, NEW n \in Holding(T), NEW sel \in Word(16), NEW eip \in Int
  PROVE  callf(n, sel, eip) \in Holding(T)
<1>. n \in Machine
  BY Held
<1> DEFINE stacked == IF Cpl(n) # sel % 4 THEN PushSp(Push(n, 32, n.sel["SS"])) ELSE n
           called == Push(Push(stacked, 32, n.sel["CS"]), 32, n.ip)
<1>1. n.sel["SS"] \in Int /\ n.sel["CS"] \in Int /\ n.ip \in Int /\ eip % M32 \in Word(32)
  <2>1. n.ip \in Word(32)
    BY Parts
  <2>. QED BY <2>1, WordInt, SelectorType, CutTo DEF Sreg
<1>2. Push(n, 32, n.sel["SS"]) \in Holding(T)
  BY <1>1, PushKeeps
<1>3. PushSp(Push(n, 32, n.sel["SS"])) \in Holding(T)
  <2> DEFINE o == Push(n, 32, n.sel["SS"])
  <2>1. o \in Holding(T)
    BY <1>2
  <2>. HIDE DEF o
  <2>2. o.gp[ESP] \in Int
    BY <2>1, Held, EspType
  <2>3. PushSp(o) \in Holding(T)
    BY <2>1, <2>2, PushKeeps DEF PushSp
  <2>. QED BY <2>3 DEF o
<1>4. stacked \in Holding(T)
  BY <1>3
<1>. HIDE DEF stacked
<1>5. called \in Holding(T)
  BY <1>1, <1>4, PushKeeps
<1>. HIDE DEF called
<1>6. [set_segment(called, "CS", sel) EXCEPT !.ip = eip % M32] \in Holding(T)
  BY <1>1, <1>5, EntryKeeps
<1>7. Raise(n, "GP") \in Holding(T)
  BY RaiseKeeps DEF Exceptions
<1>. QED BY <1>6, <1>7 DEF callf, stacked, called

LEMMA OuterStackKeeps ==
  ASSUME NEW T, NEW n \in Holding(T)
  PROVE  OuterStack(n) \in Holding(T)
<1> DEFINE p == Pop2(n, 32)
           o == Put(p.m, 32, ESP, p.words[1])
<1>1. p.m \in Holding(T) /\ p.words[1] \in Word(32) /\ p.words[2] \in Word(32)
  BY PopKeeps
<1>. HIDE DEF p
<1>2. p.words[1] \in Int /\ p.words[2] \in Int
  BY <1>1, WordInt
<1>3. p.words[2] % M16 \in Word(16)
  BY <1>2, CutTo
<1>4. o \in Holding(T)
  BY <1>1, <1>2, Registers, PutKeeps
<1>. HIDE DEF o
<1>5. set_segment(o, "SS", p.words[2] % M16) \in Holding(T)
  BY <1>3, <1>4, set_segmentKeeps DEF Sreg
<1>. QED BY <1>5 DEF OuterStack, LoadStack, o, p

LEMMA retfKeeps ==
  ASSUME NEW T, NEW n \in Holding(T)
  PROVE  retf(n) \in Holding(T)
<1> DEFINE p == Pop2(n, 32)
           o == [p.m EXCEPT !.ip = p.words[1]]
           cs == p.words[2] % M16
           r == IF cs % 4 # Cpl(o) THEN OuterStack(o) ELSE o
<1>1. p.m \in Holding(T) /\ p.words[1] \in Word(32) /\ p.words[2] \in Word(32)
  BY PopKeeps
<1>. HIDE DEF p
<1>2. o \in Holding(T)
  BY <1>1, FlKeeps
<1>3. cs \in Word(16)
  BY <1>1, WordInt, CutTo
<1>. HIDE DEF o, cs
<1>4. r \in Holding(T)
  BY <1>2, OuterStackKeeps
<1>. HIDE DEF r
<1>5. set_segment(r, "CS", cs) \in Holding(T)
  BY <1>3, <1>4, set_segmentKeeps DEF Sreg
<1>. QED BY <1>5 DEF retf, Return, ReturnTo, r, cs, o, p

\* Three words popped: the machine and the words.
LEMMA PoppedKeeps ==
  ASSUME NEW T, NEW bits \in {16, 32}, NEW p, p.m \in Holding(T),
         p.words[1] \in Word(bits), p.words[3] \in Word(bits)
  PROVE  Popped(p, bits) \in Holding(T)
<1> DEFINE o == Jump(p.m, bits, p.words[1])
           w == o.fl - (o.fl % Mod(bits)) + p.words[3]
<1>1. p.words[1] \in Int /\ p.words[3] \in Int
  BY WordInt
<1>2. o \in Holding(T)
  BY <1>1, JumpKeeps
<1>. HIDE DEF o
<1>3. o.fl \in Word(32)
  BY <1>2, Held, Parts
<1>4. w \in Word(32)
  BY <1>1, <1>3, LowerReplaced
<1>5. [o EXCEPT !.fl = @ - (@ % Mod(bits)) + p.words[3]] = [o EXCEPT !.fl = w]
  BY <1>2, Held, Parts DEF Fields
<1>. HIDE DEF w
<1>6. [o EXCEPT !.fl = w] \in Holding(T)
  BY <1>2, <1>4, FlKeeps
<1>. QED BY <1>5, <1>6 DEF Popped, o

LEMMA iretKeeps ==
  ASSUME NEW T, NEW n \in Holding(T), NEW bits \in {16, 32}
  PROVE  /\ iret(Pop3(n, bits), bits) \in Holding(T)
         /\ Popped(Pop3(n, bits), bits) \in Holding(T)
<1> DEFINE p == Pop3(n, bits)
           o == Popped(p, bits)
           cs == p.words[2] % M16
           r == ReturnIn(o, cs, bits)
<1>1. /\ p.m \in Holding(T) /\ p.words[1] \in Word(bits) /\ p.words[2] \in Word(bits)
      /\ p.words[3] \in Word(bits)
  BY PopKeeps
<1>. HIDE DEF p
<1>2. cs \in Word(16)
  BY <1>1, WordInt, CutTo
<1>3. o \in Holding(T)
  BY <1>1, PoppedKeeps
<1>. HIDE DEF o, cs
<1>4. r \in Holding(T)
  <2>1. ReadRam(o, 16, o.dt["TR"].base) \in Word(16)
    BY <1>3, Held, TableType, ReadRamType DEF Table
  <2>2. switch_task(o, ReadRam(o, 16, o.dt["TR"].base)) \in Holding(T)
    BY <1>3, <2>1, switch_taskKeeps
  <2>. QED BY <1>3, <2>2, OuterStackKeeps DEF ReturnIn
<1>. HIDE DEF r
<1>5. set_segment(r, "CS", cs) \in Holding(T)
  BY <1>2, <1>4, set_segmentKeeps DEF Sreg
<1>. QED BY <1>3, <1>5 DEF iret, r, o, cs, p

-----------------------------------------------------------------------------
(* Decoding.                                                               *)

LEMMA TableRow ==
  ASSUME NEW rows, NEW o \in DOMAIN TableFor(rows)
  PROVE  TableFor(rows)[o] \in rows /\ o \in TableFor(rows)[o].ops
<1>1. o \in UNION {r.ops : r \in rows}
  BY DEF TableFor
<1>2. \E r \in rows : o \in r.ops
  BY <1>1
<1>3. TableFor(rows)[o] = CHOOSE r \in rows : o \in r.ops
  BY <1>1 DEF TableFor
<1>. QED BY <1>2, <1>3

LEMMA RowParts == \A ops, h, chk : Row(ops, h, chk).h = h /\ Row(ops, h, chk).ops = ops
BY DEF Row

\* The handlers of opcodes, by table.
LEMMA CommonHandlers ==
  ASSUME NEW r \in setup_common
  PROVE  r.h # "cbw" /\ r.h # "push_sreg" /\ r.h # "pop_sreg"
BY RowParts DEF setup_common

LEMMA WiderHandlers ==
  ASSUME NEW r \in setup_both
  PROVE  /\ r.h = "push_sreg" => r.ops = {\h06, \h16, \h1e}
         /\ r.h = "pop_sreg" => r.ops = {\h07, \h17, \h1f}
BY RowParts DEF setup_both

LEMMA RowHandlers ==
  /\ setup_both \subseteq setup16
  /\ \A r \in setup_common \cup setup16 : r.h \in Handlers
  /\ \A r \in setup16 : /\ r.h = "push_sreg" => r.ops = {\h06, \h16, \h1e}
                        /\ r.h = "pop_sreg" => r.ops = {\h07, \h17, \h1f}
<1>1. setup_both \subseteq setup16 /\ \A r \in setup_common \cup setup16 : r.h \in Handlers
  BY DEF setup16, Handlers
<1>2. \A r \in setup16 \ setup_both : r.h # "push_sreg" /\ r.h # "pop_sreg"
  BY RowParts DEF setup16
<1>. QED BY <1>1, <1>2, WiderHandlers

LEMMA CodeKeeps ==
  ASSUME NEW T, NEW n \in Holding(T), NEW bits \in {8, 16, 32}
  PROVE  /\ Code(n, bits) \in Word(bits) /\ Code(n, bits) \in Int
         /\ \A bytes \in Int : AfterCode(n, bytes) \in Holding(T)
<1>1. n.ip \in Int /\ "CS" \in Sreg
  <2>1. n.ip \in Word(32)
    BY Held, Parts
  <2>. QED BY <2>1, WordInt DEF Sreg
<1>2. Code(n, bits) \in Word(bits) /\ Code(n, bits) \in Int
  BY <1>1, Held, ReadType DEF Code
<1> DEFINE o == Access(n, "exec", "CS", n.ip)
<1>3. o \in Holding(T)
  BY <1>1, AccessKeeps
<1>. HIDE DEF o
<1>4. ASSUME NEW bytes \in Int PROVE AfterCode(n, bytes) \in Holding(T)
  <2> DEFINE w == (o.ip + bytes) % M32
  <2>1. o.ip \in Word(32)
    BY <1>3, Held, Parts
  <2>2. o.ip + bytes \in Int
    BY <2>1, WordInt
  <2>3. w \in Word(32)
    BY <2>2, CutTo
  <2>4. AfterCode(n, bytes) = [o EXCEPT !.ip = w]
    BY <1>3, Held, Parts DEF AfterCode, o, Fields
  <2>. HIDE DEF w
  <2>5. [o EXCEPT !.ip = w] \in Holding(T)
    BY <1>3, <2>3, FlKeeps
  <2>. QED BY <2>4, <2>5
<1>. QED BY <1>2, <1>4

\* A machine and an instruction with the opcode, the handler and the size of j.
Decoding(T, j) ==
  {d \in [m : Holding(T), i : Undecoded] : d.i.h = j.h /\ d.i.bits = j.bits /\ d.i.op = j.op}

LEMMA DecodingParts ==
  ASSUME NEW T, NEW j, NEW d
  PROVE  d \in Decoding(T, j) <=> /\ d = [m |-> d.m, i |-> d.i]
                                  /\ d.m \in Holding(T) /\ d.i \in Undecoded
                                  /\ d.i.h = j.h /\ d.i.bits = j.bits /\ d.i.op = j.op
BY DEF Decoding

LEMMA FieldKeeps ==
  ASSUME NEW T, NEW j, NEW d \in Decoding(T, j), NEW bits \in {8, 16, 32}
  PROVE  /\ Field(d, "moffs", bits) \in Decoding(T, j)
         /\ bits = 16 => Field(d, "ptr16", bits) \in Decoding(T, j)
         /\ SignedField(d, "imm", bits) \in Decoding(T, j)
         /\ SignedField(d, "disp", bits) \in Decoding(T, j)
<1> DEFINE n == AfterCode(d.m, bits \div 8)
           c == Code(d.m, bits)
           s == SignedWord(bits, c)
<1>1. d.m \in Holding(T) /\ d.i \in Undecoded /\ d.i.h = j.h /\ d.i.bits = j.bits /\ d.i.op = j.op
  BY DEF Decoding
<1>2. bits \div 8 \in Int
  OBVIOUS
<1>3. n \in Holding(T) /\ c \in Word(bits) /\ c \in Int
  BY <1>1, <1>2, CodeKeeps
<1>4. s \in Int
  BY <1>3 DEF SignedWord, Mod, M16, M32
<1>5. c \in Word(32)
  BY <1>3, WordBounds
<1>6. /\ Field(d, "moffs", bits) = [m |-> n, i |-> [d.i EXCEPT !["moffs"] = c]]
      /\ Field(d, "ptr16", bits) = [m |-> n, i |-> [d.i EXCEPT !["ptr16"] = c]]
      /\ SignedField(d, "imm", bits) = [m |-> n, i |-> [d.i EXCEPT !["imm"] = s]]
      /\ SignedField(d, "disp", bits) = [m |-> n, i |-> [d.i EXCEPT !["disp"] = s]]
  BY DEF Field, SignedField
<1>. HIDE DEF n, c, s
<1>. QED BY <1>1, <1>3, <1>4, <1>5, <1>6 DEF Decoding, Undecoded

\* The parts of a byte.
LEMMA ByteParts ==
  ASSUME NEW c \in Word(8)
  PROVE  c \div 64 \in 0..3 /\ (c \div 8) % 8 \in Gp /\ c % 8 \in Gp
BY WordBounds DEF Gp

LEMMA SplitKeeps ==
  ASSUME NEW T, NEW j, NEW d \in Decoding(T, j)
  PROVE  /\ SplitModrm(Field(d, "mod", 8)) \in Decoding(T, j)
         /\ SplitSib(Field(d, "base", 8)) \in Decoding(T, j)
<1> DEFINE n == AfterCode(d.m, 8 \div 8)
           c == Code(d.m, 8)
<1>1. d.m \in Holding(T) /\ d.i \in Undecoded /\ d.i.h = j.h /\ d.i.bits = j.bits /\ d.i.op = j.op
  BY DEF Decoding
<1>2. 8 \div 8 \in Int
  OBVIOUS
<1>3. n \in Holding(T) /\ c \in Word(8)
  BY <1>1, <1>2, CodeKeeps
<1>4. c \div 64 \in 0..3 /\ (c \div 8) % 8 \in Gp /\ c % 8 \in Gp
  BY <1>3, ByteParts
<1>5. /\ Field(d, "mod", 8) = [m |-> n, i |-> [d.i EXCEPT !["mod"] = c]]
      /\ Field(d, "base", 8) = [m |-> n, i |-> [d.i EXCEPT !["base"] = c]]
  BY DEF Field
<1>. HIDE DEF n, c
<1> DEFINE x == [d.i EXCEPT !["mod"] = c]
           y == [d.i EXCEPT !["base"] = c]
           p == c \div 64
           q == (c \div 8) % 8
           r == c % 8
           v == [x EXCEPT !.mod = p, !.reg = q, !.rm = r]
           w == [y EXCEPT !.scale = p, !.index = q, !.base = r]
<1>6. x.mod = c /\ y.base = c
  BY <1>1 DEF Undecoded
<1>7. /\ SplitModrm(Field(d, "mod", 8)) = [m |-> n, i |-> v]
      /\ SplitSib(Field(d, "base", 8)) = [m |-> n, i |-> w]
  <2>1. Field(d, "mod", 8) = [m |-> n, i |-> x] /\ Field(d, "base", 8) = [m |-> n, i |-> y]
    BY <1>5
  <2>. HIDE DEF x, y
  <2>2. SplitModrm([m |-> n, i |-> x])
          = [m |-> n, i |-> [x EXCEPT !.mod = x.mod \div 64, !.reg = (x.mod \div 8) % 8, !.rm = x.mod % 8]]
    BY DEF SplitModrm
  <2>3. SplitSib([m |-> n, i |-> y])
          = [m |-> n, i |-> [y EXCEPT !.scale = y.base \div 64, !.index = (y.base \div 8) % 8,
                                      !.base = y.base % 8]]
    BY DEF SplitSib
  <2>. QED BY <1>6, <2>1, <2>2, <2>3, Zenon
<1>. HIDE DEF p, q, r
<1>8. v \in Undecoded /\ v.h = d.i.h /\ v.bits = d.i.bits /\ v.op = d.i.op
  BY <1>1, <1>4 DEF Undecoded, p, q, r
<1>9. w \in Undecoded /\ w.h = d.i.h /\ w.bits = d.i.bits /\ w.op = d.i.op
  BY <1>1, <1>4 DEF Undecoded, p, q, r
<1>. HIDE DEF v, w
<1>. QED BY <1>1, <1>3, <1>7, <1>8, <1>9 DEF Decoding

LEMMA ModrmKeeps ==
  ASSUME NEW T, NEW j, NEW d \in Decoding(T, j)
  PROVE  decode_modrm_sib_disp(d) \in Decoding(T, j)
<1>1. \A e \in Decoding(T, j) : WithSib(e) \in Decoding(T, j)
  BY SplitKeeps DEF WithSib
<1>2. ASSUME NEW e \in Decoding(T, j) PROVE WithDisp(e) \in Decoding(T, j)
  <2> DEFINE bits == IF AddressSize(e.m, e.i) = 32 THEN DispBits32(e.i) ELSE DispBits16(e.i)
  <2>1. bits \in {0, 8, 16, 32}
    BY DEF DispBits32, DispBits16
  <2>2. WithDisp(e) = IF bits = 0 THEN e ELSE SignedField(e, "disp", bits)
    BY DEF WithDisp
  <2>. HIDE DEF bits
  <2>. QED BY <2>1, <2>2, FieldKeeps
<1>. QED BY <1>1, <1>2, SplitKeeps DEF decode_modrm_sib_disp

LEMMA OperandsKeep ==
  ASSUME NEW T, NEW j, NEW d \in Decoding(T, j), NEW chk
  PROVE  Operands(d, chk) \in Decoding(T, j)
<1>1. \A e \in Decoding(T, j) : WithModrm(e, chk) \in Decoding(T, j)
  BY ModrmKeeps DEF WithModrm
<1>2. ASSUME NEW e \in Decoding(T, j) PROVE WithImm(e, chk) \in Decoding(T, j)
  <2>1. e.i.bits \in {8, 16, 32}
    BY DEF Decoding, Undecoded
  <2>. QED BY <2>1, FieldKeeps DEF WithImm
<1>3. \A e \in Decoding(T, j) : WithPtr16(e, chk) \in Decoding(T, j)
  BY FieldKeeps DEF WithPtr16
<1>4. ASSUME NEW e \in Decoding(T, j) PROVE WithMoffs(e, chk) \in Decoding(T, j)
  <2>1. AddressSize(e.m, e.i) \in {8, 16, 32}
    BY DEF AddressSize
  <2>. QED BY <2>1, FieldKeeps DEF WithMoffs, decode_moffs
<1>. QED BY <1>1, <1>2, <1>3, <1>4 DEF Operands

LEMMA RowType ==
  ASSUME NEW n, NEW i, HasRow(n, i)
  PROVE  /\ RowOf(n, i).h \in Handlers
         /\ RowOf(n, i).h = "cbw" => BitsOf(n, i) \in {16, 32}
         /\ RowOf(n, i).h \in {"push_sreg", "pop_sreg"} => i.op \div 8 + 1 \in 1..6
         /\ BitsOf(n, i) \in {8, 16, 32}
<1> DEFINE r == RowOf(n, i)
<1>1. BitsOf(n, i) \in {8, 16, 32}
  BY DEF BitsOf, OperandSize
<1>2. CASE i.op \in DOMAIN CommonTable
  <2>1. r \in setup_common
    BY <1>2, TableRow DEF RowOf, CommonTable
  <2>. HIDE DEF r
  <2>2. r.h \in Handlers /\ r.h # "cbw" /\ r.h # "push_sreg" /\ r.h # "pop_sreg"
    BY <2>1, CommonHandlers, RowHandlers
  <2>. QED BY <1>1, <2>2 DEF r
<1>3. CASE i.op \notin DOMAIN CommonTable
  <2>1. r \in setup16 /\ i.op \in r.ops
    BY <1>3, TableRow, RowHandlers DEF HasRow, RowOf, Table16, Table32, setup32
  <2>2. BitsOf(n, i) \in {16, 32}
    BY <1>3 DEF BitsOf, OperandSize
  <2>. HIDE DEF r
  <2>3. r.h \in Handlers
    BY <2>1, RowHandlers
  <2>4. r.h \in {"push_sreg", "pop_sreg"} => i.op \in {6, 22, 30, 7, 23, 31}
    BY <2>1, RowHandlers
  <2>5. r.h \in {"push_sreg", "pop_sreg"} => i.op \div 8 + 1 \in 1..6
    BY <2>4
  <2>. QED BY <1>1, <2>2, <2>3, <2>5 DEF r
<1>. QED BY <1>2, <1>3

LEMMA OpcodeKeeps ==
  ASSUME NEW T, NEW d \in [m : Holding(T), i : Undecoded]
  PROVE  /\ decode_opcode(d) \in [m : Holding(T), i : Undecoded]
         /\ decode_opcode(d).i.h = d.i.h
<1> DEFINE D == {e \in [m : Holding(T), i : Undecoded] : e.i.h = d.i.h}
<1>1. ASSUME NEW e \in D
      PROVE  Field(e, "op", 8) \in D /\ Field(e, "op", 8).i.op \in Word(8)
  <2> DEFINE n == AfterCode(e.m, 8 \div 8)
             c == Code(e.m, 8)
  <2>1. e.m \in Holding(T) /\ e.i \in Undecoded /\ e.i.h = d.i.h
    OBVIOUS
  <2>2. 8 \div 8 \in Int
    OBVIOUS
  <2>3. n \in Holding(T) /\ c \in Word(8)
    BY <2>1, <2>2, CodeKeeps
  <2>4. c \in Word(16)
    BY <2>3, WordBounds
  <2>5. Field(e, "op", 8) = [m |-> n, i |-> [e.i EXCEPT !["op"] = c]]
    BY DEF Field
  <2>. HIDE DEF n, c
  <2>. QED BY <2>1, <2>3, <2>4, <2>5 DEF Undecoded
<1>2. ASSUME NEW e \in D, e.i.op \in Word(8) PROVE Escaped(e) \in D
  <2>1. e.m \in Holding(T) /\ e.i \in Undecoded /\ e.i.h = d.i.h /\ e = [m |-> e.m, i |-> e.i]
    OBVIOUS
  <2> DEFINE c == \h0f * 256 + e.i.op
  <2>2. c \in Word(16)
    BY <1>2, WordBounds
  <2>3. Escaped(e) = [m |-> e.m, i |-> [e.i EXCEPT !.op = c]]
    BY <2>1 DEF Escaped, Undecoded
  <2>. HIDE DEF c
  <2>. QED BY <2>1, <2>2, <2>3 DEF Undecoded
<1>3. Field(d, "op", 8) \in D
  BY <1>1
<1>4. AfterFirst(Field(d, "op", 8)) \in D
  BY <1>1, <1>2, <1>3 DEF AfterFirst
<1>. QED BY <1>4 DEF decode_opcode

LEMMA decodeKeeps ==
  ASSUME NEW T, NEW n \in Holding(T), NEW i \in Undecoded, i.h = "none"
  PROVE  decode(n, i).m \in Holding(T) /\ decode(n, i).i \in Instruction
<1> DEFINE d == decode_opcode([m |-> n, i |-> i])
<1>1. d \in [m : Holding(T), i : Undecoded] /\ d.i.h = "none"
  BY OpcodeKeeps
<1>2. decode(n, i) = AfterOpcode(d)
  BY DEF decode
<1>. HIDE DEF d
<1>3. CASE HasRow(d.m, d.i)
  <2> DEFINE r == RowOf(d.m, d.i)
             bits == BitsOf(d.m, d.i)
             j == [d.i EXCEPT !.h = r.h, !.bits = bits]
             o == DecodeRow(d, r)
  <2>1. /\ r.h \in Handlers /\ bits \in {8, 16, 32}
        /\ r.h = "cbw" => bits \in {16, 32}
        /\ r.h \in {"push_sreg", "pop_sreg"} => d.i.op \div 8 + 1 \in 1..6
    BY <1>3, RowType
  <2>2. DecodeRow(d, r) = Operands([m |-> d.m, i |-> j], r.chk)
    BY DEF DecodeRow
  <2>. HIDE DEF r, bits
  <2>3. j \in Undecoded /\ j.h = r.h /\ j.bits = bits /\ j.op = d.i.op
    BY <1>1, <2>1 DEF Undecoded
  <2>. HIDE DEF j
  <2>5. [m |-> d.m, i |-> j] \in Decoding(T, j)
    BY <1>1, <2>3 DEF Decoding
  <2>6. o \in Decoding(T, j)
    BY <2>2, <2>5, OperandsKeep
  <2>. HIDE DEF o
  <2>7. /\ o.m \in Holding(T) /\ o.i \in Undecoded
        /\ o.i.h = r.h /\ o.i.bits = bits /\ o.i.op = d.i.op
    BY <2>3, <2>6 DEF Decoding
  <2>8. o.i \in Instruction
    BY <2>1, <2>7 DEF Instruction
  <2>9. decode(n, i) = o
    BY <1>2, <1>3 DEF AfterOpcode, o, r
  <2>. QED BY <2>7, <2>8, <2>9
<1>4. CASE ~HasRow(d.m, d.i)
  <2> DEFINE x == Raise(d.m, "opcode")
  <2>1. x \in Holding(T)
    BY <1>1, RaiseKeeps DEF Exceptions
  <2>2. AfterOpcode(d) = [d EXCEPT !.m = x]
    BY <1>1, <1>4 DEF AfterOpcode
  <2>. HIDE DEF x
  <2>3. d.i \in Instruction
    BY <1>1 DEF Instruction
  <2>. QED BY <1>1, <1>2, <2>1, <2>2, <2>3
<1>. QED BY <1>3, <1>4

LEMMA PrefixType ==
  ASSUME NEW i \in Undecoded, NEW c \in PrefixCodes
  PROVE  Prefix(i, c) \in Undecoded /\ Prefix(i, c).h = i.h
<1>1. /\ \A s \in Sreg : [i EXCEPT !.seg = s] \in Undecoded /\ [i EXCEPT !.seg = s].h = i.h
      /\ [i EXCEPT !.oov = TRUE] \in Undecoded /\ [i EXCEPT !.oov = TRUE].h = i.h
      /\ [i EXCEPT !.aov = TRUE] \in Undecoded /\ [i EXCEPT !.aov = TRUE].h = i.h
      /\ \A r \in {"REPZ", "REPNZ"} : [i EXCEPT !.rep = r] \in Undecoded /\ [i EXCEPT !.rep = r].h = i.h
  BY DEF Undecoded
<1>2. "ES" \in Sreg /\ "SS" \in Sreg /\ "DS" \in Sreg /\ "FS" \in Sreg /\ "GS" \in Sreg
  BY DEF Sreg
<1>. QED BY <1>1, <1>2 DEF Prefix, PrefixCodes

-----------------------------------------------------------------------------
(* Handlers: the machine that an instruction leaves.                       *)

LEMMA InstrParts ==
  ASSUME instr \in Instruction
  PROVE  /\ b \in {8, 16, 32} /\ instr.reg \in Gp /\ instr.rm \in Gp /\ Reg \in Gp
         /\ instr.imm \in Int /\ instr.ptr16 \in Word(16)
         /\ instr.h = "cbw" => b \in {16, 32}
         /\ instr.h \in {"push_sreg", "pop_sreg"} => SregOfOpcode \in Sreg
         /\ Numbered => SregOfModrm \in Sreg
         /\ OperandSize(m, instr) \in {16, 32}
<1>1. /\ b \in {8, 16, 32} /\ instr.reg \in Gp /\ instr.rm \in Gp /\ instr.imm \in Int
      /\ instr.ptr16 \in Word(16) /\ instr.op \in Word(16)
      /\ instr.h = "cbw" => b \in {16, 32}
      /\ instr.h \in {"push_sreg", "pop_sreg"} => instr.op \div 8 + 1 \in 1..6
  BY DEF Instruction, Undecoded, b
<1>2. Reg \in Gp
  BY <1>1, WordBounds DEF Reg, Gp
<1>3. \A k \in 1..6 : SegReg[k] \in Sreg
  BY DEF SegReg, Sreg
<1>4. Numbered => instr.reg + 1 \in 1..6
  BY <1>1 DEF Numbered, Gp
<1>. QED BY <1>1, <1>2, <1>3, <1>4 DEF SregOfOpcode, SregOfModrm, OperandSize

LEMMA OperandParts ==
  ASSUME m \in Machine, instr \in Instruction
  PROVE  /\ RegOperand \in Int /\ Operand \in Int /\ Operand \in Word(b)
         /\ \A r \in Gp, bits \in {8, 16, 32} : Get(m, bits, r) \in Int
         /\ \A bits \in {8, 16, 32} : Rm(m, instr, bits) \in Int /\ Rm(m, instr, bits) \in Word(bits)
         /\ \A r \in Sreg : m.sel[r] \in Int
BY InstrParts, RegisterInt, RmType, SelectorType DEF RegOperand, Operand

LEMMA Ring0Keeps ==
  ASSUME NEW T, m \in Holding(T), NEW n \in Holding(T)
  PROVE  Ring0(n) \in Holding(T)
BY RaiseKeeps DEF Ring0, Exceptions

LEMMA ToPlaceKeeps ==
  ASSUME NEW T, NEW n \in Holding(T), instr \in Instruction, NEW v \in Int,
         NEW place \in {"rm", "reg", "ax", "opcode"}
  PROVE  ToPlace(n, place, v) \in Holding(T)
<1>1. b \in {8, 16, 32} /\ instr.reg \in Gp /\ EAX \in Gp /\ Reg \in Gp
  BY InstrParts, Registers
<1>2. PutRm(n, instr, b, v) \in Holding(T)
  BY <1>1, PutRmKeeps
<1>3. \A r \in Gp : Put(n, b, r, v) \in Holding(T)
  BY <1>1, PutKeeps
<1>. QED BY <1>1, <1>2, <1>3 DEF ToPlace

LEMMA CalculatedKeeps ==
  ASSUME NEW T, NEW n \in Holding(T), instr \in Instruction, NEW v \in Int, NEW w \in Int,
         NEW place \in {"rm", "reg", "ax", "opcode"}
  PROVE  /\ Sum(n, v, w, place) \in Holding(T) /\ Difference(n, v, w, place) \in Holding(T)
         /\ \A op \in Here : Calculated(op, n, v, w, place) \in Holding(T)
<1>1. v + w \in Int /\ v - w \in Int
  OBVIOUS
<1>2. ToPlace(n, place, v + w) \in Holding(T) /\ ToPlace(n, place, v - w) \in Holding(T)
  BY <1>1, ToPlaceKeeps
<1>3. Sum(n, v, w, place) \in Holding(T) /\ Difference(n, v, w, place) \in Holding(T)
  BY <1>2, CompareKeeps DEF Sum, Difference
<1>4. Compare(n, b, v, w) \in Holding(T)
  BY CompareKeeps
<1>. QED BY <1>3, <1>4 DEF Calculated, Here

LEMMA SignedWordType ==
  ASSUME NEW bits \in {8, 16, 32}, NEW v \in Int
  PROVE  SignedWord(bits, v) \in Int
BY DEF SignedWord, Mod, M16, M32

\* Moves, additions, subtractions and comparisons.
LEMMA MovesKeep ==
  ASSUME NEW T, m \in Holding(T), instr \in Instruction, Moves
  PROVE  m' \in Holding(T)
<1>. m \in Machine
  BY Held
<1> USE InstrParts, OperandParts
<1>a. AfterRm(m, instr) \in Holding(T) /\ Addressed(m, instr) \in Holding(T)
  BY AfterRmKeeps, AddressedKeeps
<1>b. MoffsSegment(instr) \in Sreg /\ instr.moffs \in Int /\ MoffsAfter \in Holding(T)
  BY MoffsType, AfterReadKeeps DEF MoffsAfter
<1>c. EAX \in Gp
  BY Registers
<1>1. CASE mov_rm_r
  BY <1>1, PutRmKeeps DEF mov_rm_r, Done, Leaves
<1>2. CASE mov_r_rm
  BY <1>2, <1>a, PutKeeps DEF mov_r_rm, Done, Leaves
<1>3. CASE mov_r_imm
  BY <1>3, PutKeeps DEF mov_r_imm, Done, Leaves
<1>4. CASE mov_rm_imm
  BY <1>4, PutRmKeeps DEF mov_rm_imm, Done, Leaves
<1>5. CASE mov_rm_sreg
  <2>1. Raise(m, "assert") \in Holding(T)
    BY RaiseKeeps DEF Exceptions
  <2>2. Numbered => PutRm(m, instr, b, m.sel[SregOfModrm]) \in Holding(T)
    BY PutRmKeeps
  <2>. QED BY <1>5, <2>1, <2>2 DEF mov_rm_sreg, Done, Leaves
<1>6. CASE mov_sreg_rm16
  <2>1. Raise(AfterRm(m, instr), "assert") \in Holding(T)
    BY <1>a, RaiseKeeps DEF Exceptions
  <2>2. Numbered => set_segment(AfterRm(m, instr), SregOfModrm, Rm(m, instr, 16)) \in Holding(T)
    BY <1>a, set_segmentKeeps
  <2>. QED BY <1>6, <2>1, <2>2 DEF mov_sreg_rm16, Done, Leaves
<1>7. CASE mov_ax_moffs
  <2>1. Read(m, b, MoffsSegment(instr), instr.moffs) \in Int
    BY <1>b, ReadType
  <2>. QED BY <1>7, <1>b, <1>c, <2>1, PutKeeps DEF mov_ax_moffs, Done, Leaves
<1>8. CASE mov_moffs_ax
  BY <1>8, <1>b, <1>c, WriteKeeps DEF mov_moffs_ax, Done, Leaves
<1>9. CASE xchg_r_rm
  <2> DEFINE n == Put(AfterRm(m, instr), b, instr.reg, Operand)
  <2>1. n \in Holding(T)
    BY <1>a, PutKeeps
  <2>2. m' = PutRm(n, instr, b, RegOperand)
    BY <1>9 DEF xchg_r_rm, Done, Leaves
  <2>. HIDE DEF n
  <2>3. PutRm(n, instr, b, RegOperand) \in Holding(T)
    BY <2>1, PutRmKeeps
  <2>. QED BY <2>2, <2>3
<1>10. CASE lea_r_m
  <2>1. calc_modrm(m, instr).a \in Int
    BY EffectiveType
  <2>. QED BY <1>10, <1>a, <2>1, PutKeeps DEF lea_r_m, Done, Leaves
<1>11. CASE cbw
  <2> DEFINE half == b \div 2
  <2>1. half \in {8, 16, 32}
    BY <1>11 DEF cbw, Executes
  <2>2. m' = Put(m, b, EAX, SignedWord(half, Get(m, half, EAX)))
    BY <1>11 DEF cbw, Done, Leaves
  <2>. HIDE DEF half
  <2>3. SignedWord(half, Get(m, half, EAX)) \in Int
    BY <1>c, <2>1, SignedWordType
  <2>. QED BY <1>c, <2>2, <2>3, PutKeeps
<1>12. ASSUME NEW h, NEW bits \in {8, 16}, movzx_r_rm(h, bits) PROVE m' \in Holding(T)
  BY <1>12, <1>a, PutKeeps DEF movzx_r_rm, Done, Leaves
<1>13. ASSUME NEW h, NEW bits \in {8, 16}, movsx_r_rm(h, bits) PROVE m' \in Holding(T)
  <2>1. SignedWord(bits, Rm(m, instr, bits)) \in Int
    BY SignedWordType
  <2>. QED BY <1>13, <1>a, <2>1, PutKeeps DEF movsx_r_rm, Done, Leaves
<1>14. CASE alu_rm_r
  BY <1>14, <1>a, CalculatedKeeps DEF alu_rm_r, Done, Leaves
<1>15. CASE alu_r_rm
  BY <1>15, <1>a, CalculatedKeeps DEF alu_r_rm, Done, Leaves
<1>16. CASE alu_ax_imm
  BY <1>16, <1>c, CalculatedKeeps DEF alu_ax_imm, Done, Leaves
<1>17. CASE code_alu
  BY <1>17, <1>a, CalculatedKeeps DEF code_alu, Done, Leaves
<1>18. CASE inc_r
  <2>1. m' = Sum(m, Get(m, b, Reg), 1, "opcode")
    BY <1>18 DEF inc_r, Done, Leaves
  <2>2. Sum(m, Get(m, b, Reg), 1, "opcode") \in Holding(T)
    BY CalculatedKeeps
  <2>. QED BY <2>1, <2>2
<1>19. CASE dec_r
  <2>1. m' = Difference(m, Get(m, b, Reg), 1, "opcode")
    BY <1>19 DEF dec_r, Done, Leaves
  <2>2. Difference(m, Get(m, b, Reg), 1, "opcode") \in Holding(T)
    BY CalculatedKeeps
  <2>. QED BY <2>1, <2>2
<1>20. CASE inc_rm
  BY <1>20, <1>a, CalculatedKeeps DEF inc_rm, Done, Leaves
<1>21. CASE dec_rm
  BY <1>21, <1>a, CalculatedKeeps DEF dec_rm, Done, Leaves
<1>. QED BY <1>1, <1>2, <1>3, <1>4, <1>5, <1>6, <1>7, <1>8, <1>9, <1>10, <1>11, <1>12, <1>13,
            <1>14, <1>15, <1>16, <1>17, <1>18, <1>19, <1>20, <1>21 DEF Moves

LEMMA PushRegKeeps ==
  ASSUME NEW T, NEW n \in Holding(T), m \in Machine, instr \in Instruction, NEW r \in Gp
  PROVE  PushReg(n, r) \in Holding(T) /\ PopReg(n, r) \in Holding(T)
<1>1. b \in {8, 16, 32} /\ Get(m, b, r) \in Int
  BY InstrParts, OperandParts
<1>. QED BY <1>1, PushKeeps, PopToKeeps DEF PushReg, PopReg

LEMMA StackKeeps ==
  ASSUME NEW T, m \in Holding(T), instr \in Instruction, Stack
  PROVE  m' \in Holding(T)
<1>. m \in Machine
  BY Held
<1>a. b \in {8, 16, 32} /\ Reg \in Gp /\ instr.imm \in Int
  BY InstrParts
<1>b. Drop(m, b) \in Holding(T) /\ Top(m, b) \in Word(b) /\ Top(m, b) \in Int
  BY <1>a, DropKeeps
<1>c. \A x \in Int : Push(m, b, x) \in Holding(T)
  BY <1>a, PushKeeps
<1>d. \A x \in Int : x % Mod(b) \in Int
  BY <1>a DEF Mod, M16, M32
<1>e. m.fl \in Word(32) /\ m.fl \in Int
  BY Parts, WordInt
<1>1. CASE push_r
  <2>1. Get(m, b, Reg) \in Int
    BY <1>a, OperandParts
  <2>. QED BY <1>1, <1>c, <2>1 DEF push_r, Done, Leaves
<1>2. CASE push_imm
  BY <1>2, <1>a, <1>c, <1>d DEF push_imm, Done, Leaves
<1>3. CASE push_sreg
  <2>1. SregOfOpcode \in Sreg
    BY <1>3, InstrParts DEF push_sreg, Executes
  <2>2. m.sel[SregOfOpcode] \in Int
    BY <2>1, SelectorType
  <2>. QED BY <1>3, <1>c, <2>2 DEF push_sreg, Done, Leaves
<1>4. CASE push_rm
  <2>1. AfterRm(m, instr) \in Holding(T) /\ Operand \in Int
    BY AfterRmKeeps, OperandParts
  <2>2. Push(AfterRm(m, instr), b, Operand) \in Holding(T)
    BY <1>a, <2>1, PushKeeps
  <2>. QED BY <1>4, <2>2 DEF push_rm, Done, Leaves
<1>5. CASE pushf
  BY <1>5, <1>c, <1>d, <1>e DEF pushf, Done, Leaves
<1>6. CASE pusha
  <2>1. PICK n \in {PushReg(PushReg(PushReg(PushReg(m, EAX), ECX), EDX), EBX)} :
          m' = PushReg(PushReg(PushReg(PushReg(n, ESP), EBP), ESI), EDI)
    BY <1>6 DEF pusha, Done, Leaves
  <2>2. n \in Holding(T)
    BY Registers, PushRegKeeps
  <2>3. PushReg(PushReg(PushReg(PushReg(n, ESP), EBP), ESI), EDI) \in Holding(T)
    BY <2>2, Registers, PushRegKeeps
  <2>. QED BY <2>1, <2>3
<1>7. CASE pop_r
  BY <1>7, <1>a, PopToKeeps DEF pop_r, Done, Leaves
<1>8. CASE pop_sreg
  <2>1. SregOfOpcode \in Sreg
    BY <1>8, InstrParts DEF pop_sreg, Executes
  <2>2. Top(m, b) % M16 \in Word(16)
    BY <1>b, CutTo
  <2>3. set_segment(Drop(m, b), SregOfOpcode, Top(m, b) % M16) \in Holding(T)
    BY <1>b, <2>1, <2>2, set_segmentKeeps
  <2>. QED BY <1>8, <2>3 DEF pop_sreg, Done, Leaves
<1>9. CASE popf
  <2> DEFINE n == Drop(m, b)
             w == n.fl - (n.fl % Mod(b)) + Top(m, b)
  <2>1. n.fl \in Word(32)
    BY <1>b, Held, Parts
  <2>2. w \in Word(32)
    BY <1>a, <1>b, <2>1, LowerReplaced
  <2>3. m' = [n EXCEPT !.fl = @ - (@ % Mod(b)) + Top(m, b)]
    BY <1>9 DEF popf, Done, Leaves
  <2>4. n \in Holding(T)
    BY <1>b
  <2>. HIDE DEF n
  <2>5. m' = [n EXCEPT !.fl = w]
    BY <2>3, <2>4, Held, Parts DEF Fields
  <2>. HIDE DEF w
  <2>6. [n EXCEPT !.fl = w] \in Holding(T)
    BY <2>2, <2>4, FlKeeps
  <2>. QED BY <2>5, <2>6
<1>10. CASE popa
  <2>1. PICK n \in {PopReg(PopReg(PopReg(m, EDI), ESI), EBP)} :
          m' = Put(PopReg(PopReg(PopReg(PopReg(Drop(n, b), EBX), EDX), ECX), EAX), b, ESP, Top(n, b))
    BY <1>10 DEF popa, Done, Leaves
  <2>2. n \in Holding(T)
    BY Registers, PushRegKeeps
  <2>3. Drop(n, b) \in Holding(T) /\ Top(n, b) \in Int
    BY <1>a, <2>2, DropKeeps
  <2>4. PopReg(PopReg(PopReg(PopReg(Drop(n, b), EBX), EDX), ECX), EAX) \in Holding(T)
    BY <2>3, Registers, PushRegKeeps
  <2>. QED BY <1>a, <2>1, <2>3, <2>4, Registers, PutKeeps
<1>11. CASE leave
  <2>1. PICK n \in {Put(m, 32, ESP, Get(m, b, EBP))} : m' = Put(Drop(n, b), 32, EBP, Top(n, b))
    BY <1>11 DEF leave, Done, Leaves
  <2>2. Get(m, b, EBP) \in Int
    BY <1>a, Registers, OperandParts
  <2>3. n \in Holding(T)
    BY <2>2, Registers, PutKeeps
  <2>4. Drop(n, b) \in Holding(T) /\ Top(n, b) \in Int
    BY <1>a, <2>3, DropKeeps
  <2>. QED BY <2>1, <2>4, Registers, PutKeeps
<1>. QED BY <1>1, <1>2, <1>3, <1>4, <1>5, <1>6, <1>7, <1>8, <1>9, <1>10, <1>11 DEF Stack

\* A far pointer in memory.
LEMMA FarPointerType ==
  ASSUME NEW T, m \in Holding(T), instr \in Instruction
  PROVE  FarPointer.m \in Holding(T) /\ FarPointer.ip \in Int /\ FarPointer.sel \in Word(16)
<1>. m \in Machine
  BY Held
<1> DEFINE e == calc_modrm(m, instr)
           n == Addressed(m, instr)
           a == e.a % M16
           up == (e.a + 4) % M32
           x == [m |-> n, ip |-> ReadRam(m, 16, a), sel |-> ReadRam(m, 16, a + 2)]
           o == AfterRead(AfterRead(n, e.s, e.a), e.s, up)
           y == [m |-> o, ip |-> Read(m, 32, e.s, e.a), sel |-> Read(m, 16, e.s, up)]
<1>1. e.s \in Sreg /\ e.a \in Int /\ n \in Holding(T)
  BY EffectiveType, AddressedKeeps
<1>2. a \in Int /\ up \in Int
  BY <1>1, Sizes
<1>3. ReadRam(m, 16, a) \in Int /\ ReadRam(m, 16, a + 2) \in Word(16)
  BY <1>2, ReadRamType, WordInt
<1>4. Read(m, 32, e.s, e.a) \in Int /\ Read(m, 16, e.s, up) \in Word(16)
  BY <1>1, <1>2, ReadType
<1>5. FarPointer = IF b = 16 THEN x ELSE y
  BY DEF FarPointer
<1>. HIDE DEF e, n, a, up
<1>6. o \in Holding(T)
  BY <1>1, <1>2, AfterReadKeeps
<1>. HIDE DEF o
<1>. QED BY <1>1, <1>3, <1>4, <1>5, <1>6

LEMMA TransfersKeep ==
  ASSUME NEW T, m \in Holding(T), instr \in Instruction, Transfers
  PROVE  m' \in Holding(T)
<1>. m \in Machine
  BY Held
<1>a. b \in {8, 16, 32} /\ instr.imm \in Int /\ instr.ptr16 \in Word(16) /\ instr.imm % Mod(b) \in Int
  BY InstrParts DEF Mod, M16, M32
<1>b. \A k \in Int, bits \in {8, 16, 32} : JumpBy(m, bits, k) \in Holding(T) /\ Ip(m, bits) \in Int
  BY JumpKeeps
<1>c. AfterRm(m, instr) \in Holding(T) /\ Operand \in Int
  BY AfterRmKeeps, OperandParts
<1>d. FarPointer.m \in Holding(T) /\ FarPointer.ip \in Int /\ FarPointer.sel \in Word(16)
  BY FarPointerType
<1>1. CASE jmp
  BY <1>1, <1>a, <1>b DEF jmp, Done, Leaves
<1>2. CASE jmp_rel
  BY <1>2, <1>a, <1>b DEF jmp_rel, Done, Leaves
<1>3. CASE jcc_rel8
  <2>1. m' = IF Taken THEN JumpBy(m, 16, instr.imm) ELSE m
    BY <1>3 DEF jcc_rel8, Done, Leaves
  <2>. QED BY <1>a, <1>b, <2>1
<1>4. CASE jcc_rel
  <2>1. m' = IF Taken THEN JumpBy(m, 32, instr.imm) ELSE m
    BY <1>4 DEF jcc_rel, Done, Leaves
  <2>. QED BY <1>a, <1>b, <2>1
<1>5. CASE call_rel
  <2>1. Push(m, b, Ip(m, b)) \in Holding(T)
    BY <1>a, <1>b, PushKeeps
  <2>2. JumpBy(Push(m, b, Ip(m, b)), b, instr.imm) \in Holding(T)
    BY <1>a, <2>1, JumpKeeps
  <2>. QED BY <1>5, <2>2 DEF call_rel, Done, Leaves
<1>6. CASE ret
  <2>1. Drop(m, b) \in Holding(T) /\ Top(m, b) \in Int
    BY <1>a, DropKeeps
  <2>2. Jump(Drop(m, b), b, Top(m, b)) \in Holding(T)
    BY <1>a, <2>1, JumpKeeps
  <2>. QED BY <1>6, <2>2 DEF ret, Done, Leaves
<1>7. CASE call_rm
  <2>1. Push(AfterRm(m, instr), b, Ip(m, b)) \in Holding(T)
    BY <1>a, <1>b, <1>c, PushKeeps
  <2>2. Jump(Push(AfterRm(m, instr), b, Ip(m, b)), b, Operand) \in Holding(T)
    BY <1>a, <1>c, <2>1, JumpKeeps
  <2>. QED BY <1>7, <2>2 DEF call_rm, Done, Leaves
<1>8. CASE jmp_rm
  <2>1. Jump(AfterRm(m, instr), b, Operand) \in Holding(T)
    BY <1>a, <1>c, JumpKeeps
  <2>. QED BY <1>8, <2>1 DEF jmp_rm, Done, Leaves
<1>9. CASE jmpf_ptr16
  <2>1. jmpf(m, instr.ptr16, instr.imm % Mod(b)) \in Holding(T)
    BY <1>a, jmpfKeeps
  <2>. QED BY <1>9, <2>1 DEF jmpf_ptr16, Goes, Leaves
<1>10. CASE callf_ptr16
  <2>1. callf(m, instr.ptr16, instr.imm % Mod(b)) \in Holding(T)
    BY <1>a, callfKeeps
  <2>. QED BY <1>10, <2>1 DEF callf_ptr16, Done, Leaves
<1>11. CASE Retf
  BY <1>11, retfKeeps DEF Retf, Done, Leaves
<1>12. CASE callf_m16
  <2>1. PICK p \in {FarPointer} : m' = callf(p.m, p.sel, p.ip)
    BY <1>12 DEF callf_m16, Done, Leaves
  <2>2. p.m \in Holding(T) /\ p.ip \in Int /\ p.sel \in Word(16)
    BY <1>d
  <2>. QED BY <2>1, <2>2, callfKeeps
<1>13. CASE jmpf_m16
  <2>1. PICK p \in {FarPointer} : m' = jmpf(p.m, p.sel, p.ip)
    BY <1>13 DEF jmpf_m16, Goes, Leaves
  <2>2. p.m \in Holding(T) /\ p.ip \in Int /\ p.sel \in Word(16)
    BY <1>d
  <2>. QED BY <2>1, <2>2, jmpfKeeps
<1>14. CASE int_imm8
  BY <1>14 DEF int_imm8, Leaves
<1>15. CASE Iret
  <2> DEFINE size == OperandSize(m, instr)
  <2>1. size \in {16, 32}
    BY InstrParts
  <2>2. m' = iret(Pop3(m, size), size)
    BY <1>15 DEF Iret, Leaves
  <2>. HIDE DEF size
  <2>. QED BY <2>1, <2>2, iretKeeps
<1>. QED BY <1>1, <1>2, <1>3, <1>4, <1>5, <1>6, <1>7, <1>8, <1>9, <1>10, <1>11, <1>12, <1>13,
            <1>14, <1>15 DEF Transfers

LEMMA ControlKeeps ==
  ASSUME NEW T, NEW n \in Holding(T), NEW k \in Gp, NEW v \in Word(32)
  PROVE  set_crn(n, k, v) \in Holding(T) /\ get_crn(n, k) \in Int
<1>1. v \in Int
  BY WordInt
<1>2. CASE k < 5
  <2>1. k \in 0..4
    BY <1>2 DEF Gp
  <2>2. n.cr[k] \in Word(32) /\ [n.cr EXCEPT ![k] = v] \in [0..4 -> Word(32)]
    BY <2>1, Held, Parts
  <2>3. set_crn(n, k, v) = [n EXCEPT !.cr = [n.cr EXCEPT ![k] = v]]
    BY <1>2, Held, Parts DEF set_crn, Fields
  <2>4. [n EXCEPT !.cr = [n.cr EXCEPT ![k] = v]] \in Holding(T)
    BY <2>2, Replaced
  <2>5. n.cr[k] \in Int
    BY <2>2, WordInt
  <2>6. get_crn(n, k) = n.cr[k]
    BY <1>2 DEF get_crn
  <2>. QED BY <2>3, <2>4, <2>5, <2>6
<1>3. CASE ~(k < 5)
  <2>1. WriteRam(n, 32, 0, v) \in Holding(T)
    BY <1>1, WriteRamKeeps
  <2>2. ReadRam(n, 32, 0) \in Int
    BY Held, ReadRamType, WordInt
  <2>. QED BY <1>3, <2>1, <2>2 DEF set_crn, get_crn
<1>. QED BY <1>2, <1>3

\* What lgdt and lidt load.
LEMMA LoadTableKeeps ==
  ASSUME NEW T, m \in Holding(T), instr \in Instruction, NEW r \in Table
  PROVE  LoadTable(r) \in Holding(T)
<1>. m \in Machine
  BY Held
<1> DEFINE e == calc_modrm(m, instr)
           n == Addressed(m, instr)
           a == e.a % M16
           up == (e.a + 2) % M32
           o == IF b = 16 THEN n ELSE AfterRead(AfterRead(n, e.s, e.a), e.s, up)
           limit == IF b = 16 THEN ReadRam(m, 16, a) ELSE Read(m, 16, e.s, e.a)
           base == IF b = 16 THEN ReadRam(m, 16, a + 2) ELSE Read(m, 32, e.s, up)
           q == [o EXCEPT !.dt[r] = [sel |-> 0, base |-> base, limit |-> limit]]
<1>1. e.s \in Sreg /\ e.a \in Int /\ n \in Holding(T)
  BY EffectiveType, AddressedKeeps
<1>2. a \in Int /\ up \in Int
  BY <1>1, Sizes
<1>3. ReadRam(m, 16, a) \in Word(16) /\ ReadRam(m, 16, a + 2) \in Word(16)
  BY <1>2, ReadRamType
<1>4. Read(m, 16, e.s, e.a) \in Word(16) /\ Read(m, 32, e.s, up) \in Word(32)
  BY <1>1, <1>2, ReadType
<1>5. limit \in Word(16) /\ base \in Word(32)
  BY <1>3, <1>4, WordBounds
<1>6. o \in Holding(T)
  BY <1>1, <1>2, AfterReadKeeps
<1>. HIDE DEF o, limit, base
<1>7. 0 \in Word(16)
  BY WordBounds
<1>8. q \in Holding(T)
  BY <1>5, <1>6, <1>7, TableKeeps
<1>9. LoadTable(r) = Ring0(q)
  BY DEF LoadTable, o, limit, base
<1>. HIDE DEF q
<1>. QED BY <1>8, <1>9, Ring0Keeps

LEMMA PortsKeep ==
  ASSUME NEW T, m \in Holding(T), instr \in Instruction, NEW port, In(port) \/ Out(port)
  PROVE  m' \in Holding(T)
<1>a. b \in {8, 16, 32} /\ EAX \in Gp
  BY InstrParts, Registers
<1>1. CASE In(port)
  <2>1. PICK v \in (IF port = A20Port THEN {2 * Bit(m.a20)} ELSE PortBytes) :
          m' = Put(m, b, EAX, v * Ones)
    BY <1>1 DEF In, Done, Leaves
  <2>2. 2 * Bit(m.a20) \in Int
    BY DEF Bit
  <2>3. v \in Int
    <3>1. \A c \in PortBytes : c \in Int
      BY GuestsAssumption, WordBounds
    <3>. QED BY <2>2, <3>1
  <2>4. Ones \in Int
    BY <1>a DEF Ones
  <2>5. v * Ones \in Int
    BY <2>3, <2>4
  <2>6. Put(m, b, EAX, v * Ones) \in Holding(T)
    BY <1>a, <2>5, PutKeeps
  <2>. QED BY <2>1, <2>6
<1>2. CASE Out(port)
  <2> DEFINE x == Has(Get(m, 8, EAX), 1)
  <2>1. x \in BOOLEAN
    BY DEF Has
  <2>2. m' = IF port = A20Port THEN [m EXCEPT !.a20 = x] ELSE m
    BY <1>2 DEF Out, Done, Leaves
  <2>. HIDE DEF x
  <2>3. [m EXCEPT !.a20 = x] \in Holding(T)
    BY <2>1, Replaced
  <2>. QED BY <2>2, <2>3
<1>. QED BY <1>1, <1>2

LEMMA SystemKeeps ==
  ASSUME NEW T, m \in Holding(T), instr \in Instruction, System
  PROVE  m' \in Holding(T)
<1>. m \in Machine
  BY Held
<1>a. instr.reg \in Gp /\ instr.rm \in Gp
  BY InstrParts
<1>b. \A n \in Holding(T) : Ring0(n) \in Holding(T)
  BY Ring0Keeps
<1>c. \A n \in Holding(T) : Pointed(n) \in Holding(T)
  BY RaiseKeeps DEF Pointed, Exceptions
<1>1. CASE nop
  BY <1>1 DEF nop, Done, Leaves
<1>2. CASE hlt
  <2>1. [m EXCEPT !.halt = TRUE] \in Holding(T)
    BY Replaced
  <2>. QED BY <1>2, <1>b, <2>1 DEF hlt, Done, Leaves
<1>3. CASE cli \/ sti \/ cld \/ std
  <2>1. IF_ \in {0, 6, 7, 9, 10, 11} /\ DF \in {0, 6, 7, 9, 10, 11}
    BY DEF IF_, DF
  <2>. QED BY <1>3, <2>1, SetFlagKeeps DEF cli, sti, cld, std, Done, Leaves
<1>4. CASE mov_r32_crn
  <2>1. get_crn(m, instr.reg) \in Int
    <3>1. 0 \in Word(32)
      BY WordBounds
    <3>. QED BY <1>a, <3>1, ControlKeeps
  <2>2. Put(m, 32, instr.rm, get_crn(m, instr.reg)) \in Holding(T)
    BY <1>a, <2>1, PutKeeps
  <2>. QED BY <1>4, <1>c, <2>2 DEF mov_r32_crn, Done, Leaves
<1>5. CASE mov_crn_r32
  <2>1. m.gp[instr.rm] \in Word(32)
    BY <1>a, Parts
  <2>2. set_crn(m, instr.reg, m.gp[instr.rm]) \in Holding(T)
    BY <1>a, <2>1, ControlKeeps
  <2>. QED BY <1>5, <1>b, <1>c, <2>2 DEF mov_crn_r32, Done, Leaves
<1>6. CASE ltr_rm16
  <2>1. AfterRm(m, instr) \in Holding(T) /\ Rm(m, instr, 16) \in Word(16)
    BY AfterRmKeeps, OperandParts
  <2>2. set_tr(AfterRm(m, instr), Rm(m, instr, 16)) \in Holding(T)
    BY <2>1, set_trKeeps
  <2>. QED BY <1>6, <1>b, <2>2 DEF ltr_rm16, Done, Leaves
<1>7. CASE lgdt \/ lidt
  <2>1. LoadTable("GDTR") \in Holding(T) /\ LoadTable("IDTR") \in Holding(T)
    BY LoadTableKeeps DEF Table
  <2>. QED BY <1>7, <2>1 DEF lgdt, lidt, Done, Leaves
<1>8. CASE in_ax_imm8 \/ in_ax_dx \/ out_imm8_ax \/ out_dx_ax
  BY <1>8, PortsKeep DEF in_ax_imm8, in_ax_dx, out_imm8_ax, out_dx_ax
<1>. QED BY <1>1, <1>2, <1>3, <1>4, <1>5, <1>6, <1>7, <1>8 DEF System

LEMMA AlongKeeps ==
  ASSUME NEW T, NEW n \in Holding(T), instr \in Instruction, NEW r \in Gp, NEW k \in Int
  PROVE  Along(n, r, k) \in Holding(T)
<1>1. (IF Flag(m, DF) THEN -k ELSE k) \in Int
  OBVIOUS
<1>. QED BY <1>1, InstrParts, AddKeeps DEF Along

LEMMA RepeatedKeeps ==
  ASSUME NEW T, NEW n \in Holding(T), instr \in Instruction, NEW again, Repeated(n, again)
  PROVE  m' \in Holding(T)
<1>1. b \in {8, 16, 32} /\ ECX \in Gp /\ -1 \in Int
  BY InstrParts, Registers
<1>2. Add(n, b, ECX, -1) \in Holding(T)
  BY <1>1, AddKeeps
<1>3. m' = IF instr.rep = "none" THEN n ELSE Add(n, b, ECX, -1)
  BY DEF Repeated
<1>. QED BY <1>2, <1>3

LEMMA StringsKeep ==
  ASSUME NEW T, m \in Holding(T), instr \in Instruction, Strings
  PROVE  m' \in Holding(T)
<1>. m \in Machine
  BY Held
<1>a. /\ b \in {8, 16, 32} /\ ESI \in Gp /\ EDI \in Gp /\ EAX \in Gp
      /\ "DS" \in Sreg /\ "ES" \in Sreg
  BY InstrParts, Registers DEF Sreg
<1>b. \A r \in Gp, bits \in {8, 16, 32} : Get(m, bits, r) \in Int
  BY OperandParts
<1>1. CASE movsw
  <2> DEFINE from == Get(m, 16, ESI)
             to == Get(m, 16, EDI)
             x == Read(m, 16, "DS", from)
             n == Write(AfterRead(m, "DS", from), 16, "ES", to, x)
  <2>1. from \in Int /\ to \in Int
    BY <1>a, <1>b
  <2>2. x \in Int
    BY <1>a, <2>1, ReadType
  <2>3. Repeated(Along(Along(n, ESI, 2), EDI, 2), ~Flag(m, 6))
    BY <1>1 DEF movsw
  <2>. HIDE DEF from, to, x
  <2>4. n \in Holding(T)
    BY <1>a, <2>1, <2>2, AfterReadKeeps, WriteKeeps
  <2>. HIDE DEF n
  <2>5. Along(Along(n, ESI, 2), EDI, 2) \in Holding(T)
    BY <1>a, <2>4, AlongKeeps
  <2>. QED BY <2>3, <2>5, RepeatedKeeps
<1>2. CASE lodsb
  <2> DEFINE from == Get(m, 16, ESI)
             n == Put(AfterRead(m, "DS", from), 8, EAX, Read(m, 8, "DS", from))
  <2>1. from \in Int
    BY <1>a, <1>b
  <2>2. Read(m, 8, "DS", from) \in Int
    BY <1>a, <2>1, ReadType
  <2>3. Repeated(Along(n, ESI, 1), While(m))
    BY <1>2 DEF lodsb
  <2>. HIDE DEF from
  <2>4. n \in Holding(T)
    BY <1>a, <2>1, <2>2, AfterReadKeeps, PutKeeps
  <2>. HIDE DEF n
  <2>5. Along(n, ESI, 1) \in Holding(T)
    BY <1>a, <2>4, AlongKeeps
  <2>. QED BY <2>3, <2>5, RepeatedKeeps
<1>3. ASSUME NEW h, NEW size, Compares(h, size) PROVE m' \in Holding(T)
  <2> DEFINE s == IF instr.seg = "none" THEN "ES" ELSE instr.seg
             v == Read(m, size, s, Get(m, b, ESI))
             w == Read(m, size, "ES", Get(m, b, EDI))
             o == AfterRead(AfterRead(m, s, Get(m, b, ESI)), "ES", Get(m, b, EDI))
             n == Compare(o, size, v, w)
  <2>1. s \in Sreg
    BY <1>a DEF Instruction, Undecoded
  <2>2. Repeated(Along(Along(n, ESI, 1), EDI, 1), While(n))
    BY <1>3 DEF Compares
  <2>. HIDE DEF s, v, w
  <2>3. o \in Holding(T)
    BY <1>a, <1>b, <2>1, AfterReadKeeps
  <2>. HIDE DEF o
  <2>4. n \in Holding(T)
    BY <2>3, CompareKeeps
  <2>. HIDE DEF n
  <2>5. Along(Along(n, ESI, 1), EDI, 1) \in Holding(T)
    BY <1>a, <2>4, AlongKeeps
  <2>. QED BY <2>2, <2>5, RepeatedKeeps
<1>. QED BY <1>1, <1>2, <1>3 DEF Strings, cmps8, cmps

-----------------------------------------------------------------------------
(* The loop.                                                               *)

Interrupt == [id : Word(8), hard : BOOLEAN]
Fetching == {"poll", "asleep", "dispatch", "decode"}

(* The inductive invariant: the machine has its type; the instruction has  *)
(* too, the one that cbw and the segment registers' handlers need, and     *)
(* before it is decoded it has no handler; what is accepted are vectors.   *)
Typed ==
  /\ m \in Machine
  /\ instr \in Instruction /\ (pc \in Fetching => instr.h = "none")
  /\ que \in Seq(Interrupt) /\ guest.vector \in Word(8)
  /\ pc \in Loops

\* What every handler does to the loop.
Returns == instr' = Blank /\ pc' \in {"poll", "ended"} /\ guest' = guest

LEMMA LeavesReturns == ASSUME NEW n, Leaves(n) PROVE Returns
BY DEF Leaves, Returns, After

LEMMA DoneReturns == ASSUME NEW n, Done(n) PROVE Returns /\ que' = que
BY LeavesReturns DEF Done

LEMMA MovesReturn == Moves => Returns /\ que' = que
BY DoneReturns
   DEF Moves, mov_rm_r, mov_r_rm, mov_r_imm, mov_rm_imm, mov_rm_sreg, mov_sreg_rm16, mov_ax_moffs,
       mov_moffs_ax, xchg_r_rm, lea_r_m, cbw, movzx_r_rm, movsx_r_rm, alu_rm_r, alu_r_rm, alu_ax_imm,
       code_alu, inc_r, dec_r, inc_rm, dec_rm

LEMMA StackReturns == Stack => Returns /\ que' = que
BY DoneReturns
   DEF Stack, push_r, push_imm, push_sreg, push_rm, pushf, pusha, pop_r, pop_sreg, popf, popa, leave

LEMMA SystemReturns == System => Returns /\ que' = que
BY DoneReturns
   DEF System, nop, hlt, cli, sti, cld, std, mov_r32_crn, mov_crn_r32, ltr_rm16, lgdt, lidt,
       in_ax_imm8, in_ax_dx, out_imm8_ax, out_dx_ax, In, Out

LEMMA TransfersReturn ==
  Transfers => /\ Returns
               /\ que' = que \/ que' = Append(que, [id |-> instr.imm % 256, hard |-> FALSE])
<1>1. ASSUME NEW n, NEW sel, NEW eip, Goes(n, sel, eip) PROVE Returns /\ que' = que
  BY <1>1, LeavesReturns DEF Goes
<1>2. int_imm8 => Returns /\ que' = Append(que, [id |-> instr.imm % 256, hard |-> FALSE])
  BY LeavesReturns DEF int_imm8
<1>3. Iret => Returns /\ que' = que
  BY LeavesReturns DEF Iret
<1>. QED BY <1>1, <1>2, <1>3, DoneReturns
            DEF Transfers, jmp, jmp_rel, jcc_rel8, jcc_rel, call_rel, ret, call_rm, jmp_rm, jmpf_ptr16,
                callf_ptr16, Retf, callf_m16, jmpf_m16

LEMMA StringsRepeat ==
  Strings => /\ instr' \in {Blank, instr} /\ pc' \in {"execute", "poll", "ended"}
             /\ pc' = "poll" => instr' = Blank
             /\ guest' = guest /\ que' = que
<1>1. ASSUME NEW n, NEW again, Repeated(n, again)
      PROVE  /\ instr' \in {Blank, instr} /\ pc' \in {"execute", "poll", "ended"}
             /\ pc' = "poll" => instr' = Blank
             /\ guest' = guest /\ que' = que
  <2> DEFINE more == instr.rep # "none" /\ again /\ Get(Add(n, b, ECX, -1), b, ECX) # 0
             o == IF instr.rep = "none" THEN n ELSE Add(n, b, ECX, -1)
  <2>1. pc' = After(o, IF more THEN "execute" ELSE "poll") /\ instr' = IF more THEN instr ELSE Blank
    BY <1>1 DEF Repeated
  <2>2. guest' = guest /\ que' = que
    BY <1>1 DEF Repeated
  <2>. HIDE DEF more, o
  <2>. QED BY <2>1, <2>2 DEF After
<1>. QED BY <1>1 DEF Strings, movsw, lodsb, cmps8, cmps, Compares

LEMMA BlankType == Blank \in Instruction /\ Blank.h = "none"
<1>1. 0 \in Word(16) /\ 0 \in Word(32)
  BY WordBounds
<1>. QED BY <1>1 DEF Blank, Instruction, Undecoded, Handlers, Gp

\* The machine after a step of the loop.
LEMMA LoopKeeps ==
  ASSUME NEW T, m \in Holding(T), Typed, Loop
  PROVE  m' \in Holding(T)
<1>1. CASE chk_irq
  <2>1. [m EXCEPT !.halt = FALSE] \in Holding(T)
    BY Replaced
  <2>. QED BY <1>1, <2>1 DEF chk_irq
<1>2. CASE NoIrq \/ Sleep \/ Wake \/ NoInterrupt
  BY <1>2 DEF NoIrq, Sleep, Wake, NoInterrupt
<1>3. CASE hundle_interrupt
  <2>1. Head(que).id \in Word(8)
    <3>1. que \in Seq(Interrupt) /\ que # <<>>
      BY <1>3 DEF hundle_interrupt, Typed
    <3>2. Head(que) \in Interrupt
      BY <3>1
    <3>. QED BY <3>2 DEF Interrupt
  <2>2. Head(que).id \in Int
    BY <2>1, WordBounds
  <2>3. Interrupted(m, Head(que)) \in Holding(T)
    BY <2>2, InterruptedKeeps
  <2>. QED BY <1>3, <2>3 DEF hundle_interrupt
<1>4. CASE decode_prefixes
  BY <1>4, CodeKeeps DEF decode_prefixes
<1>5. CASE DecodeInstr
  <2>1. instr \in Undecoded /\ instr.h = "none"
    BY <1>5 DEF DecodeInstr, Typed, Fetching, Instruction
  <2>2. decode(m, instr).m \in Holding(T)
    BY <2>1, decodeKeeps
  <2>. QED BY <1>5, <2>2 DEF DecodeInstr
<1>. QED BY <1>1, <1>2, <1>3, <1>4, <1>5 DEF Loop

LEMMA StepKeeps ==
  ASSUME NEW T, m \in Holding(T), Typed, [Next]_vars
  PROVE  m' \in Holding(T)
<1>1. instr \in Instruction
  BY DEF Typed
<1>2. CASE UNCHANGED vars
  BY <1>2 DEF vars
<1>. QED BY <1>1, <1>2, LoopKeeps, MovesKeep, StackKeeps, TransfersKeep, SystemKeeps, StringsKeep
         DEF Next

LEMMA TypedInit ==
  ASSUME Init
  PROVE  Typed
<1>1. PICK g \in Guests : m = registers(g) /\ guest = [g EXCEPT !.ram = "in m"]
  BY DEF Init
<1>2. /\ g.start \in Word(32) /\ g.vector \in Word(8) /\ g.ram \in [0..(RamSize - 1) -> Word(8)]
      /\ guest.vector = g.vector
  BY <1>1, GuestsAssumption
<1>3. /\ 0 \in Word(32) /\ 0 \in Word(16) /\ 2 \in Word(32) /\ 16 \in Word(32)
      /\ M32 - M16 \in Word(32) /\ 139 \in Word(8) /\ 131 \in Word(8) /\ M16 - 1 \in Word(16)
  BY WordBounds DEF M16, M32
<1>4. M16 - 1 \in Limits
  BY LimitBounds DEF M16, M20
<1>5. \A code \in BOOLEAN : Cache0(code) \in SegmentCache
  BY <1>3, <1>4 DEF Cache0, SegmentCache
<1>6. [p \in {} |-> 0] \in Translations
  <2>1. [p \in {} |-> 0] \in [{} -> Word(32)]
    OBVIOUS
  <2>. QED BY <2>1 DEF Translations
<1> DEFINE gp == [r \in Gp |-> 0]
           sel == [s \in Sreg |-> 0]
           cache == [s \in Sreg |-> Cache0(s = "CS")]
           dt == [t \in Table |->
                   [sel |-> 0, base |-> 0, limit |-> IF t = "TR" THEN 0 ELSE M16 - 1]]
           cr == [n \in 0..4 |-> IF n = 0 THEN 16 ELSE 0]
           tlb == [p \in {} |-> 0]
<1>7. /\ gp \in [Gp -> Word(32)] /\ sel \in [Sreg -> Word(16)] /\ cache \in [Sreg -> SegmentCache]
      /\ dt \in [Table -> [sel : Word(16), base : Word(32), limit : Word(16)]]
      /\ cr \in [0..4 -> Word(32)]
  BY <1>3, <1>5
<1>8. m = [gp |-> gp, sel |-> sel, cache |-> cache, dt |-> dt, ip |-> g.start, fl |-> 2, cr |-> cr,
           ram |-> g.ram, tlb |-> tlb, a20 |-> FALSE, halt |-> FALSE, fault |-> "none"]
  BY <1>1 DEF registers
<1>9. tlb \in Translations
  BY <1>6
<1>. HIDE DEF gp, sel, cache, dt, cr, tlb
<1>10. m \in Machine
  BY <1>2, <1>3, <1>7, <1>8, <1>9 DEF Machine, Exceptions
<1>11. instr = Blank /\ pc = "poll" /\ que = <<>>
  BY DEF Init
<1>. QED BY <1>2, <1>10, <1>11, BlankType DEF Typed, Loops

LEMMA TypedStep ==
  ASSUME Typed, [Next]_vars
  PROVE  Typed'
<1>1. m' \in Machine
  <2>1. PICK T : T = m.tlb
    OBVIOUS
  <2>2. m \in Holding(T)
    BY <2>1, Held DEF Typed
  <2>3. m' \in Holding(T)
    BY <2>2, StepKeeps
  <2>. QED BY <2>3, Held
<1>2. CASE Moves \/ Stack \/ System \/ Transfers
  <2>1. Returns /\ (que' = que \/ que' = Append(que, [id |-> instr.imm % 256, hard |-> FALSE]))
    BY <1>2, MovesReturn, StackReturns, SystemReturns, TransfersReturn
  <2>2. instr.imm % 256 \in Word(8)
    <3>1. instr.imm \in Int
      BY InstrParts DEF Typed
    <3>. QED BY <3>1, CutTo
  <2>3. que' \in Seq(Interrupt)
    <3>1. que \in Seq(Interrupt)
      BY DEF Typed
    <3>2. [id |-> instr.imm % 256, hard |-> FALSE] \in Interrupt
      BY <2>2 DEF Interrupt
    <3>. QED BY <2>1, <3>1, <3>2
  <2>. QED BY <1>1, <2>1, <2>3, BlankType DEF Typed, Returns, Loops
<1>3. CASE Strings
  <2>1. /\ instr' \in {Blank, instr} /\ pc' \in {"execute", "poll", "ended"}
        /\ pc' = "poll" => instr' = Blank
        /\ guest' = guest /\ que' = que
    BY <1>3, StringsRepeat
  <2>. QED BY <1>1, <2>1, BlankType DEF Typed, Fetching, Loops
<1>4. CASE chk_irq
  <2>1. [id |-> guest.vector, hard |-> TRUE] \in Interrupt
    BY DEF Typed, Interrupt
  <2>2. que' \in Seq(Interrupt)
    BY <1>4, <2>1 DEF chk_irq, Typed
  <2>. QED BY <1>1, <1>4, <2>2 DEF chk_irq, Typed, Fetching, Loops
<1>5. CASE NoIrq \/ Sleep \/ Wake \/ NoInterrupt
  BY <1>1, <1>5 DEF NoIrq, Sleep, Wake, NoInterrupt, Typed, Fetching, Loops
<1>6. CASE hundle_interrupt
  <2>1. que' \in Seq(Interrupt)
    <3>1. que \in Seq(Interrupt) /\ que # <<>> /\ que' = Tail(que)
      BY <1>6 DEF hundle_interrupt, Typed
    <3>. QED BY <3>1
  <2>. QED BY <1>1, <1>6, <2>1 DEF hundle_interrupt, After, Typed, Fetching, Loops
<1>7. CASE decode_prefixes
  <2>1. instr \in Undecoded /\ instr.h = "none"
    BY <1>7 DEF decode_prefixes, Typed, Fetching, Instruction
  <2>2. instr' \in Undecoded /\ instr'.h = "none"
    BY <1>7, <2>1, PrefixType DEF decode_prefixes
  <2>3. instr' \in Instruction
    BY <2>2 DEF Instruction
  <2>. QED BY <1>1, <1>7, <2>2, <2>3 DEF decode_prefixes, After, Typed, Loops
<1>8. CASE DecodeInstr
  <2>1. instr \in Undecoded /\ instr.h = "none"
    BY <1>8 DEF DecodeInstr, Typed, Fetching, Instruction
  <2>2. m \in Holding(m.tlb)
    BY Held DEF Typed
  <2>3. decode(m, instr).i \in Instruction
    BY <2>1, <2>2, decodeKeeps
  <2>4. instr' \in Instruction
    BY <1>8, <2>3 DEF DecodeInstr
  <2>. QED BY <1>1, <1>8, <2>4 DEF DecodeInstr, After, Typed, Fetching, Loops
<1>9. CASE UNCHANGED vars
  BY <1>9 DEF vars, Typed
<1>. QED BY <1>2, <1>3, <1>4, <1>5, <1>6, <1>7, <1>8, <1>9 DEF Next, Loop

-----------------------------------------------------------------------------
(* Every guest, whatever its code.                                         *)

(* Whatever bytes a guest executes, with whatever prefixes, operands and   *)
(* interrupts, up to the exception that ends the emulator and beyond it,   *)
(* every register, selector, cached descriptor and byte of RAM stays in    *)
(* its width, and the numbers that select a register, a segment or a       *)
(* vector are numbers of one: the model of the processor is total.         *)
THEOREM CpuTypes == Spec => []TypeOK
<1>1. Init => Typed
  BY TypedInit
<1>2. Typed /\ [Next]_vars => Typed'
  BY TypedStep
<1>3. Typed => TypeOK
  <2> SUFFICES ASSUME Typed PROVE TypeOK
    OBVIOUS
  <2>1. m \in Machine /\ pc \in Loops
    BY DEF Typed
  <2>2. \A s \in Sreg : m.cache[s].base \in Word(32) /\ m.cache[s].limit \in 0..(M20 - 1)
    BY <2>1, Parts DEF SegmentCache, Limits
  <2>3. \A e \in DOMAIN que : que[e].id \in Word(8) /\ que[e].hard \in BOOLEAN
    <3>1. que \in Seq(Interrupt)
      BY DEF Typed
    <3>2. \A e \in DOMAIN que : que[e] \in Interrupt
      BY <3>1
    <3>. QED BY <3>2 DEF Interrupt
  <2>. QED BY <2>1, <2>2, <2>3, Parts, TableType DEF TypeOK
<1>. QED
  BY <1>1, <1>2, <1>3, PTL DEF Spec

(* No step of any guest drops or replaces a cached translation: loads of   *)
(* cr3, task switches, refused accesses and far transfers, which may make  *)
(* many accesses in one step, included.  Whether a translation is current  *)
(* is therefore up to the guest alone (TranslationCurrent).                *)
THEOREM CpuTranslations == Spec => TranslationsKept
<1>1. Init => Typed
  BY TypedInit
<1>2. Typed /\ [Next]_vars => Typed'
  BY TypedStep
<1>3. Typed /\ [Next]_vars
        => [\A p \in DOMAIN m.tlb : p \in DOMAIN m'.tlb /\ m'.tlb[p] = m.tlb[p]]_vars
  <2> SUFFICES ASSUME Typed, [Next]_vars
               PROVE  \A p \in DOMAIN m.tlb : p \in DOMAIN m'.tlb /\ m'.tlb[p] = m.tlb[p]
    OBVIOUS
  <2>1. PICK T : T = m.tlb
    OBVIOUS
  <2>2. m \in Holding(T)
    BY <2>1, Held DEF Typed
  <2>3. m' \in Holding(T)
    BY <2>2, StepKeeps
  <2>. QED BY <2>1, <2>3, Held
<1>. QED
  BY <1>1, <1>2, <1>3, PTL DEF Spec, TranslationsKept

-----------------------------------------------------------------------------
(* In real mode, handlers return to what they interrupted.                 *)

Real(n) == ~Protected(n) /\ ~Paged(n) /\ ~Faulted(n)

\* The stack pointer of 16 bits moved by k, and where in RAM it points to.
Sp(n, k) == (n.gp[ESP] + k) % M16
At(n, k) ==
  LET a == 16 * n.sel["SS"] + Sp(n, k) IN IF n.a20 THEN a ELSE a % M20

\* The words that an interrupt pushes.
Saved == {-2, -4, -6}

LEMMA RealPhysical ==
  ASSUME NEW n \in Machine, Real(n)
  PROVE  /\ Get(n, 16, ESP) = Sp(n, 0)
         /\ \A k \in Int : Sp(n, k) \in Int /\ At(n, k) \in Int
         /\ Physical(n, "SS", Sp(n, 0)) = At(n, 0)
<1>1. n.gp[ESP] \in Int /\ M16 = 65536 /\ M20 = 1048576 /\ M32 = 16777216
  BY EspType DEF M16, M20, M32
<1>2. n.sel["SS"] \in Int /\ 0 <= n.sel["SS"] /\ n.sel["SS"] < 65536
  BY SelectorType, WordBounds DEF Sreg
<1>3. \A k \in Int : Sp(n, k) \in Int /\ 0 <= Sp(n, k) /\ Sp(n, k) < 65536
  BY <1>1 DEF Sp
<1>4. (16 * n.sel["SS"] + Sp(n, 0)) % M32 = 16 * n.sel["SS"] + Sp(n, 0)
  <2>1. Sp(n, 0) \in Int /\ 0 <= Sp(n, 0) /\ Sp(n, 0) < 65536
    BY <1>3
  <2>. QED BY <1>1, <1>2, <2>1
<1>5. Linear(n, "SS", Sp(n, 0)) = 16 * n.sel["SS"] + Sp(n, 0)
  BY <1>4 DEF Linear, Real
<1>6. Physical(n, "SS", Sp(n, 0)) = At(n, 0)
  BY <1>5 DEF Physical, At, Real
<1>7. \A k \in Int : At(n, k) \in Int
  BY <1>1, <1>2, <1>3 DEF At
<1>8. Get(n, 16, ESP) = Sp(n, 0)
  BY <1>1 DEF Get, Sp
<1>. QED BY <1>3, <1>6, <1>7, <1>8

\* Moving the stack pointer twice, and what does not move.
LEMMA SpMoved ==
  ASSUME NEW n \in Machine, NEW k \in Int, NEW o, o = Add(n, 16, ESP, k)
  PROVE  /\ o \in Machine /\ Changes(o, n, {"gp"})
         /\ \A j \in Int : Sp(o, j) = Sp(n, k + j) /\ At(o, j) = At(n, k + j)
         /\ \A j \in Int : Add(o, 16, ESP, j).gp = Add(n, 16, ESP, k + j).gp
<1>1. ESP \in Gp /\ n.gp[ESP] \in Int /\ M16 = 65536
  BY EspType DEF M16
<1>2. o \in Machine
  <2>1. n \in Holding(n.tlb)
    BY Held
  <2>2. o \in Holding(n.tlb)
    BY <1>1, <2>1, AddKeeps
  <2>. QED BY <2>2, Held
<1> DEFINE x == n.gp[ESP]
           w == x - (x % M16) + (((x % M16) + k) % M16)
<1>3. o = [n EXCEPT !.gp = [n.gp EXCEPT ![ESP] = w]]
  BY Moved
<1>4. w \in Int /\ \A j \in Int : (w + j) % M16 = (x + (k + j)) % M16
  BY <1>1
<1>5. \A j \in Int : w - (w % M16) + (((w % M16) + j) % M16)
                       = x - (x % M16) + (((x % M16) + (k + j)) % M16)
  <2> SUFFICES ASSUME NEW j \in Int
               PROVE  w - (w % M16) + (((w % M16) + j) % M16)
                        = x - (x % M16) + (((x % M16) + (k + j)) % M16)
    OBVIOUS
  <2> DEFINE low == ((x % 65536) + k) % 65536
             up == x - (x % 65536)
  <2>1. up \in Int /\ up % 65536 = 0 /\ low \in Int /\ 0 <= low /\ low < 65536
    BY <1>1
  <2>2. (low + j) % 65536 = ((x % 65536) + (k + j)) % 65536
    BY <1>1
  <2>3. w = up + low
    BY <1>1
  <2>. HIDE DEF low, up, w
  <2>4. w % 65536 = low /\ w - (w % 65536) = up
    BY <2>1, <2>3
  <2>. QED BY <1>1, <2>2, <2>4 DEF up
<1>. HIDE DEF w
<1>6. o.gp = [n.gp EXCEPT ![ESP] = w] /\ Changes(o, n, {"gp"}) /\ "gp" \in DOMAIN o
  BY <1>3, Parts DEF Changes, Fields
<1>7. o.gp[ESP] = w
  BY <1>1, <1>6, Parts
<1>8. o.sel = n.sel /\ o.a20 = n.a20
  BY <1>6 DEF Changes, Fields
<1>9. \A j \in Int : Sp(o, j) = Sp(n, k + j)
  BY <1>4, <1>7 DEF Sp
<1>10. ASSUME NEW j \in Int
       PROVE  Add(o, 16, ESP, j).gp = Add(n, 16, ESP, k + j).gp
  <2> DEFINE v == x - (x % M16) + (((x % M16) + (k + j)) % M16)
  <2>1. Add(n, 16, ESP, k + j) = [n EXCEPT !.gp = [n.gp EXCEPT ![ESP] = v]]
    BY Moved
  <2>2. Add(o, 16, ESP, j)
          = [o EXCEPT !.gp = [o.gp EXCEPT ![ESP] = w - (w % M16) + (((w % M16) + j) % M16)]]
    BY <1>7, Moved
  <2>3. w - (w % M16) + (((w % M16) + j) % M16) = v
    BY <1>5
  <2>. HIDE DEF v
  <2>4. Add(o, 16, ESP, j).gp = [o.gp EXCEPT ![ESP] = v]
    BY <1>6, <2>2, <2>3
  <2>5. Add(n, 16, ESP, k + j).gp = [n.gp EXCEPT ![ESP] = v]
    BY <2>1, Parts DEF Fields
  <2>6. [o.gp EXCEPT ![ESP] = v] = [n.gp EXCEPT ![ESP] = v]
    BY <1>1, <1>6, Parts
  <2>. QED BY <2>4, <2>5, <2>6
<1>11. \A j \in Int : At(o, j) = At(n, k + j)
  BY <1>8, <1>9 DEF At
<1>. QED BY <1>2, <1>6, <1>9, <1>10, <1>11

LEMMA MovedOn ==
  ASSUME NEW n \in Machine, NEW p \in Machine, NEW k \in Int, p.gp = Add(n, 16, ESP, k).gp
  PROVE  \A j \in Int : Add(p, 16, ESP, j).gp = Add(n, 16, ESP, k + j).gp
<1> TAKE j \in Int
<1>1. PICK o : o = Add(n, 16, ESP, k)
  OBVIOUS
<1>2. o \in Machine /\ Add(o, 16, ESP, j).gp = Add(n, 16, ESP, k + j).gp
  BY <1>1, SpMoved
<1>3. "gp" \in DOMAIN o /\ "gp" \in DOMAIN p /\ p.gp = o.gp
  BY <1>1, <1>2, Parts DEF Fields
<1>4. ASSUME NEW x, "gp" \in DOMAIN x
      PROVE  Add(x, 16, ESP, j).gp = [x.gp EXCEPT ![ESP] =
               x.gp[ESP] - (x.gp[ESP] % M16) + (((x.gp[ESP] % M16) + j) % M16)]
  <2> DEFINE moved == [x.gp EXCEPT ![ESP] =
                        x.gp[ESP] - (x.gp[ESP] % M16) + (((x.gp[ESP] % M16) + j) % M16)]
  <2>1. Add(x, 16, ESP, j) = [x EXCEPT !.gp = moved]
    BY Moved
  <2>. HIDE DEF moved
  <2>2. Add(x, 16, ESP, j).gp = moved
    BY <1>4, <2>1
  <2>. QED BY <2>2 DEF moved
<1>5. Add(p, 16, ESP, j).gp = Add(o, 16, ESP, j).gp
  BY <1>3, <1>4
<1>. QED BY <1>2, <1>5

LEMMA NotMoved == \A n \in Machine : Add(n, 16, ESP, 0).gp = n.gp
<1> TAKE n \in Machine
<1>1. n.gp[ESP] \in Int /\ M16 = 65536 /\ ESP \in Gp
  BY EspType DEF M16
<1>2. n.gp[ESP] - (n.gp[ESP] % M16) + (((n.gp[ESP] % M16) + 0) % M16) = n.gp[ESP]
  BY <1>1
<1>3. Add(n, 16, ESP, 0) = [n EXCEPT !.gp = [n.gp EXCEPT ![ESP] = n.gp[ESP]]]
  BY <1>2, Moved
<1>. QED BY <1>1, <1>3, Parts DEF Fields

\* The three words lie apart, also where the pointer or the address wraps.
LEMMA Apart ==
  ASSUME NEW n \in Machine, NEW j \in Saved, NEW k \in Saved, j # k
  PROVE  At(n, j) - At(n, k) \notin {-1, 0, 1}
<1>1. n.gp[ESP] \in Int /\ M16 = 65536 /\ M20 = 1048576
  BY EspType DEF M16, M20
<1>2. n.sel["SS"] \in Int
  BY SelectorType, WordBounds DEF Sreg
<1> DEFINE base == 16 * n.sel["SS"]
           x == n.gp[ESP]
<1>3. base \in Int /\ x \in Int
  BY <1>1, <1>2
<1>4. At(n, j) = base + ((x + j) % 65536) \/ At(n, j) = (base + ((x + j) % 65536)) % 1048576
  BY <1>1 DEF At, Sp
<1>5. At(n, k) = base + ((x + k) % 65536) \/ At(n, k) = (base + ((x + k) % 65536)) % 1048576
  BY <1>1 DEF At, Sp
<1>. HIDE DEF base, x
<1>6. ASSUME NEW i \in Int
      PROVE  /\ (base + ((x + i) % 65536)) % 65536 = (base + x + i) % 65536
             /\ ((base + ((x + i) % 65536)) % 1048576) % 65536 = (base + x + i) % 65536
  BY <1>3
<1>7. /\ At(n, j) \in Int /\ At(n, j) % 65536 = (base + x + j) % 65536
      /\ At(n, k) \in Int /\ At(n, k) % 65536 = (base + x + k) % 65536
  BY <1>3, <1>4, <1>5, <1>6 DEF Saved
<1>8. (At(n, j) - At(n, k)) % 65536 = (j - k) % 65536
  BY <1>3, <1>7 DEF Saved
<1>9. j - k \in {-4, -2, 2, 4}
  BY DEF Saved
<1>. QED BY <1>7, <1>8, <1>9

\* A word written leaves one that lies apart as it was.
LEMMA OtherWord ==
  ASSUME NEW n \in Machine, NEW a \in Int, NEW c \in Int, a - c \notin {-1, 0, 1}, NEW v \in Int
  PROVE  ReadRam(WriteRam(n, 16, a, v), 16, c) = ReadRam(n, 16, c)
<1>1. CASE ~InRange(a, 4) \/ ~InRange(c, 4)
  BY <1>1 DEF WriteRam, ReadRam
<1>2. CASE InRange(a, 4) /\ InRange(c, 4)
  <2>1. WriteRam(n, 16, a, v).ram
          = [e \in DOMAIN n.ram |-> IF e \in a..(a + 1) THEN ByteOf(v, e - a) ELSE n.ram[e]]
    BY <1>2, Parts DEF WriteRam, Fields
  <2>2. c \in DOMAIN n.ram /\ c + 1 \in DOMAIN n.ram
    BY <1>2, Parts, SizeAssumption DEF InRange
  <2>3. c \notin a..(a + 1) /\ c + 1 \notin a..(a + 1)
    OBVIOUS
  <2>4. WriteRam(n, 16, a, v).ram[c] = n.ram[c] /\ WriteRam(n, 16, a, v).ram[c + 1] = n.ram[c + 1]
    BY <2>1, <2>2, <2>3
  <2>. QED BY <1>2, <2>4 DEF ReadRam
<1>. QED BY <1>1, <1>2

LEMMA RealPush ==
  ASSUME NEW n \in Machine, Real(n), NEW x \in Int, NEW p, p = Push(n, 16, x)
  PROVE  /\ p \in Machine /\ Real(p) /\ Changes(p, n, {"gp", "ram"})
         /\ p.gp = Add(n, 16, ESP, -2).gp
         /\ \A k \in Int : At(p, k) = At(n, k - 2)
         /\ p.ram = WriteRam(n, 16, At(n, -2), x).ram
<1>0. PICK d \in Int : d = -2
  OBVIOUS
<1> DEFINE o == Add(n, 16, ESP, d)
<1>1. /\ o \in Machine /\ Changes(o, n, {"gp"})
      /\ \A j \in Int : Sp(o, j) = Sp(n, d + j) /\ At(o, j) = At(n, d + j)
  BY ONLY <1>0, n \in Machine, SpMoved
<1>2. Push(n, 16, x) = WriteTop(o, 16, x)
  <2>1. -(16 \div 8) = d
    BY <1>0
  <2>2. Push(n, 16, x) = WriteTop(Add(n, 16, ESP, -(16 \div 8)), 16, x)
    BY DEF Push
  <2>. QED BY ONLY <2>1, <2>2, Zenon
<1>. HIDE DEF o
<1>3. Real(o) /\ o.ram = n.ram /\ o.sel = n.sel /\ o.a20 = n.a20
  BY <1>1 DEF Changes, Fields, Real, Protected, Paged, Faulted
<1>4. Access(o, "write", "SS", Sp(o, 0)) = o
  BY <1>3 DEF Access, Real
<1>5. p = WriteRam(o, 16, At(o, 0), x)
  BY <1>1, <1>2, <1>3, <1>4, RealPhysical DEF WriteTop, Write, Store, Real
<1>6. At(o, 0) = At(n, -2) /\ At(n, -2) \in Int
  <2>1. d + 0 = d
    OBVIOUS
  <2>2. At(o, 0) = At(n, d)
    BY <1>1, <2>1
  <2>. QED BY <1>0, <2>2, RealPhysical
<1>7. p.ram = WriteRam(n, 16, At(n, -2), x).ram /\ Changes(p, o, {"ram"})
  <2>1. PICK a : a = At(n, -2)
    OBVIOUS
  <2>2. p = WriteRam(o, 16, a, x) /\ DOMAIN o = Fields /\ DOMAIN n = Fields
    BY <1>1, <1>5, <1>6, <2>1, Parts
  <2>3. p.ram = WriteRam(n, 16, a, x).ram /\ Changes(p, o, {"ram"})
    BY <1>3, <2>2 DEF WriteRam, Changes, Fields
  <2>. QED BY <2>1, <2>3
<1>8. p \in Machine
  <2>1. n \in Holding(n.tlb)
    BY Held
  <2>2. p \in Holding(n.tlb)
    BY <2>1, PushKeeps
  <2>. QED BY <2>2, Held
<1>9. Changes(p, n, {"gp", "ram"}) /\ p.gp = o.gp
  BY <1>1, <1>7 DEF Changes, Fields
<1>10. Real(p)
  BY <1>9 DEF Changes, Fields, Real, Protected, Paged, Faulted
<1>11. \A k \in Int : At(p, k) = At(n, k - 2)
  <2> TAKE k \in Int
  <2>1. d + k = k - 2
    BY <1>0
  <2>2. At(p, k) = At(o, k)
    BY <1>7 DEF Changes, Fields, At, Sp
  <2>. QED BY <1>1, <2>1, <2>2
<1>. QED BY <1>0, <1>7, <1>8, <1>9, <1>10, <1>11 DEF o

LEMMA RealPop ==
  ASSUME NEW n \in Machine, Real(n), NEW p, p = Drop(n, 16)
  PROVE  /\ p \in Machine /\ Real(p) /\ Changes(p, n, {"gp"})
         /\ p.gp = Add(n, 16, ESP, 2).gp
         /\ \A k \in Int : At(p, k) = At(n, 2 + k)
         /\ Top(n, 16) = ReadRam(n, 16, At(n, 0))
<1>1. AfterRead(n, "SS", Get(n, 16, ESP)) = n
  BY DEF AfterRead, Access, Real
<1>2. p = Add(n, 16, ESP, 2)
  BY <1>1 DEF Drop
<1>3. p \in Machine /\ Changes(p, n, {"gp"}) /\ \A k \in Int : At(p, k) = At(n, 2 + k)
  BY <1>2, SpMoved
<1>4. Real(p)
  BY <1>3 DEF Changes, Fields, Real, Protected, Paged, Faulted
<1>5. Top(n, 16) = ReadRam(n, 16, At(n, 0))
  BY RealPhysical DEF Top, Read
<1>. QED BY <1>2, <1>3, <1>4, <1>5

\* What an interrupt of real mode pushes.
Saving(n) == save_regs(n, FALSE)

\* An interrupt leaves the three words where the pointer was.
LEMMA InterruptSaves ==
  ASSUME NEW n \in Machine, Real(n), \A k \in Saved : InRange(At(n, k), 4),
         NEW e, e = Saving(n)
  PROVE  /\ e \in Machine /\ Real(e) /\ Changes(e, n, {"gp", "ram"})
         /\ e.gp = Add(n, 16, ESP, -6).gp
         /\ ReadRam(e, 16, At(n, -2)) = n.fl % M16
         /\ ReadRam(e, 16, At(n, -4)) = n.sel["CS"]
         /\ ReadRam(e, 16, At(n, -6)) = n.ip % M16
<1> DEFINE a == At(n, -2)
           c == At(n, -4)
           d == At(n, -6)
           flags == n.fl % M16
           code == n.sel["CS"]
           back == n.ip % M16
           p == Push(n, 16, flags)
           r == Push(p, 16, code)
<1>1. /\ flags \in Int /\ flags % M16 = flags /\ code \in Int /\ code % M16 = code
      /\ back \in Int /\ back % M16 = back
  <2>1. n.fl \in Int /\ n.ip \in Int /\ M16 = 65536
    BY Parts, WordBounds, Sizes
  <2>2. code \in Int /\ 0 <= code /\ code < 65536
    BY SelectorType, WordBounds DEF Sreg
  <2>. HIDE DEF code
  <2>. QED BY <2>1, <2>2
<1>2. e = Push(r, 16, back)
  <2>1. SavedBits(n) = 16
    BY DEF SavedBits, Real
  <2>2. Mod(16) = M16
    BY DEF Mod
  <2>. QED BY <2>1, <2>2 DEF Saving, save_regs, Ip
<1>3. /\ a \in Int /\ c \in Int /\ d \in Int
      /\ InRange(a, 4) /\ InRange(c, 4) /\ InRange(d, 4)
      /\ a - c \notin {-1, 0, 1} /\ c - a \notin {-1, 0, 1} /\ d - a \notin {-1, 0, 1}
      /\ d - c \notin {-1, 0, 1}
  <2>1. -2 \in Saved /\ -4 \in Saved /\ -6 \in Saved /\ -2 # -4 /\ -2 # -6 /\ -4 # -6
    BY DEF Saved
  <2>2. -2 \in Int /\ -4 \in Int /\ -6 \in Int
    OBVIOUS
  <2>3. a \in Int /\ c \in Int /\ d \in Int
    BY <2>2, RealPhysical
  <2>. QED BY <2>1, <2>3, Apart
<1>. HIDE DEF flags, code, back
<1>4. /\ p \in Machine /\ Real(p) /\ Changes(p, n, {"gp", "ram"})
      /\ p.gp = Add(n, 16, ESP, -2).gp
      /\ \A k \in Int : At(p, k) = At(n, k - 2)
      /\ p.ram = WriteRam(n, 16, a, flags).ram
  BY <1>1, RealPush
<1>. HIDE DEF p
<1>5. /\ r \in Machine /\ Real(r) /\ Changes(r, p, {"gp", "ram"})
      /\ r.gp = Add(p, 16, ESP, -2).gp
      /\ \A k \in Int : At(r, k) = At(p, k - 2)
      /\ r.ram = WriteRam(p, 16, At(p, -2), code).ram
  BY <1>1, <1>4, RealPush
<1>. HIDE DEF r
<1>6. /\ e \in Machine /\ Real(e) /\ Changes(e, r, {"gp", "ram"})
      /\ e.gp = Add(r, 16, ESP, -2).gp
      /\ e.ram = WriteRam(r, 16, At(r, -2), back).ram
  BY <1>1, <1>2, <1>5, RealPush, ZenonT(60)
<1>7. At(p, -2) = c /\ At(r, -2) = d
  <2>1. -2 \in Int /\ -4 \in Int /\ -2 - 2 = -4 /\ -4 - 2 = -6
    OBVIOUS
  <2>2. At(r, -2) = At(p, -4) /\ At(p, -4) = At(n, -6) /\ At(p, -2) = At(n, -4)
    BY <1>4, <1>5, <2>1
  <2>. QED BY <2>2
<1>. HIDE DEF a, c, d
\* A word is found by what is in RAM.
<1>8. ASSUME NEW x, NEW y, x.ram = y.ram, NEW i PROVE ReadRam(x, 16, i) = ReadRam(y, 16, i)
  BY <1>8 DEF ReadRam
<1>9. /\ "ram" \in DOMAIN n /\ DOMAIN n.ram = 0..(RamSize - 1)
      /\ "ram" \in DOMAIN p /\ DOMAIN p.ram = 0..(RamSize - 1)
      /\ "ram" \in DOMAIN r /\ DOMAIN r.ram = 0..(RamSize - 1)
  BY <1>4, <1>5, Parts DEF Fields
<1>10. Mod(16) = M16
  BY DEF Mod
<1>11. ReadRam(p, 16, a) = flags
  <2>1. ReadRam(p, 16, a) = ReadRam(WriteRam(n, 16, a, flags), 16, a)
    BY <1>4, <1>8
  <2>. QED BY <1>1, <1>3, <1>9, <1>10, <2>1, RamHolds
<1>12. ReadRam(r, 16, c) = code /\ ReadRam(r, 16, a) = flags
  <2>1. ReadRam(r, 16, c) = ReadRam(WriteRam(p, 16, c, code), 16, c)
    BY <1>5, <1>7, <1>8
  <2>2. ReadRam(r, 16, a) = ReadRam(WriteRam(p, 16, c, code), 16, a)
    BY <1>5, <1>7, <1>8
  <2>3. ReadRam(r, 16, c) = code
    BY <1>1, <1>3, <1>9, <1>10, <2>1, RamHolds
  <2>4. ReadRam(r, 16, a) = ReadRam(p, 16, a)
    BY <1>1, <1>3, <1>4, <2>2, OtherWord
  <2>. QED BY <1>11, <2>3, <2>4
<1>13. ReadRam(e, 16, d) = back /\ ReadRam(e, 16, c) = code /\ ReadRam(e, 16, a) = flags
  <2>1. \A i : ReadRam(e, 16, i) = ReadRam(WriteRam(r, 16, d, back), 16, i)
    BY <1>6, <1>7, <1>8
  <2>2. ReadRam(e, 16, d) = back
    BY <1>1, <1>3, <1>9, <1>10, <2>1, RamHolds
  <2>3. ReadRam(e, 16, a) = ReadRam(r, 16, a)
    <3>1. ReadRam(e, 16, a) = ReadRam(WriteRam(r, 16, d, back), 16, a)
      BY <2>1
    <3>2. r \in Machine /\ d \in Int /\ a \in Int /\ back \in Int /\ d - a \notin {-1, 0, 1}
      BY <1>1, <1>3, <1>5
    <3>3. ReadRam(WriteRam(r, 16, d, back), 16, a) = ReadRam(r, 16, a)
      BY ONLY <3>2, OtherWord
    <3>. QED BY <3>1, <3>3
  <2>4. ReadRam(e, 16, c) = ReadRam(r, 16, c)
    <3>1. ReadRam(e, 16, c) = ReadRam(WriteRam(r, 16, d, back), 16, c)
      BY <2>1
    <3>2. r \in Machine /\ d \in Int /\ c \in Int /\ back \in Int /\ d - c \notin {-1, 0, 1}
      BY <1>1, <1>3, <1>5
    <3>3. ReadRam(WriteRam(r, 16, d, back), 16, c) = ReadRam(r, 16, c)
      BY ONLY <3>2, OtherWord
    <3>. QED BY <3>1, <3>3
  <2>. QED BY <1>12, <2>2, <2>3, <2>4
<1>14. e.gp = Add(n, 16, ESP, -6).gp
  <2>1. -2 \in Int /\ -4 \in Int /\ -2 + -2 = -4 /\ -4 + -2 = -6
    OBVIOUS
  <2>2. Add(p, 16, ESP, -2).gp = Add(n, 16, ESP, -4).gp
    BY ONLY <1>4, <2>1, n \in Machine, MovedOn
  <2>3. Add(r, 16, ESP, -2).gp = Add(n, 16, ESP, -6).gp
    BY ONLY <1>5, <2>1, <2>2, n \in Machine, MovedOn
  <2>. QED BY <1>6, <2>3
<1>15. Changes(e, n, {"gp", "ram"})
  BY <1>4, <1>5, <1>6 DEF Changes
<1>. QED BY <1>6, <1>13, <1>14, <1>15 DEF a, c, d, flags, code, back

\* What a handler keeps of the machine v that entered it: the registers, the
\* segments other than its own, the upper halves of eip and the flags, the control
\* registers and the A20 gate; it raises nothing.
Kept(o, v) ==
  /\ o.gp = v.gp /\ \A s \in Sreg \ {"CS"} : o.sel[s] = v.sel[s]
  /\ o.ip \div M16 = v.ip \div M16 /\ o.fl \div M16 = v.fl \div M16
  /\ o.cr = v.cr /\ o.a20 = v.a20 /\ o.fault = v.fault
Handled(n, q, o) ==
  /\ Kept(o, ThroughVector(n, q))
  /\ \A k \in Saved : ReadRam(o, 16, At(n, k)) = ReadRam(ThroughVector(n, q), 16, At(n, k))

\* The upper half of a number and the lower half of another.
LEMMA Halves ==
  ASSUME NEW x \in Word(32), NEW y \in Word(32), x \div M16 = y \div M16
  PROVE  x - (x % M16) + (y % M16) = y
<1>1. x \in Int /\ y \in Int /\ M16 = 65536
  BY WordBounds, Sizes
<1>. QED BY <1>1

LEMMA VectorEntered ==
  ASSUME NEW n \in Machine, Real(n), NEW e, e = Saving(n),
         e \in Machine, Real(e), Changes(e, n, {"gp", "ram"}),
         NEW q, q.id \in Int, NEW v, v = ThroughVector(n, q)
  PROVE  /\ v.gp = e.gp /\ v.ram = e.ram /\ v.cr = n.cr /\ v.a20 = n.a20
         /\ v.fault = n.fault /\ v.fl = n.fl /\ v.ip \div M16 = n.ip \div M16
         /\ \A s \in Sreg \ {"CS"} : v.sel[s] = n.sel[s]
<1> DEFINE a == n.dt["IDTR"].base + 4 * q.id
           cs == ReadRam(n, 16, a + 2)
           ip == ReadRam(n, 16, a)
           o == set_segment(e, "CS", cs)
<1>1. a \in Int /\ a + 2 \in Int
  BY TableType DEF Table
<1>2. v = Jump(o, 16, ip)
  BY DEF ThroughVector, Saving
<1>. HIDE DEF a, o
<1>3. ip \in Int /\ 0 <= ip /\ ip < 65536 /\ cs \in Word(16)
  BY <1>1, ReadRamType, WordBounds
<1>. HIDE DEF cs, ip
<1>4. Changes(o, e, {"sel", "cache"}) /\ o.sel = [e.sel EXCEPT !["CS"] = cs]
  <2>1. "CS" \in Sreg /\ ~Protected(e)
    BY DEF Sreg, Real
  <2>2. /\ Changes(set_segment(e, "CS", cs), e, {"sel", "cache"})
        /\ set_segment(e, "CS", cs).sel = [e.sel EXCEPT !["CS"] = cs]
    BY ONLY <1>3, <2>1, e \in Machine, RealSegment
  <2>. QED BY ONLY <2>2, Zenon DEF o
<1>5. e.sel \in [Sreg -> Word(16)]
  BY Parts
<1>6. /\ DOMAIN o = Fields /\ o.gp = e.gp /\ o.ram = e.ram /\ o.cr = e.cr /\ o.a20 = e.a20
      /\ o.fault = e.fault /\ o.fl = e.fl /\ o.ip = e.ip
      /\ o.sel = [e.sel EXCEPT !["CS"] = cs]
  BY <1>4 DEF Changes, Fields
<1>7. \A s \in Sreg \ {"CS"} : o.sel[s] = e.sel[s]
  BY <1>5, <1>6
<1>8. v = [o EXCEPT !.ip = o.ip - (o.ip % M16) + (ip % M16)]
  BY <1>2, <1>6 DEF Jump, Mod, Fields
<1> DEFINE w == o.ip - (o.ip % M16) + (ip % M16)
<1>9. w \div M16 = o.ip \div M16
  <2>1. e.ip \in Int
    BY ONLY e \in Machine, Parts, WordBounds
  <2>2. PICK x \in Int : x = o.ip
    BY <1>6, <2>1
  <2>3. w = x - (x % 65536) + ip
    <3>1. x - (x % M16) + (ip % M16) = x - (x % 65536) + ip
      BY ONLY <1>3, Sizes, x \in Int
    <3>2. w = x - (x % M16) + (ip % M16)
      BY ONLY <2>2, Zenon
    <3>. HIDE DEF w
    <3>. QED BY ONLY <3>1, <3>2
  <2>4. x = 65536 * (x \div 65536) + (x % 65536) /\ x \div 65536 \in Int
    OBVIOUS
  <2>. HIDE DEF w
  <2>5. w = 65536 * (x \div 65536) + ip
    BY ONLY <1>3, <2>3, <2>4, x \in Int
  <2>6. w \div 65536 = x \div 65536
    BY ONLY <1>3, <2>4, <2>5, x \in Int
  <2>. QED BY ONLY <2>2, <2>6, Sizes
<1>. HIDE DEF w
<1>10. /\ v.gp = o.gp /\ v.ram = o.ram /\ v.cr = o.cr /\ v.a20 = o.a20
       /\ v.fault = o.fault /\ v.fl = o.fl /\ v.sel = o.sel /\ v.ip = w
  BY <1>6, <1>8 DEF w, Fields
<1>11. /\ e.cr = n.cr /\ e.a20 = n.a20 /\ e.fault = n.fault /\ e.fl = n.fl /\ e.ip = n.ip
       /\ e.sel = n.sel
  BY DEF Changes, Fields
<1>. QED BY <1>6, <1>7, <1>9, <1>10, <1>11

\* The three words popped, one after the other.
LEMMA ThreePopped ==
  ASSUME NEW n \in Machine, Real(n), NEW p, p = Pop3(n, 16)
  PROVE  /\ p.m \in Machine /\ Real(p.m) /\ Changes(p.m, n, {"gp"})
         /\ p.m.gp = Add(n, 16, ESP, 6).gp
         /\ p.words[1] = ReadRam(n, 16, At(n, 0))
         /\ p.words[2] = ReadRam(n, 16, At(n, 2))
         /\ p.words[3] = ReadRam(n, 16, At(n, 4))
<1> DEFINE x == Drop(n, 16)
           y == Drop(x, 16)
           z == Drop(y, 16)
<1>1. /\ x \in Machine /\ Real(x) /\ Changes(x, n, {"gp"}) /\ x.gp = Add(n, 16, ESP, 2).gp
      /\ \A k \in Int : At(x, k) = At(n, 2 + k)
      /\ Top(n, 16) = ReadRam(n, 16, At(n, 0))
  BY RealPop
<1>. HIDE DEF x
<1>2. /\ y \in Machine /\ Real(y) /\ Changes(y, x, {"gp"}) /\ y.gp = Add(x, 16, ESP, 2).gp
      /\ \A k \in Int : At(y, k) = At(x, 2 + k)
      /\ Top(x, 16) = ReadRam(x, 16, At(x, 0))
  BY <1>1, RealPop
<1>. HIDE DEF y
<1>3. /\ z \in Machine /\ Real(z) /\ Changes(z, y, {"gp"}) /\ z.gp = Add(y, 16, ESP, 2).gp
      /\ Top(y, 16) = ReadRam(y, 16, At(y, 0))
  BY <1>2, RealPop
<1>. HIDE DEF z
<1>4. /\ p.m = z /\ p.words[1] = Top(n, 16) /\ p.words[2] = Top(x, 16)
      /\ p.words[3] = Top(y, 16)
  <2>1. Pop1(n, 16) = [m |-> x, words |-> <<Top(n, 16)>>]
    BY DEF Pop1, Pop, x
  <2>2. Pop2(n, 16) = [m |-> y, words |-> <<Top(n, 16), Top(x, 16)>>]
    BY <2>1 DEF Pop2, Pop, y
  <2>3. Top(n, 16) \in Int /\ Top(x, 16) \in Int /\ Top(y, 16) \in Int
    <3>1. ASSUME NEW k \in Machine PROVE Top(k, 16) \in Int
      <4>1. k \in Holding(k.tlb)
        BY Held
      <4>. QED BY <4>1, DropKeeps
    <3>. QED BY <1>1, <1>2, <3>1
  <2>4. PICK s : s = <<Top(n, 16), Top(x, 16)>>
    OBVIOUS
  <2>5. s \in Seq(Int) /\ Len(s) = 2 /\ s[1] = Top(n, 16) /\ s[2] = Top(x, 16)
    BY <2>3, <2>4
  <2>6. p.m = z /\ p.words = Append(s, Top(y, 16))
    <3>1. PICK r : r = Pop2(n, 16)
      OBVIOUS
    <3>2. r.m = y /\ r.words = s
      BY ONLY <2>2, <2>4, <3>1
    <3>3. p.m = Drop(r.m, 16) /\ p.words = Append(r.words, Top(r.m, 16))
      BY <3>1 DEF Pop3, Pop
    <3>. QED BY ONLY <3>2, <3>3, Zenon DEF z
  <2>7. ASSUME NEW t \in Int
        PROVE  Append(s, t)[1] = s[1] /\ Append(s, t)[2] = s[2] /\ Append(s, t)[3] = t
    <3>1. s \in Seq(Int)
      BY <2>5
    <3>2. Append(s, t)[Len(s) + 1] = t /\ \A i \in 1..Len(s) : Append(s, t)[i] = s[i]
      BY ONLY <3>1, t \in Int
    <3>3. Len(s) = 2 /\ 1 \in 1..2 /\ 2 \in 1..2 /\ 2 + 1 = 3
      BY <2>5
    <3>. QED BY ONLY <3>2, <3>3
  <2>. QED BY <2>3, <2>5, <2>6, <2>7
<1>5. 0 \in Int /\ 2 \in Int /\ 4 \in Int /\ 2 + 0 = 2 /\ 2 + 2 = 4 /\ 4 + 2 = 6
  OBVIOUS
<1>6. At(x, 0) = At(n, 2) /\ At(y, 0) = At(n, 4)
  <2>1. At(x, 0) = At(n, 2) /\ At(x, 2) = At(n, 4)
    BY ONLY <1>1, <1>5
  <2>2. At(y, 0) = At(x, 2)
    BY ONLY <1>2, <1>5
  <2>. QED BY <2>1, <2>2
<1>7. Changes(y, n, {"gp"}) /\ Changes(z, n, {"gp"})
  BY <1>1, <1>2, <1>3 DEF Changes
<1>8. x.ram = n.ram /\ y.ram = n.ram
  BY <1>1, <1>7 DEF Changes, Fields
<1>9. Top(x, 16) = ReadRam(n, 16, At(n, 2)) /\ Top(y, 16) = ReadRam(n, 16, At(n, 4))
  BY <1>2, <1>3, <1>6, <1>8 DEF ReadRam
<1>10. z.gp = Add(n, 16, ESP, 6).gp
  <2>1. Add(x, 16, ESP, 2).gp = Add(n, 16, ESP, 4).gp
    BY ONLY <1>1, <1>5, n \in Machine, MovedOn
  <2>2. Add(y, 16, ESP, 2).gp = Add(n, 16, ESP, 6).gp
    BY ONLY <1>2, <1>5, <2>1, n \in Machine, MovedOn
  <2>. QED BY <1>3, <2>2
<1>. QED BY <1>1, <1>3, <1>4, <1>7, <1>9, <1>10

(* Whatever a handler does between, an interrupt of real mode followed by  *)
(* its iret gives back the registers, the segments, the flags and the      *)
(* instruction pointer of the program interrupted, its stack pointer       *)
(* included (cpu_i386.cpp:408, instr_handlers.cpp:64), if the three words  *)
(* have their places in RAM and the handler leaves what it does not own:   *)
(* also when the stack pointer wraps on the way, and whether the gate of   *)
(* the line A20 is open or cuts the addresses.                             *)
THEOREM InterruptReturns ==
  ASSUME NEW n \in Machine, Real(n), \A k \in Saved : InRange(At(n, k), 4),
         NEW q, q.id \in Int, NEW o \in Machine, Handled(n, q, o)
  PROVE  LET back == iret(Pop3(o, 16), 16)
         IN Context(back) = Context(n) /\ ~Faulted(back)
<1> DEFINE e == Saving(n)
           v == ThroughVector(n, q)
           p == Pop3(o, 16)
<1>1. /\ e \in Machine /\ Real(e) /\ Changes(e, n, {"gp", "ram"})
      /\ e.gp = Add(n, 16, ESP, -6).gp
      /\ ReadRam(e, 16, At(n, -2)) = n.fl % M16
      /\ ReadRam(e, 16, At(n, -4)) = n.sel["CS"]
      /\ ReadRam(e, 16, At(n, -6)) = n.ip % M16
  BY InterruptSaves
<1>. HIDE DEF e
<1>2. /\ v.gp = e.gp /\ v.ram = e.ram /\ v.cr = n.cr /\ v.a20 = n.a20
      /\ v.fault = n.fault /\ v.fl = n.fl /\ v.ip \div M16 = n.ip \div M16
      /\ \A s \in Sreg \ {"CS"} : v.sel[s] = n.sel[s]
  <2>1. e = Saving(n) /\ v = ThroughVector(n, q)
    BY DEF e
  <2>. HIDE DEF v
  <2>. QED BY ONLY <1>1, <2>1, n \in Machine, Real(n), q.id \in Int, VectorEntered
<1>. HIDE DEF v
<1>3. /\ o.gp = e.gp /\ o.cr = n.cr /\ o.a20 = n.a20 /\ o.fault = n.fault
      /\ o.ip \div M16 = n.ip \div M16 /\ o.fl \div M16 = n.fl \div M16
      /\ \A s \in Sreg \ {"CS"} : o.sel[s] = n.sel[s]
  <2>1. Kept(o, v)
    BY DEF Handled, v
  <2>. QED BY <1>2, <2>1 DEF Kept
<1>4. \A k \in Saved : ReadRam(o, 16, At(n, k)) = ReadRam(e, 16, At(n, k))
  BY <1>2 DEF Handled, ReadRam, v
<1>5. Real(o)
  BY <1>3 DEF Real, Protected, Paged, Faulted
<1>6. At(o, 0) = At(n, -6) /\ At(o, 2) = At(n, -4) /\ At(o, 4) = At(n, -2)
  <2>1. PICK x : x = Add(n, 16, ESP, -6)
    OBVIOUS
  <2>2. -6 \in Int /\ 0 \in Int /\ 2 \in Int /\ 4 \in Int
        /\ -6 + 0 = -6 /\ -6 + 2 = -4 /\ -6 + 4 = -2
    OBVIOUS
  <2>3. Changes(x, n, {"gp"}) /\ \A j \in Int : At(x, j) = At(n, -6 + j)
    BY ONLY <2>1, <2>2, n \in Machine, SpMoved
  <2>4. x.gp = o.gp /\ x.sel["SS"] = o.sel["SS"] /\ x.a20 = o.a20
    BY <1>1, <1>3, <2>1, <2>3 DEF Changes, Fields, Sreg
  <2>5. \A j : At(x, j) = At(o, j)
    BY <2>4 DEF At, Sp
  <2>. QED BY ONLY <2>2, <2>3, <2>5
<1>7. /\ p.m \in Machine /\ Real(p.m) /\ Changes(p.m, o, {"gp"})
      /\ p.m.gp = Add(o, 16, ESP, 6).gp
      /\ p.words[1] = n.ip % M16 /\ p.words[2] = n.sel["CS"] /\ p.words[3] = n.fl % M16
  <2>1. -2 \in Saved /\ -4 \in Saved /\ -6 \in Saved
    BY DEF Saved
  <2>2. /\ p.m \in Machine /\ Real(p.m) /\ Changes(p.m, o, {"gp"})
        /\ p.m.gp = Add(o, 16, ESP, 6).gp
        /\ p.words[1] = ReadRam(o, 16, At(n, -6)) /\ p.words[2] = ReadRam(o, 16, At(n, -4))
        /\ p.words[3] = ReadRam(o, 16, At(n, -2))
    BY <1>5, <1>6, ThreePopped
  <2>. HIDE DEF p
  <2>. QED BY <1>1, <1>4, <2>1, <2>2
<1>. HIDE DEF p
<1>8. p.m.gp = n.gp
  <2>1. -6 \in Int /\ 6 \in Int /\ -6 + 6 = 0
    OBVIOUS
  <2>2. Add(o, 16, ESP, 6).gp = Add(n, 16, ESP, 0).gp
    BY ONLY <1>1, <1>3, <2>1, n \in Machine, o \in Machine, MovedOn
  <2>. QED BY <1>7, <2>2, NotMoved
<1>9. p.m.ip = o.ip /\ p.m.fl = o.fl /\ p.m.sel = o.sel /\ DOMAIN p.m = Fields
  BY <1>7 DEF Changes, Fields
<1>10. Mod(16) = M16
  BY DEF Mod
<1> DEFINE u == [Jump(p.m, 16, p.words[1]) EXCEPT !.fl = @ - (@ % M16) + p.words[3]]
<1>11. /\ Changes(u, p.m, {"ip", "fl"})
       /\ u.ip = o.ip - (o.ip % M16) + ((n.ip % M16) % M16)
       /\ u.fl = o.fl - (o.fl % M16) + (n.fl % M16)
  BY <1>7, <1>9, <1>10 DEF Jump, Changes, Fields
<1>12. u.ip = n.ip /\ u.fl = n.fl
  <2>1. (n.ip % M16) % M16 = n.ip % M16
    BY Parts, WordBounds, Sizes
  <2>2. o.ip - (o.ip % M16) + (n.ip % M16) = n.ip /\ o.fl - (o.fl % M16) + (n.fl % M16) = n.fl
    BY <1>3, Parts, Halves
  <2>. QED BY <1>11, <2>1, <2>2
<1>13. Popped(p, 16) = u
  BY <1>10 DEF Popped
<1>. HIDE DEF u
<1> DEFINE cs == p.words[2] % M16
<1>14. cs = n.sel["CS"] /\ n.sel["CS"] \in Word(16)
  <2>1. n.sel["CS"] \in Word(16)
    BY SelectorType DEF Sreg
  <2>2. n.sel["CS"] % M16 = n.sel["CS"]
    BY <2>1, WordBounds, Sizes
  <2>. QED BY <1>7, <2>1, <2>2
<1>. HIDE DEF cs
<1>15. iret(p, 16) = set_segment(u, "CS", cs)
  BY <1>13 DEF iret, ReturnIn, cs
<1>16. u \in Machine /\ Real(u)
  <2>1. u.ip \in Word(32) /\ u.fl \in Word(32)
    BY <1>12, Parts
  <2>2. u = [[p.m EXCEPT !.ip = u.ip] EXCEPT !.fl = u.fl]
    BY <1>9, <1>11 DEF Changes, Fields, u
  <2>3. u \in Machine
    BY <1>7, <2>1, <2>2 DEF Machine
  <2>4. Real(u)
    BY <1>7, <1>9, <1>11 DEF Changes, Fields, Real, Protected, Paged, Faulted
  <2>. QED BY <2>3, <2>4
<1> DEFINE back == set_segment(u, "CS", cs)
<1>17. Changes(back, u, {"sel", "cache"}) /\ back.sel = [u.sel EXCEPT !["CS"] = cs]
  <2>1. "CS" \in Sreg /\ cs \in Word(16) /\ ~Protected(u) /\ u \in Machine
    BY <1>14, <1>16 DEF Sreg, Real
  <2>. QED BY ONLY <2>1, RealSegment
<1>. HIDE DEF back
<1>18. back.gp = n.gp /\ back.ip = n.ip /\ back.fl = n.fl /\ back.fault = u.fault /\ u.sel = o.sel
  BY <1>8, <1>9, <1>11, <1>12, <1>17 DEF Changes, Fields
<1>19. back.sel = n.sel
  <2>1. n.sel \in [Sreg -> Word(16)] /\ o.sel \in [Sreg -> Word(16)]
    BY Parts
  <2>. QED BY <1>3, <1>14, <1>17, <1>18, <2>1
<1>20. Context(back) = Context(n) /\ ~Faulted(back)
  BY <1>16, <1>18, <1>19 DEF Context, Real, Faulted
<1>. QED BY <1>15, <1>20 DEF back, p
=============================================================================
