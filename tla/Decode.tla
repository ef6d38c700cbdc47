--------------------------------- MODULE Decode ---------------------------------
(***************************************************************************)
(* The decoder (instr_decoder.cpp) and the tables of opcodes it consults   *)
(* (setup.cpp).  It works on d, a machine and the instruction decoded so   *)
(* far, and reads code where eip points.                                   *)
(*                                                                         *)
(* A row stands for the opcodes whose handlers differ only in what the     *)
(* opcode itself says: the register in its lower three bits, the operation *)
(* in its upper five, the condition in its lower four.  Tables of 16 and   *)
(* 32 bits that say the same of an opcode are one, with the size of the    *)
(* operands taken from the mode.                                           *)
(***************************************************************************)
EXTENDS Memory

Row(ops, h, chk) == [ops |-> ops, h |-> h, chk |-> chk]

setup_common == {
  Row({8 * k : k \in {0, 1, 4, 5, 6, 7}}, "alu_rm_r", {"modrm"}),
  Row({8 * k + 2 : k \in {0, 1, 4, 5, 6, 7}}, "alu_r_rm", {"modrm"}),
  Row({8 * k + 4 : k \in {0, 1, 4, 5, 6, 7}}, "alu_ax_imm", {"imm8"}),
  Row(\h70..\h7f, "jcc_rel8", {"imm8"}),
  Row({\h84}, "test_rm_r", {"modrm"}),
  Row({\h86}, "xchg_r_rm", {"modrm"}),
  Row({\h88}, "mov_rm_r", {"modrm"}),
  Row({\h8a}, "mov_r_rm", {"modrm"}),
  Row({\h8e}, "mov_sreg_rm16", {"modrm"}),
  Row({\h90}, "nop", {}),
  Row({\ha0}, "mov_ax_moffs", {"moffs"}),
  Row({\ha2}, "mov_moffs_ax", {"moffs"}),
  Row({\ha8}, "test_ax_imm", {"imm8"}),
  Row(\hb0..\hb7, "mov_r_imm", {"imm8"}),
  Row({\hc6}, "mov_rm_imm", {"modrm", "imm8"}),
  Row({\hcb}, "retf", {}),
  Row({\hcc}, "int3", {}),
  Row({\hcd}, "int_imm8", {"imm8"}),
  Row({\hcf}, "iret", {}),
  Row({\he4}, "in_ax_imm8", {"imm8"}),
  Row({\he6}, "out_imm8_ax", {"imm8"}),
  Row({\heb}, "jmp", {"imm8"}),
  Row({\hec}, "in_ax_dx", {}),
  Row({\hee}, "out_dx_ax", {}),
  Row({\hf4}, "hlt", {}),
  Row({\hfa}, "cli", {}),
  Row({\hfb}, "sti", {}),
  Row({\hfc}, "cld", {}),
  Row({\hfd}, "std", {}),
  Row({\h0f20}, "mov_r32_crn", {"modrm"}),
  Row({\h0f22}, "mov_crn_r32", {"modrm"}),
  Row(\h0f90..\h0f9f, "setcc_rm8", {"modrm"}),
  Row({\h80, \h82}, "code_alu", {"modrm", "imm8"}),
  Row({\hc0}, "code_shift", {"modrm", "imm8"}),
  Row({\hf6}, "code_f7", {"modrm"})}

\* Rows of both modes; "imm" is an immediate of the mode's size.  An exchange
\* with ax is declared to have one, which nothing encodes.
setup_both == {
  Row({8 * k + 1 : k \in {0, 1, 4, 5, 6, 7}}, "alu_rm_r", {"modrm"}),
  Row({8 * k + 3 : k \in {0, 1, 4, 5, 6, 7}}, "alu_r_rm", {"modrm"}),
  Row({8 * k + 5 : k \in {0, 1, 4, 5, 6, 7}}, "alu_ax_imm", {"imm"}),
  Row({\h06, \h16, \h1e}, "push_sreg", {}),
  Row({\h07, \h17, \h1f}, "pop_sreg", {}),
  Row(\h40..\h47, "inc_r", {}),
  Row(\h48..\h4f, "dec_r", {}),
  Row(\h50..\h57, "push_r", {}),
  Row(\h58..\h5f, "pop_r", {}),
  Row({\h60}, "pusha", {}),
  Row({\h61}, "popa", {}),
  Row({\h68}, "push_imm", {"imm"}),
  Row({\h69}, "imul_r_rm_imm", {"modrm", "imm"}),
  Row({\h6a}, "push_imm", {"imm8"}),
  Row({\h6b}, "imul_r_rm_imm", {"modrm", "imm8"}),
  Row({\h85}, "test_rm_r", {"modrm"}),
  Row({\h87}, "xchg_r_rm", {"modrm"}),
  Row({\h89}, "mov_rm_r", {"modrm"}),
  Row({\h8b}, "mov_r_rm", {"modrm"}),
  Row({\h8c}, "mov_rm_sreg", {"modrm"}),
  Row({\h8d}, "lea_r_m", {"modrm"}),
  Row(\h91..\h97, "xchg_r_ax", {"imm"}),
  Row({\h98}, "cbw", {}),
  Row({\h99}, "cwd", {}),
  Row({\h9a}, "callf_ptr16", {"ptr16", "imm"}),
  Row({\h9c}, "pushf", {}),
  Row({\h9d}, "popf", {}),
  Row({\ha1}, "mov_ax_moffs", {"moffs"}),
  Row({\ha3}, "mov_moffs_ax", {"moffs"}),
  Row({\ha6}, "cmps8", {}),
  Row({\ha7}, "cmps", {}),
  Row({\ha9}, "test_ax_imm", {"imm"}),
  Row(\hb8..\hbf, "mov_r_imm", {"imm"}),
  Row({\hc3}, "ret", {}),
  Row({\hc7}, "mov_rm_imm", {"modrm", "imm"}),
  Row({\hc9}, "leave", {}),
  Row({\he5}, "in_ax_imm8", {"imm8"}),
  Row({\he7}, "out_imm8_ax", {"imm8"}),
  Row({\he8}, "call_rel", {"imm"}),
  Row({\he9}, "jmp_rel", {"imm"}),
  Row({\hea}, "jmpf_ptr16", {"ptr16", "imm"}),
  Row({\hed}, "in_ax_dx", {}),
  Row({\hef}, "out_dx_ax", {}),
  Row(\h0f80..\h0f8f, "jcc_rel", {"imm"}),
  Row({\h0faf}, "imul_r_rm", {"modrm"}),
  Row({\h0fb6}, "movzx_r_rm8", {"modrm"}),
  Row({\h0fb7}, "movzx_r_rm16", {"modrm"}),
  Row({\h0fbe}, "movsx_r_rm8", {"modrm"}),
  Row({\h0fbf}, "movsx_r_rm16", {"modrm"}),
  Row({\h81}, "code_alu", {"modrm", "imm"}),
  Row({\h83}, "code_alu", {"modrm", "imm8"}),
  Row({\hc1}, "code_shift", {"modrm", "imm8"}),
  Row({\hd3}, "code_shift_cl", {"modrm"}),
  Row({\hf7}, "code_f7", {"modrm"}),
  Row({\hff}, "code_ff", {"modrm"}),
  Row({\h0f00}, "code_0f00", {"modrm"}),
  Row({\h0f01}, "code_0f01", {"modrm"})}

setup16 == setup_both \cup {
  Row({\h11}, "adc_rm_r", {"modrm"}),
  Row({\ha5}, "movsw", {}),
  Row({\hac}, "lodsb", {})}

setup32 == setup_both

TableFor(rows) ==
  [o \in UNION {r.ops : r \in rows} |-> CHOOSE r \in rows : o \in r.ops]

CommonTable == TableFor(setup_common)
Table16 == TableFor(setup16)
Table32 == TableFor(setup32)

-----------------------------------------------------------------------------
(* The instruction.  Before its bytes are read all of it is zero, the      *)
(* segment for operands in memory included, and zero is ES.                *)

Blank == [h |-> "none", bits |-> 8, op |-> 0, rep |-> "none", seg |-> "none",
          oov |-> FALSE, aov |-> FALSE,
          mod |-> 0, reg |-> 0, rm |-> 0, base |-> 0, index |-> 0, scale |-> 0,
          disp |-> 0, imm |-> 0, ptr16 |-> 0, moffs |-> 0]

\* get_is_mode32, and its exclusive or with get_is_addr_override: the operand
\* prefix is in both and cancels out.
OperandSize(m, i) == IF Mode32(m) # i.oov THEN 32 ELSE 16
AddressSize(m, i) == IF Mode32(m) # i.aov THEN 32 ELSE 16

Code(m, bits) == Read(m, bits, "CS", m.ip)
AfterCode(m, bytes) == [Access(m, "exec", "CS", m.ip) EXCEPT !.ip = (@ + bytes) % M32]

\* Reads a field of the instruction of so many bits and moves over its bytes.
Field(d, f, bits) ==
  [m |-> AfterCode(d.m, bits \div 8), i |-> [d.i EXCEPT ![f] = Code(d.m, bits)]]
SignedField(d, f, bits) ==
  [m |-> AfterCode(d.m, bits \div 8),
   i |-> [d.i EXCEPT ![f] = SignedWord(bits, Code(d.m, bits))]]

\* The prefix of CS falls through to that of SS.
Prefix(i, b) ==
  CASE b = \h26 -> [i EXCEPT !.seg = "ES"]
    [] b \in {\h2e, \h36} -> [i EXCEPT !.seg = "SS"]
    [] b = \h3e -> [i EXCEPT !.seg = "DS"]
    [] b = \h64 -> [i EXCEPT !.seg = "FS"]
    [] b = \h65 -> [i EXCEPT !.seg = "GS"]
    [] b = \h66 -> [i EXCEPT !.oov = TRUE]
    [] b = \h67 -> [i EXCEPT !.aov = TRUE]
    [] b = \hf2 -> [i EXCEPT !.rep = "REPNZ"]
    [] b = \hf3 -> [i EXCEPT !.rep = "REPZ"]
    [] b = \hf0 -> i

PrefixCodes == {\h26, \h2e, \h36, \h3e, \h64, \h65, \h66, \h67, \hf2, \hf3, \hf0}

Escaped(d) == [d EXCEPT !.i.op = \h0f * 256 + @]
AfterFirst(d) == IF d.i.op = \h0f THEN Escaped(Field(d, "op", 8)) ELSE d
decode_opcode(d) == AfterFirst(Field(d, "op", 8))

\* A ModR/M byte, a scale-index-base byte, and a displacement.
SplitModrm(d) ==
  LET b == d.i.mod IN
  [m |-> d.m, i |-> [d.i EXCEPT !.mod = b \div 64, !.reg = (b \div 8) % 8, !.rm = b % 8]]
SplitSib(d) ==
  LET b == d.i.base IN
  [m |-> d.m, i |-> [d.i EXCEPT !.scale = b \div 64, !.index = (b \div 8) % 8, !.base = b % 8]]

WithSib(d) ==
  IF AddressSize(d.m, d.i) = 32 /\ d.i.mod # 3 /\ d.i.rm = 4
  THEN SplitSib(Field(d, "base", 8)) ELSE d

\* How many bits a displacement has.
DispBits32(i) ==
  CASE i.mod = 2 \/ (i.mod = 0 /\ (i.rm = 5 \/ i.base = 5)) -> 32
    [] i.mod = 1 -> 8
    [] OTHER -> 0

\* Slip: four bytes are read, and four are passed over.
DispBits16Long(i) ==
  CASE (i.mod = 0 /\ i.rm = 6) \/ i.mod = 2 -> 32
    [] i.mod = 1 -> 8
    [] OTHER -> 0

DispBits16(i) ==
  CASE (i.mod = 0 /\ i.rm = 6) \/ i.mod = 2 -> 16
    [] i.mod = 1 -> 8
    [] OTHER -> 0

WithDisp(d) ==
  LET bits == IF AddressSize(d.m, d.i) = 32 THEN DispBits32(d.i) ELSE DispBits16(d.i) IN
  IF bits = 0 THEN d ELSE SignedField(d, "disp", bits)

decode_modrm_sib_disp(d) == WithDisp(WithSib(SplitModrm(Field(d, "mod", 8))))

decode_moffs(d) == Field(d, "moffs", AddressSize(d.m, d.i))

\* The opcode's row, if it has one; a byte operand is what the common table's
\* opcodes have.
HasRow(m, i) ==
  i.op \in DOMAIN CommonTable \cup
    (IF OperandSize(m, i) = 32 THEN DOMAIN Table32 ELSE DOMAIN Table16)

RowOf(m, i) ==
  CASE i.op \in DOMAIN CommonTable -> CommonTable[i.op]
    [] i.op \notin DOMAIN CommonTable /\ OperandSize(m, i) = 32 -> Table32[i.op]
    [] OTHER -> Table16[i.op]

BitsOf(m, i) == IF i.op \in DOMAIN CommonTable THEN 8 ELSE OperandSize(m, i)

\* The rest of an instruction, in the order of the bytes.
WithModrm(d, chk) == IF "modrm" \in chk THEN decode_modrm_sib_disp(d) ELSE d
WithImm(d, chk) ==
  IF chk \cap {"imm", "imm8"} = {} THEN d
  ELSE SignedField(d, "imm", IF "imm" \in chk THEN d.i.bits ELSE 8)
WithPtr16(d, chk) == IF "ptr16" \in chk THEN Field(d, "ptr16", 16) ELSE d
WithMoffs(d, chk) == IF "moffs" \in chk THEN decode_moffs(d) ELSE d
Operands(d, chk) == WithMoffs(WithPtr16(WithImm(WithModrm(d, chk), chk), chk), chk)

DecodeRow(d, r) ==
  Operands([m |-> d.m, i |-> [d.i EXCEPT !.h = r.h, !.bits = BitsOf(d.m, d.i)]], r.chk)
AfterOpcode(d) ==
  IF HasRow(d.m, d.i) THEN DecodeRow(d, RowOf(d.m, d.i))
  ELSE [d EXCEPT !.m = Raise(@, "opcode")]

\* decode, after the prefixes.
decode(m, i) == AfterOpcode(decode_opcode([m |-> m, i |-> i]))
================================================================================
