--------------------------------- MODULE Memory ---------------------------------
(***************************************************************************)
(* The processor's registers and the way from a segment and an offset to a *)
(* byte of RAM (cpu_i386.cpp, paging_system.cpp, ram.hpp, registers.cpp).  *)
(* The operators take the machine m, a record, and return the machine      *)
(* after the access.  The first exception stays in m.fault: it ends the    *)
(* emulator, so nothing done after it matters.                             *)
(*                                                                         *)
(* A word of 32 bits keeps its lower 24: its bytes in RAM are four, the    *)
(* last one unused, and negative numbers wrap as they do in 32.  PG, bit   *)
(* 31 of cr0, is bit 23.  A page has PageSize bytes and a table TableLen   *)
(* entries; an access is translated by the address of its first byte.      *)
(* No guest reaches the adapter's memory (see Display).                    *)
(***************************************************************************)
EXTENDS Integers, Sequences

CONSTANTS RamSize, PageSize, TableLen

ASSUME SizeAssumption ==
  /\ RamSize \in Nat \ {0} /\ PageSize \in Nat \ {0} /\ TableLen \in Nat \ {0}
  /\ PageSize % 8 = 0      \* the flags of an entry have room below the page

M16 == 65536
M20 == 1048576
M32 == 16777216

Mod(bits) == CASE bits = 8 -> 256 [] bits = 16 -> M16 [] bits = 32 -> M32
Word(bits) == 0..(Mod(bits) - 1)
Has(v, i) == (v \div 2^i) % 2 = 1
SignedWord(bits, v) == IF v < Mod(bits) \div 2 THEN v ELSE v - Mod(bits)

Raise(m, e) == IF m.fault = "none" THEN [m EXCEPT !.fault = e] ELSE m
Faulted(m) == m.fault # "none"

-----------------------------------------------------------------------------
(* RAM.  Accesses of any size are checked as if they had four bytes.       *)

InRange(a, n) == a >= 0 /\ a + n <= RamSize

ReadRam(m, bits, a) ==
  IF ~InRange(a, 4) THEN 0
  ELSE CASE bits = 8 -> m.ram[a]
         [] bits = 16 -> m.ram[a] + 256 * m.ram[a + 1]
         [] bits = 32 -> m.ram[a] + 256 * m.ram[a + 1] + M16 * m.ram[a + 2]

\* The k-th byte of a word, which may be negative.
ByteOf(v, k) == CASE k = 0 -> v % 256
                  [] k = 1 -> (v \div 256) % 256
                  [] k = 2 -> (v \div M16) % 256
                  [] k = 3 -> (v \div M32) % 256

WriteRam(m, bits, a, v) ==
  IF ~InRange(a, 4) THEN m
  ELSE [m EXCEPT !.ram = [b \in DOMAIN @ |-> IF b \in a..(a + bits \div 8 - 1)
                                             THEN ByteOf(v, b - a) ELSE @[b]]]

-----------------------------------------------------------------------------
(* The general registers: 32 bits, their lower 16, and the two bytes of    *)
(* those for the first four.                                               *)

Gp == 0..7
EAX == 0
ECX == 1
EDX == 2
EBX == 3
ESP == 4
EBP == 5
ESI == 6
EDI == 7

Get(m, bits, n) ==
  CASE bits = 32 -> m.gp[n]
    [] bits = 16 -> m.gp[n] % M16
    [] bits = 8 -> IF n < 4 THEN m.gp[n] % 256 ELSE (m.gp[n - 4] \div 256) % 256

\* Slip: a negative immediate carries out of the upper byte of a register.
PutUncut(m, bits, n, v) ==
  CASE bits = 32 -> [m EXCEPT !.gp[n] = v % M32]
    [] bits = 16 -> [m EXCEPT !.gp[n] = @ - (@ % M16) + (v % M16)]
    [] bits = 8 /\ n < 4 -> [m EXCEPT !.gp[n] = @ - (@ % 256) + (v % 256)]
    [] bits = 8 /\ n >= 4 -> [m EXCEPT !.gp[n - 4] = @ - (@ % M16) + v * 256 + (@ % 256)]

Put(m, bits, n, v) ==
  CASE bits = 32 -> [m EXCEPT !.gp[n] = v % M32]
    [] bits = 16 -> [m EXCEPT !.gp[n] = @ - (@ % M16) + (v % M16)]
    [] bits = 8 /\ n < 4 -> [m EXCEPT !.gp[n] = @ - (@ % 256) + (v % 256)]
    [] bits = 8 /\ n >= 4 ->
         [m EXCEPT !.gp[n - 4] = @ - (@ % M16) + (v % 256) * 256 + (@ % 256)]

Add(m, bits, n, v) == Put(m, bits, n, Get(m, bits, n) + v)

-----------------------------------------------------------------------------
(* Segments.                                                               *)

SegReg == <<"ES", "CS", "SS", "DS", "FS", "GS">>
Sreg == {"ES", "CS", "SS", "DS", "FS", "GS"}
Table == {"GDTR", "IDTR", "LDTR", "TR"}

Cpl(m) == m.sel["CS"] % 4
Protected(m) == Has(m.cr[0], 0)
Paged(m) == Has(m.cr[0], 23)
Mode32(m) == m.cache["CS"].db

\* The eight bytes of a descriptor in RAM.
Descriptor(m, a) ==
  [base |-> ReadRam(m, 16, a + 2) + M16 * ReadRam(m, 8, a + 4),
   limit |-> ReadRam(m, 16, a) + M16 * (m.ram[a + 6] % 16),
   acc |-> m.ram[a + 5],
   db |-> Has(m.ram[a + 6], 6),
   g |-> Has(m.ram[a + 6], 7)]

DescriptorAt(sel) == (sel \div 8) * 8
TableOf(sel) == IF Has(sel, 2) THEN "LDTR" ELSE "GDTR"

\* In real mode the rest of the cache keeps what it had.
set_segment(m, r, sel) ==
  LET t == m.dt[TableOf(sel)]
      at == DescriptorAt(sel)
      no == (r \in {"CS", "SS"} /\ at = 0) \/ at > t.limit
  IN CASE ~Protected(m) -> [m EXCEPT !.sel[r] = sel, !.cache[r].base = 16 * sel]
       [] Protected(m) /\ no -> Raise(m, "GP")
       [] Protected(m) /\ ~no /\ ~InRange(t.base + at, 8) -> Raise(m, "assert")
       [] Protected(m) /\ ~no /\ InRange(t.base + at, 8) ->
            [m EXCEPT !.sel[r] = sel, !.cache[r] = Descriptor(m, t.base + at)]

\* A descriptor's access byte: execute, write or read, expand down or conform.
IsCode(c) == Has(c.acc, 3)
Allows(c) == Has(c.acc, 1)
Down(c) == Has(c.acc, 2)
Dpl(c) == (c.acc \div 32) % 4
Limit(c) == IF c.g THEN (c.limit * 4096) % M32 ELSE c.limit

SegmentRefuses(m, mode, s, v) ==
  LET c == m.cache[s] IN
  \/ IsCode(c) /\ \/ mode = "write"
                  \/ mode = "read" /\ ~Allows(c)
                  \/ Cpl(m) > Dpl(c) /\ ~(mode = "exec" /\ Down(c))
  \/ ~IsCode(c) /\ \/ mode = "exec"
                   \/ mode = "write" /\ ~Allows(c)
                   \/ Cpl(m) > Dpl(c)
  \/ v > Limit(c)

Linear(m, s, v) ==
  LET c == m.cache[s] IN
  IF Protected(m)
  THEN (c.base - (IF ~IsCode(c) /\ Down(c) THEN Limit(c) ELSE 0) + v) % M32
  ELSE (16 * m.sel[s] + v) % M32

-----------------------------------------------------------------------------
(* Paging.  The walk's table entry is cached by page for ever, also when   *)
(* it is not present; the directory entry is looked at only then.          *)

Page(a) == a \div PageSize
FrameAt(entry) == Page(entry) * PageSize

DirectoryEntry(m, a) == ReadRam(m, 32, FrameAt(m.cr[3]) + 4 * (Page(a) \div TableLen))
TableEntry(m, a) ==
  ReadRam(m, 32, FrameAt(DirectoryEntry(m, a)) + 4 * (Page(a) % TableLen))

Cached(m, a) == Page(a) \in DOMAIN m.tlb
search_cached_page(m, a) == IF Cached(m, a) THEN m.tlb[Page(a)] ELSE TableEntry(m, a)

\* Slip: there is room for one page.
CachePageAlone(m, a) == [m EXCEPT !.tlb = [p \in {Page(a)} |-> TableEntry(m, a)]]

\* Slip: cached by the index in the table.
CachePageByIndex(m, a) ==
  [m EXCEPT !.tlb = [p \in DOMAIN @ \cup {Page(a) % TableLen} |->
                      IF p = Page(a) % TableLen THEN TableEntry(m, a) ELSE @[p]]]

cache_page(m, a) ==
  [m EXCEPT !.tlb = [p \in DOMAIN @ \cup {Page(a)} |->
                      IF p = Page(a) THEN TableEntry(m, a) ELSE @[p]]]

\* Present, writable, for ring 3.
EntryRefuses(m, mode, e) ==
  \/ ~Has(e, 0)
  \/ ~Has(e, 1) /\ mode = "write"
  \/ ~Has(e, 2) /\ Cpl(m) > 2

PageFaultIf(refused, m, a) == IF refused THEN Raise([m EXCEPT !.cr[2] = a], "PF") ELSE m
UseCached(m, mode, a) == PageFaultIf(EntryRefuses(m, mode, search_cached_page(m, a)), m, a)

translate_addr(m, mode, a) ==
  CASE ~Protected(m) -> Raise(m, "GP")
    [] Protected(m) /\ ~Cached(m, a) /\ EntryRefuses(m, mode, DirectoryEntry(m, a)) ->
         PageFaultIf(TRUE, m, a)
    [] OTHER -> UseCached(IF Cached(m, a) THEN m ELSE cache_page(m, a), mode, a)

\* trans_v2p: the checks and the caching of an access, and its address.
Access(m, mode, s, v) ==
  CASE Faulted(m) -> m
    [] ~Faulted(m) /\ Protected(m) /\ SegmentRefuses(m, mode, s, v) -> Raise(m, "GP")
    [] OTHER -> IF Paged(m) THEN translate_addr(m, mode, Linear(m, s, v)) ELSE m

Physical(m, s, v) ==
  LET a == Linear(m, s, v)
      p == IF Paged(m) THEN FrameAt(search_cached_page(m, a)) + (a % PageSize) ELSE a
  IN IF m.a20 THEN p ELSE p % M20

-----------------------------------------------------------------------------
(* Memory as instructions see it: what a read finds, the machine after it, *)
(* and the machine after a write.                                          *)

Read(m, bits, s, v) == ReadRam(m, bits, Physical(m, s, v))
AfterRead(m, s, v) == Access(m, "read", s, v)

Store(m, bits, s, v, x) ==
  IF Faulted(m) THEN m ELSE WriteRam(m, bits, Physical(m, s, v), x)
Write(m, bits, s, v, x) == Store(Access(m, "write", s, v), bits, s, v, x)

\* push32 and push16: the pointer of that size moves, then memory is written.
WriteTop(m, bits, x) == Write(m, bits, "SS", Get(m, bits, ESP), x)
Push(m, bits, x) == WriteTop(Add(m, bits, ESP, -(bits \div 8)), bits, x)

Top(m, bits) == Read(m, bits, "SS", Get(m, bits, ESP))
Drop(m, bits) == Add(AfterRead(m, "SS", Get(m, bits, ESP)), bits, ESP, bits \div 8)

\* Pop into a register, and the machine after several with the words popped.
PopTo(m, bits, n) == Put(Drop(m, bits), bits, n, Top(m, bits))
Pop(p, bits) == [m |-> Drop(p.m, bits), words |-> Append(p.words, Top(p.m, bits))]
Pop1(m, bits) == Pop([m |-> m, words |-> <<>>], bits)
Pop2(m, bits) == Pop(Pop1(m, bits), bits)
Pop3(m, bits) == Pop(Pop2(m, bits), bits)
================================================================================
