------------------------------ MODULE MemoryProofs ------------------------------
(***************************************************************************)
(* What a push leaves, a pop of the same size finds, in real and protected *)
(* mode, with and without paging; and what an access does to the cached    *)
(* translations.                                                           *)
(***************************************************************************)
EXTENDS Memory, TLAPS

(* The type of the machine of Memory: words of 8, 16 and 32 bits, any set *)
(* of pages cached.                                                        *)
Exceptions == {"none", "GP", "PF", "TS", "NP", "opcode", "assert", "crash"}
Translations == UNION {[P -> Word(32)] : P \in SUBSET Nat}
Limits == 0..(M20 - 1)
SegmentCache == [base : Word(32), limit : Limits, acc : Word(8), db : BOOLEAN, g : BOOLEAN]
Machine == [gp : [Gp -> Word(32)], ip : Word(32), fl : Word(32),
            sel : [Sreg -> Word(16)], cache : [Sreg -> SegmentCache],
            dt : [Table -> [sel : Word(16), base : Word(32), limit : Word(16)]],
            cr : [0..4 -> Word(32)], tlb : Translations,
            a20 : BOOLEAN, ram : [0..(RamSize - 1) -> Word(8)],
            halt : BOOLEAN, fault : Exceptions]

Fields == {"gp", "ip", "fl", "sel", "cache", "dt", "cr", "tlb", "a20", "ram", "halt", "fault"}

\* n differs from m in these fields at most.
Changes(n, m, fields) == DOMAIN n = Fields /\ \A f \in Fields \ fields : n[f] = m[f]

-----------------------------------------------------------------------------
(* Words and bytes.                                                        *)

\* A word is the sum of its bytes.
LEMMA Bytes ==
  ASSUME NEW v \in Int
  PROVE  /\ (v % 256) + 256 * ((v \div 256) % 256) = v % M16
         /\ (v % 256) + 256 * ((v \div 256) % 256) + M16 * ((v \div M16) % 256) = v % M32
BY DEF M16, M32

\* RAM gives back what was written, cut to its size.
LEMMA RamHolds ==
  ASSUME NEW m, "ram" \in DOMAIN m, DOMAIN m.ram = 0..(RamSize - 1),
         NEW bits \in {8, 16, 32}, NEW a \in Int, NEW v \in Int, InRange(a, 4)
  PROVE  ReadRam(WriteRam(m, bits, a, v), bits, a) = v % Mod(bits)
<1> DEFINE n == WriteRam(m, bits, a, v)
<1>1. /\ a \in Int /\ a >= 0 /\ a + 4 <= RamSize
      /\ RamSize \in Nat
  BY SizeAssumption DEF InRange
<1>2. DOMAIN m.ram = 0..(RamSize - 1)
  OBVIOUS
<1>3. n.ram = [b \in DOMAIN m.ram |-> IF b \in a..(a + bits \div 8 - 1)
                                      THEN ByteOf(v, b - a) ELSE m.ram[b]]
  BY DEF WriteRam
<1>4. \A k \in 0..3 : k < bits \div 8 => n.ram[a + k] = ByteOf(v, k)
  <2>1. TAKE k \in 0..3
  <2>2. HAVE k < bits \div 8
  <2>3. a + k \in DOMAIN m.ram /\ a + k \in a..(a + bits \div 8 - 1) /\ (a + k) - a = k
    BY <1>1, <1>2, <2>2
  <2>. QED BY <1>3, <2>3
<1>5. CASE bits = 8
  <2>1. n.ram[a] = ByteOf(v, 0)
    BY <1>1, <1>4, <1>5
  <2>. QED BY <2>1, <1>5 DEF ReadRam, Mod, ByteOf
<1>6. CASE bits = 16
  <2>1. n.ram[a] = ByteOf(v, 0) /\ n.ram[a + 1] = ByteOf(v, 1)
    BY <1>1, <1>4, <1>6
  <2>. QED BY <2>1, <1>6, Bytes DEF ReadRam, Mod, ByteOf
<1>7. CASE bits = 32
  <2>1. n.ram[a] = ByteOf(v, 0) /\ n.ram[a + 1] = ByteOf(v, 1) /\ n.ram[a + 2] = ByteOf(v, 2)
    BY <1>1, <1>4, <1>7
  <2>. QED BY <2>1, <1>7, Bytes DEF ReadRam, Mod, ByteOf
<1>. QED BY <1>5, <1>6, <1>7

-----------------------------------------------------------------------------
(* The registers.                                                          *)

LEMMA Sizes == M16 \in Nat /\ M32 \in Nat /\ M16 = 65536 /\ M32 = 16777216
BY DEF M16, M32

\* Word(32) without its interval, which the provers would enumerate.
LEMMA Widths == \A v : v \in Word(32) <=> v \in Int /\ 0 <= v /\ v < M32
<1>1. M32 \in Nat
  BY Sizes
<1>2. Word(32) = 0..(M32 - 1)
  BY DEF Word, Mod
<1>3. \A v : v \in 0..(M32 - 1) <=> v \in Int /\ 0 <= v /\ v < M32
  BY <1>1
<1>. QED BY <1>2, <1>3

\* A pointer of 32 bits wraps and comes back.
LEMMA Pointer ==
  ASSUME NEW v \in Word(32), NEW k \in Int
  PROVE  /\ (((v + k) % M32) - k) % M32 = v
         /\ (v + k) % M32 \in Word(32)
<1>1. v \in Int /\ 0 <= v /\ v < 16777216 /\ M32 = 16777216
  BY Widths, Sizes
<1>2. /\ (((v + k) % 16777216) - k) % 16777216 = v
      /\ 0 <= (v + k) % 16777216 /\ (v + k) % 16777216 < 16777216
  BY <1>1
<1>. QED BY <1>1, <1>2, Widths, Sizes

\* So do the lower 16 bits alone, and the upper ones stay as they are.
LEMMA LowerPointer ==
  ASSUME NEW v \in Word(32), NEW k \in Int,
         NEW w, w = v - (v % M16) + (((v % M16) + k) % M16)
  PROVE  /\ w \in Word(32)
         /\ w - (w % M16) + (((w % M16) - k) % M16) = v
<1> DEFINE low == v % 65536
           moved == (low + k) % 65536
           up == v \div 65536
<1>1. /\ v \in Int /\ 0 <= v /\ v < 16777216
      /\ low \in Int /\ 0 <= low /\ low < 65536
      /\ moved \in Int /\ 0 <= moved /\ moved < 65536
  BY Widths, Sizes
<1>2. v = 65536 * up + low /\ up \in Int /\ 0 <= up /\ up < 256
  BY <1>1
<1>3. w = v - low + moved
  BY Sizes
<1>4. (moved - k) % 65536 = low
  BY <1>1
<1>. HIDE DEF low, moved, up
<1>5. w = 65536 * up + moved
  BY <1>1, <1>2, <1>3
<1>6. w \in Int /\ 0 <= w /\ w < 16777216 /\ w % 65536 = moved
  BY <1>1, <1>2, <1>5
<1>7. w - (w % 65536) + (((w % 65536) - k) % 65536) = w - moved + low
  BY <1>4, <1>6
<1>8. w - moved + low = v
  BY <1>1, <1>2, <1>5
<1>. QED
  BY <1>6, <1>7, <1>8, Widths, Sizes

\* What moving the stack pointer is, at its two sizes.
LEMMA Moved ==
  ASSUME NEW m, NEW k \in Int
  PROVE  /\ Add(m, 32, ESP, k)
              = [m EXCEPT !.gp = [m.gp EXCEPT ![ESP] = (m.gp[ESP] + k) % M32]]
         /\ Add(m, 16, ESP, k)
              = [m EXCEPT !.gp = [m.gp EXCEPT ![ESP] =
                  m.gp[ESP] - (m.gp[ESP] % M16) + (((m.gp[ESP] % M16) + k) % M16)]]
BY SMT DEF Add, Put, Get

\* Moving the stack pointer there and back.
LEMMA ThereAndBack ==
  ASSUME NEW m \in Machine, NEW bits \in {16, 32}, NEW k \in Int,
         NEW n, n = Add(m, bits, ESP, k)
  PROVE  /\ n.gp \in [Gp -> Word(32)]
         /\ n = [m EXCEPT !.gp = n.gp]
         /\ [n.gp EXCEPT ![ESP] = 0] = [m.gp EXCEPT ![ESP] = 0]
         /\ \A o : "gp" \in DOMAIN o /\ o.gp = n.gp => Add(o, bits, ESP, -k).gp = m.gp
<1>1. m.gp \in [Gp -> Word(32)] /\ ESP \in Gp /\ m.gp[ESP] \in Word(32)
  BY DEF Machine, Gp, ESP
<1>2. "gp" \in DOMAIN m
  BY DEF Machine
<1>. -k \in Int
  OBVIOUS
<1>3. CASE bits = 32
  <2> DEFINE w == (m.gp[ESP] + k) % M32
  <2>1. n = [m EXCEPT !.gp = [m.gp EXCEPT ![ESP] = w]]
    BY <1>3, Moved
  <2>2. w \in Word(32) /\ (w - k) % M32 = m.gp[ESP]
    BY <1>1, Pointer
  <2>. HIDE DEF w
  <2>3. n.gp = [m.gp EXCEPT ![ESP] = w]
    BY <1>2, <2>1
  <2>4. n.gp \in [Gp -> Word(32)] /\ n.gp[ESP] = w
    BY <1>1, <2>2, <2>3
  <2>5. ASSUME NEW o, "gp" \in DOMAIN o, o.gp = n.gp
        PROVE  Add(o, bits, ESP, -k).gp = m.gp
    <3>. DEFINE there == [o.gp EXCEPT ![ESP] = (o.gp[ESP] + (-k)) % M32]
    <3>0. Add(o, bits, ESP, -k) = [o EXCEPT !.gp = there]
      BY <1>3, Moved
    <3>1. Add(o, bits, ESP, -k).gp = [n.gp EXCEPT ![ESP] = (w + (-k)) % M32]
      BY <2>4, <2>5, <3>0
    <3>2. w + (-k) = w - k
      BY <2>2, Widths, Sizes
    <3>3. [n.gp EXCEPT ![ESP] = m.gp[ESP]] = m.gp
      BY <1>1, <2>3
    <3>. QED BY <2>2, <3>1, <3>2, <3>3
  <2>. QED BY <1>1, <2>1, <2>3, <2>4, <2>5
<1>4. CASE bits = 16
  <2> DEFINE w == m.gp[ESP] - (m.gp[ESP] % M16) + (((m.gp[ESP] % M16) + k) % M16)
  <2>1. n = [m EXCEPT !.gp = [m.gp EXCEPT ![ESP] = w]]
    BY <1>4, Moved
  <2>2. w \in Word(32) /\ w - (w % M16) + (((w % M16) - k) % M16) = m.gp[ESP]
    BY <1>1, LowerPointer
  <2>. HIDE DEF w
  <2>3. n.gp = [m.gp EXCEPT ![ESP] = w]
    BY <1>2, <2>1
  <2>4. n.gp \in [Gp -> Word(32)] /\ n.gp[ESP] = w
    BY <1>1, <2>2, <2>3
  <2>5. ASSUME NEW o, "gp" \in DOMAIN o, o.gp = n.gp
        PROVE  Add(o, bits, ESP, -k).gp = m.gp
    <3>. DEFINE there == [o.gp EXCEPT ![ESP] =
                  o.gp[ESP] - (o.gp[ESP] % M16) + (((o.gp[ESP] % M16) + (-k)) % M16)]
    <3>0. Add(o, bits, ESP, -k) = [o EXCEPT !.gp = there]
      BY <1>4, Moved
    <3>1. Add(o, bits, ESP, -k).gp
            = [n.gp EXCEPT ![ESP] = w - (w % M16) + (((w % M16) + (-k)) % M16)]
      BY <2>4, <2>5, <3>0
    <3>2. (w % M16) + (-k) = (w % M16) - k
      BY <2>2, Widths, Sizes
    <3>3. [n.gp EXCEPT ![ESP] = m.gp[ESP]] = m.gp
      BY <1>1, <2>3
    <3>. QED BY <2>2, <3>1, <3>2, <3>3
  <2>. QED BY <1>1, <2>1, <2>3, <2>4, <2>5
<1>. QED BY <1>3, <1>4

-----------------------------------------------------------------------------
(* Accesses.                                                               *)

\* An exception raised is an exception, be it a second one.
LEMMA Raised ==
  ASSUME NEW m, "fault" \in DOMAIN m, NEW e, e # "none"
  PROVE  Faulted(Raise(m, e))
BY DEF Raise, Faulted

\* cache_page touches the cache only, and there the one page.
LEMMA CachePage ==
  ASSUME NEW m, DOMAIN m = Fields, NEW a, NEW n, n = cache_page(m, a)
  PROVE  /\ Changes(n, m, {"tlb"})
         /\ DOMAIN n.tlb = DOMAIN m.tlb \cup {Page(a)}
         /\ n.tlb[Page(a)] = TableEntry(m, a)
         /\ \A p \in DOMAIN m.tlb : p # Page(a) => n.tlb[p] = m.tlb[p]
BY DEF cache_page, Fields, Changes

\* A translation that succeeds comes from the cache, or is put into it.
LEMMA Translated ==
  ASSUME NEW m, DOMAIN m = Fields, NEW mode, NEW a,
         NEW n, n = translate_addr(m, mode, a), ~Faulted(n)
  PROVE  /\ Changes(n, m, {"tlb"})
         /\ Cached(n, a)
         /\ Cached(m, a) => n = m
         /\ ~Cached(m, a) => n = cache_page(m, a)
<1> DEFINE o == IF Cached(m, a) THEN m ELSE cache_page(m, a)
<1>1. DOMAIN o = Fields /\ Changes(o, m, {"tlb"}) /\ Cached(o, a)
  BY CachePage DEF Cached, Changes
<1>. HIDE DEF o
<1>2. ASSUME NEW q, DOMAIN q = Fields PROVE Faulted(PageFaultIf(TRUE, q, a))
  <2>1. "fault" \in DOMAIN [q EXCEPT !.cr[2] = a]
    BY <1>2 DEF Fields
  <2>. QED BY <2>1, Raised DEF PageFaultIf
<1>3. n = UseCached(o, mode, a)
  <2>1. Protected(m)
    <3>1. Faulted(Raise(m, "GP"))
      BY Raised DEF Fields
    <3>. QED BY <3>1 DEF translate_addr
  <2>2. ~(~Cached(m, a) /\ EntryRefuses(m, mode, DirectoryEntry(m, a)))
    BY <1>2, <2>1 DEF translate_addr
  <2>. QED BY <2>1, <2>2 DEF translate_addr, o
<1>4. n = o
  BY <1>1, <1>2, <1>3 DEF UseCached, PageFaultIf
<1>. QED BY <1>1, <1>4 DEF o

\* An access that succeeds is at most a translation.
LEMMA Accessed ==
  ASSUME NEW m, DOMAIN m = Fields, NEW mode, NEW s, NEW v,
         NEW n, n = Access(m, mode, s, v), ~Faulted(n)
  PROVE  /\ ~Faulted(m)
         /\ Changes(n, m, {"tlb"})
         /\ Paged(m) => n = translate_addr(m, mode, Linear(m, s, v))
         /\ ~Paged(m) => n = m
<1>1. ~Faulted(m)
  BY DEF Access
<1>2. ~(Protected(m) /\ SegmentRefuses(m, mode, s, v))
  <2>1. Faulted(Raise(m, "GP"))
    BY Raised DEF Fields
  <2>. QED BY <1>1, <2>1 DEF Access
<1>3. n = IF Paged(m) THEN translate_addr(m, mode, Linear(m, s, v)) ELSE m
  BY <1>1, <1>2 DEF Access
<1>4. Changes(m, m, {"tlb"})
  BY DEF Changes
<1>. QED BY <1>1, <1>3, <1>4, Translated

-----------------------------------------------------------------------------
(* The cached translations and the stack.                                  *)

(* A translation is cached once and for all: an access drops none and      *)
(* replaces none, and the one that it may add is the page's entry in the   *)
(* table of that moment (paging_system.cpp:32).  Whether a cached          *)
(* translation is still current is therefore up to the guest.              *)
THEOREM TranslationsStay ==
  ASSUME NEW m \in Machine, NEW mode, NEW s, NEW v, ~Faulted(Access(m, mode, s, v))
  PROVE  LET n == Access(m, mode, s, v)
             a == Linear(m, s, v)
         IN /\ DOMAIN m.tlb \subseteq DOMAIN n.tlb
            /\ \A p \in DOMAIN m.tlb : n.tlb[p] = m.tlb[p]
            /\ \A p \in DOMAIN n.tlb \ DOMAIN m.tlb :
                 p = Page(a) /\ n.tlb[p] = TableEntry(m, a)
<1> DEFINE n == Access(m, mode, s, v)
           a == Linear(m, s, v)
<1>1. DOMAIN m = Fields
  BY DEF Machine, Fields
<1>. HIDE DEF a
<1>2. CASE Paged(m)
  <2>1. n = m \/ (~Cached(m, a) /\ n = cache_page(m, a))
    BY <1>1, <1>2, Accessed, Translated DEF a
  <2>2. ASSUME ~Cached(m, a), n = cache_page(m, a)
        PROVE  /\ DOMAIN n.tlb = DOMAIN m.tlb \cup {Page(a)} /\ Page(a) \notin DOMAIN m.tlb
               /\ n.tlb[Page(a)] = TableEntry(m, a)
               /\ \A p \in DOMAIN m.tlb : p # Page(a) => n.tlb[p] = m.tlb[p]
    BY <1>1, <2>2, CachePage DEF Cached
  <2>. HIDE DEF n
  <2>3. /\ DOMAIN m.tlb \subseteq DOMAIN n.tlb
        /\ \A p \in DOMAIN m.tlb : n.tlb[p] = m.tlb[p]
        /\ \A p \in DOMAIN n.tlb \ DOMAIN m.tlb : p = Page(a) /\ n.tlb[p] = TableEntry(m, a)
    BY <2>1, <2>2
  <2>. QED BY <2>3 DEF n, a
<1>3. CASE ~Paged(m)
  BY <1>1, <1>3, Accessed
<1>. QED BY <1>2, <1>3

\* Where an address is, after an access to it, does not depend on RAM.
LEMMA PhysicalStays ==
  ASSUME NEW m, DOMAIN m = Fields, NEW o, NEW s, NEW v,
         Changes(o, m, {"gp", "ram"}), Paged(m) => Cached(m, Linear(m, s, v))
  PROVE  Physical(o, s, v) = Physical(m, s, v)
<1>1. o.cache = m.cache /\ o.sel = m.sel /\ o.cr = m.cr /\ o.tlb = m.tlb /\ o.a20 = m.a20
  BY DEF Changes, Fields
<1>2. Linear(o, s, v) = Linear(m, s, v) /\ Paged(o) = Paged(m)
  BY <1>1 DEF Linear, Protected, Paged
<1>. DEFINE a == Linear(m, s, v)
<1>3. Paged(m) => search_cached_page(o, a) = search_cached_page(m, a)
  BY <1>1 DEF search_cached_page, Cached
<1>. QED BY <1>1, <1>2, <1>3 DEF Physical

(* What is pushed is popped: after a push that raises no exception, onto a *)
(* stack that lies in RAM, a pop of the same size finds the word pushed    *)
(* and puts every general register back, the whole stack pointer included  *)
(* (helper_funcs.cpp:417), with the pointer wrapping at its size, with and *)
(* without paging, and whatever page the word was written to, that of its  *)
(* own table included.                                                     *)
THEOREM PushedIsPopped ==
  ASSUME NEW m \in Machine, NEW bits \in {16, 32}, NEW x \in Int,
         NEW n, n = Push(m, bits, x), ~Faulted(n),
         Physical(n, "SS", Get(n, bits, ESP)) \in Int,
         InRange(Physical(n, "SS", Get(n, bits, ESP)), 4),
         ~Faulted(Drop(n, bits))
  PROVE  /\ Top(n, bits) = x % Mod(bits)
         /\ Drop(n, bits).gp = m.gp
         /\ Changes(n, m, {"gp", "ram", "tlb"})
         /\ [n.gp EXCEPT ![ESP] = 0] = [m.gp EXCEPT ![ESP] = 0]
<1> DEFINE k == bits \div 8
           below == Add(m, bits, ESP, -k)
           sp == Get(below, bits, ESP)
           at == Access(below, "write", "SS", sp)
           where == Physical(at, "SS", sp)
<1>1. k \in Int /\ -k \in Int /\ -(-k) = k
  OBVIOUS
<1>2. /\ below = [m EXCEPT !.gp = below.gp] /\ below.gp \in [Gp -> Word(32)]
      /\ [below.gp EXCEPT ![ESP] = 0] = [m.gp EXCEPT ![ESP] = 0]
      /\ \A o : "gp" \in DOMAIN o /\ o.gp = below.gp => Add(o, bits, ESP, k).gp = m.gp
  BY <1>1, ThereAndBack
<1>. HIDE DEF below
<1>3. DOMAIN m = Fields /\ DOMAIN below = Fields /\ Changes(below, m, {"gp"})
  BY <1>2 DEF Machine, Fields, Changes
<1>4. n = Store(at, bits, "SS", sp, x)
  BY DEF Push, WriteTop, Write, below
<1>5. ~Faulted(at) /\ n = WriteRam(at, bits, where, x)
  BY <1>4 DEF Store
<1>6. /\ Changes(at, below, {"tlb"})
      /\ Paged(at) => Cached(at, Linear(at, "SS", sp))
  <2>1. Changes(at, below, {"tlb"})
    BY <1>3, <1>5, Accessed
  <2>2. at.cr = below.cr /\ at.sel = below.sel /\ at.cache = below.cache
    BY <2>1 DEF Changes, Fields
  <2>3. Paged(at) = Paged(below) /\ Linear(at, "SS", sp) = Linear(below, "SS", sp)
    BY <2>2 DEF Paged, Linear, Protected
  <2>4. Paged(below) => at = translate_addr(below, "write", Linear(below, "SS", sp))
    BY <1>3, <1>5, Accessed
  <2>. QED BY <1>3, <1>5, <2>1, <2>3, <2>4, Translated
<1>. HIDE DEF at, sp
<1>7. Changes(n, at, {"ram"})
  BY <1>5, <1>6 DEF WriteRam, Changes, Fields
<1>8. n.gp = below.gp /\ DOMAIN n = Fields /\ Get(n, bits, ESP) = sp
  BY <1>6, <1>7 DEF Changes, Fields, Get, sp
<1>9. Physical(n, "SS", sp) = where
  <2>1. DOMAIN at = Fields /\ Changes(n, at, {"gp", "ram"})
    BY <1>6, <1>7 DEF Changes
  <2>. QED BY <1>6, <2>1, PhysicalStays
<1>. HIDE DEF where
<1>10. Top(n, bits) = x % Mod(bits)
  <2>1. "ram" \in DOMAIN at /\ at.ram = m.ram /\ DOMAIN m.ram = 0..(RamSize - 1)
    BY <1>3, <1>6 DEF Changes, Fields, Machine
  <2>2. where \in Int /\ InRange(where, 4)
    BY <1>8, <1>9
  <2>3. ReadRam(WriteRam(at, bits, where, x), bits, where) = x % Mod(bits)
    BY <2>1, <2>2, RamHolds
  <2>. QED BY <1>5, <1>8, <1>9, <2>3 DEF Top, Read
<1>11. Drop(n, bits).gp = m.gp
  <2> DEFINE after == AfterRead(n, "SS", sp)
  <2>1. Drop(n, bits) = Add(after, bits, ESP, k)
    BY <1>8 DEF Drop
  <2>2. ~Faulted(after)
    BY <2>1 DEF Faulted, Add, Put
  <2>3. Changes(after, n, {"tlb"})
    BY <1>8, <2>2, Accessed DEF AfterRead
  <2>4. "gp" \in DOMAIN after /\ after.gp = below.gp
    BY <1>8, <2>3 DEF Changes, Fields
  <2>. QED BY <1>2, <2>1, <2>4
<1>12. Changes(n, m, {"gp", "ram", "tlb"})
  BY <1>3, <1>6, <1>7 DEF Changes
<1>. QED BY <1>2, <1>8, <1>10, <1>11, <1>12
-----------------------------------------------------------------------------
(* Types: an access takes a machine to a machine, with the translations    *)
(* that it holds.                                                          *)

\* The machines in which at least the translations T are cached.
Holding(T) ==
  {n \in Machine : \A p \in DOMAIN T : p \in DOMAIN n.tlb /\ n.tlb[p] = T[p]}

LEMMA Held ==
  /\ \A T : \A n \in Holding(T) :
       n \in Machine /\ \A p \in DOMAIN T : p \in DOMAIN n.tlb /\ n.tlb[p] = T[p]
  /\ \A n \in Machine : n \in Holding(n.tlb)
BY DEF Holding

\* A machine with one field replaced.
LEMMA Replaced ==
  ASSUME NEW T, NEW m \in Holding(T)
  PROVE  /\ \A x \in [Gp -> Word(32)] : [m EXCEPT !.gp = x] \in Holding(T)
         /\ \A x \in Word(32) : [m EXCEPT !.ip = x] \in Holding(T)
         /\ \A x \in Word(32) : [m EXCEPT !.fl = x] \in Holding(T)
         /\ \A x \in [Sreg -> Word(16)] : [m EXCEPT !.sel = x] \in Holding(T)
         /\ \A x \in [Sreg -> SegmentCache] : [m EXCEPT !.cache = x] \in Holding(T)
         /\ \A x \in [0..4 -> Word(32)] : [m EXCEPT !.cr = x] \in Holding(T)
         /\ \A x \in Translations :
              (\A p \in DOMAIN T : p \in DOMAIN x /\ x[p] = T[p]) => [m EXCEPT !.tlb = x] \in Holding(T)
         /\ \A x \in BOOLEAN : [m EXCEPT !.a20 = x] \in Holding(T)
         /\ \A x \in BOOLEAN : [m EXCEPT !.halt = x] \in Holding(T)
         /\ \A x \in Exceptions : [m EXCEPT !.fault = x] \in Holding(T)
         /\ \A x \in [0..(RamSize - 1) -> Word(8)] : [m EXCEPT !.ram = x] \in Holding(T)
         /\ \A x \in [Table -> [sel : Word(16), base : Word(32), limit : Word(16)]] :
              [m EXCEPT !.dt = x] \in Holding(T)
BY ZenonT(60) DEF Machine, Holding

LEMMA Parts ==
  ASSUME NEW m \in Machine
  PROVE  /\ DOMAIN m = Fields
         /\ m.gp \in [Gp -> Word(32)] /\ m.ip \in Word(32) /\ m.fl \in Word(32)
         /\ m.sel \in [Sreg -> Word(16)] /\ m.cache \in [Sreg -> SegmentCache]
         /\ m.dt \in [Table -> [sel : Word(16), base : Word(32), limit : Word(16)]]
         /\ m.cr \in [0..4 -> Word(32)] /\ m.tlb \in Translations
         /\ m.a20 \in BOOLEAN /\ m.halt \in BOOLEAN /\ m.fault \in Exceptions
         /\ m.ram \in [0..(RamSize - 1) -> Word(8)]
BY DEF Machine, Fields

\* Words without their intervals.
LEMMA WordBounds ==
  ASSUME NEW v
  PROVE  /\ v \in Word(8) <=> v \in Int /\ 0 <= v /\ v < 256
         /\ v \in Word(16) <=> v \in Int /\ 0 <= v /\ v < 65536
         /\ v \in Word(32) <=> v \in Int /\ 0 <= v /\ v < 16777216
BY DEF Word, Mod, M16, M32

LEMMA LimitBounds == \A v : v \in Limits <=> v \in Int /\ 0 <= v /\ v < M20
<1>1. M20 \in Nat
  BY DEF M20
<1>. QED BY <1>1 DEF Limits

LEMMA CutTo ==
  ASSUME NEW v \in Int
  PROVE  v % 256 \in Word(8) /\ v % M16 \in Word(16) /\ v % M32 \in Word(32)
BY DEF Word, Mod, M16, M32

LEMMA ByteOfType ==
  ASSUME NEW v \in Int, NEW k \in 0..3
  PROVE  ByteOf(v, k) \in Word(8)
BY DEF ByteOf, Word, Mod, M16, M32

LEMMA RaiseKeeps ==
  ASSUME NEW T, NEW m \in Holding(T), NEW e \in Exceptions
  PROVE  Raise(m, e) \in Holding(T)
<1>. m \in Machine
  BY Held
<1>. QED BY Replaced DEF Raise

LEMMA ReadRamType ==
  ASSUME NEW m \in Machine, NEW a \in Int
  PROVE  /\ ReadRam(m, 8, a) \in Word(8)
         /\ ReadRam(m, 16, a) \in Word(16)
         /\ ReadRam(m, 32, a) \in Word(32)
<1>1. \A k \in 0..3 : InRange(a, 4) => m.ram[a + k] \in Int /\ 0 <= m.ram[a + k] /\ m.ram[a + k] < 256
  <2> SUFFICES ASSUME NEW k \in 0..3, InRange(a, 4)
               PROVE  m.ram[a + k] \in Word(8)
    BY WordBounds
  <2>. QED BY SizeAssumption, Parts DEF InRange
<1>2. InRange(a, 4) => m.ram[a] \in Int /\ 0 <= m.ram[a] /\ m.ram[a] < 256
  BY <1>1
<1>. QED BY <1>1, <1>2, WordBounds DEF ReadRam, M16

LEMMA WriteRamKeeps ==
  ASSUME NEW T, NEW m \in Holding(T), NEW bits \in {8, 16, 32}, NEW a \in Int, NEW v \in Int
  PROVE  WriteRam(m, bits, a, v) \in Holding(T)
<1>. m \in Machine
  BY Held
<1> DEFINE x == [b \in DOMAIN m.ram |-> IF b \in a..(a + bits \div 8 - 1)
                                        THEN ByteOf(v, b - a) ELSE m.ram[b]]
<1>1. WriteRam(m, bits, a, v) = IF ~InRange(a, 4) THEN m ELSE [m EXCEPT !.ram = x]
  BY Parts DEF WriteRam
<1>2. DOMAIN m.ram = 0..(RamSize - 1)
  BY Parts
<1>3. ASSUME NEW b \in 0..(RamSize - 1) PROVE x[b] \in Word(8)
  <2>1. CASE b \in a..(a + bits \div 8 - 1)
    <3>1. b - a \in 0..3
      BY <2>1, SizeAssumption
    <3>. QED BY <1>2, <2>1, <3>1, ByteOfType
  <2>2. CASE b \notin a..(a + bits \div 8 - 1)
    BY <1>2, <2>2, Parts
  <2>. QED BY <2>1, <2>2
<1>4. x \in [0..(RamSize - 1) -> Word(8)]
  BY <1>2, <1>3
<1>. HIDE DEF x
<1>. QED BY <1>1, <1>4, Replaced

\* A general register of 32 bits with its lower half or a byte of that replaced.
LEMMA PartReplaced ==
  ASSUME NEW x \in Word(32), NEW v \in Word(16), NEW c \in Word(8)
  PROVE  /\ x - (x % M16) + v \in Word(32)
         /\ x - (x % 256) + c \in Word(32)
         /\ x - (x % M16) + c * 256 + (x % 256) \in Word(32)
<1>1. /\ x \in Int /\ 0 <= x /\ x < 16777216 /\ M16 = 65536
      /\ v \in Int /\ 0 <= v /\ v < 65536 /\ c \in Int /\ 0 <= c /\ c < 256
  BY WordBounds, Sizes
<1>2. /\ 0 <= x - (x % 65536) + v /\ x - (x % 65536) + v < 16777216
      /\ 0 <= x - (x % 256) + c /\ x - (x % 256) + c < 16777216
      /\ 0 <= x - (x % 65536) + c * 256 + (x % 256)
      /\ x - (x % 65536) + c * 256 + (x % 256) < 16777216
  BY <1>1
<1>. QED BY <1>1, <1>2, WordBounds

LEMMA GetType ==
  ASSUME NEW m \in Machine, NEW bits \in {8, 16, 32}, NEW r \in Gp
  PROVE  Get(m, bits, r) \in Word(bits)
<1>1. \A k \in Gp : m.gp[k] \in Int
  BY Parts, WordBounds
<1>2. CASE bits = 32
  BY <1>2, Parts DEF Get
<1>3. CASE bits = 16
  BY <1>1, <1>3, CutTo DEF Get
<1>4. CASE bits = 8
  <2>1. \A k \in Gp : m.gp[k] % 256 \in Word(8) /\ (m.gp[k] \div 256) % 256 \in Word(8)
    BY <1>1, CutTo
  <2>2. r >= 4 => r - 4 \in Gp
    BY DEF Gp
  <2>. QED BY <1>4, <2>1, <2>2 DEF Get, Gp
<1>. QED BY <1>2, <1>3, <1>4

LEMMA RegisterKeeps ==
  ASSUME NEW T, NEW m \in Holding(T), NEW r \in Gp, NEW x \in Word(32)
  PROVE  [m EXCEPT !.gp[r] = x] \in Holding(T)
<1>. m \in Machine
  BY Held
<1>1. [m.gp EXCEPT ![r] = x] \in [Gp -> Word(32)]
  BY Parts
<1>2. [m EXCEPT !.gp[r] = x] = [m EXCEPT !.gp = [m.gp EXCEPT ![r] = x]]
  BY Parts DEF Fields
<1>. QED BY <1>1, <1>2, Replaced

LEMMA PutKeeps ==
  ASSUME NEW T, NEW m \in Holding(T), NEW bits \in {8, 16, 32}, NEW r \in Gp, NEW v \in Int
  PROVE  Put(m, bits, r, v) \in Holding(T)
<1>. m \in Machine
  BY Held
<1>1. v % 256 \in Word(8) /\ v % M16 \in Word(16) /\ v % M32 \in Word(32)
  BY CutTo
<1>2. \A k \in Gp : m.gp[k] \in Word(32)
  BY Parts
<1>3. CASE bits = 32
  BY <1>1, <1>3, RegisterKeeps DEF Put
<1>4. CASE bits = 16
  <2>1. m.gp[r] - (m.gp[r] % M16) + (v % M16) \in Word(32)
    BY <1>1, <1>2, PartReplaced, WordBounds
  <2>. QED BY <1>4, <2>1, RegisterKeeps DEF Put
<1>5. CASE bits = 8 /\ r < 4
  <2>1. m.gp[r] - (m.gp[r] % 256) + (v % 256) \in Word(32)
    BY <1>1, <1>2, PartReplaced, WordBounds
  <2>2. Put(m, bits, r, v) = [m EXCEPT !.gp[r] = m.gp[r] - (m.gp[r] % 256) + (v % 256)]
    BY <1>5, Parts DEF Put, Fields, Gp
  <2>. QED BY <2>1, <2>2, RegisterKeeps
<1>6. CASE bits = 8 /\ ~(r < 4)
  <2>1. r - 4 \in Gp /\ r >= 4
    BY <1>6 DEF Gp
  <2>2. m.gp[r - 4] - (m.gp[r - 4] % M16) + (v % 256) * 256 + (m.gp[r - 4] % 256) \in Word(32)
    BY <1>1, <1>2, <2>1, PartReplaced, WordBounds
  <2>. QED BY <1>6, <2>1, <2>2, RegisterKeeps DEF Put
<1>. QED BY <1>3, <1>4, <1>5, <1>6

LEMMA AddKeeps ==
  ASSUME NEW T, NEW m \in Holding(T), NEW bits \in {8, 16, 32}, NEW r \in Gp, NEW v \in Int
  PROVE  Add(m, bits, r, v) \in Holding(T)
<1>. m \in Machine
  BY Held
<1>1. Get(m, bits, r) + v \in Int
  BY GetType, WordBounds
<1>. QED BY <1>1, PutKeeps DEF Add

-----------------------------------------------------------------------------
(* Types: segments and pages.                                              *)

LEMMA DescriptorType ==
  ASSUME NEW m \in Machine, NEW a \in Int, InRange(a, 8)
  PROVE  Descriptor(m, a) \in SegmentCache
<1>1. m.ram[a + 5] \in Word(8) /\ m.ram[a + 6] \in Word(8)
  BY SizeAssumption, Parts DEF InRange
<1>2. /\ ReadRam(m, 16, a + 2) \in Word(16) /\ ReadRam(m, 8, a + 4) \in Word(8)
      /\ ReadRam(m, 16, a) \in Word(16)
  BY ReadRamType
<1>3. ReadRam(m, 16, a + 2) + M16 * ReadRam(m, 8, a + 4) \in Word(32)
  BY <1>2, WordBounds, Sizes
<1>4. m.ram[a + 6] % 16 \in 0..15
  BY <1>1, WordBounds
<1>5. ReadRam(m, 16, a) + M16 * (m.ram[a + 6] % 16) \in Limits
  BY <1>2, <1>4, WordBounds, LimitBounds, Sizes DEF M20
<1>6. Has(m.ram[a + 6], 6) \in BOOLEAN /\ Has(m.ram[a + 6], 7) \in BOOLEAN
  BY DEF Has
<1>. QED BY <1>1, <1>3, <1>5, <1>6 DEF Descriptor, SegmentCache

LEMMA SegmentKeeps ==
  ASSUME NEW T, NEW m \in Holding(T), NEW r \in Sreg, NEW sel \in Word(16), NEW c \in SegmentCache
  PROVE  [m EXCEPT !.sel[r] = sel, !.cache[r] = c] \in Holding(T)
<1>. m \in Machine
  BY Held
<1> DEFINE o == [m EXCEPT !.sel = [m.sel EXCEPT ![r] = sel]]
<1>1. o \in Holding(T) /\ o.cache = m.cache
  BY Parts, Replaced
<1>2. [m EXCEPT !.sel[r] = sel, !.cache[r] = c] = [o EXCEPT !.cache = [m.cache EXCEPT ![r] = c]]
  BY Parts DEF Fields
<1>3. [m.cache EXCEPT ![r] = c] \in [Sreg -> SegmentCache]
  BY Parts
<1>. HIDE DEF o
<1>. QED BY <1>1, <1>2, <1>3, Replaced

LEMMA set_segmentKeeps ==
  ASSUME NEW T, NEW m \in Holding(T), NEW r \in Sreg, NEW sel \in Word(16)
  PROVE  set_segment(m, r, sel) \in Holding(T)
<1>. m \in Machine
  BY Held
<1> DEFINE t == m.dt[TableOf(sel)]
           at == DescriptorAt(sel)
           no == (r \in {"CS", "SS"} /\ at = 0) \/ at > t.limit
<1>1. TableOf(sel) \in Table
  BY DEF TableOf, Table
<1>2. t.base + at \in Int
  BY <1>1, Parts, WordBounds DEF DescriptorAt
<1>3. CASE ~Protected(m)
  <2> DEFINE c == [m.cache[r] EXCEPT !.base = 16 * sel]
  <2>1. 16 * sel \in Word(32)
    BY WordBounds
  <2>2. c \in SegmentCache
    BY <2>1, Parts DEF SegmentCache
  <2>3. set_segment(m, r, sel) = [m EXCEPT !.sel[r] = sel, !.cache[r] = c]
    BY <1>3, Parts DEF set_segment, Fields
  <2>. HIDE DEF c
  <2>4. [m EXCEPT !.sel[r] = sel, !.cache[r] = c] \in Holding(T)
    BY <2>2, SegmentKeeps
  <2>. QED BY <2>3, <2>4
<1>4. CASE Protected(m) /\ no
  BY <1>4, RaiseKeeps DEF set_segment, Exceptions
<1>5. CASE Protected(m) /\ ~no /\ ~InRange(t.base + at, 8)
  BY <1>5, RaiseKeeps DEF set_segment, Exceptions
<1>6. CASE Protected(m) /\ ~no /\ InRange(t.base + at, 8)
  <2> DEFINE c == Descriptor(m, t.base + at)
  <2>1. c \in SegmentCache
    BY <1>2, <1>6, DescriptorType
  <2>2. set_segment(m, r, sel) = [m EXCEPT !.sel[r] = sel, !.cache[r] = c]
    BY <1>6 DEF set_segment
  <2>. HIDE DEF c
  <2>3. [m EXCEPT !.sel[r] = sel, !.cache[r] = c] \in Holding(T)
    BY <2>1, SegmentKeeps
  <2>. QED BY <2>2, <2>3
<1>. QED BY <1>3, <1>4, <1>5, <1>6

\* In real mode a segment is loaded whatever the selector.
LEMMA RealSegment ==
  ASSUME NEW m \in Machine, ~Protected(m), NEW r \in Sreg, NEW sel \in Word(16)
  PROVE  /\ Changes(set_segment(m, r, sel), m, {"sel", "cache"})
         /\ set_segment(m, r, sel).sel = [m.sel EXCEPT ![r] = sel]
<1> DEFINE c == [m.cache[r] EXCEPT !.base = 16 * sel]
           x == [m EXCEPT !.sel = [m.sel EXCEPT ![r] = sel]]
           o == [m EXCEPT !.sel[r] = sel, !.cache[r] = c]
<1>1. set_segment(m, r, sel) = o
  BY Parts DEF set_segment, Fields
<1>. HIDE DEF c
<1>2. Changes(x, m, {"sel"}) /\ x.sel = [m.sel EXCEPT ![r] = sel]
  BY Parts DEF Changes, Fields
<1>3. o = [x EXCEPT !.cache = [m.cache EXCEPT ![r] = c]]
  BY Parts DEF Fields
<1>. HIDE DEF x, o
<1>4. Changes(o, x, {"cache"})
  BY <1>2, <1>3 DEF Changes, Fields
<1>. QED BY <1>1, <1>2, <1>4 DEF Changes, Fields

LEMMA LinearType ==
  ASSUME NEW m \in Machine, NEW s \in Sreg, NEW v \in Int
  PROVE  Linear(m, s, v) \in Word(32)
<1>1. m.cache[s].base \in Int /\ m.cache[s].limit \in Int /\ m.sel[s] \in Int
  BY Parts, WordBounds, LimitBounds DEF SegmentCache
<1>2. Limit(m.cache[s]) \in Int
  BY <1>1, Sizes DEF Limit
<1>. QED BY <1>1, <1>2, CutTo DEF Linear

LEMMA Division ==
  ASSUME NEW x \in Int, NEW y \in Nat \ {0}
  PROVE  x \div y \in Int /\ x % y \in Nat
OBVIOUS

LEMMA PageType ==
  ASSUME NEW a \in Int
  PROVE  Page(a) \in Int /\ FrameAt(a) \in Int /\ a % PageSize \in Int /\ (a >= 0 => Page(a) \in Nat)
BY SizeAssumption DEF Page, FrameAt

LEMMA CachedType ==
  ASSUME NEW m \in Machine
  PROVE  DOMAIN m.tlb \in SUBSET Nat /\ \A p \in DOMAIN m.tlb : m.tlb[p] \in Word(32)
<1>1. m.tlb \in Translations
  BY Parts
<1>2. PICK P \in SUBSET Nat : m.tlb \in [P -> Word(32)]
  BY <1>1, Zenon DEF Translations
<1>. QED BY <1>2

LEMMA TableEntryType ==
  ASSUME NEW m \in Machine, NEW a \in Int
  PROVE  /\ DirectoryEntry(m, a) \in Word(32) /\ TableEntry(m, a) \in Word(32)
         /\ search_cached_page(m, a) \in Word(32)
<1>1. Page(a) \div TableLen \in Int /\ Page(a) % TableLen \in Int
  BY PageType, Division, SizeAssumption
<1>2. FrameAt(m.cr[3]) \in Int
  <2>1. m.cr[3] \in Int
    BY Parts, WordBounds
  <2>. QED BY <2>1, PageType
<1>3. DirectoryEntry(m, a) \in Word(32)
  BY <1>1, <1>2, ReadRamType DEF DirectoryEntry
<1>4. FrameAt(DirectoryEntry(m, a)) \in Int
  BY <1>3, PageType, WordBounds
<1>5. TableEntry(m, a) \in Word(32)
  BY <1>1, <1>4, ReadRamType DEF TableEntry
<1>6. Cached(m, a) => m.tlb[Page(a)] \in Word(32)
  BY CachedType DEF Cached
<1>. QED BY <1>3, <1>5, <1>6 DEF search_cached_page

LEMMA cache_pageKeeps ==
  ASSUME NEW T, NEW m \in Holding(T), NEW a \in Nat, ~Cached(m, a)
  PROVE  cache_page(m, a) \in Holding(T)
<1>. m \in Machine
  BY Held
<1> DEFINE P == DOMAIN m.tlb \cup {Page(a)}
           x == [p \in P |-> IF p = Page(a) THEN TableEntry(m, a) ELSE m.tlb[p]]
<1>1. P \in SUBSET Nat /\ \A p \in DOMAIN m.tlb : m.tlb[p] \in Word(32)
  BY PageType, CachedType
<1>2. x \in [P -> Word(32)]
  BY <1>1, TableEntryType
<1>3. x \in Translations /\ \A p \in DOMAIN T : p \in DOMAIN x /\ x[p] = T[p]
  <2>1. x \in Translations
    BY <1>1, <1>2 DEF Translations
  <2>2. \A p \in DOMAIN T : p \in DOMAIN m.tlb /\ m.tlb[p] = T[p]
    BY Held
  <2>. QED BY <2>1, <2>2 DEF Cached
<1>4. cache_page(m, a) = [m EXCEPT !.tlb = x]
  BY Parts DEF cache_page, Fields
<1>. HIDE DEF x
<1>. QED BY <1>3, <1>4, Replaced

LEMMA PageFaultKeeps ==
  ASSUME NEW T, NEW m \in Holding(T), NEW a \in Word(32), NEW refused \in BOOLEAN
  PROVE  PageFaultIf(refused, m, a) \in Holding(T)
<1>. m \in Machine
  BY Held
<1>1. [m.cr EXCEPT ![2] = a] \in [0..4 -> Word(32)]
  BY Parts
<1>2. [m EXCEPT !.cr[2] = a] = [m EXCEPT !.cr = [m.cr EXCEPT ![2] = a]]
  BY Parts DEF Fields
<1>3. [m EXCEPT !.cr[2] = a] \in Holding(T)
  BY <1>1, <1>2, Replaced
<1>. QED BY <1>3, RaiseKeeps DEF PageFaultIf, Exceptions

LEMMA translate_addrKeeps ==
  ASSUME NEW T, NEW m \in Holding(T), NEW mode, NEW a \in Word(32)
  PROVE  translate_addr(m, mode, a) \in Holding(T)
<1>. m \in Machine
  BY Held
<1>1. a \in Nat
  BY WordBounds
<1>2. ASSUME NEW o \in Holding(T) PROVE UseCached(o, mode, a) \in Holding(T)
  <2>1. EntryRefuses(o, mode, search_cached_page(o, a)) \in BOOLEAN
    BY DEF EntryRefuses
  <2>. QED BY <2>1, PageFaultKeeps DEF UseCached
<1>3. PageFaultIf(TRUE, m, a) \in Holding(T) /\ Raise(m, "GP") \in Holding(T)
  BY PageFaultKeeps, RaiseKeeps DEF Exceptions
<1>4. (IF Cached(m, a) THEN m ELSE cache_page(m, a)) \in Holding(T)
  BY <1>1, cache_pageKeeps
<1>. QED BY <1>2, <1>3, <1>4 DEF translate_addr

LEMMA AccessKeeps ==
  ASSUME NEW T, NEW m \in Holding(T), NEW mode, NEW s \in Sreg, NEW v \in Int
  PROVE  Access(m, mode, s, v) \in Holding(T)
<1>. m \in Machine
  BY Held
<1>1. Raise(m, "GP") \in Holding(T)
  BY RaiseKeeps DEF Exceptions
<1>. QED BY <1>1, LinearType, translate_addrKeeps DEF Access

LEMMA PhysicalType ==
  ASSUME NEW m \in Machine, NEW s \in Sreg, NEW v \in Int
  PROVE  Physical(m, s, v) \in Int
<1> DEFINE a == Linear(m, s, v)
<1>1. a \in Word(32)
  BY LinearType
<1>. HIDE DEF a
<1>2. a \in Int /\ search_cached_page(m, a) \in Int
  BY <1>1, TableEntryType, WordBounds
<1>3. FrameAt(search_cached_page(m, a)) + (a % PageSize) \in Int
  BY <1>2, PageType
<1> DEFINE p == IF Paged(m) THEN FrameAt(search_cached_page(m, a)) + (a % PageSize) ELSE a
<1>4. p \in Int
  BY <1>2, <1>3
<1>. HIDE DEF p
<1>5. p % M20 \in Int
  BY <1>4 DEF M20
<1>6. Physical(m, s, v) = IF m.a20 THEN p ELSE p % M20
  BY DEF Physical, p, a
<1>. QED BY <1>4, <1>5, <1>6

-----------------------------------------------------------------------------
(* Types: reads, writes and the stack.                                     *)

LEMMA ReadType ==
  ASSUME NEW m \in Machine, NEW bits \in {8, 16, 32}, NEW s \in Sreg, NEW v \in Int
  PROVE  Read(m, bits, s, v) \in Word(bits) /\ Read(m, bits, s, v) \in Int
<1>1. Physical(m, s, v) \in Int
  BY PhysicalType
<1>2. ReadRam(m, bits, Physical(m, s, v)) \in Word(bits)
  BY <1>1, ReadRamType
<1>. QED BY <1>2, WordBounds DEF Read

LEMMA AfterReadKeeps ==
  ASSUME NEW T, NEW m \in Holding(T), NEW s \in Sreg, NEW v \in Int
  PROVE  AfterRead(m, s, v) \in Holding(T)
BY AccessKeeps DEF AfterRead

LEMMA WriteKeeps ==
  ASSUME NEW T, NEW m \in Holding(T), NEW bits \in {8, 16, 32}, NEW s \in Sreg,
         NEW v \in Int, NEW x \in Int
  PROVE  Write(m, bits, s, v, x) \in Holding(T)
<1> DEFINE n == Access(m, "write", s, v)
<1>1. n \in Holding(T)
  BY AccessKeeps
<1>. HIDE DEF n
<1>2. n \in Machine
  BY <1>1, Held
<1>3. Physical(n, s, v) \in Int
  BY <1>2, PhysicalType
<1>4. Store(n, bits, s, v, x) \in Holding(T)
  BY <1>1, <1>3, WriteRamKeeps DEF Store
<1>. QED BY <1>4 DEF Write, n

\* The pointer of the stack.
LEMMA EspType ==
  ASSUME NEW m \in Machine, NEW bits \in {8, 16, 32}
  PROVE  ESP \in Gp /\ Get(m, bits, ESP) \in Int /\ m.gp[ESP] \in Int
<1>1. ESP \in Gp
  BY DEF ESP, Gp
<1>2. Get(m, bits, ESP) \in Word(bits) /\ m.gp[ESP] \in Word(32)
  BY <1>1, GetType, Parts
<1>. QED BY <1>1, <1>2, WordBounds

LEMMA PushKeeps ==
  ASSUME NEW T, NEW m \in Holding(T), NEW bits \in {8, 16, 32}, NEW x \in Int
  PROVE  Push(m, bits, x) \in Holding(T)
<1> DEFINE n == Add(m, bits, ESP, -(bits \div 8))
<1>. m \in Machine
  BY Held
<1>1. n \in Holding(T)
  <2>1. -(bits \div 8) \in Int
    OBVIOUS
  <2>. QED BY <2>1, EspType, AddKeeps
<1>. HIDE DEF n
<1>2. n \in Machine
  BY <1>1, Held
<1>3. "SS" \in Sreg /\ Get(n, bits, ESP) \in Int
  BY <1>2, EspType DEF Sreg
<1>4. WriteTop(n, bits, x) \in Holding(T)
  BY <1>1, <1>3, WriteKeeps DEF WriteTop
<1>. QED BY <1>4 DEF Push, n

LEMMA DropKeeps ==
  ASSUME NEW T, NEW m \in Holding(T), NEW bits \in {8, 16, 32}
  PROVE  /\ Drop(m, bits) \in Holding(T)
         /\ Top(m, bits) \in Word(bits) /\ Top(m, bits) \in Int
<1>. m \in Machine
  BY Held
<1>1. "SS" \in Sreg /\ ESP \in Gp /\ Get(m, bits, ESP) \in Int
  BY EspType DEF Sreg
<1>2. AfterRead(m, "SS", Get(m, bits, ESP)) \in Holding(T)
  BY <1>1, AfterReadKeeps
<1>3. bits \div 8 \in Int
  OBVIOUS
<1>4. Drop(m, bits) \in Holding(T)
  BY <1>1, <1>2, <1>3, AddKeeps DEF Drop
<1>. QED BY <1>1, <1>4, ReadType DEF Top

LEMMA PopToKeeps ==
  ASSUME NEW T, NEW m \in Holding(T), NEW bits \in {8, 16, 32}, NEW r \in Gp
  PROVE  PopTo(m, bits, r) \in Holding(T)
BY DropKeeps, PutKeeps DEF PopTo

\* What a pop of several words leaves and finds.
LEMMA PopKeeps ==
  ASSUME NEW T, NEW m \in Holding(T), NEW bits \in {8, 16, 32}
  PROVE  /\ Pop2(m, bits).m \in Holding(T) /\ Pop3(m, bits).m \in Holding(T)
         /\ Pop2(m, bits).words \in Seq(Word(bits)) /\ Len(Pop2(m, bits).words) = 2
         /\ Pop3(m, bits).words \in Seq(Word(bits)) /\ Len(Pop3(m, bits).words) = 3
<1>1. ASSUME NEW p, p.m \in Holding(T), p.words \in Seq(Word(bits))
      PROVE  /\ Pop(p, bits).m \in Holding(T)
             /\ Pop(p, bits).words \in Seq(Word(bits))
             /\ Len(Pop(p, bits).words) = Len(p.words) + 1
  <2>1. Drop(p.m, bits) \in Holding(T) /\ Top(p.m, bits) \in Word(bits)
    BY <1>1, DropKeeps
  <2>2. Pop(p, bits).m = Drop(p.m, bits) /\ Pop(p, bits).words = Append(p.words, Top(p.m, bits))
    BY DEF Pop
  <2>. QED BY <1>1, <2>1, <2>2
<1>2. /\ Pop1(m, bits).m \in Holding(T)
      /\ Pop1(m, bits).words \in Seq(Word(bits)) /\ Len(Pop1(m, bits).words) = 1
  <2> DEFINE p == [m |-> m, words |-> <<>>]
  <2>1. p.m \in Holding(T) /\ p.words \in Seq(Word(bits)) /\ Len(p.words) = 0
    OBVIOUS
  <2>. HIDE DEF p
  <2>2. /\ Pop(p, bits).m \in Holding(T) /\ Pop(p, bits).words \in Seq(Word(bits))
        /\ Len(Pop(p, bits).words) = 0 + 1
    BY <1>1, <2>1
  <2>. QED BY <2>2 DEF Pop1, p
<1>3. /\ Pop2(m, bits).m \in Holding(T)
      /\ Pop2(m, bits).words \in Seq(Word(bits)) /\ Len(Pop2(m, bits).words) = 2
  <2>1. /\ Pop(Pop1(m, bits), bits).m \in Holding(T)
        /\ Pop(Pop1(m, bits), bits).words \in Seq(Word(bits))
        /\ Len(Pop(Pop1(m, bits), bits).words) = 1 + 1
    BY <1>1, <1>2
  <2>2. Pop2(m, bits) = Pop(Pop1(m, bits), bits)
    BY DEF Pop2
  <2>. QED BY <2>1, <2>2
<1>4. /\ Pop3(m, bits).m \in Holding(T)
      /\ Pop3(m, bits).words \in Seq(Word(bits)) /\ Len(Pop3(m, bits).words) = 3
  <2>1. /\ Pop(Pop2(m, bits), bits).m \in Holding(T)
        /\ Pop(Pop2(m, bits), bits).words \in Seq(Word(bits))
        /\ Len(Pop(Pop2(m, bits), bits).words) = 2 + 1
    BY <1>1, <1>3
  <2>2. Pop3(m, bits) = Pop(Pop2(m, bits), bits)
    BY DEF Pop3
  <2>. QED BY <2>1, <2>2
<1>. QED BY <1>3, <1>4
=============================================================================
