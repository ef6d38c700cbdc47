---------------------------------- MODULE Vga ----------------------------------
(***************************************************************************)
(* The data paths of the display adapter (vga.cpp, seq/sequencer.cpp,      *)
(* gc/gc.cpp, attr/attr.cpp, crt/crt.h, dac/dac.cpp) as functions of its   *)
(* registers and planes: where a byte of video memory is stored, what a    *)
(* read returns, and which colour a pixel has.                             *)
(*                                                                         *)
(* file[dev][i] is register i of the device dev; bit fields are taken out  *)
(* of the raw byte.  A byte of memory is an attribute of two halves, or a  *)
(* row of CharBlock pixels.  The sizes are constants; the emulator's are   *)
(* K64 = 65536, CharBlock = 8, Half = 16, Glyph = 16 and Colours = 256.    *)
(***************************************************************************)
EXTENDS Integers

CONSTANTS
  K64,         \* the size of a plane and the range of a uint16_t
  CharBlock,   \* CHAR_BLOCK: pixels of a character's row
  Half,        \* an attribute is background * Half + foreground
  Glyph,       \* bytes of font memory per character
  Colours      \* entries of the colour table

ASSUME VgaAssumption ==
  /\ K64 \in Nat /\ K64 > 0 /\ K64 % 4 = 0
  /\ CharBlock \in Nat \ {0}
  /\ Half \in Nat \ {0} /\ Half % 2 = 0
  /\ Glyph \in Nat
  /\ Colours \in Nat \ {0}

Raw == 0..255
Byte == 0..(Half * Half - 1)
Plane == 0..3
Offset == 0..(K64 - 1)
Colour == [1..3 -> 0..63]

Devices == {"seq", "gc", "attr", "crt"}

\* The registers that each regs[] has a pointer for.
SeqRegisters == 1..4
GcRegisters == 0..6
AttrRegisters == (0..20) \ {17}
CrtRegisters == (0..3) \cup (9..15) \cup {18, 19, 23}
Implemented ==
  [seq |-> SeqRegisters, gc |-> GcRegisters, attr |-> AttrRegisters, crt |-> CrtRegisters]

\* The field of 2^n = width values that begins at the bit of value low.
Field(raw, low, width) == (raw \div low) % width
Aligned(a, n) == n * (a \div n)
Bit(raw, low) == Field(raw, low, 2) = 1

MapMask(f) == f["seq"][2]
CharMap(f) == f["seq"][3]
ExtendedMemory(f) == Bit(f["seq"][4], 2)
AllPlanes(f) == Bit(f["seq"][4], 4)
Chain4(f) == Bit(f["seq"][4], 8)
ReadMap(f) == Field(f["gc"][4], 1, 4)
WriteMode(f) == Field(f["gc"][5], 1, 4)
OddEven(f) == Bit(f["gc"][5], 16)
Colours256(f) == Bit(f["gc"][5], 64)
GraphicsMode(f) == Bit(f["gc"][6], 1)
MemoryMap(f) == Field(f["gc"][6], 4, 4)

\* Slip: the register next to it.
BlocksPerLineNext(f) == f["crt"][2]

BlocksPerLine(f) == f["crt"][1]
VerticalEnd(f) == f["crt"][18]
ScanlineReps(f) == 1 + Field(f["crt"][9], 1, 32)

-----------------------------------------------------------------------------
(* Storing and reading a byte.                                             *)

\* The ranges of addresses of the four memory maps.
Area(f) ==
  CASE MemoryMap(f) = 0 -> [base |-> 10 * K64, size |-> 2 * K64]
    [] MemoryMap(f) = 1 -> [base |-> 10 * K64, size |-> K64]
    [] MemoryMap(f) = 2 -> [base |-> 11 * K64, size |-> K64 \div 2]
    [] MemoryMap(f) = 3 -> [base |-> 11 * K64 + K64 \div 2, size |-> K64 \div 2]

InArea(f, a) == Area(f).base <= a /\ a < Area(f).base + Area(f).size

\* Without the extended memory the sequencer truncates the absolute address,
\* which then lies in no area at all.
Truncated(f, a) == IF ExtendedMemory(f) THEN a ELSE a % K64

Enabled(f, p) == Bit(MapMask(f), <<1, 2, 4, 8>>[p + 1])

\* The planes a byte at address a goes to.
TargetPlanes(f, a) ==
  {p \in Plane :
     /\ Enabled(f, p)
     /\ IF Chain4(f) THEN p = a % 4
        ELSE AllPlanes(f) \/ p % 2 = a % 2}

\* Slip: odd addresses keep their own offset in their plane.
TargetOffsetKeepsBit(f, a) ==
  (IF Chain4(f) THEN Aligned(a, 4) ELSE a) - Area(f).base

\* The offset in each of them: chained planes drop two bits of the address
\* before the base of the area is taken off, odd/even ones a bit after it.
TargetOffset(f, a) ==
  LET b == IF Chain4(f) THEN Aligned(a, 4) ELSE a
      o == b - Area(f).base
  IN  IF OddEven(f) THEN Aligned(o, 2) ELSE o

\* Only write mode 0 stores anything.
Stores(f, a) ==
  LET t == Truncated(f, a)
      b == IF Chain4(f) THEN Aligned(t, 4) ELSE t IN
  IF InArea(f, b) /\ WriteMode(f) = 0
  THEN [planes |-> TargetPlanes(f, t), offset |-> TargetOffset(f, t)]
  ELSE [planes |-> {}, offset |-> 0]

\* A byte read: only (write) mode 0 answers, the other modes and the
\* addresses outside the area read 0.
ReadsPlane(f, a) == InArea(f, Truncated(f, a)) /\ WriteMode(f) = 0
ReadOffset(f, a) == Truncated(f, a) - Area(f).base

ReadMemory(f, planes, a) ==
  LET o == ReadOffset(f, a) IN
  IF ~ReadsPlane(f, a) THEN 0
  ELSE IF OddEven(f)
  THEN planes[2 * (ReadMap(f) \div 2) + (o % 2)][Aligned(o, 2)]
  ELSE planes[ReadMap(f)][o]

-----------------------------------------------------------------------------
(* The picture.                                                            *)

PixelsPerLine(f) == BlocksPerLine(f) * CharBlock
Scanlines(f) == VerticalEnd(f) * ScanlineReps(f)

\* Where pixel n lies: its cell, the row in the glyph and the bit in the row.
\* There must be pixels in a line.
TextPlace(f, n) ==
  LET line == (n \div PixelsPerLine(f)) % K64
      along == (n % PixelsPerLine(f)) % K64
  IN [cell |-> ((line \div ScanlineReps(f)) * BlocksPerLine(f) + along \div CharBlock) % K64,
      row |-> line % ScanlineReps(f),
      bit |-> along % CharBlock]

\* The font of an attribute: its bit 3 chooses between two character maps.
FontOffset(f, att) ==
  LET high == (att % Half) >= Half \div 2
      low2 == IF high THEN Field(CharMap(f), 4, 4) ELSE Field(CharMap(f), 1, 4)
      third == IF high THEN Bit(CharMap(f), 32) ELSE Bit(CharMap(f), 16)
  IN IF third THEN low2 * 2 + 1 ELSE low2 * 2

FontAddress(f, att, chr, row) == FontOffset(f, att) + chr * Glyph + row

\* The attribute's foreground or background, as the bit of the glyph says.
TextIndex(bits, bit, att) ==
  IF (bits \div 2^bit) % 2 = 1 THEN att % Half ELSE att \div Half

\* The palette: an index to the colour table.
PaletteIndex(f, index) ==
  LET pal == f["attr"][index % 16]
      amcr == f["attr"][16]
      csr == f["attr"][20]
      high == IF Bit(amcr, 128) THEN Field(csr, 1, 4) ELSE Field(pal, 16, 4)
  IN ((pal % 16) + (IF Bit(amcr, 1) THEN high * 16 + Field(csr, 4, 4) * 64 ELSE 0)) % Colours

\* 256-colour graphics bypass the palette.
ColourIndex(f, mode, index) ==
  IF mode = "graphic256" THEN index % Colours ELSE PaletteIndex(f, index)

Mode(f) ==
  IF ~GraphicsMode(f) THEN "text"
  ELSE IF Colours256(f) THEN "graphic256" ELSE "graphic"

\* The index that pixel n of the picture has now: what the steps of a drawing
\* compute, taken at one instant.
IndexNow(f, planes, n) ==
  IF GraphicsMode(f) THEN planes[2][n]
  ELSE LET at == TextPlace(f, n)
           chr == planes[0][at.cell * 2]
           att == planes[1][at.cell * 2]
       IN TextIndex(planes[2][FontAddress(f, att, chr, at.row)], at.bit, att)

PixelNow(f, planes, clut, n) ==
  clut[ColourIndex(f, Mode(f), IndexNow(f, planes, n))]
=============================================================================
