----------------------------- MODULE DisplayProofs -----------------------------
(***************************************************************************)
(* Proofs about Display, for every size of the memory, every guest and     *)
(* every first size of the window: every value stays in its range, no      *)
(* write is missed by the drawing, what is written is what is shown, and   *)
(* the adapter outlives the window's thread.                               *)
(*                                                                         *)
(* NothingMissed is not inductive: what has been read for a pixel that is  *)
(* not drawn yet must be current as well, at each step of its reading, and *)
(* so must the size and the mode that the drawing began with.  Nor is      *)
(* AsWritten: between two planes of a byte, one place need not hold what   *)
(* was last written to its address.                                        *)
(***************************************************************************)
EXTENDS Display, TLAPS

\* The window is drawing a pixel, or about to.
InPicture == ui \in {"pixel", "att", "bits", "colour"}

RegisterTypes ==
  /\ program \in Seq(Operation)
  /\ \A d \in Devices : file[d] \in [Implemented[d] -> Raw]
  /\ DOMAIN file = Devices

WindowShape ==
  /\ ui \in {"start", "loop", "poll", "clear", "size", "mode", "pixel", "att", "bits",
             "colour", "freed", "ended"}
  /\ DOMAIN image = {"w", "h", "rgb"}
  /\ image.w \in Nat /\ image.h \in Nat
  /\ DOMAIN image.rgb = 0..(image.w * image.h - 1)
  /\ DOMAIN px = {"cell", "row", "bit", "chr", "att", "idx"}
  /\ n \in Nat /\ n <= image.w * image.h
  /\ ui \in {"start", "size", "mode"} => n = 0
  /\ ui \in {"att", "bits", "colour"} => n < image.w * image.h
  /\ ui \in {"att", "bits"} => mode = "text"
  /\ count = 0

\* What the window has read is what the registers and the memory hold.
Current ==
  /\ n > 0 \/ InPicture \/ ui = "mode" => SizeCurrent
  /\ n > 0 \/ InPicture => mode = Mode(file)
  /\ ui \in {"att", "bits"} =>
       LET at == TextPlace(file, n) IN
       /\ px.cell = at.cell /\ px.row = at.row /\ px.bit = at.bit
       /\ px.chr = planes[0][at.cell * 2]
  /\ ui = "bits" => px.att = planes[1][px.cell * 2]
  /\ ui = "colour" => px.idx = IndexNow(file, planes, n)
  /\ \A i \in 0..(n - 1) : image.rgb[i] = PixelNow(file, planes, clut, i)

Consistent == Quiet => Current

\* Nobody sets ui_alive again once the window's thread has cleared it.
EndOrder ==
  /\ main # "ctor" /\ ~alive => ui = "ended"
  /\ main \in {"destroyed", "gone"} => ui = "ended"

-----------------------------------------------------------------------------
(* The sizes are natural numbers.                                          *)

LEMMA FieldNat ==
  ASSUME NEW raw \in Raw, NEW low \in Nat \ {0}, NEW width \in Nat \ {0}
  PROVE  Field(raw, low, width) \in Nat
BY DEF Field, Raw

LEMMA ProductNat ==
  ASSUME NEW a \in Nat, NEW b \in Nat
  PROVE  a * b \in Nat
OBVIOUS

LEMMA SizesNat ==
  ASSUME RegisterTypes
  PROVE  PixelsPerLine(file) \in Nat /\ Scanlines(file) \in Nat
<1>1. file["crt"] \in [CrtRegisters -> Raw]
  BY DEF RegisterTypes, Devices, Implemented
<1>2. file["crt"][1] \in Raw /\ file["crt"][18] \in Raw /\ file["crt"][9] \in Raw
  BY <1>1 DEF CrtRegisters
<1>3. ScanlineReps(file) \in Nat
  BY <1>2, FieldNat DEF ScanlineReps
<1>4. BlocksPerLine(file) \in Nat /\ VerticalEnd(file) \in Nat /\ CharBlock \in Nat
  BY <1>2, VgaAssumption DEF BlocksPerLine, VerticalEnd, Raw
<1>. QED
  BY <1>3, <1>4, ProductNat DEF PixelsPerLine, Scanlines

LEMMA NewImageShape ==
  ASSUME NEW w \in Nat, NEW h \in Nat
  PROVE  /\ DOMAIN NewImage(w, h) = {"w", "h", "rgb"}
         /\ NewImage(w, h).w = w /\ NewImage(w, h).h = h
         /\ DOMAIN NewImage(w, h).rgb = 0..(w * h - 1)
BY DEF NewImage

-----------------------------------------------------------------------------
(* Types.                                                                  *)

LEMMA OutValue ==
  ASSUME NEW o \in Operation, o.op = "out"
  PROVE  o.v \in Raw
<1>1. o \in PortWrite \/ o \in PortRead \/ o \in VideoWrite \/ o \in VideoCopy
  BY DEF Operation
<1>2. o \notin PortRead
  BY DEF PortRead
<1>3. o \notin VideoWrite
  BY DEF VideoWrite
<1>4. o \notin VideoCopy
  BY DEF VideoCopy
<1>. QED
  BY <1>1, <1>2, <1>3, <1>4 DEF PortWrite

LEMMA RegisterTypesInit == Init => RegisterTypes
<1> SUFFICES ASSUME Init PROVE RegisterTypes
  OBVIOUS
<1>1. program \in Seq(Operation)
  <2>1. PICK p \in Programs : program = Boot \o p
    BY DEF Init
  <2>2. p \in Seq(Operation) /\ Boot \in Seq(Operation)
    BY DisplayAssumption
  <2>. QED
    BY <2>1, <2>2
<1>2. \A d \in Devices : \A i \in Implemented[d] : 0 \in Raw
  BY DEF Raw
<1>. QED
  BY <1>1, <1>2 DEF Init, RegisterTypes

LEMMA RegisterTypesStep == RegisterTypes /\ [Next]_vars => RegisterTypes'
<1> SUFFICES ASSUME RegisterTypes, [Next]_vars PROVE RegisterTypes'
  OBVIOUS
<1>1. program' = program
  BY DEF Next, Cpu, Ui, MainStarts, MainLeaves, MainExits, OutRegister, OutMisc, OutDac, In,
         MemWrite, MemCopy, ByteIgnored, ByteBegun, Store, StoreDone, Flag, UiStarts, UiTurn,
         UiPolls, UiClears, UiSizes, UiMode, UiPresents, UiTextPixel, UiAttribute, UiGlyph,
         UiGraphicPixel, UiColour, UiCloses, UiEnds, cpuVars, guest, vars
<1>2. CASE OutRegister
  <2> DEFINE o == program[pos]
             d == DeviceAt(VgaPorts, o.port)
  <2>1. o \in Operation /\ o.op = "out"
    BY <1>2 DEF OutRegister, Executes, RegisterTypes
  <2>2. o.v \in Raw
    BY <2>1, OutValue
  <2>3. CASE file' = file
    BY <1>1, <2>3 DEF RegisterTypes
  <2>4. CASE /\ d \in Devices /\ sel[d] \in Implemented[d]
             /\ file' = [file EXCEPT ![d][sel[d]] = o.v]
    BY <1>1, <2>2, <2>4 DEF RegisterTypes
  <2>. QED
    BY <1>2, <2>3, <2>4 DEF OutRegister
<1>3. CASE file' = file
  BY <1>1, <1>3 DEF RegisterTypes
<1>. QED
  BY <1>2, <1>3
     DEF Next, Cpu, Ui, MainStarts, MainLeaves, MainExits, OutMisc, OutDac, In,
         MemWrite, MemCopy, ByteIgnored, ByteBegun, Store, StoreDone, Flag, UiStarts, UiTurn,
         UiPolls, UiClears, UiSizes, UiMode, UiPresents, UiTextPixel, UiAttribute, UiGlyph,
         UiGraphicPixel, UiColour, UiCloses, UiEnds, cpuVars, registers, vars

-----------------------------------------------------------------------------
(* The steps of the processor.                                             *)

\* A step that leaves the window and what it looks at alone, and after which
\* something is owed to the window unless nothing was before.
LEMMA Undisturbed ==
  ASSUME WindowShape, Consistent,
         UNCHANGED <<file, planes, clut, count, window>>, Quiet' => Quiet
  PROVE  WindowShape' /\ Consistent'
BY DEF WindowShape, Consistent, Current, InPicture, SizeCurrent, window

\* A step after which something is owed to the window.
LEMMA Owed ==
  ASSUME WindowShape, UNCHANGED <<count, window>>, ~Quiet'
  PROVE  WindowShape' /\ Consistent'
BY DEF WindowShape, Consistent, window

LEMMA CpuStep ==
  ASSUME WindowShape, Consistent, Cpu, Running
  PROVE  WindowShape' /\ Consistent'
<1> USE DEF asking, ghosts
<1>1. CASE MainStarts \/ MainLeaves \/ MainExits
  <2>1. UNCHANGED <<file, planes, clut, count, window, refresh, dirty, cpc, fault>>
    BY <1>1 DEF MainStarts, MainLeaves, MainExits, registers, guest
  <2>. QED
    BY <2>1, Undisturbed DEF Quiet
<1>2. CASE OutRegister
  <2>1. CASE dirty'
    <3>1. UNCHANGED <<count, window>>
      BY <1>2 DEF OutRegister
    <3>. QED
      BY <2>1, <3>1, Owed DEF Quiet
  <2>2. CASE ~dirty'
    <3>1. UNCHANGED <<file, planes, clut, count, window, refresh, dirty, cpc, fault>>
      BY <1>2, <2>2 DEF OutRegister
    <3>. QED
      BY <3>1, Undisturbed DEF Quiet
  <2>. QED
    BY <2>1, <2>2
<1>3. CASE OutMisc \/ In \/ MemWrite \/ ByteIgnored
  <2>1. UNCHANGED <<file, planes, clut, count, window, refresh, dirty, cpc, fault>>
    BY <1>3 DEF OutMisc, In, MemWrite, ByteIgnored, registers
  <2>. QED
    BY <2>1, Undisturbed DEF Quiet
<1>4. CASE OutDac
  <2>1. CASE program[pos].port = DacColour
    <3>1. UNCHANGED <<count, window>> /\ dirty'
      BY <1>4, <2>1 DEF OutDac
    <3>. QED
      BY <3>1, Owed DEF Quiet
  <2>2. CASE program[pos].port # DacColour
    <3>1. UNCHANGED <<file, planes, clut, count, window, refresh, cpc, fault>> /\ (dirty => dirty')
      BY <1>4, <2>2 DEF OutDac
    <3>. QED
      BY <3>1, Undisturbed DEF Quiet
  <2>. QED
    BY <2>1, <2>2
<1>5. CASE MemCopy
  <2>1. /\ UNCHANGED <<file, planes, clut, count, window, refresh, dirty, cpc>>
        /\ fault' = fault \/ fault' = "range"
    BY <1>5 DEF MemCopy, registers
  <2>. QED
    BY <2>1, Undisturbed DEF Quiet
<1>6. CASE ByteBegun
  <2>1. /\ UNCHANGED <<file, planes, clut, count, window, refresh, dirty>>
        /\ \/ cpc' = cpc /\ fault' = "range"
           \/ cpc' = "store"
    BY <1>6 DEF ByteBegun, registers
  <2>. QED
    BY <2>1, Undisturbed DEF Quiet
<1>7. CASE Store
  <2>1. UNCHANGED <<count, window>> /\ cpc' = "store"
    BY <1>7 DEF Store
  <2>. QED
    BY <2>1, Owed DEF Quiet
<1>8. CASE StoreDone
  <2>1. UNCHANGED <<count, window>> /\ cpc' = "flag"
    BY <1>8 DEF StoreDone
  <2>. QED
    BY <2>1, Owed DEF Quiet
<1>9. CASE Flag
  <2>1. count = 0 /\ (0 + 1) % 1 = 0
    BY DEF WindowShape
  <2>2. UNCHANGED <<count, window>>
    BY <1>9, <2>1 DEF Flag, RefreshRate
  <2>3. refresh'
    BY <1>9, <2>1, <2>2, Zenon DEF Flag
  <2>. QED
    BY <2>2, <2>3, Owed DEF Quiet
<1>. QED
  BY <1>1, <1>2, <1>3, <1>4, <1>5, <1>6, <1>7, <1>8, <1>9 DEF Cpu

-----------------------------------------------------------------------------
(* The steps of the window.                                                *)

LEMMA UiStep ==
  ASSUME RegisterTypes, WindowShape, Consistent, Ui, Running
  PROVE  WindowShape' /\ Consistent'
<1> USE DEF asking, cpuVars, guest, registers
<1>1. CASE UiStarts
  <2>1. Width0 \in Nat /\ Height0 \in Nat
    BY DisplayAssumption
  <2>2. image'.w = Width0 /\ image'.h = Height0 /\ DOMAIN image' = {"w", "h", "rgb"}
        /\ DOMAIN image'.rgb = 0..(image'.w * image'.h - 1)
    BY <1>1, <2>1, NewImageShape DEF UiStarts
  <2>3. UNCHANGED <<n, px, mode, count>> /\ ui' = "loop"
    BY <1>1 DEF UiStarts
  <2>4. n = 0
    BY <1>1 DEF UiStarts, WindowShape
  <2>. QED
    BY <2>1, <2>2, <2>3, <2>4, ProductNat
       DEF WindowShape, Consistent, Current, InPicture
<1>2. CASE UiTurn
  <2>1. /\ UNCHANGED <<file, planes, clut, count, image, mode, n, px, refresh, dirty, cpc, fault>>
        /\ ui' = "poll"
    BY <1>2 DEF UiTurn
  <2>. QED
    BY <2>1 DEF WindowShape, Consistent, Current, InPicture, SizeCurrent, Quiet
<1>3. CASE UiPolls
  <2>1. /\ UNCHANGED <<file, planes, clut, count, image, mode, n, px, refresh, dirty, cpc, fault>>
        /\ ui' \in {"clear", "loop"}
    BY <1>3 DEF UiPolls
  <2>. QED
    BY <2>1 DEF WindowShape, Consistent, Current, InPicture, SizeCurrent, Quiet
<1>4. CASE UiClears
  <2>1. UNCHANGED <<count, image, mode, px>> /\ n' = 0 /\ ui' = "size"
    BY <1>4 DEF UiClears
  <2>2. 0 \in Nat /\ 0 <= image.w * image.h
    BY ProductNat DEF WindowShape
  <2>. QED
    BY <2>1, <2>2 DEF WindowShape, Consistent, Current, InPicture
<1>5. CASE UiSizes
  <2> DEFINE w == PixelsPerLine(file)
             h == Scanlines(file)
  <2>1. w \in Nat /\ h \in Nat
    BY SizesNat
  <2>2. /\ UNCHANGED <<file, planes, clut, count, mode, n, px, refresh, dirty, cpc, fault>>
        /\ ui' = "mode" /\ n = 0
        /\ image' = Resized(image, w, h)
    BY <1>5 DEF UiSizes, WindowShape
  <2>3. CASE w # 0 /\ h # 0 /\ (w # image.w \/ h # image.h)
    <3>1. image' = NewImage(w, h)
      BY <2>2, <2>3 DEF Resized
    <3>2. /\ image'.w = w /\ image'.h = h /\ DOMAIN image' = {"w", "h", "rgb"}
          /\ DOMAIN image'.rgb = 0..(image'.w * image'.h - 1)
      BY <2>1, <3>1, NewImageShape
    <3>3. 0 <= w * h
      BY <2>1, ProductNat
    <3>4. WindowShape'
      BY <2>1, <2>2, <3>2, <3>3 DEF WindowShape
    <3>5. Consistent'
      BY <2>2, <3>2 DEF Consistent, Current, InPicture, SizeCurrent
    <3>. QED
      BY <3>4, <3>5
  <2>4. CASE ~(w # 0 /\ h # 0 /\ (w # image.w \/ h # image.h))
    <3>1. image' = image
      BY <2>2, <2>4 DEF Resized
    <3>2. WindowShape'
      BY <2>2, <3>1 DEF WindowShape
    <3>3. SizeCurrent'
      BY <2>2, <2>4, <3>1 DEF SizeCurrent
    <3>4. Consistent'
      BY <2>2, <3>3 DEF Consistent, Current, InPicture
    <3>. QED
      BY <3>2, <3>4
  <2>. QED
    BY <2>3, <2>4
<1>6. CASE UiMode
  <2>1. /\ UNCHANGED <<file, planes, clut, count, image, n, px, refresh, dirty, cpc, fault>>
        /\ mode' = Mode(file) /\ ui = "mode" /\ ui' = "pixel" /\ n = 0
    BY <1>6 DEF UiMode, WindowShape
  <2>. QED
    BY <2>1 DEF WindowShape, Consistent, Current, InPicture, SizeCurrent, Quiet
<1>7. CASE UiPresents
  <2>1. /\ UNCHANGED <<file, planes, clut, count, image, mode, n, px, refresh, dirty, cpc, fault>>
        /\ ui = "pixel" /\ ui' = "loop"
    BY <1>7 DEF UiPresents
  <2>. QED
    BY <2>1 DEF WindowShape, Consistent, Current, InPicture, SizeCurrent, Quiet
<1>8. CASE UiTextPixel
  <2> DEFINE at == TextPlace(file, n)
  <2>1. UNCHANGED <<file, planes, clut, count, image, mode, n, refresh, dirty, cpc>>
    BY <1>8 DEF UiTextPixel
  <2>2. CASE UNCHANGED <<px, ui>> /\ fault' # "none"
    <3>1. WindowShape'
      BY <2>1, <2>2 DEF WindowShape
    <3>. QED
      BY <2>2, <3>1 DEF Consistent, Quiet
  <2>3. CASE /\ px' = [px EXCEPT !.cell = at.cell, !.row = at.row, !.bit = at.bit,
                                  !.chr = planes[0][at.cell * 2]]
             /\ ui' = "att" /\ fault' = fault
    <3>1. ui = "pixel" /\ n < image.w * image.h /\ mode = "text"
      BY <1>8 DEF UiTextPixel
    <3>2. /\ DOMAIN px' = {"cell", "row", "bit", "chr", "att", "idx"}
          /\ px'.cell = at.cell /\ px'.row = at.row /\ px'.bit = at.bit
          /\ px'.chr = planes[0][at.cell * 2]
      BY <2>3 DEF WindowShape
    <3>3. WindowShape'
      BY <2>1, <2>3, <3>1, <3>2 DEF WindowShape
    <3>4. Consistent'
      BY <2>1, <2>3, <3>1, <3>2 DEF Consistent, Current, InPicture, SizeCurrent, Quiet
    <3>. QED
      BY <3>3, <3>4
  <2>. QED
    BY <1>8, <2>2, <2>3 DEF UiTextPixel
<1>9. CASE UiAttribute
  <2>1. /\ UNCHANGED <<file, planes, clut, count, image, mode, n, refresh, dirty, cpc, fault>>
        /\ ui = "att" /\ ui' = "bits"
        /\ px' = [px EXCEPT !.att = planes[1][px.cell * 2]]
    BY <1>9 DEF UiAttribute
  <2>2. /\ DOMAIN px' = {"cell", "row", "bit", "chr", "att", "idx"}
        /\ px'.cell = px.cell /\ px'.row = px.row /\ px'.bit = px.bit /\ px'.chr = px.chr
        /\ px'.att = planes[1][px.cell * 2]
    BY <2>1 DEF WindowShape
  <2>3. WindowShape'
    BY <2>1, <2>2 DEF WindowShape
  <2>4. Consistent'
    BY <2>1, <2>2 DEF Consistent, Current, InPicture, SizeCurrent, Quiet
  <2>. QED
    BY <2>3, <2>4
<1>10. CASE UiGlyph
  <2> DEFINE idx == TextIndex(planes[2][FontAddress(file, px.att, px.chr, px.row)], px.bit, px.att)
  <2>1. /\ UNCHANGED <<file, planes, clut, count, image, mode, n, refresh, dirty, cpc, fault>>
        /\ ui = "bits" /\ ui' = "colour"
        /\ px' = [px EXCEPT !.idx = idx]
    BY <1>10 DEF UiGlyph
  <2>2. DOMAIN px' = {"cell", "row", "bit", "chr", "att", "idx"} /\ px'.idx = idx
    BY <2>1 DEF WindowShape
  <2>3. WindowShape'
    BY <2>1, <2>2 DEF WindowShape
  <2>4. ASSUME Quiet PROVE idx = IndexNow(file, planes, n)
    <3>1. Mode(file) = "text"
      BY <2>1, <2>4 DEF WindowShape, Consistent, Current, InPicture
    <3>2. ~GraphicsMode(file)
      BY <3>1 DEF Mode
    <3>3. /\ px.cell = TextPlace(file, n).cell /\ px.row = TextPlace(file, n).row
          /\ px.bit = TextPlace(file, n).bit
          /\ px.chr = planes[0][TextPlace(file, n).cell * 2] /\ px.att = planes[1][px.cell * 2]
      BY <2>1, <2>4 DEF Consistent, Current
    <3>. QED
      BY <3>2, <3>3 DEF IndexNow
  <2>5. Consistent'
    BY <2>1, <2>2, <2>4 DEF Consistent, Current, InPicture, SizeCurrent, Quiet
  <2>. QED
    BY <2>3, <2>5
<1>11. CASE UiGraphicPixel
  <2>1. /\ UNCHANGED <<file, planes, clut, count, image, mode, n, refresh, dirty, cpc>>
        /\ ui = "pixel" /\ n < image.w * image.h /\ mode # "text"
    BY <1>11 DEF UiGraphicPixel
  <2>2. CASE UNCHANGED <<px, ui>> /\ fault' # "none"
    <3>1. WindowShape'
      BY <2>1, <2>2 DEF WindowShape
    <3>. QED
      BY <2>2, <3>1 DEF Consistent, Quiet
  <2>3. CASE px' = [px EXCEPT !.idx = planes[2][n]] /\ ui' = "colour" /\ fault' = fault
    <3>1. /\ DOMAIN px' = {"cell", "row", "bit", "chr", "att", "idx"}
          /\ px'.idx = planes[2][n]
      BY <2>3 DEF WindowShape
    <3>2. WindowShape'
      BY <2>1, <2>3, <3>1 DEF WindowShape
    <3>3. ASSUME Quiet PROVE planes[2][n] = IndexNow(file, planes, n)
      <4>1. Mode(file) # "text"
        BY <2>1, <3>3 DEF Consistent, Current, InPicture
      <4>2. GraphicsMode(file)
        BY <4>1 DEF Mode
      <4>. QED
        BY <4>2 DEF IndexNow
    <3>4. Consistent'
      BY <2>1, <2>3, <3>1, <3>3 DEF Consistent, Current, InPicture, SizeCurrent, Quiet
    <3>. QED
      BY <3>2, <3>4
  <2>. QED
    BY <1>11, <2>2, <2>3 DEF UiGraphicPixel
<1>12. CASE UiColour
  <2> DEFINE c == clut[ColourIndex(file, mode, px.idx)]
  <2>1. /\ UNCHANGED <<file, planes, clut, count, mode, px, refresh, dirty, cpc, fault>>
        /\ ui = "colour" /\ ui' = "pixel" /\ n' = n + 1
        /\ image' = [image EXCEPT !.rgb[n] = c]
    BY <1>12 DEF UiColour
  <2>2. n < image.w * image.h /\ n \in Nat /\ image.w * image.h \in Nat
    BY <2>1, ProductNat DEF WindowShape
  <2>3. n \in DOMAIN image.rgb
    BY <2>2 DEF WindowShape
  <2>4. /\ DOMAIN image' = {"w", "h", "rgb"} /\ image'.w = image.w /\ image'.h = image.h
        /\ image'.rgb = [image.rgb EXCEPT ![n] = c]
    BY <2>1 DEF WindowShape
  <2>5. /\ DOMAIN image'.rgb = 0..(image.w * image.h - 1)
        /\ image'.rgb[n] = c
        /\ \A i \in 0..(n - 1) : image'.rgb[i] = image.rgb[i]
    BY <2>2, <2>3, <2>4 DEF WindowShape
  <2>6. WindowShape'
    BY <2>1, <2>2, <2>4, <2>5 DEF WindowShape
  <2>7. ASSUME Quiet PROVE c = PixelNow(file, planes, clut, n)
    BY <2>1, <2>7 DEF Consistent, Current, InPicture, PixelNow
  <2>8. Consistent'
    <3> SUFFICES ASSUME Quiet' PROVE Current'
      BY DEF Consistent
    <3>1. Quiet /\ Current
      BY <2>1 DEF Quiet, Consistent
    <3>2. \A i \in 0..n : image'.rgb[i] = PixelNow(file, planes, clut, i)
      BY <2>2, <2>5, <2>7, <3>1 DEF Current
    <3>3. SizeCurrent' /\ mode = Mode(file)
      BY <2>1, <2>4, <3>1 DEF Current, InPicture, SizeCurrent
    <3>4. n' - 1 = n
      BY <2>1, <2>2
    <3>. QED
      BY <2>1, <3>2, <3>3, <3>4 DEF Current, InPicture
  <2>. QED
    BY <2>6, <2>8
<1>13. CASE UiCloses
  <2>1. /\ UNCHANGED <<count, mode, px>> /\ n' = 0 /\ ui' = "freed"
        /\ image' = [w |-> 0, h |-> 0, rgb |-> << >>]
    BY <1>13 DEF UiCloses
  <2>2. DOMAIN << >> = 0..(0 * 0 - 1)
    OBVIOUS
  <2>. QED
    BY <2>1, <2>2 DEF WindowShape, Consistent, Current, InPicture
<1>14. CASE UiEnds
  <2>1. /\ UNCHANGED <<file, planes, clut, count, image, mode, n, px, refresh, dirty, cpc, fault>>
        /\ ui = "freed" /\ ui' = "ended"
    BY <1>14 DEF UiEnds
  <2>. QED
    BY <2>1 DEF WindowShape, Consistent, Current, InPicture, SizeCurrent, Quiet
<1>. QED
  BY <1>1, <1>2, <1>3, <1>4, <1>5, <1>6, <1>7, <1>8, <1>9, <1>10, <1>11, <1>12, <1>13, <1>14
     DEF Ui

-----------------------------------------------------------------------------
(* The data paths: what they return for registers of the right types.      *)

\* Half * Half is at least Half: an attribute's halves are bytes too.
LEMMA HalfByte == Half - 1 <= Half * Half - 1 /\ Half * Half - 1 \in Nat
<1>1. Half \in Nat /\ Half >= 1
  BY VgaAssumption
<1>2. \A x, y \in Nat : x >= 1 => y <= x * y
  OBVIOUS
<1>3. Half <= Half * Half /\ Half * Half \in Nat
  BY <1>1, <1>2, ProductNat
<1>. QED
  BY <1>1, <1>3

LEMMA ZeroByte == 0 \in Byte
BY HalfByte DEF Byte

LEMMA GcRaw ==
  ASSUME RegisterTypes
  PROVE  file["gc"][4] \in Raw /\ file["gc"][5] \in Raw /\ file["gc"][6] \in Raw
<1>1. file["gc"] \in [GcRegisters -> Raw]
  BY DEF RegisterTypes, Devices, Implemented
<1>. QED
  BY <1>1 DEF GcRegisters

LEMMA MapRanges ==
  ASSUME RegisterTypes
  PROVE  MemoryMap(file) \in 0..3 /\ ReadMap(file) \in 0..3
BY GcRaw DEF MemoryMap, ReadMap, Field, Raw

LEMMA ModRange ==
  ASSUME NEW x \in Nat, NEW y \in Nat, y # 0
  PROVE  x % y \in Nat /\ x % y < y /\ x % y <= x
OBVIOUS

LEMMA DivNat ==
  ASSUME NEW x \in Nat, NEW y \in Nat, y # 0
  PROVE  x \div y \in Nat
OBVIOUS

LEMMA DivBelow ==
  ASSUME NEW x \in Nat, NEW y \in Nat, NEW z \in Nat, x < y * z, y # 0
  PROVE  x \div y < z
OBVIOUS

LEMMA HalfPlane == K64 \div 2 \in Nat /\ 2 * (K64 \div 2) = K64 /\ (K64 \div 2) % 2 = 0
BY VgaAssumption

LEMMA AreaNat ==
  ASSUME RegisterTypes
  PROVE  Area(file).base \in Nat /\ Area(file).size \in Nat
<1>1. CASE MemoryMap(file) = 0
  BY <1>1, VgaAssumption DEF Area
<1>2. CASE MemoryMap(file) = 1
  BY <1>2, VgaAssumption DEF Area
<1>3. CASE MemoryMap(file) = 2
  BY <1>3, VgaAssumption, HalfPlane DEF Area
<1>4. CASE MemoryMap(file) = 3
  BY <1>4, VgaAssumption, HalfPlane DEF Area
<1>. QED
  BY <1>1, <1>2, <1>3, <1>4, MapRanges

LEMMA AlignedNat ==
  ASSUME NEW a \in Nat
  PROVE  /\ Aligned(a, 2) \in Nat /\ Aligned(a, 2) <= a
         /\ Aligned(a, 4) \in Nat
BY DEF Aligned

LEMMA TruncatedNat ==
  ASSUME NEW a \in Nat
  PROVE  Truncated(file, a) \in Nat
BY VgaAssumption DEF Truncated

LEMMA StoresTypes ==
  ASSUME RegisterTypes, NEW a \in Nat
  PROVE  Stores(file, a).planes \subseteq Plane /\ Stores(file, a).offset \in Nat
<1> DEFINE t == Truncated(file, a)
           b == IF Chain4(file) THEN Aligned(t, 4) ELSE t
<1>1. t \in Nat
  BY TruncatedNat
<1>2. b \in Nat
  BY <1>1, AlignedNat
<1>3. CASE InArea(file, b) /\ WriteMode(file) = 0
  <2>1. Stores(file, a) = [planes |-> TargetPlanes(file, t), offset |-> TargetOffset(file, t)]
    BY <1>3 DEF Stores
  <2>2. b - Area(file).base \in Nat
    BY <1>2, <1>3, AreaNat DEF InArea
  <2>3. TargetOffset(file, t) \in Nat
    BY <2>2, AlignedNat DEF TargetOffset
  <2>. QED
    BY <2>1, <2>3 DEF TargetPlanes
<1>4. CASE ~(InArea(file, b) /\ WriteMode(file) = 0)
  BY <1>4 DEF Stores
<1>. QED
  BY <1>3, <1>4

\* A byte read inside the planes.
LEMMA ReadMemoryByte ==
  ASSUME RegisterTypes, planes \in [Plane -> [Offset -> Byte]], NEW a \in Nat,
         ~(ReadsPlane(file, a) /\ Beyond(ReadOffset(file, a)))
  PROVE  ReadMemory(file, planes, a) \in Byte
<1> DEFINE o == ReadOffset(file, a)
           r == ReadMap(file)
<1>1. CASE ~ReadsPlane(file, a)
  BY <1>1, ZeroByte DEF ReadMemory
<1>2. CASE ReadsPlane(file, a)
  <2>1. Truncated(file, a) \in Nat
    BY TruncatedNat
  <2>2. o \in Nat
    BY <1>2, <2>1, AreaNat DEF ReadsPlane, InArea, ReadOffset
  <2>3. o \in Offset /\ Aligned(o, 2) \in Offset
    <3>1. o < K64 /\ K64 \in Nat
      BY <1>2, <2>2, VgaAssumption DEF Beyond
    <3>2. Aligned(o, 2) \in Nat /\ Aligned(o, 2) <= o
      BY <2>2, AlignedNat
    <3>. QED
      BY <2>2, <3>1, <3>2 DEF Offset
  <2>4. 2 * (r \div 2) + (o % 2) \in Plane /\ r \in Plane
    BY <2>2, MapRanges DEF Plane
  <2>5. planes[2 * (r \div 2) + (o % 2)][Aligned(o, 2)] \in Byte /\ planes[r][o] \in Byte
    BY <2>3, <2>4
  <2>. QED
    BY <1>2, <2>5 DEF ReadMemory
<1>. QED
  BY <1>1, <1>2

\* The parts of the place of a pixel of text.
LEMMA TextPlaceRange ==
  ASSUME RegisterTypes, n \in Nat, PixelsPerLine(file) # 0
  PROVE  /\ TextPlace(file, n).cell \in Offset /\ TextPlace(file, n).row \in Offset
         /\ TextPlace(file, n).bit \in 0..(CharBlock - 1)
<1> DEFINE line == (n \div PixelsPerLine(file)) % K64
           along == (n % PixelsPerLine(file)) % K64
           c == (line \div ScanlineReps(file)) * BlocksPerLine(file) + along \div CharBlock
<1>1. PixelsPerLine(file) \in Nat /\ PixelsPerLine(file) # 0
  BY SizesNat
<1>2. file["crt"] \in [CrtRegisters -> Raw]
  BY DEF RegisterTypes, Devices, Implemented
<1>3. file["crt"][1] \in Raw /\ file["crt"][9] \in Raw
  BY <1>2 DEF CrtRegisters
<1>4. ScanlineReps(file) \in Nat /\ ScanlineReps(file) # 0 /\ BlocksPerLine(file) \in Nat
  <2>1. Field(file["crt"][9], 1, 32) \in Nat
    BY <1>3, FieldNat
  <2>. QED
    BY <1>3, <2>1 DEF ScanlineReps, BlocksPerLine, Raw
<1>5. K64 \in Nat /\ K64 # 0 /\ CharBlock \in Nat /\ CharBlock # 0
  BY VgaAssumption
<1>6. n \div PixelsPerLine(file) \in Nat /\ n % PixelsPerLine(file) \in Nat
  BY <1>1, DivNat, ModRange
<1>7. line \in Nat /\ line < K64 /\ along \in Nat
  BY <1>5, <1>6, ModRange
<1> HIDE DEF line, along
<1>8. line \div ScanlineReps(file) \in Nat /\ along \div CharBlock \in Nat
  BY <1>4, <1>5, <1>7, DivNat
<1>9. c \in Nat
  BY <1>4, <1>8, ProductNat
<1> HIDE DEF c
<1>10. c % K64 \in Offset
  BY <1>5, <1>9, ModRange DEF Offset
<1>11. line % ScanlineReps(file) \in Nat /\ line % ScanlineReps(file) <= line
  BY <1>4, <1>7, ModRange
<1>12. line % ScanlineReps(file) \in Offset
  BY <1>5, <1>7, <1>11 DEF Offset
<1>13. along % CharBlock \in 0..(CharBlock - 1)
  BY <1>5, <1>7, ModRange
<1>. QED
  BY <1>10, <1>12, <1>13 DEF TextPlace, line, along, c

\* Whatever the font holds, the index is a half of the attribute.
LEMMA TextIndexByte ==
  ASSUME NEW bits, NEW bit, NEW att \in Byte
  PROVE  TextIndex(bits, bit, att) \in Byte
<1>1. Half \in Nat /\ Half # 0 /\ Half * Half \in Nat
  BY VgaAssumption, ProductNat
<1>2. att \in Nat /\ att < Half * Half
  BY <1>1, HalfByte DEF Byte
<1>3. att % Half \in Nat /\ att % Half < Half
  BY <1>1, <1>2, ModRange
<1>4. att \div Half \in Nat /\ att \div Half < Half
  BY <1>1, <1>2, DivNat, DivBelow
<1>5. att % Half \in Byte /\ att \div Half \in Byte
  BY <1>1, <1>3, <1>4, HalfByte DEF Byte
<1>. QED
  BY <1>5 DEF TextIndex

-----------------------------------------------------------------------------
(* Type correctness.                                                       *)

\* The first thread and its guest.
GuestTypes ==
  /\ main \in {"ctor", "run", "destroyed", "gone"}
  /\ pos \in 1..(Len(program) + 1)
  /\ todo \in Seq([addr : Nat, v : Byte])
  /\ pend \in [planes : SUBSET Plane, offset : Nat, v : Byte]
  /\ pend.planes # {} => pend.offset \in Offset
  /\ cpc \in {"ready", "store", "flag"}

\* The adapter, and what was stored last.
AdapterTypes ==
  /\ mor \in Raw
  /\ sel \in [Devices -> Raw]
  /\ dac \in [progress : 0..2, w : 0..(Colours - 1), r : 0..(Colours - 1)]
  /\ clut \in [0..(Colours - 1) -> Colour]
  /\ planes \in [Plane -> [Offset -> Byte]]
  /\ last \in [Video -> Byte \cup {None}]

\* The window; the attribute of a cell is read at the place of its character,
\* which was found to be inside the plane.
WindowTypes ==
  /\ refresh \in BOOLEAN /\ alive \in BOOLEAN /\ wanted \in BOOLEAN /\ dirty \in BOOLEAN
  /\ mode \in {"text", "graphic", "graphic256"}
  /\ px \in [cell : Offset, row : Offset, bit : 0..(CharBlock - 1),
              chr : Byte, att : Byte, idx : Byte]
  /\ ui = "att" => px.cell * 2 \in Offset
  /\ fault \in {"none", "divide", "range"}

TypeInv == GuestTypes /\ AdapterTypes /\ WindowTypes

LEMMA MemOperation ==
  ASSUME NEW o \in Operation, o.op = "mem"
  PROVE  o.addr \in Nat /\ o.bytes \in Seq(Byte)
<1>1. o \in PortWrite \/ o \in PortRead \/ o \in VideoWrite \/ o \in VideoCopy
  BY DEF Operation
<1>2. o \notin PortRead
  BY DEF PortRead
<1>3. o \notin PortWrite
  BY DEF PortWrite
<1>4. o \notin VideoCopy
  BY DEF VideoCopy
<1>. QED
  BY <1>1, <1>2, <1>3, <1>4 DEF VideoWrite

LEMMA CopyOperation ==
  ASSUME NEW o \in Operation, o.op = "copy"
  PROVE  o.addr \in Nat /\ o.from \in Nat /\ o.n \in Nat
<1>1. o \in PortWrite \/ o \in PortRead \/ o \in VideoWrite \/ o \in VideoCopy
  BY DEF Operation
<1>2. o \notin PortRead
  BY DEF PortRead
<1>3. o \notin PortWrite
  BY DEF PortWrite
<1>4. o \notin VideoWrite
  BY DEF VideoWrite
<1>. QED
  BY <1>1, <1>2, <1>3, <1>4 DEF VideoCopy

\* The guest's next operation, and the one after it.
LEMMA NextOperation ==
  ASSUME RegisterTypes, NEW kind, Executes(kind), GuestTypes
  PROVE  /\ program[pos] \in Operation /\ program[pos].op = kind
         /\ pos' \in 1..(Len(program) + 1)
BY DEF RegisterTypes, Executes

LEMMA FirstAndRest ==
  ASSUME NEW S, NEW s \in Seq(S), s # << >>
  PROVE  Head(s) \in S /\ Tail(s) \in Seq(S)
OBVIOUS

LEMMA SequenceItem ==
  ASSUME NEW S, NEW s \in Seq(S), NEW i \in 1..Len(s)
  PROVE  s[i] \in S
OBVIOUS

LEMMA BytesTypes ==
  ASSUME NEW a \in Nat, NEW s \in Seq(Byte)
  PROVE  Bytes(a, s) \in Seq([addr : Nat, v : Byte])
<1>1. Len(s) \in Nat
  OBVIOUS
<1>2. \A i \in 1..Len(s) : [addr |-> a + i - 1, v |-> s[i]] \in [addr : Nat, v : Byte]
  <2> SUFFICES ASSUME NEW i \in 1..Len(s)
               PROVE  [addr |-> a + i - 1, v |-> s[i]] \in [addr : Nat, v : Byte]
    OBVIOUS
  <2>1. s[i] \in Byte
    OBVIOUS
  <2>2. a + i - 1 \in Nat
    BY <1>1
  <2>. QED
    BY <2>1, <2>2
<1>. QED
  BY <1>1, <1>2 DEF Bytes

LEMMA DacSet ==
  ASSUME NEW d \in [progress : 0..2, w : 0..(Colours - 1), r : 0..(Colours - 1)],
         NEW c \in 0..(Colours - 1)
  PROVE  /\ [d EXCEPT !.progress = 0, !.w = c]
              \in [progress : 0..2, w : 0..(Colours - 1), r : 0..(Colours - 1)]
         /\ [d EXCEPT !.progress = 0, !.r = c]
              \in [progress : 0..2, w : 0..(Colours - 1), r : 0..(Colours - 1)]
<1>1. [d EXCEPT !.progress = 0] \in [progress : 0..2, w : 0..(Colours - 1), r : 0..(Colours - 1)]
  OBVIOUS
<1>2. \A e \in [progress : 0..2, w : 0..(Colours - 1), r : 0..(Colours - 1)] :
        /\ [e EXCEPT !.w = c] \in [progress : 0..2, w : 0..(Colours - 1), r : 0..(Colours - 1)]
        /\ [e EXCEPT !.r = c] \in [progress : 0..2, w : 0..(Colours - 1), r : 0..(Colours - 1)]
  OBVIOUS
<1>. QED
  BY <1>1, <1>2, Zenon

LEMMA SteppedTypes ==
  ASSUME NEW d \in [progress : 0..2, w : 0..(Colours - 1), r : 0..(Colours - 1)],
         NEW index \in {"w", "r"}
  PROVE  Stepped(d, index) \in [progress : 0..2, w : 0..(Colours - 1), r : 0..(Colours - 1)]
<1>1. \A x \in 0..(Colours - 1) : (x + 1) % Colours \in 0..(Colours - 1)
  <2> SUFFICES ASSUME NEW x \in 0..(Colours - 1) PROVE (x + 1) % Colours \in 0..(Colours - 1)
    OBVIOUS
  <2>1. Colours \in Nat /\ Colours # 0 /\ x + 1 \in Nat
    BY VgaAssumption
  <2>. QED
    BY <2>1, ModRange
<1>2. CASE d.progress + 1 = 3
  <2>1. Stepped(d, index) = [d EXCEPT !.progress = 0, ![index] = (@ + 1) % Colours]
    BY <1>2 DEF Stepped
  <2>2. (d.w + 1) % Colours \in 0..(Colours - 1) /\ (d.r + 1) % Colours \in 0..(Colours - 1)
    BY <1>1
  <2>3. CASE index = "w"
    <3>1. Stepped(d, index) = [d EXCEPT !.progress = 0, !.w = (d.w + 1) % Colours]
      BY <2>1, <2>3
    <3>. QED
      BY <2>2, <3>1, DacSet
  <2>4. CASE index = "r"
    <3>1. Stepped(d, index) = [d EXCEPT !.progress = 0, !.r = (d.r + 1) % Colours]
      BY <2>1, <2>4
    <3>. QED
      BY <2>2, <3>1, DacSet
  <2>. QED
    BY <2>3, <2>4
<1>3. CASE d.progress + 1 # 3
  BY <1>3 DEF Stepped
<1>. QED
  BY <1>2, <1>3

LEMMA TypeInvInit == Init => TypeInv
<1> SUFFICES ASSUME Init PROVE TypeInv
  OBVIOUS
<1>1. PowerUp \subseteq Byte /\ PowerUp \subseteq Raw
  BY DisplayAssumption
<1>2. GuestTypes
  <2>1. pos = 1 /\ Len(program) \in Nat
    BY RegisterTypesInit DEF Init, RegisterTypes
  <2>2. todo = << >> /\ pend = NothingPending
    BY DEF Init
  <2>. QED
    BY <2>1, <2>2, ZeroByte DEF Init, GuestTypes, NothingPending
<1>3. AdapterTypes
  <2>1. clut \in [0..(Colours - 1) -> Colour]
    <3>1. \A b \in PowerUp : b % 64 \in 0..63
      BY <1>1 DEF Raw
    <3>2. {b % 64 : b \in PowerUp} \subseteq 0..63
      BY <3>1
    <3>3. [1..3 -> {b % 64 : b \in PowerUp}] \subseteq Colour
      BY <3>2 DEF Colour
    <3>4. clut \in [0..(Colours - 1) -> [1..3 -> {b % 64 : b \in PowerUp}]]
      BY DEF Init
    <3>. QED
      BY <3>3, <3>4
  <2>2. planes \in [Plane -> [Offset -> Byte]]
    BY <1>1 DEF Init
  <2>3. sel \in [Devices -> Raw] /\ mor \in Raw
    BY <1>1 DEF Init
  <2>4. dac \in [progress : 0..2, w : 0..(Colours - 1), r : 0..(Colours - 1)]
    BY VgaAssumption DEF Init
  <2>5. last \in [Video -> Byte \cup {None}]
    BY DEF Init, Forgotten
  <2>. QED
    BY <2>1, <2>2, <2>3, <2>4, <2>5 DEF AdapterTypes
<1>4. WindowTypes
  <2>1. px = NothingRead /\ 0 \in Offset /\ 0 \in 0..(CharBlock - 1)
    BY VgaAssumption DEF Init, Offset
  <2>2. px \in [cell : Offset, row : Offset, bit : 0..(CharBlock - 1),
                 chr : Byte, att : Byte, idx : Byte]
    BY <2>1, ZeroByte DEF NothingRead
  <2>. QED
    BY <2>2 DEF Init, WindowTypes
<1>. QED
  BY <1>2, <1>3, <1>4 DEF TypeInv

LEMMA TypesKept ==
  ASSUME TypeInv, UNCHANGED vars
  PROVE  TypeInv'
BY DEF TypeInv, GuestTypes, AdapterTypes, WindowTypes, vars, guest, registers, asking, window,
       ghosts

\* A step of the processor leaves the window's own variables alone.
LEMMA WindowTypesKept ==
  ASSUME WindowTypes, UNCHANGED <<window, wanted, alive>>, refresh' \in BOOLEAN,
         dirty' \in BOOLEAN, fault' \in {"none", "divide", "range"}
  PROVE  WindowTypes'
BY DEF WindowTypes, window

LEMMA CpuTypes ==
  ASSUME RegisterTypes, WindowShape, TypeInv, Cpu, Running
  PROVE  TypeInv'
<1> USE DEF asking, ghosts
<1>1. GuestTypes /\ AdapterTypes /\ WindowTypes
  BY DEF TypeInv
<1>2. program' = program
  BY DEF Cpu, MainStarts, MainLeaves, MainExits, OutRegister, OutMisc, OutDac, In,
         MemWrite, MemCopy, ByteIgnored, ByteBegun, Store, StoreDone, Flag, guest
<1>3. CASE MainStarts \/ MainLeaves \/ MainExits
  <2>1. /\ main' \in {"run", "destroyed", "gone"}
        /\ UNCHANGED <<guest, registers, planes, asking, alive, wanted, window, fault, ghosts>>
    BY <1>3 DEF MainStarts, MainLeaves, MainExits
  <2>. QED
    BY <1>1, <2>1 DEF TypeInv, GuestTypes, AdapterTypes, WindowTypes, guest, registers, window
<1>4. CASE OutRegister
  <2> DEFINE o == program[pos]
             d == DeviceAt(VgaPorts, o.port)
  <2>1. o \in Operation /\ o.op = "out" /\ pos' \in 1..(Len(program) + 1)
    BY <1>1, <1>4, NextOperation DEF OutRegister
  <2>2. o.v \in Raw
    BY <2>1, OutValue
  <2>3. /\ UNCHANGED <<main, todo, pend, cpc, mor, dac, clut, planes, refresh, alive, wanted,
                       window, fault>>
        /\ sel' = sel \/ sel' = [sel EXCEPT ![d] = o.v]
        /\ last' = last \/ last' = Forgotten
        /\ dirty' = dirty \/ dirty'
    BY <1>4 DEF OutRegister
  <2>4. GuestTypes'
    BY <1>1, <1>2, <2>1, <2>3 DEF GuestTypes
  <2>5. sel' \in [Devices -> Raw]
    BY <1>1, <2>2, <2>3 DEF AdapterTypes
  <2>6. last' \in [Video -> Byte \cup {None}]
    BY <1>1, <2>3 DEF AdapterTypes, Forgotten
  <2>7. AdapterTypes'
    BY <1>1, <2>3, <2>5, <2>6 DEF AdapterTypes
  <2>8. dirty' \in BOOLEAN
    BY <1>1, <1>4 DEF OutRegister, WindowTypes
  <2>9. WindowTypes'
    BY <1>1, <2>3, <2>8, WindowTypesKept DEF WindowTypes
  <2>. QED
    BY <2>4, <2>7, <2>9 DEF TypeInv
<1>5. CASE OutMisc
  <2>1. program[pos] \in Operation /\ program[pos].op = "out" /\ pos' \in 1..(Len(program) + 1)
    BY <1>1, <1>5, NextOperation DEF OutMisc
  <2>2. mor' \in Raw
    BY <1>1, <1>5, <2>1, OutValue DEF OutMisc, AdapterTypes
  <2>3. UNCHANGED <<main, todo, pend, cpc, sel, dac, clut, planes, refresh, alive, wanted,
                    window, fault, dirty, last>>
    BY <1>5 DEF OutMisc
  <2>. QED
    BY <1>1, <1>2, <2>1, <2>2, <2>3 DEF TypeInv, GuestTypes, AdapterTypes, WindowTypes, window
<1>6. CASE OutDac
  <2> DEFINE o == program[pos]
  <2>1. o \in Operation /\ o.op = "out" /\ pos' \in 1..(Len(program) + 1)
    BY <1>1, <1>6, NextOperation DEF OutDac
  <2>2. o.v \in Nat
    <3>1. o.v \in Raw
      BY <2>1, OutValue
    <3>. QED
      BY <3>1 DEF Raw
  <2> HIDE DEF o
  <2>3. o.v % Colours \in 0..(Colours - 1) /\ o.v % 64 \in 0..63
    <3>1. Colours \in Nat /\ Colours # 0
      BY VgaAssumption
    <3>2. o.v % Colours \in Nat /\ o.v % Colours < Colours
      BY <2>2, <3>1, ModRange
    <3>. QED
      BY <2>2, <3>1, <3>2
  <2>4. UNCHANGED <<main, todo, pend, cpc, mor, sel, planes, refresh, alive, wanted,
                    window, fault, last>>
    BY <1>6 DEF OutDac
  <2>5. dac' \in [progress : 0..2, w : 0..(Colours - 1), r : 0..(Colours - 1)]
    <3>1. Stepped(dac, "w") \in [progress : 0..2, w : 0..(Colours - 1), r : 0..(Colours - 1)]
      BY <1>1, SteppedTypes DEF AdapterTypes
    <3>2. \/ dac' = [dac EXCEPT !.progress = 0, !.r = o.v % Colours]
          \/ dac' = [dac EXCEPT !.progress = 0, !.w = o.v % Colours]
          \/ dac' = Stepped(dac, "w")
          \/ dac' = dac
      BY <1>6 DEF OutDac, o, DacReadIndex, DacWriteIndex, DacColour
    <3>. QED
      BY <1>1, <2>3, <3>1, <3>2, DacSet DEF AdapterTypes
  <2>6. clut' \in [0..(Colours - 1) -> Colour]
    <3>1. CASE clut' = clut
      BY <1>1, <3>1 DEF AdapterTypes
    <3>2. CASE clut' = [clut EXCEPT ![dac.w][dac.progress + 1] = o.v % 64]
      <4>1. dac.w \in 0..(Colours - 1) /\ dac.progress + 1 \in 1..3
        BY <1>1 DEF AdapterTypes
      <4>2. clut[dac.w] \in [1..3 -> 0..63]
        BY <1>1, <4>1 DEF AdapterTypes, Colour
      <4>3. [clut[dac.w] EXCEPT ![dac.progress + 1] = o.v % 64] \in Colour
        BY <2>3, <4>1, <4>2 DEF Colour
      <4>. QED
        BY <1>1, <3>2, <4>1, <4>3 DEF AdapterTypes
    <3>. QED
      BY <1>6, <3>1, <3>2 DEF OutDac, o
  <2>7. dirty' \in BOOLEAN
    BY <1>1, <1>6 DEF OutDac, WindowTypes
  <2>8. WindowTypes'
    BY <1>1, <2>4, <2>7, WindowTypesKept DEF WindowTypes
  <2>. QED
    BY <1>1, <1>2, <2>1, <2>4, <2>5, <2>6, <2>8 DEF TypeInv, GuestTypes, AdapterTypes
<1>7. CASE In
  <2>1. pos' \in 1..(Len(program) + 1)
    BY <1>1, <1>7, NextOperation DEF In
  <2>2. dac' \in [progress : 0..2, w : 0..(Colours - 1), r : 0..(Colours - 1)]
    BY <1>1, <1>7, SteppedTypes DEF In, AdapterTypes
  <2>3. UNCHANGED <<main, todo, pend, cpc, mor, sel, clut, planes, refresh, alive, wanted,
                    window, fault, dirty, last>>
    BY <1>7 DEF In
  <2>. QED
    BY <1>1, <1>2, <2>1, <2>2, <2>3 DEF TypeInv, GuestTypes, AdapterTypes, WindowTypes, window
<1>8. CASE MemWrite
  <2>1. program[pos] \in Operation /\ program[pos].op = "mem" /\ pos' \in 1..(Len(program) + 1)
    BY <1>1, <1>8, NextOperation DEF MemWrite
  <2>2. program[pos].addr \in Nat /\ program[pos].bytes \in Seq(Byte)
    BY <2>1, MemOperation
  <2>3. todo' \in Seq([addr : Nat, v : Byte])
    BY <1>8, <2>2, BytesTypes DEF MemWrite
  <2>4. UNCHANGED <<main, pend, cpc, registers, planes, refresh, alive, wanted, window, fault,
                    dirty, last>>
    BY <1>8 DEF MemWrite
  <2>. QED
    BY <1>1, <1>2, <2>1, <2>3, <2>4
       DEF TypeInv, GuestTypes, AdapterTypes, WindowTypes, window, registers
<1>9. CASE MemCopy
  <2> DEFINE o == program[pos]
             s == [i \in 1..o.n |-> ReadBack(o.from + i - 1)]
  <2>1. o \in Operation /\ o.op = "copy" /\ pos' \in 1..(Len(program) + 1)
    BY <1>1, <1>9, NextOperation DEF MemCopy
  <2>2. o.addr \in Nat /\ o.from \in Nat /\ o.n \in Nat
    BY <2>1, CopyOperation
  <2>3. UNCHANGED <<main, pend, cpc, registers, planes, refresh, alive, wanted, window, dirty,
                    last>>
    BY <1>9 DEF MemCopy
  <2>4. CASE \E i \in 0..(o.n - 1) : ReadsBeyond(o.from + i)
    <3>1. fault' = "range" /\ UNCHANGED todo
      BY <1>9, <2>4, Zenon DEF MemCopy
    <3>. QED
      BY <1>1, <1>2, <2>1, <2>3, <3>1
         DEF TypeInv, GuestTypes, AdapterTypes, WindowTypes, window, registers
  <2>5. CASE ~\E i \in 0..(o.n - 1) : ReadsBeyond(o.from + i)
    <3>1. todo' = Bytes(o.addr, s) /\ fault' = fault
      BY <1>9, <2>5, Zenon DEF MemCopy
    <3>2. \A i \in 1..o.n : ReadBack(o.from + i - 1) \in Byte
      <4> SUFFICES ASSUME NEW i \in 1..o.n PROVE ReadBack(o.from + i - 1) \in Byte
        OBVIOUS
      <4>1. i - 1 \in 0..(o.n - 1) /\ o.from + (i - 1) = o.from + i - 1
            /\ o.from + i - 1 \in Nat
        BY <2>2
      <4>2. ~ReadsBeyond(o.from + i - 1)
        BY <2>5, <4>1
      <4>3. CASE ~AccessEnabled
        BY <4>3, ZeroByte DEF ReadBack
      <4>4. CASE AccessEnabled
        <5>1. ~(ReadsPlane(file, o.from + i - 1) /\ Beyond(ReadOffset(file, o.from + i - 1)))
          BY <4>2, <4>4 DEF ReadsBeyond
        <5>2. ReadMemory(file, planes, o.from + i - 1) \in Byte
          BY <1>1, <4>1, <5>1, ReadMemoryByte DEF AdapterTypes
        <5>. QED
          BY <4>4, <5>2 DEF ReadBack
      <4>. QED
        BY <4>3, <4>4
    <3>3. s \in Seq(Byte)
      BY <2>2, <3>2
    <3>4. todo' \in Seq([addr : Nat, v : Byte])
      BY <2>2, <3>1, <3>3, BytesTypes
    <3>. QED
      BY <1>1, <1>2, <2>1, <2>3, <3>1, <3>4
         DEF TypeInv, GuestTypes, AdapterTypes, WindowTypes, window, registers
  <2>. QED
    BY <2>4, <2>5
<1>10. CASE ByteIgnored
  <2>1. todo # << >> /\ todo' = Tail(todo)
    BY <1>10 DEF ByteIgnored
  <2>2. todo' \in Seq([addr : Nat, v : Byte])
    BY <1>1, <2>1, FirstAndRest DEF GuestTypes
  <2>3. UNCHANGED <<main, pos, pend, cpc, registers, planes, refresh, alive, wanted, window,
                    fault, dirty, last>>
    BY <1>10 DEF ByteIgnored
  <2>. QED
    BY <1>1, <1>2, <2>2, <2>3
       DEF TypeInv, GuestTypes, AdapterTypes, WindowTypes, window, registers
<1>11. CASE ByteBegun
  <2> DEFINE b == Head(todo)
             s == Stores(file, b.addr)
  <2>1. todo # << >> /\ todo \in Seq([addr : Nat, v : Byte])
    BY <1>1, <1>11 DEF ByteBegun, GuestTypes
  <2>2. b \in [addr : Nat, v : Byte] /\ Tail(todo) \in Seq([addr : Nat, v : Byte])
    BY <2>1, FirstAndRest
  <2>3. b.addr \in Nat /\ b.v \in Byte
    BY <2>2
  <2>4. s.planes \subseteq Plane /\ s.offset \in Nat
    BY <2>3, StoresTypes
  <2>5. UNCHANGED <<main, pos, registers, planes, refresh, alive, wanted, window, dirty>>
    BY <1>11 DEF ByteBegun
  <2>6. CASE s.planes # {} /\ Beyond(s.offset)
    <3>1. fault' = "range" /\ UNCHANGED <<pend, cpc, todo, last>>
      BY <1>11, <2>6, Zenon DEF ByteBegun
    <3>. QED
      BY <1>1, <1>2, <2>5, <3>1
         DEF TypeInv, GuestTypes, AdapterTypes, WindowTypes, window, registers
  <2>7. CASE ~(s.planes # {} /\ Beyond(s.offset))
    <3>1. /\ pend' = [planes |-> s.planes, offset |-> s.offset, v |-> b.v]
          /\ cpc' = "store" /\ todo' = Tail(todo) /\ fault' = fault
          /\ last' = IF b.addr \in Video THEN [last EXCEPT ![b.addr] = b.v] ELSE last
      BY <1>11, <2>7, Zenon DEF ByteBegun
    <3>2. s.planes # {} => s.offset \in Offset
      BY <2>4, <2>7, VgaAssumption DEF Beyond, Offset
    <3>3. /\ pend' \in [planes : SUBSET Plane, offset : Nat, v : Byte]
          /\ pend'.planes # {} => pend'.offset \in Offset
      BY <2>3, <2>4, <3>1, <3>2
    <3>4. last' \in [Video -> Byte \cup {None}]
      BY <1>1, <2>3, <3>1 DEF AdapterTypes
    <3>5. GuestTypes'
      BY <1>1, <1>2, <2>2, <2>5, <3>1, <3>3 DEF GuestTypes
    <3>. QED
      BY <1>1, <2>5, <3>1, <3>4, <3>5
         DEF TypeInv, AdapterTypes, WindowTypes, window, registers
  <2>. QED
    BY <2>6, <2>7
<1>12. CASE Store
  <2>1. PICK p \in pend.planes :
          /\ planes' = [planes EXCEPT ![p][pend.offset] = pend.v]
          /\ pend' = [pend EXCEPT !.planes = @ \ {p}]
    BY <1>12, Zenon DEF Store
  <2>2. p \in Plane /\ pend.offset \in Offset /\ pend.v \in Byte
    BY <1>1 DEF GuestTypes
  <2>3. planes' \in [Plane -> [Offset -> Byte]]
    BY <1>1, <2>1, <2>2 DEF AdapterTypes
  <2>4. /\ pend' \in [planes : SUBSET Plane, offset : Nat, v : Byte]
        /\ pend'.offset \in Offset
    BY <1>1, <2>1, <2>2 DEF GuestTypes
  <2>5. UNCHANGED <<main, pos, todo, cpc, registers, refresh, alive, wanted, window, fault,
                    dirty, last>>
    BY <1>12 DEF Store
  <2>. QED
    BY <1>1, <1>2, <2>3, <2>4, <2>5
       DEF TypeInv, GuestTypes, AdapterTypes, WindowTypes, window, registers
<1>13. CASE StoreDone
  <2>1. /\ cpc' = "flag"
        /\ UNCHANGED <<main, pos, todo, pend, registers, planes, refresh, alive, wanted, window,
                       fault, dirty, last>>
    BY <1>13 DEF StoreDone
  <2>. QED
    BY <1>1, <1>2, <2>1
       DEF TypeInv, GuestTypes, AdapterTypes, WindowTypes, window, registers
<1>14. CASE Flag
  <2>1. /\ refresh' \in BOOLEAN /\ dirty' = FALSE /\ pend' = NothingPending /\ cpc' = "ready"
        /\ UNCHANGED <<main, pos, todo, registers, planes, alive, wanted, window, fault, last>>
    BY <1>14 DEF Flag
  <2>2. /\ NothingPending \in [planes : SUBSET Plane, offset : Nat, v : Byte]
        /\ NothingPending.planes = {}
    BY ZeroByte DEF NothingPending
  <2>. QED
    BY <1>1, <1>2, <2>1, <2>2
       DEF TypeInv, GuestTypes, AdapterTypes, WindowTypes, window, registers
<1>. QED
  BY <1>3, <1>4, <1>5, <1>6, <1>7, <1>8, <1>9, <1>10, <1>11, <1>12, <1>13, <1>14 DEF Cpu

\* What a step of the window's thread has to keep, in steps that keep the flags
\* and in steps that keep the pixel.
LEMMA PixelTypesKept ==
  ASSUME WindowTypes, UNCHANGED <<refresh, alive, wanted, dirty, mode>>,
         fault' \in {"none", "divide", "range"},
         px' \in [cell : Offset, row : Offset, bit : 0..(CharBlock - 1),
                   chr : Byte, att : Byte, idx : Byte],
         ui' = "att" => px'.cell * 2 \in Offset
  PROVE  WindowTypes'
BY DEF WindowTypes

LEMMA FlagTypesKept ==
  ASSUME WindowTypes, UNCHANGED <<px, fault>>, ui' # "att",
         refresh' \in BOOLEAN, alive' \in BOOLEAN, wanted' \in BOOLEAN, dirty' \in BOOLEAN,
         mode' \in {"text", "graphic", "graphic256"}
  PROVE  WindowTypes'
BY DEF WindowTypes

\* A step of the window's thread leaves the guest's and the adapter's alone.
LEMMA UiTypes ==
  ASSUME RegisterTypes, WindowShape, TypeInv, Ui, Running
  PROVE  TypeInv'
<1>1. GuestTypes /\ AdapterTypes /\ WindowTypes
  BY DEF TypeInv
<1>2. UNCHANGED <<main, cpuVars>>
  BY DEF Ui, UiStarts, UiTurn, UiPolls, UiClears, UiSizes, UiMode, UiPresents, UiTextPixel,
         UiAttribute, UiGlyph, UiGraphicPixel, UiColour, UiCloses, UiEnds
<1>3. GuestTypes' /\ AdapterTypes'
  BY <1>1, <1>2 DEF GuestTypes, AdapterTypes, cpuVars, guest, registers
<1>4. /\ refresh \in BOOLEAN /\ alive \in BOOLEAN /\ wanted \in BOOLEAN /\ dirty \in BOOLEAN
      /\ mode \in {"text", "graphic", "graphic256"} /\ fault \in {"none", "divide", "range"}
      /\ px \in [cell : Offset, row : Offset, bit : 0..(CharBlock - 1),
                  chr : Byte, att : Byte, idx : Byte]
      /\ ui = "att" => px.cell * 2 \in Offset
  BY <1>1 DEF WindowTypes
<1> SUFFICES WindowTypes'
  BY <1>3 DEF TypeInv
<1>5. CASE UiStarts \/ UiTurn \/ UiPolls \/ UiClears \/ UiSizes \/ UiPresents \/ UiColour
           \/ UiCloses \/ UiEnds
  <2>1. UNCHANGED <<mode, px, fault>> /\ ui' # "att"
    BY <1>5 DEF UiStarts, UiTurn, UiPolls, UiClears, UiSizes, UiPresents, UiColour, UiCloses, UiEnds
  <2>2. /\ refresh' = refresh \/ refresh' = FALSE
        /\ alive' = alive \/ alive' = TRUE \/ alive' = FALSE
        /\ wanted' = wanted \/ wanted' \in BOOLEAN
        /\ dirty' = dirty \/ dirty' = FALSE
    BY <1>5 DEF UiStarts, UiTurn, UiPolls, UiClears, UiSizes, UiPresents, UiColour, UiCloses,
                UiEnds, asking
  <2>3. refresh' \in BOOLEAN /\ alive' \in BOOLEAN /\ wanted' \in BOOLEAN /\ dirty' \in BOOLEAN
    BY <1>4, <2>2, Zenon
  <2>. QED
    BY <1>1, <1>4, <2>1, <2>3, FlagTypesKept
<1>6. CASE UiMode
  <2>1. /\ UNCHANGED <<refresh, alive, wanted, dirty, px, fault>> /\ ui' = "pixel"
        /\ mode' = Mode(file)
    BY <1>6 DEF UiMode, asking
  <2>2. mode' \in {"text", "graphic", "graphic256"}
    BY <2>1 DEF Mode
  <2>. QED
    BY <1>1, <1>4, <2>1, <2>2, FlagTypesKept, Zenon
<1>7. CASE UiTextPixel
  <2> DEFINE at == TextPlace(file, n)
  <2>1. UNCHANGED <<refresh, alive, wanted, dirty, mode>> /\ ui = "pixel"
    BY <1>7 DEF UiTextPixel, asking
  <2>2. CASE UNCHANGED <<px, ui>> /\ fault' \in {"divide", "range"}
    BY <1>1, <1>4, <2>1, <2>2, PixelTypesKept
  <2>3. CASE /\ PixelsPerLine(file) # 0 /\ ~Beyond(at.cell * 2)
             /\ px' = [px EXCEPT !.cell = at.cell, !.row = at.row, !.bit = at.bit,
                                  !.chr = planes[0][at.cell * 2]]
             /\ fault' = fault
    <3>1. at.cell \in Offset /\ at.row \in Offset /\ at.bit \in 0..(CharBlock - 1)
      BY <2>3, TextPlaceRange DEF WindowShape
    <3>2. at.cell * 2 \in Offset
      BY <2>3, <3>1, VgaAssumption DEF Beyond, Offset
    <3>3. planes[0][at.cell * 2] \in Byte
      BY <1>1, <3>2 DEF AdapterTypes, Plane
    <3> HIDE DEF at
    <3>4. px' = [cell |-> at.cell, row |-> at.row, bit |-> at.bit,
                 chr |-> planes[0][at.cell * 2], att |-> px.att, idx |-> px.idx]
      BY <1>4, <2>3
    <3>5. px.att \in Byte /\ px.idx \in Byte
      BY <1>4
    <3>6. /\ px' \in [cell : Offset, row : Offset, bit : 0..(CharBlock - 1),
                       chr : Byte, att : Byte, idx : Byte]
          /\ px'.cell * 2 \in Offset
      BY <3>1, <3>2, <3>3, <3>4, <3>5
    <3>. QED
      BY <1>1, <1>4, <2>1, <2>3, <3>6, PixelTypesKept
  <2>. QED
    BY <1>7, <2>2, <2>3 DEF UiTextPixel
<1>8. CASE UiAttribute
  <2>1. /\ UNCHANGED <<refresh, alive, wanted, dirty, mode, fault>> /\ ui = "att" /\ ui' = "bits"
        /\ px' = [px EXCEPT !.att = planes[1][px.cell * 2]]
    BY <1>8 DEF UiAttribute, asking
  <2>2. planes[1] \in [Offset -> Byte] /\ px.cell * 2 \in Offset
    BY <1>1, <1>4, <2>1 DEF AdapterTypes, Plane
  <2>3. planes[1][px.cell * 2] \in Byte
    BY <2>2
  <2>4. px' \in [cell : Offset, row : Offset, bit : 0..(CharBlock - 1),
                  chr : Byte, att : Byte, idx : Byte]
    BY <1>4, <2>1, <2>3
  <2>. QED
    BY <1>1, <1>4, <2>1, <2>4, PixelTypesKept
<1>9. CASE UiGlyph
  <2> DEFINE idx == TextIndex(planes[2][FontAddress(file, px.att, px.chr, px.row)], px.bit, px.att)
  <2>1. /\ UNCHANGED <<refresh, alive, wanted, dirty, mode, fault>> /\ ui' = "colour"
        /\ px' = [px EXCEPT !.idx = idx]
    BY <1>9 DEF UiGlyph, asking
  <2>2. px.att \in Byte
    BY <1>4
  <2>3. idx \in Byte
    BY <2>2, TextIndexByte
  <2> HIDE DEF idx
  <2>4. px' \in [cell : Offset, row : Offset, bit : 0..(CharBlock - 1),
                  chr : Byte, att : Byte, idx : Byte]
    BY <1>4, <2>1, <2>3
  <2>. QED
    BY <1>1, <1>4, <2>1, <2>4, PixelTypesKept
<1>10. CASE UiGraphicPixel
  <2>1. UNCHANGED <<refresh, alive, wanted, dirty, mode>> /\ ui = "pixel"
    BY <1>10 DEF UiGraphicPixel, asking
  <2>2. CASE UNCHANGED <<px, ui>> /\ fault' = "range"
    BY <1>1, <1>4, <2>1, <2>2, PixelTypesKept
  <2>3. CASE /\ ~Beyond(n) /\ px' = [px EXCEPT !.idx = planes[2][n]]
             /\ ui' = "colour" /\ fault' = fault
    <3>1. n \in Offset
      BY <2>3, VgaAssumption DEF WindowShape, Beyond, Offset
    <3>2. planes[2][n] \in Byte
      BY <1>1, <3>1 DEF AdapterTypes, Plane
    <3>3. px' \in [cell : Offset, row : Offset, bit : 0..(CharBlock - 1),
                    chr : Byte, att : Byte, idx : Byte]
      BY <1>4, <2>3, <3>2
    <3>. QED
      BY <1>1, <1>4, <2>1, <2>3, <3>3, PixelTypesKept
  <2>. QED
    BY <1>10, <2>2, <2>3 DEF UiGraphicPixel
<1>. QED
  BY <1>5, <1>6, <1>7, <1>8, <1>9, <1>10 DEF Ui

-----------------------------------------------------------------------------
(* What is written is what is shown.  AsWritten speaks of the instants     *)
(* between two bytes; between two planes of one byte, the place of an      *)
(* address may still hold what it held, if it is a place the byte is on    *)
(* its way to.                                                             *)

\* Place o of plane p holds v, or v is on its way to it.
Held(p, o, v) ==
  IF p \in pend.planes /\ pend.offset = o THEN pend.v = v ELSE planes[p][o] = v

\* Where a byte of the area goes in each set-up.
OffsetInArea(a) == a - Area(file).base
TextHeld ==
  TextSetUp => \A a \in Video : Written(a) /\ InArea(file, a) =>
                 Held(a % 2, Aligned(OffsetInArea(a), 2), last[a])
GraphicsHeld ==
  GraphicsSetUp => \A a \in Video : Written(a) /\ InArea(file, a) =>
                     Held(2, OffsetInArea(a), last[a])

StoredInv ==
  /\ TextHeld /\ GraphicsHeld
  /\ cpc # "store" => pend.planes = {}

LEMMA TextArea ==
  ASSUME TextSetUp, NEW a \in Nat, InArea(file, a)
  PROVE  /\ a \in Video
         /\ OffsetInArea(a) \in Offset /\ OffsetInArea(a) % 2 = a % 2
         /\ Aligned(OffsetInArea(a), 2) \in Offset
         /\ a % 2 \in Plane
<1>1. /\ Area(file).base = 11 * K64 + K64 \div 2
      /\ Area(file).size = K64 \div 2
  BY DEF TextSetUp, Area
<1>2. 11 * K64 + K64 \div 2 <= a /\ a < 11 * K64 + K64 \div 2 + K64 \div 2
  BY <1>1 DEF InArea
<1>3. K64 \in Nat /\ K64 % 4 = 0
  BY VgaAssumption
<1>4. PICK h \in Nat : h = K64 \div 2
  BY HalfPlane
<1>5. 2 * h = K64 /\ h % 2 = 0
  BY <1>4, HalfPlane
<1>6. a \in Video
  BY <1>2, <1>3, <1>4, <1>5 DEF Video
<1>7. OffsetInArea(a) = a - (11 * K64 + h)
  BY <1>1, <1>4 DEF OffsetInArea
<1>8. OffsetInArea(a) \in Nat /\ OffsetInArea(a) < K64
  BY <1>2, <1>3, <1>4, <1>5, <1>7
<1>9. OffsetInArea(a) % 2 = a % 2
  BY <1>2, <1>3, <1>4, <1>5, <1>7
<1>10. /\ Aligned(OffsetInArea(a), 2) \in Nat
       /\ Aligned(OffsetInArea(a), 2) <= OffsetInArea(a)
  BY <1>8, AlignedNat
<1>. QED
  BY <1>3, <1>6, <1>8, <1>9, <1>10 DEF Offset, Plane

LEMMA GraphicsArea ==
  ASSUME GraphicsSetUp, NEW a \in Nat, InArea(file, a)
  PROVE  a \in Video /\ OffsetInArea(a) \in Offset
<1>1. Area(file).base = 10 * K64 /\ Area(file).size = K64
  BY DEF GraphicsSetUp, Area
<1>2. 10 * K64 <= a /\ a < 10 * K64 + K64
  BY <1>1 DEF InArea
<1>3. K64 \in Nat
  BY VgaAssumption
<1>. QED
  BY <1>1, <1>2, <1>3 DEF Video, OffsetInArea, Offset

\* In the text mode a byte goes to one of the first two planes.
LEMMA TextStores ==
  ASSUME TextSetUp, NEW a \in Nat
  PROVE  /\ InArea(file, a) =>
              /\ Stores(file, a).planes = {a % 2}
              /\ Stores(file, a).offset = Aligned(OffsetInArea(a), 2)
         /\ ~InArea(file, a) => Stores(file, a).planes = {}
<1>1. /\ Truncated(file, a) = a /\ ~Chain4(file) /\ OddEven(file) /\ WriteMode(file) = 0
      /\ MapMask(file) = 3 /\ ~AllPlanes(file)
  BY DEF TextSetUp, Truncated
<1>2. CASE InArea(file, a)
  <2>1. Stores(file, a) = [planes |-> TargetPlanes(file, a), offset |-> TargetOffset(file, a)]
    BY <1>1, <1>2 DEF Stores
  <2>2. \A p \in Plane : Enabled(file, p) <=> p \in {0, 1}
    <3>1. <<1, 2, 4, 8>>[0 + 1] = 1 /\ <<1, 2, 4, 8>>[1 + 1] = 2
          /\ <<1, 2, 4, 8>>[2 + 1] = 4 /\ <<1, 2, 4, 8>>[3 + 1] = 8
      OBVIOUS
    <3>2. Enabled(file, 0) /\ Enabled(file, 1) /\ ~Enabled(file, 2) /\ ~Enabled(file, 3)
      BY <1>1, <3>1 DEF Enabled, Bit, Field
    <3>. QED
      BY <3>2 DEF Plane
  <2>3. TargetPlanes(file, a) = {p \in Plane : p \in {0, 1} /\ p % 2 = a % 2}
    BY <1>1, <2>2 DEF TargetPlanes
  <2>4. TargetPlanes(file, a) = {a % 2}
    <3>1. a % 2 \in {0, 1}
      OBVIOUS
    <3>2. \A p \in {0, 1} : p \in Plane /\ p % 2 = p
      BY DEF Plane
    <3>. QED
      BY <2>3, <3>1, <3>2
  <2>5. TargetOffset(file, a) = Aligned(OffsetInArea(a), 2)
    BY <1>1 DEF TargetOffset, OffsetInArea
  <2>. QED
    BY <1>2, <2>1, <2>4, <2>5
<1>3. CASE ~InArea(file, a)
  BY <1>1, <1>3 DEF Stores
<1>. QED
  BY <1>2, <1>3

LEMMA GraphicsStores ==
  ASSUME GraphicsSetUp, NEW a \in Nat
  PROVE  /\ InArea(file, a) =>
              Stores(file, a).planes = {2} /\ Stores(file, a).offset = OffsetInArea(a)
         /\ ~InArea(file, a) => Stores(file, a).planes = {}
<1>1. /\ Truncated(file, a) = a /\ ~Chain4(file) /\ ~OddEven(file) /\ WriteMode(file) = 0
      /\ MapMask(file) = 4 /\ AllPlanes(file)
  BY DEF GraphicsSetUp, Truncated
<1>2. CASE InArea(file, a)
  <2>1. Stores(file, a) = [planes |-> TargetPlanes(file, a), offset |-> TargetOffset(file, a)]
    BY <1>1, <1>2 DEF Stores
  <2>2. \A p \in Plane : Enabled(file, p) <=> p = 2
    <3>1. <<1, 2, 4, 8>>[0 + 1] = 1 /\ <<1, 2, 4, 8>>[1 + 1] = 2
          /\ <<1, 2, 4, 8>>[2 + 1] = 4 /\ <<1, 2, 4, 8>>[3 + 1] = 8
      OBVIOUS
    <3>2. ~Enabled(file, 0) /\ ~Enabled(file, 1) /\ Enabled(file, 2) /\ ~Enabled(file, 3)
      BY <1>1, <3>1 DEF Enabled, Bit, Field
    <3>. QED
      BY <3>2 DEF Plane
  <2>3. TargetPlanes(file, a) = {2}
    BY <1>1, <2>2 DEF TargetPlanes, Plane
  <2>4. TargetOffset(file, a) = OffsetInArea(a)
    BY <1>1 DEF TargetOffset, OffsetInArea
  <2>. QED
    BY <1>2, <2>1, <2>3, <2>4
<1>3. CASE ~InArea(file, a)
  BY <1>1, <1>3 DEF Stores
<1>. QED
  BY <1>2, <1>3

\* Two addresses of the area have two places.
LEMMA TextPlacesDiffer ==
  ASSUME TextSetUp, NEW a \in Nat, NEW b \in Nat, InArea(file, a), InArea(file, b),
         a % 2 = b % 2, Aligned(OffsetInArea(a), 2) = Aligned(OffsetInArea(b), 2)
  PROVE  a = b
<1>1. PICK x \in Nat : x = OffsetInArea(a)
  BY TextArea DEF Offset
<1>2. PICK y \in Nat : y = OffsetInArea(b)
  BY TextArea DEF Offset
<1>3. x % 2 = y % 2 /\ 2 * (x \div 2) = 2 * (y \div 2)
  BY <1>1, <1>2, TextArea DEF Aligned
<1>4. x = y
  BY <1>3
<1>5. Area(file).base \in Nat
  BY VgaAssumption, HalfPlane DEF TextSetUp, Area
<1>. QED
  BY <1>1, <1>2, <1>4, <1>5 DEF OffsetInArea

LEMMA GraphicsPlacesDiffer ==
  ASSUME GraphicsSetUp, NEW a \in Nat, NEW b \in Nat, OffsetInArea(a) = OffsetInArea(b)
  PROVE  a = b
<1>1. Area(file).base \in Nat
  BY VgaAssumption DEF GraphicsSetUp, Area
<1>. QED
  BY <1>1 DEF OffsetInArea

LEMMA VideoNat == Video \subseteq Nat
BY VgaAssumption DEF Video

\* A step that changes neither the place of a byte nor what is stored.
LEMMA StoredKept ==
  ASSUME StoredInv, UNCHANGED <<file, planes, pend, last>>, cpc' # "store" => pend.planes = {}
  PROVE  StoredInv'
BY DEF StoredInv, TextHeld, GraphicsHeld, Held, TextSetUp, GraphicsSetUp, Written, OffsetInArea

\* What is written at one address leaves the places of the others alone.
LEMMA BegunStored ==
  ASSUME RegisterTypes, StoredInv, ByteBegun, TypeInv
  PROVE  StoredInv'
<1> DEFINE b == Head(todo)
           s == Stores(file, b.addr)
<1>1. todo # << >> /\ todo \in Seq([addr : Nat, v : Byte])
  BY DEF ByteBegun, TypeInv, GuestTypes
<1>2. b \in [addr : Nat, v : Byte]
  BY <1>1, FirstAndRest
<1>3. b.addr \in Nat
  BY <1>2
<1>4. UNCHANGED <<file, planes>> /\ cpc = "ready"
  BY DEF ByteBegun, registers
<1>5. pend.planes = {}
  BY <1>4 DEF StoredInv
<1>6. CASE s.planes # {} /\ Beyond(s.offset)
  <2>1. UNCHANGED <<pend, cpc, last>>
    BY <1>6, Zenon DEF ByteBegun
  <2>. QED
    BY <1>4, <1>5, <2>1, StoredKept
<1>7. CASE ~(s.planes # {} /\ Beyond(s.offset))
  <2>1. /\ pend' = [planes |-> s.planes, offset |-> s.offset, v |-> b.v]
        /\ cpc' = "store"
        /\ last' = IF b.addr \in Video THEN [last EXCEPT ![b.addr] = b.v] ELSE last
    BY <1>7, Zenon DEF ByteBegun
  <2>2. pend'.planes = s.planes /\ pend'.offset = s.offset /\ pend'.v = b.v
    BY <2>1
  <2>3. last \in [Video -> Byte \cup {None}]
    BY DEF TypeInv, AdapterTypes
  <2>4. \A a \in Video : a # b.addr => last'[a] = last[a]
    BY <2>1, <2>3
  <2>5. b.addr \in Video => last'[b.addr] = b.v
    BY <2>1, <2>3
  <2>6. TextHeld'
    <3> SUFFICES ASSUME TextSetUp, NEW a \in Video, last'[a] # None, InArea(file, a)
                 PROVE  Held(a % 2, Aligned(OffsetInArea(a), 2), last[a])'
      BY <1>4 DEF TextHeld, TextSetUp, Written, OffsetInArea
    <3>1. a \in Nat
      BY VideoNat
    <3>2. CASE a = b.addr
      <4>1. s.planes = {a % 2} /\ s.offset = Aligned(OffsetInArea(a), 2)
        BY <3>1, <3>2, TextStores
      <4>2. a % 2 \in s.planes
        BY <4>1
      <4>. QED
        BY <1>4, <2>2, <2>5, <3>2, <4>1, <4>2 DEF Held, OffsetInArea
    <3>3. CASE a # b.addr
      <4>1. last'[a] = last[a]
        BY <2>4, <3>3
      <4>2. planes[a % 2][Aligned(OffsetInArea(a), 2)] = last[a]
        BY <1>5, <4>1 DEF StoredInv, TextHeld, Held, Written
      <4>3. ~(a % 2 \in s.planes /\ s.offset = Aligned(OffsetInArea(a), 2))
        <5>1. CASE InArea(file, b.addr)
          BY <1>3, <3>1, <3>3, <5>1, TextStores, TextPlacesDiffer
        <5>2. CASE ~InArea(file, b.addr)
          BY <1>3, <5>2, TextStores
        <5>. QED
          BY <5>1, <5>2
      <4>. QED
        BY <1>4, <2>2, <4>1, <4>2, <4>3 DEF Held, OffsetInArea
    <3>. QED
      BY <3>2, <3>3
  <2>7. GraphicsHeld'
    <3> SUFFICES ASSUME GraphicsSetUp, NEW a \in Video, last'[a] # None, InArea(file, a)
                 PROVE  Held(2, OffsetInArea(a), last[a])'
      BY <1>4 DEF GraphicsHeld, GraphicsSetUp, Written, OffsetInArea
    <3>1. a \in Nat
      BY VideoNat
    <3>2. CASE a = b.addr
      <4>1. s.planes = {2} /\ s.offset = OffsetInArea(a)
        BY <3>1, <3>2, GraphicsStores
      <4>2. 2 \in s.planes
        BY <4>1
      <4>. QED
        BY <1>4, <2>2, <2>5, <3>2, <4>1, <4>2 DEF Held, OffsetInArea
    <3>3. CASE a # b.addr
      <4>1. last'[a] = last[a]
        BY <2>4, <3>3
      <4>2. planes[2][OffsetInArea(a)] = last[a]
        BY <1>5, <4>1 DEF StoredInv, GraphicsHeld, Held, Written
      <4>3. ~(2 \in s.planes /\ s.offset = OffsetInArea(a))
        <5>1. CASE InArea(file, b.addr)
          BY <1>3, <3>1, <3>3, <5>1, GraphicsStores, GraphicsPlacesDiffer
        <5>2. CASE ~InArea(file, b.addr)
          BY <1>3, <5>2, GraphicsStores
        <5>. QED
          BY <5>1, <5>2
      <4>. QED
        BY <1>4, <2>2, <4>1, <4>2, <4>3 DEF Held, OffsetInArea
    <3>. QED
      BY <3>2, <3>3
  <2>. QED
    BY <2>1, <2>6, <2>7 DEF StoredInv
<1>. QED
  BY <1>6, <1>7

\* Storing the byte in one of its planes keeps what is held at any place.
LEMMA StoreStored ==
  ASSUME StoredInv, Store, TypeInv
  PROVE  StoredInv'
<1>1. PICK q \in pend.planes :
        /\ planes' = [planes EXCEPT ![q][pend.offset] = pend.v]
        /\ pend' = [pend EXCEPT !.planes = @ \ {q}]
  BY Zenon DEF Store
<1>2. /\ planes \in [Plane -> [Offset -> Byte]] /\ pend.planes \subseteq Plane
      /\ pend \in [planes : SUBSET Plane, offset : Nat, v : Byte] /\ pend.offset \in Offset
  BY <1>1 DEF TypeInv, GuestTypes, AdapterTypes
<1> DEFINE HeldNext(p, o, v) ==
             IF p \in pend'.planes /\ pend'.offset = o THEN pend'.v = v ELSE planes'[p][o] = v
<1>3. \A p \in Plane, o \in Offset : \A v : Held(p, o, v) => HeldNext(p, o, v)
  <2> SUFFICES ASSUME NEW p \in Plane, NEW o \in Offset, NEW v, Held(p, o, v)
               PROVE  HeldNext(p, o, v)
    OBVIOUS
  <2>1. pend'.planes = pend.planes \ {q} /\ pend'.offset = pend.offset /\ pend'.v = pend.v
    BY <1>1, <1>2
  <2>2. planes[q] \in [Offset -> Byte] /\ q \in Plane
    BY <1>2
  <2>3. planes'[p][o] = IF p = q /\ o = pend.offset THEN pend.v ELSE planes[p][o]
    BY <1>1, <1>2, <2>2
  <2>. QED
    BY <2>1, <2>3 DEF Held
<1> HIDE DEF HeldNext
<1>4. UNCHANGED <<file, cpc, last>> /\ cpc = "store"
  BY DEF Store, registers, ghosts
<1>5. TextHeld'
  <2> SUFFICES ASSUME TextSetUp, NEW a \in Video, Written(a), InArea(file, a)
               PROVE  Held(a % 2, Aligned(OffsetInArea(a), 2), last[a])'
    BY <1>4 DEF TextHeld, TextSetUp, Written, OffsetInArea
  <2>1. a % 2 \in Plane /\ Aligned(OffsetInArea(a), 2) \in Offset
    BY VideoNat, TextArea
  <2>2. Held(a % 2, Aligned(OffsetInArea(a), 2), last[a])
    BY DEF StoredInv, TextHeld
  <2>3. HeldNext(a % 2, Aligned(OffsetInArea(a), 2), last[a])
    BY <1>3, <2>1, <2>2, Zenon
  <2>. QED
    BY <1>4, <2>3 DEF Held, OffsetInArea, HeldNext
<1>6. GraphicsHeld'
  <2> SUFFICES ASSUME GraphicsSetUp, NEW a \in Video, Written(a), InArea(file, a)
               PROVE  Held(2, OffsetInArea(a), last[a])'
    BY <1>4 DEF GraphicsHeld, GraphicsSetUp, Written, OffsetInArea
  <2>1. 2 \in Plane /\ OffsetInArea(a) \in Offset
    BY VideoNat, GraphicsArea DEF Plane
  <2>2. Held(2, OffsetInArea(a), last[a])
    BY DEF StoredInv, GraphicsHeld
  <2>3. HeldNext(2, OffsetInArea(a), last[a])
    BY <1>3, <2>1, <2>2, Zenon
  <2>. QED
    BY <1>4, <2>3 DEF Held, OffsetInArea, HeldNext
<1>. QED
  BY <1>4, <1>5, <1>6 DEF StoredInv

LEMMA StoredInvInit == Init => StoredInv
<1> SUFFICES ASSUME Init PROVE StoredInv
  OBVIOUS
<1>1. pend.planes = {}
  BY DEF Init, NothingPending
<1>2. \A a \in Video : ~Written(a)
  BY DEF Init, Forgotten, Written
<1>. QED
  BY <1>1, <1>2 DEF StoredInv, TextHeld, GraphicsHeld

LEMMA StoredInvStep ==
  ASSUME RegisterTypes, TypeInv, StoredInv, [Next]_vars
  PROVE  StoredInv'
<1> USE DEF registers, ghosts
<1>1. CASE OutRegister
  <2>1. UNCHANGED <<planes, pend, cpc>>
    BY <1>1 DEF OutRegister
  <2>2. CASE last' = Forgotten
    <3>1. \A a \in Video : ~(last'[a] # None)
      BY <2>2 DEF Forgotten
    <3>. QED
      BY <2>1, <3>1 DEF StoredInv, TextHeld, GraphicsHeld, Written
  <2>3. CASE UNCHANGED <<file, last>>
    BY <2>1, <2>3, StoredKept DEF StoredInv
  <2>. QED
    BY <1>1, <2>2, <2>3 DEF OutRegister
<1>2. CASE ByteBegun
  BY <1>2, BegunStored
<1>3. CASE Store
  BY <1>3, StoreStored
<1>4. CASE StoreDone
  <2>1. UNCHANGED <<file, planes, pend, last>> /\ pend.planes = {}
    BY <1>4 DEF StoreDone
  <2>. QED
    BY <2>1, StoredKept
<1>5. CASE Flag
  <2>1. /\ UNCHANGED <<file, planes, last>> /\ cpc = "flag" /\ cpc' = "ready"
        /\ pend'.planes = {}
    BY <1>5 DEF Flag, NothingPending
  <2>2. pend.planes = {}
    BY <2>1 DEF StoredInv
  <2>. QED
    BY <2>1, <2>2
       DEF StoredInv, TextHeld, GraphicsHeld, Held, TextSetUp, GraphicsSetUp, Written, OffsetInArea
<1>6. CASE \/ MainStarts \/ MainLeaves \/ MainExits \/ OutMisc \/ OutDac \/ In \/ MemWrite
           \/ MemCopy \/ ByteIgnored
  <2>1. UNCHANGED <<file, planes, pend, last, cpc>>
    BY <1>6 DEF MainStarts, MainLeaves, MainExits, OutMisc, OutDac, In, MemWrite, MemCopy,
                ByteIgnored, guest
  <2>. QED
    BY <2>1, StoredKept DEF StoredInv
<1>7. CASE Ui \/ UNCHANGED vars
  <2>1. UNCHANGED <<file, planes, pend, last, cpc>>
    BY <1>7 DEF Ui, UiStarts, UiTurn, UiPolls, UiClears, UiSizes, UiMode, UiPresents,
                UiTextPixel, UiAttribute, UiGlyph, UiGraphicPixel, UiColour, UiCloses, UiEnds,
                cpuVars, guest, vars
  <2>. QED
    BY <2>1, StoredKept DEF StoredInv
<1>. QED
  BY <1>1, <1>2, <1>3, <1>4, <1>5, <1>6, <1>7 DEF Next, Cpu

LEMMA StoredInvImplies == StoredInv => AsWritten
<1> SUFFICES ASSUME StoredInv, cpc = "ready" PROVE AsWritten
  BY DEF AsWritten
<1>1. pend.planes = {}
  BY DEF StoredInv
<1>2. ASSUME TextSetUp, NEW a \in Video, Written(a), InArea(file, a)
      PROVE  /\ ReadMemory(file, planes, a) = last[a]
             /\ planes[a % 2][((a - Area(file).base) \div 2) * 2] = last[a]
  <2>1. a \in Nat
    BY VideoNat
  <2>2. PICK o \in Offset : o = OffsetInArea(a)
    BY <1>2, <2>1, TextArea
  <2>3. planes[a % 2][Aligned(o, 2)] = last[a] /\ o % 2 = a % 2
    BY <1>1, <1>2, <2>1, <2>2, TextArea DEF StoredInv, TextHeld, Held
  <2>4. Aligned(o, 2) = (o \div 2) * 2
    BY VgaAssumption DEF Aligned, Offset
  <2>5. /\ Truncated(file, a) = a /\ OddEven(file) /\ WriteMode(file) = 0
        /\ 2 * (ReadMap(file) \div 2) = 0
    BY <1>2 DEF TextSetUp, Truncated
  <2>6. ReadOffset(file, a) = o /\ ReadsPlane(file, a)
    BY <1>2, <2>2, <2>5 DEF ReadOffset, ReadsPlane, OffsetInArea
  <2>7. ReadMemory(file, planes, a) = planes[0 + (o % 2)][Aligned(o, 2)]
    BY <2>5, <2>6 DEF ReadMemory
  <2>8. 0 + (o % 2) = o % 2
    BY VgaAssumption DEF Offset
  <2>. QED
    BY <2>2, <2>3, <2>4, <2>7, <2>8 DEF OffsetInArea
<1>3. ASSUME GraphicsSetUp, NEW a \in Video, Written(a), InArea(file, a)
      PROVE  IndexNow(file, planes, a - Area(file).base) = last[a]
  <2>1. planes[2][OffsetInArea(a)] = last[a]
    BY <1>1, <1>3 DEF StoredInv, GraphicsHeld, Held
  <2>2. GraphicsMode(file)
    BY <1>3 DEF GraphicsSetUp
  <2>. QED
    BY <2>1, <2>2 DEF IndexNow, OffsetInArea
<1>. QED
  BY <1>2, <1>3 DEF AsWritten

-----------------------------------------------------------------------------
(* The theorems.                                                           *)

DisplayInv == RegisterTypes /\ WindowShape /\ Consistent

LEMMA DisplayInvInit == Init => DisplayInv
<1> SUFFICES ASSUME Init PROVE DisplayInv
  OBVIOUS
<1>1. RegisterTypes
  BY RegisterTypesInit
<1>2. WindowShape
  <2>1. DOMAIN << >> = 0..(0 * 0 - 1)
    OBVIOUS
  <2>. QED
    BY <2>1 DEF Init, WindowShape, NothingRead
<1>3. Consistent
  BY DEF Init, Consistent, Current, InPicture
<1>. QED
  BY <1>1, <1>2, <1>3 DEF DisplayInv

LEMMA DisplayInvStep == DisplayInv /\ [Next]_vars => DisplayInv'
<1> SUFFICES ASSUME DisplayInv, [Next]_vars PROVE DisplayInv'
  OBVIOUS
<1>1. RegisterTypes'
  BY RegisterTypesStep DEF DisplayInv
<1>2. CASE Cpu /\ Running
  BY <1>1, <1>2, CpuStep DEF DisplayInv
<1>3. CASE Ui /\ Running
  BY <1>1, <1>3, UiStep DEF DisplayInv
<1>4. CASE UNCHANGED vars
  <2>1. /\ UNCHANGED <<file, planes, clut, count, window>>
        /\ UNCHANGED <<refresh, dirty, cpc, fault>>
    BY <1>4 DEF vars, registers, asking, ghosts, guest
  <2>. QED
    BY <1>1, <2>1, Undisturbed DEF DisplayInv, Quiet
<1>. QED
  BY <1>2, <1>3, <1>4 DEF Next

LEMMA DisplayInvImplies == DisplayInv => NothingMissed
<1> SUFFICES ASSUME DisplayInv, Quiet PROVE NothingMissed
  BY DEF NothingMissed
<1>. QED
  BY DEF DisplayInv, Consistent, Current, NothingMissed

(* A write is never missed: whatever the guest writes, and whenever the    *)
(* window looks, once nothing is owed to the window everything it has      *)
(* drawn, read or taken as its size is what the memory and the registers   *)
(* hold.                                                                   *)
THEOREM WritesReachTheScreen == Spec => []NothingMissed
<1>1. Init => DisplayInv
  BY DisplayInvInit
<1>2. DisplayInv /\ [Next]_vars => DisplayInv'
  BY DisplayInvStep
<1>3. DisplayInv => NothingMissed
  BY DisplayInvImplies
<1>. QED
  BY <1>1, <1>2, <1>3, PTL DEF Spec

LEMMA TypeInvStep == DisplayInv /\ TypeInv /\ [Next]_vars => TypeInv'
<1> SUFFICES ASSUME DisplayInv, TypeInv, [Next]_vars PROVE TypeInv'
  OBVIOUS
<1>1. RegisterTypes /\ WindowShape
  BY DEF DisplayInv
<1>2. CASE Cpu /\ Running
  BY <1>1, <1>2, CpuTypes
<1>3. CASE Ui /\ Running
  BY <1>1, <1>3, UiTypes
<1>4. CASE UNCHANGED vars
  BY <1>4, TypesKept
<1>. QED
  BY <1>2, <1>3, <1>4 DEF Next

LEMMA TypeInvImplies == DisplayInv /\ TypeInv => TypeOK
<1> SUFFICES ASSUME DisplayInv, TypeInv PROVE TypeOK
  OBVIOUS
<1>1. count \in 0..(RefreshRate - 1)
  BY DEF DisplayInv, WindowShape, RefreshRate
<1>2. n \in 0..(image.w * image.h)
  BY ProductNat DEF DisplayInv, WindowShape
<1>3. \A i \in DOMAIN todo : todo[i].addr \in Nat /\ todo[i].v \in Byte
  <2> SUFFICES ASSUME NEW i \in DOMAIN todo PROVE todo[i].addr \in Nat /\ todo[i].v \in Byte
    OBVIOUS
  <2>1. todo \in Seq([addr : Nat, v : Byte])
    BY DEF TypeInv, GuestTypes
  <2>2. DOMAIN todo = 1..Len(todo)
    BY <2>1
  <2>3. todo[i] \in [addr : Nat, v : Byte]
    BY <2>1, <2>2, SequenceItem
  <2>. QED
    BY <2>3
<1>4. (\A i \in 0..(Colours - 1) : clut[i] \in Colour)
      /\ (\A p \in Plane : planes[p] \in [Offset -> Byte])
      /\ (\A a \in Video : last[a] \in Byte \cup {None})
  BY DEF TypeInv, AdapterTypes
<1>. QED
  BY <1>1, <1>2, <1>3, <1>4
     DEF TypeOK, TypeInv, GuestTypes, AdapterTypes, WindowTypes, DisplayInv, RegisterTypes,
         WindowShape

(* Every value stays in its range: the counter of the colour table wraps   *)
(* before its fourth component, a byte is stored inside its plane, and the *)
(* window reads inside the planes, although the guest may change the       *)
(* registers between any two of its reads.                                 *)
THEOREM DisplayTypes == Spec => []TypeOK
<1>1. Init => DisplayInv /\ TypeInv
  BY DisplayInvInit, TypeInvInit
<1>2. DisplayInv /\ TypeInv /\ [Next]_vars => DisplayInv' /\ TypeInv'
  BY DisplayInvStep, TypeInvStep
<1>3. DisplayInv /\ TypeInv => TypeOK
  BY TypeInvImplies
<1>. QED
  BY <1>1, <1>2, <1>3, PTL DEF Spec

LEMMA StoredTypesStep ==
  DisplayInv /\ TypeInv /\ StoredInv /\ [Next]_vars => StoredInv'
<1> SUFFICES ASSUME DisplayInv, TypeInv, StoredInv, [Next]_vars PROVE StoredInv'
  OBVIOUS
<1>1. RegisterTypes
  BY DEF DisplayInv
<1>. QED
  BY <1>1, StoredInvStep

(* What the guest writes is what is shown: for every guest, while the      *)
(* registers are those of the text mode, every cell of the text is drawn   *)
(* with, and read back as, what was last written to it, and in the         *)
(* graphics mode every pixel; no other address of the area reaches it.     *)
THEOREM ShownAsWritten == Spec => []AsWritten
<1>1. Init => DisplayInv /\ TypeInv /\ StoredInv
  BY DisplayInvInit, TypeInvInit, StoredInvInit
<1>2. DisplayInv /\ TypeInv /\ StoredInv /\ [Next]_vars => DisplayInv' /\ TypeInv' /\ StoredInv'
  BY DisplayInvStep, TypeInvStep, StoredTypesStep
<1>3. StoredInv => AsWritten
  BY StoredInvImplies
<1>. QED
  BY <1>1, <1>2, <1>3, PTL DEF Spec

LEMMA EndOrderStep == EndOrder /\ [Next]_vars => EndOrder'
BY DEF EndOrder, Next, Running, Cpu, Ui, MainStarts, MainLeaves, MainExits, OutRegister, OutMisc,
       OutDac, In, MemWrite, MemCopy, ByteIgnored, ByteBegun, Store, StoreDone, Flag, UiStarts,
       UiTurn, UiPolls, UiClears, UiSizes, UiMode, UiPresents, UiTextPixel, UiAttribute, UiGlyph,
       UiGraphicPixel, UiColour, UiCloses, UiEnds, window, vars

(* main destroys the window and the adapter only after the window's thread *)
(* has done its last step, even when ui_alive, which nobody initializes,   *)
(* lets the machine start before the window exists.                        *)
THEOREM WindowEndsFirst == Spec => [](main = "destroyed" => ui = "ended")
<1>1. Init => EndOrder
  BY DEF Init, EndOrder
<1>2. EndOrder /\ [Next]_vars => EndOrder'
  BY EndOrderStep
<1>3. EndOrder => (main = "destroyed" => ui = "ended")
  BY DEF EndOrder
<1>. QED
  BY <1>1, <1>2, <1>3, PTL DEF Spec
=============================================================================
