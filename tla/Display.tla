-------------------------------- MODULE Display --------------------------------
(***************************************************************************)
(* The display: the processor's thread (main) runs a guest that writes to  *)
(* ports and video memory, and the window's thread redraws the picture     *)
(* whenever it finds the flag refresh set.  Nothing is locked.             *)
(*                                                                         *)
(* A port access is one step: it assigns one byte that the window may      *)
(* read.  A store to video memory is one step per plane and one for the    *)
(* flag.  The window takes one step per decision of its loop and per byte  *)
(* of video memory it reads; a pixel of text reads three.                  *)
(*                                                                         *)
(* A fault ends the process: the division by the pixels of a line while    *)
(* there are none, or DEBUG_ERROR at the end of a plane.                   *)
(*                                                                         *)
(* The guest is a program: vga_configure (Boot) and one of Programs.  It   *)
(* selects only indices that regs[] has an entry for, and selects one      *)
(* before it uses it: the check of the index compares it with the size in  *)
(* bytes.  A program's operation is one of the four below.                 *)
(***************************************************************************)
EXTENDS Vga, IoBus, Sequences

CONSTANTS
  Boot,        \* the operations of vga_configure
  Programs,    \* what the guest does after it
  Width0, Height0,   \* the window's first size
  PowerUp      \* the bytes that memory may hold when it is not initialized

Port == 0..65535
PortWrite == [op : {"out"}, port : Port, v : Raw]
PortRead == [op : {"in"}, port : Port]
VideoWrite == [op : {"mem"}, addr : Nat, bytes : Seq(Byte)]
VideoCopy == [op : {"copy"}, addr : Nat, from : Nat, n : Nat]
Operation == PortWrite \cup PortRead \cup VideoWrite \cup VideoCopy

ASSUME DisplayAssumption ==
  /\ Boot \in Seq(Operation) /\ Programs \subseteq Seq(Operation)
  /\ Width0 \in Nat /\ Height0 \in Nat
  /\ PowerUp \subseteq Byte \cap Raw /\ 0 \in PowerUp

VARIABLES
  main,        \* the first thread: "ctor" until the window is up, "run", "destroyed", "gone"
  program, pos,  \* the guest's operations and the next one
  todo,        \* the bytes of the memory access that are still to be written
  pend,        \* the planes, offset and value of the byte being stored
  cpc,         \* the byte's progress: "ready", "store", "flag"
  mor, file, sel,  \* registers: miscellaneous output, register files, index registers
  dac, clut,   \* the colour table and its access registers
  planes,
  refresh, count,  \* the flag, and the bytes stored since it was set
  alive,       \* ui_alive
  wanted,      \* the user has asked to close the window
  ui,          \* the window's thread
  image,       \* its size and buffer
  mode, n, px, \* the drawing: its mode, the next pixel, what was read for it
  fault,
  dirty,       \* a register changed after the last byte stored and the last drawing begun
  last         \* the byte last stored at an address under the present set-up, or None

registers == <<mor, file, sel, dac, clut>>
guest == <<program, pos, todo, pend, cpc>>
window == <<ui, image, mode, n, px>>
asking == <<refresh, count>>
ghosts == <<dirty, last>>
vars == <<main, guest, registers, planes, asking, alive, wanted, window, fault, ghosts>>

None == -1
Video == 10 * K64 .. 12 * K64 - 1
VideoRegions == {Assigned(10 * K64, 2 * K64, "vga")}
Pixels(im) == 0..(im.w * im.h - 1)
NothingPending == [planes |-> {}, offset |-> 0, v |-> 0]
NothingRead == [cell |-> 0, row |-> 0, bit |-> 0, chr |-> 0, att |-> 0, idx |-> 0]
Forgotten == [a \in Video |-> None]
Black == [c \in 1..3 |-> 0]

\* The register files are cleared; the other memory holds what it held.
Init ==
  /\ main = "ctor"
  /\ program \in {Boot \o p : p \in Programs}
  /\ pos = 1 /\ todo = << >> /\ pend = NothingPending /\ cpc = "ready"
  /\ mor \in PowerUp
  /\ file = [d \in Devices |-> [i \in Implemented[d] |-> 0]]
  /\ sel \in [Devices -> PowerUp]
  /\ dac = [progress |-> 0, w |-> 0, r |-> 0]
  /\ clut \in [0..(Colours - 1) -> [1..3 -> {b % 64 : b \in PowerUp}]]
  /\ planes \in [Plane -> [Offset -> PowerUp]]
  /\ refresh \in BOOLEAN /\ count = 0 /\ alive \in BOOLEAN
  /\ wanted = FALSE
  /\ ui = "start" /\ mode = "text" /\ n = 0 /\ px = NothingRead
  /\ image = [w |-> 0, h |-> 0, rgb |-> << >>]
  /\ fault = "none" /\ dirty = FALSE /\ last = Forgotten

-----------------------------------------------------------------------------
(* The first thread.  The constructor of the window waits for ui_alive,    *)
(* the loop runs one instruction as long as it is set, and the end of main *)
(* destroys the window and then the adapter.                               *)

MainStarts ==
  /\ main = "ctor" /\ alive
  /\ main' = "run"
  /\ UNCHANGED <<guest, registers, planes, asking, alive, wanted, window, fault, ghosts>>

MainLeaves ==
  /\ main = "run" /\ cpc = "ready" /\ todo = << >> /\ ~alive
  /\ main' = "destroyed"
  /\ UNCHANGED <<guest, registers, planes, asking, alive, wanted, window, fault, ghosts>>

MainExits ==
  /\ main = "destroyed"
  /\ main' = "gone"
  /\ UNCHANGED <<guest, registers, planes, asking, alive, wanted, window, fault, ghosts>>

\* The guest's next operation is o.
Executes(kind) ==
  /\ main = "run" /\ alive /\ cpc = "ready" /\ todo = << >>
  /\ pos \in 1..Len(program) /\ program[pos].op = kind
  /\ pos' = pos + 1

-----------------------------------------------------------------------------
(* Ports.                                                                  *)

\* A register file: the even port selects, the odd port accesses.
OutRegister ==
  LET o == program[pos]
      d == DeviceAt(VgaPorts, o.port) IN
  /\ Executes("out") /\ d \in Devices
  /\ \/ /\ o.port % 2 = 0 /\ o.v \in Implemented[d]
        /\ sel' = [sel EXCEPT ![d] = o.v]
        /\ UNCHANGED <<file, ghosts>>
     \/ /\ o.port % 2 = 1 /\ sel[d] \in Implemented[d]
        /\ file' = [file EXCEPT ![d][sel[d]] = o.v]
        /\ dirty' = TRUE
        /\ last' = Forgotten
        /\ UNCHANGED sel
  /\ UNCHANGED <<main, program, todo, pend, cpc, mor, dac, clut, planes, asking, alive,
                 wanted, window, fault>>

MiscOutput == 962      \* 0x3c2
DacReadIndex == 967    \* 0x3c7
DacWriteIndex == 968   \* 0x3c8
DacColour == 969       \* 0x3c9

\* The adapter's own ports: all but the miscellaneous output are ignored.
OutMisc ==
  LET o == program[pos] IN
  /\ Executes("out") /\ DeviceAt(VgaPorts, o.port) = "vga"
  /\ mor' = IF o.port = MiscOutput THEN o.v ELSE mor
  /\ UNCHANGED <<main, program, todo, pend, cpc, file, sel, dac, clut, planes, asking, alive,
                 wanted, window, fault, ghosts>>

\* Slip: the component behind blue.
SteppedLate(d, index) ==
  IF d.progress + 1 = 4
  THEN [d EXCEPT !.progress = 0, ![index] = (@ + 1) % Colours]
  ELSE [d EXCEPT !.progress = @ + 1]

\* One counter steps through the components for reads and writes alike.
Stepped(d, index) ==
  IF d.progress + 1 = 3
  THEN [d EXCEPT !.progress = 0, ![index] = (@ + 1) % Colours]
  ELSE [d EXCEPT !.progress = @ + 1]

OutDac ==
  LET o == program[pos] IN
  /\ Executes("out") /\ DeviceAt(VgaPorts, o.port) = "dac"
  /\ dac' = CASE o.port = DacReadIndex -> [dac EXCEPT !.progress = 0, !.r = o.v % Colours]
              [] o.port = DacWriteIndex -> [dac EXCEPT !.progress = 0, !.w = o.v % Colours]
              [] o.port = DacColour -> Stepped(dac, "w")
              [] OTHER -> dac
  /\ clut' = IF o.port = DacColour
             THEN [clut EXCEPT ![dac.w][dac.progress + 1] = o.v % 64] ELSE clut
  /\ dirty' = (dirty \/ o.port = DacColour)
  /\ UNCHANGED <<main, program, todo, pend, cpc, mor, file, sel, planes, asking, alive,
                 wanted, window, fault, last>>

\* Of the port reads only that of a colour changes anything.
In ==
  LET p == program[pos].port IN
  /\ Executes("in") /\ DeviceAt(VgaPorts, p) # "none"
  /\ dac' = IF p = DacColour THEN Stepped(dac, "r") ELSE dac
  /\ UNCHANGED <<main, program, todo, pend, cpc, mor, file, sel, clut, planes, asking, alive,
                 wanted, window, fault, ghosts>>

-----------------------------------------------------------------------------
(* Video memory.  An access of several bytes reaches the device found for  *)
(* the first one.                                                          *)

AccessEnabled == Bit(mor, 2)

\* Past the end of a plane DEBUG_ERROR ends the process.
Beyond(o) == o >= K64

Bytes(a, s) == [i \in 1..Len(s) |-> [addr |-> a + i - 1, v |-> s[i]]]

ReadBack(a) == IF AccessEnabled THEN ReadMemory(file, planes, a) ELSE 0
ReadsBeyond(a) == AccessEnabled /\ ReadsPlane(file, a) /\ Beyond(ReadOffset(file, a))

MemWrite ==
  LET o == program[pos] IN
  /\ Executes("mem") /\ DeviceAt(VideoRegions, o.addr) = "vga"
  /\ todo' = Bytes(o.addr, o.bytes)
  /\ UNCHANGED <<main, program, pend, cpc, registers, planes, asking, alive, wanted, window,
                 fault, ghosts>>

\* A word read from video memory and written to another place.
MemCopy ==
  LET o == program[pos] IN
  /\ Executes("copy") /\ DeviceAt(VideoRegions, o.addr) = "vga"
  /\ IF \E i \in 0..(o.n - 1) : ReadsBeyond(o.from + i)
     THEN fault' = "range" /\ UNCHANGED todo
     ELSE /\ todo' = Bytes(o.addr, [i \in 1..o.n |-> ReadBack(o.from + i - 1)])
          /\ UNCHANGED fault
  /\ UNCHANGED <<main, program, pend, cpc, registers, planes, asking, alive, wanted, window,
                 ghosts>>

\* write_byte_to_mem with the access disabled.
ByteIgnored ==
  /\ main = "run" /\ cpc = "ready" /\ todo # << >> /\ ~AccessEnabled
  /\ todo' = Tail(todo)
  /\ UNCHANGED <<main, program, pos, pend, cpc, registers, planes, asking, alive, wanted,
                 window, fault, ghosts>>

ByteBegun ==
  LET b == Head(todo)
      s == Stores(file, b.addr) IN
  /\ main = "run" /\ cpc = "ready" /\ todo # << >> /\ AccessEnabled
  /\ IF s.planes # {} /\ Beyond(s.offset)
     THEN /\ fault' = "range"
          /\ UNCHANGED <<pend, cpc, todo, last>>
     ELSE /\ pend' = [planes |-> s.planes, offset |-> s.offset, v |-> b.v]
          /\ cpc' = "store"
          /\ todo' = Tail(todo)
          /\ last' = IF b.addr \in Video THEN [last EXCEPT ![b.addr] = b.v] ELSE last
          /\ UNCHANGED fault
  /\ UNCHANGED <<main, program, pos, registers, planes, asking, alive, wanted, window, dirty>>

\* The planes are written in their order.
Store ==
  /\ cpc = "store" /\ pend.planes # {}
  /\ \E p \in pend.planes :
       /\ \A q \in pend.planes : p <= q
       /\ planes' = [planes EXCEPT ![p][pend.offset] = pend.v]
       /\ pend' = [pend EXCEPT !.planes = @ \ {p}]
  /\ UNCHANGED <<main, program, pos, todo, cpc, registers, asking, alive, wanted, window, fault,
                 ghosts>>

StoreDone ==
  /\ cpc = "store" /\ pend.planes = {}
  /\ cpc' = "flag"
  /\ UNCHANGED <<main, program, pos, todo, pend, registers, planes, asking, alive, wanted,
                 window, fault, ghosts>>

\* Slip: one redraw for two bytes, or for three.
RefreshRateTwo == 2
RefreshRateThree == 3

\* REFRESH_RATE: how many bytes ask for one redraw, also those stored nowhere.
RefreshRate == 1

Flag ==
  /\ cpc = "flag"
  /\ count' = (count + 1) % RefreshRate
  /\ refresh' = (refresh \/ count' = 0)
  /\ dirty' = FALSE
  /\ pend' = NothingPending
  /\ cpc' = "ready"
  /\ UNCHANGED <<main, program, pos, todo, registers, planes, alive, wanted, window, fault,
                 last>>

Cpu ==
  \/ MainStarts \/ MainLeaves \/ MainExits
  \/ OutRegister \/ OutMisc \/ OutDac \/ In
  \/ MemWrite \/ MemCopy \/ ByteIgnored \/ ByteBegun \/ Store \/ StoreDone \/ Flag

-----------------------------------------------------------------------------
(* The window's thread.                                                    *)

cpuVars == <<guest, registers, planes, last>>

\* The buffer holds nothing that was drawn.
NewImage(w, h) == [w |-> w, h |-> h, rgb |-> [i \in 0..(w * h - 1) |-> Black]]

UiStarts ==
  /\ ui = "start"
  /\ image' = NewImage(Width0, Height0)
  /\ alive' = TRUE
  /\ ui' = "loop"
  /\ UNCHANGED <<main, cpuVars, asking, wanted, mode, n, px, fault, dirty>>

\* Sleeping and the events: the user may ask to close the window.
UiTurn ==
  /\ ui = "loop" /\ ~wanted /\ alive
  /\ wanted' \in BOOLEAN
  /\ ui' = "poll"
  /\ UNCHANGED <<main, cpuVars, asking, alive, image, mode, n, px, fault, dirty>>

\* need_refresh: the test, then the assignment.
UiPolls ==
  /\ ui = "poll"
  /\ ui' = IF refresh THEN "clear" ELSE "loop"
  /\ UNCHANGED <<main, cpuVars, asking, alive, wanted, image, mode, n, px, fault, dirty>>

UiClears ==
  /\ ui = "clear"
  /\ refresh' = FALSE /\ UNCHANGED count
  /\ dirty' = FALSE
  /\ n' = 0
  /\ ui' = "size"
  /\ UNCHANGED <<main, cpuVars, alive, wanted, image, mode, px, fault>>

\* Slip: a buffer that is large enough is kept as it is.
ResizedDown(im, w, h) ==
  IF w # 0 /\ h # 0 /\ (w < im.w \/ h < im.h) THEN NewImage(w, h) ELSE im

\* A size with a zero, or the old one, keeps the buffer.
Resized(im, w, h) ==
  IF w # 0 /\ h # 0 /\ (w # im.w \/ h # im.h) THEN NewImage(w, h) ELSE im

UiSizes ==
  /\ ui = "size"
  /\ image' = Resized(image, PixelsPerLine(file), Scanlines(file))
  /\ ui' = "mode"
  /\ UNCHANGED <<main, cpuVars, asking, alive, wanted, mode, n, px, fault, dirty>>

UiMode ==
  /\ ui = "mode"
  /\ mode' = Mode(file)
  /\ ui' = "pixel"
  /\ UNCHANGED <<main, cpuVars, asking, alive, wanted, image, n, px, fault, dirty>>

\* The picture is complete and is handed to the graphics library.
UiPresents ==
  /\ ui = "pixel" /\ n = image.w * image.h
  /\ ui' = "loop"
  /\ UNCHANGED <<main, cpuVars, asking, alive, wanted, image, mode, n, px, fault, dirty>>

UiTextPixel ==
  LET at == TextPlace(file, n) IN
  /\ ui = "pixel" /\ n < image.w * image.h /\ mode = "text"
  /\ IF PixelsPerLine(file) = 0
     THEN fault' = "divide" /\ UNCHANGED <<px, ui>>
     ELSE IF Beyond(at.cell * 2)
     THEN fault' = "range" /\ UNCHANGED <<px, ui>>
     ELSE /\ px' = [px EXCEPT !.cell = at.cell, !.row = at.row, !.bit = at.bit,
                              !.chr = planes[0][at.cell * 2]]
          /\ ui' = "att"
          /\ UNCHANGED fault
  /\ UNCHANGED <<main, cpuVars, asking, alive, wanted, image, mode, n, dirty>>

UiAttribute ==
  /\ ui = "att"
  /\ px' = [px EXCEPT !.att = planes[1][px.cell * 2]]
  /\ ui' = "bits"
  /\ UNCHANGED <<main, cpuVars, asking, alive, wanted, image, mode, n, fault, dirty>>

UiGlyph ==
  /\ ui = "bits"
  /\ px' = [px EXCEPT !.idx = TextIndex(planes[2][FontAddress(file, px.att, px.chr, px.row)],
                                        px.bit, px.att)]
  /\ ui' = "colour"
  /\ UNCHANGED <<main, cpuVars, asking, alive, wanted, image, mode, n, fault, dirty>>

UiGraphicPixel ==
  /\ ui = "pixel" /\ n < image.w * image.h /\ mode # "text"
  /\ IF Beyond(n)
     THEN fault' = "range" /\ UNCHANGED <<px, ui>>
     ELSE /\ px' = [px EXCEPT !.idx = planes[2][n]]
          /\ ui' = "colour"
          /\ UNCHANGED fault
  /\ UNCHANGED <<main, cpuVars, asking, alive, wanted, image, mode, n, dirty>>

UiColour ==
  /\ ui = "colour"
  /\ image' = [image EXCEPT !.rgb[n] = clut[ColourIndex(file, mode, px.idx)]]
  /\ n' = n + 1
  /\ ui' = "pixel"
  /\ UNCHANGED <<main, cpuVars, asking, alive, wanted, mode, px, fault, dirty>>

\* The loop ends; the buffer is freed before main is told.
UiCloses ==
  /\ ui = "loop" /\ (wanted \/ ~alive)
  /\ image' = [w |-> 0, h |-> 0, rgb |-> << >>]
  /\ n' = 0
  /\ ui' = "freed"
  /\ UNCHANGED <<main, cpuVars, asking, alive, wanted, mode, px, fault, dirty>>

UiEnds ==
  /\ ui = "freed"
  /\ alive' = FALSE
  /\ ui' = "ended"
  /\ UNCHANGED <<main, cpuVars, asking, wanted, image, mode, n, px, fault, dirty>>

Ui ==
  \/ UiStarts \/ UiTurn \/ UiPolls \/ UiClears \/ UiSizes \/ UiMode \/ UiPresents
  \/ UiTextPixel \/ UiAttribute \/ UiGlyph \/ UiGraphicPixel \/ UiColour
  \/ UiCloses \/ UiEnds

Running == fault = "none" /\ main # "gone"

Next == Running /\ (Cpu \/ Ui)

\* Both are threads of the host and none of their steps waits for a lock.
Spec == Init /\ [][Next]_vars /\ WF_vars(Running /\ Cpu) /\ WF_vars(Running /\ Ui)

-----------------------------------------------------------------------------
(* Properties.                                                             *)

TypeOK ==
  /\ main \in {"ctor", "run", "destroyed", "gone"}
  /\ pos \in 1..(Len(program) + 1)
  /\ \A i \in DOMAIN todo : todo[i].addr \in Nat /\ todo[i].v \in Byte
  /\ pend \in [planes : SUBSET Plane, offset : Nat, v : Byte]
  /\ pend.planes # {} => pend.offset \in Offset
  /\ cpc \in {"ready", "store", "flag"}
  /\ mor \in Raw
  /\ \A d \in Devices : file[d] \in [Implemented[d] -> Raw]
  /\ sel \in [Devices -> Raw]
  /\ dac \in [progress : 0..2, w : 0..(Colours - 1), r : 0..(Colours - 1)]
  /\ \A i \in 0..(Colours - 1) : clut[i] \in Colour
  /\ \A p \in Plane : planes[p] \in [Offset -> Byte]
  /\ refresh \in BOOLEAN /\ alive \in BOOLEAN /\ wanted \in BOOLEAN /\ dirty \in BOOLEAN
  /\ count \in 0..(RefreshRate - 1)
  /\ ui \in {"start", "loop", "poll", "clear", "size", "mode", "pixel", "att", "bits",
             "colour", "freed", "ended"}
  /\ mode \in {"text", "graphic", "graphic256"}
  /\ n \in 0..(image.w * image.h)
  /\ px \in [cell : Offset, row : Offset, bit : 0..(CharBlock - 1),
              chr : Byte, att : Byte, idx : Byte]
  /\ fault \in {"none", "divide", "range"}
  /\ \A a \in Video : last[a] \in Byte \cup {None}

\* Nothing is owed to the window: the flag is down, no byte is on its way to
\* the planes or the flag, and no register has changed behind a drawing.
Quiet == ~refresh /\ ~dirty /\ cpc = "ready" /\ fault = "none"

\* The window has the size that the registers give, if they give one.
SizeCurrent ==
  PixelsPerLine(file) # 0 /\ Scanlines(file) # 0 =>
    image.w = PixelsPerLine(file) /\ image.h = Scanlines(file)

(* A write is never missed: whenever nothing is owed to the window, every  *)
(* pixel drawn since it last took the flag is the one the memory and the   *)
(* registers have now, what it has read for the next pixel is current too, *)
(* and so is its size.  The flag is set after the store, and lowered       *)
(* before the drawing.                                                     *)
NothingMissed ==
  Quiet =>
    /\ \A i \in 0..(n - 1) : image.rgb[i] = PixelNow(file, planes, clut, i)
    /\ n > 0 => SizeCurrent
    /\ ui = "colour" => px.idx = IndexNow(file, planes, n)

TextSetUp ==
  /\ MapMask(file) = 3 /\ ~Chain4(file) /\ ~AllPlanes(file) /\ ExtendedMemory(file)
  /\ OddEven(file) /\ WriteMode(file) = 0 /\ MemoryMap(file) = 3 /\ ~GraphicsMode(file)
  /\ ReadMap(file) \in {0, 1}

GraphicsSetUp ==
  /\ MapMask(file) = 4 /\ ~Chain4(file) /\ AllPlanes(file) /\ ExtendedMemory(file)
  /\ ~OddEven(file) /\ WriteMode(file) = 0 /\ MemoryMap(file) = 1 /\ GraphicsMode(file)

(* What the guest writes is what is shown: in the set-up of the text mode  *)
(* a byte written to a cell is read back, and the cell is drawn with the   *)
(* character and the attribute written to it; in the graphics mode a pixel *)
(* has the byte written to it.  Four address computations must agree, of   *)
(* the sequencer, the graphics controller for writes and for reads, and    *)
(* the drawing.                                                            *)
Written(a) == a \in Video /\ last[a] # None
AsWritten ==
  cpc = "ready" /\ fault = "none" =>
    /\ TextSetUp => \A a \in Video :
         Written(a) /\ InArea(file, a) =>
           /\ ReadMemory(file, planes, a) = last[a]
           /\ LET cell == (a - Area(file).base) \div 2 IN
              planes[a % 2][cell * 2] = last[a]
    /\ GraphicsSetUp => \A a \in Video :
         Written(a) /\ InArea(file, a) =>
           IndexNow(file, planes, a - Area(file).base) = last[a]

(* The picture is divided by the pixels of a line of a CRT that may not be *)
(* programmed yet, and the font is stored, with the flag, before the CRT   *)
(* is programmed: once vga_configure is over nothing ends the process, and *)
(* main never destroys the adapter before the window's thread has ended.   *)
OnlyBootFaults ==
  /\ fault # "none" => pos <= Len(Boot) + 1
  /\ main = "destroyed" => ui = "ended"

\* The guest has done all its operations and the window has drawn the result.
Done == pos = Len(program) + 1 /\ cpc = "ready" /\ todo = << >>
UpToDate ==
  /\ ui = "loop" /\ ~refresh /\ SizeCurrent /\ n = image.w * image.h
  /\ \A i \in Pixels(image) : image.rgb[i] = PixelNow(file, planes, clut, i)

(* Whatever the guest wrote last is on the screen in the end, unless the   *)
(* user closes the window or the drawing fails before the set-up is over.  *)
(* A program whose last operations are port accesses is not covered: they  *)
(* do not ask for a redraw.                                                *)
EventuallyShown == <>((Done /\ UpToDate) \/ fault # "none" \/ wanted \/ main = "gone")
=============================================================================
