------------------------------- MODULE MCDisplay -------------------------------
(***************************************************************************)
(* Planes of eight bytes, bytes of four values, two pixels in a row of a   *)
(* character, a line of one character and two lines.  The register values  *)
(* are the guests' own, except for the sizes.                              *)
(***************************************************************************)
EXTENDS Display

Out(port, v) == [op |-> "out", port |-> port, v |-> v]
Mem(a, bytes) == [op |-> "mem", addr |-> a, bytes |-> bytes]
Copy(a, from, k) == [op |-> "copy", addr |-> a, from |-> from, n |-> k]
Indexed(port, i, v) == <<Out(port, i), Out(port + 1, v)>>

Sequencer == 964
Gc == 974
Crt == 980
Attr == 960

\* bios/video/vga.cpp: vga_configure.  The font is two rows of characters 1
\* and 2.
MCBoot ==
  <<Out(MiscOutput, 2)>>
    \o Indexed(Sequencer, 2, 4) \o Indexed(Sequencer, 4, 6) \o Indexed(Gc, 5, 0) \o Indexed(Gc, 6, 0)
    \o <<Mem(10 * K64 + 2, <<1, 2>>), Mem(10 * K64 + 4, <<3, 1>>)>>
    \o Indexed(Attr, 0, 0) \o Indexed(Attr, 1, 1)
    \o Indexed(Sequencer, 2, 3) \o Indexed(Sequencer, 3, 0) \o Indexed(Sequencer, 4, 2)
    \o <<Out(DacWriteIndex, 0), Out(DacColour, 0), Out(DacColour, 0), Out(DacColour, 0),
         Out(DacColour, 42), Out(DacColour, 42), Out(DacColour, 42)>>
    \o Indexed(Gc, 5, 16) \o Indexed(Gc, 6, 14)
    \o Indexed(Crt, 1, 1) \o Indexed(Crt, 18, 2) \o Indexed(Crt, 9, 1)

Text == 11 * K64 + K64 \div 2
Cell(i) == Text + 2 * i
White == 1

\* write_char twice and scroll_lines(1) (bios/video/video_cpp.cpp).
Typing == <<Mem(Cell(0), <<1, White>>), Mem(Cell(1), <<2, 2>>),
            Copy(Cell(0), Cell(1), 2), Mem(Cell(1), <<0, White>>)>>

\* set_graphicmode and four pixels (samples/small_os/vga.c, main.c).
Drawing ==
  <<Mem(Cell(0), <<1, White>>)>>
    \o Indexed(Sequencer, 2, 4) \o Indexed(Sequencer, 4, 6) \o Indexed(Gc, 5, 0) \o Indexed(Gc, 6, 5)
    \o <<Mem(10 * K64, <<1, 0, 1, 1>>)>>

\* dac_configure after some text (samples/small_os/vga.c), a colour read
\* back, and more text.
Painting ==
  <<Mem(Cell(1), <<2, White>>), Out(DacWriteIndex, 1), Out(DacColour, 21), Out(DacColour, 0),
    Out(DacColour, 63), Out(DacReadIndex, 1), [op |-> "in", port |-> DacColour],
    Mem(Cell(0), <<1, 3>>)>>

MCPrograms == {Typing, Drawing, Painting}
MCPowerUp == {0}
================================================================================
