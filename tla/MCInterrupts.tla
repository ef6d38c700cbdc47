------------------------------ MODULE MCInterrupts ------------------------------
(***************************************************************************)
(* The machine's own wiring (machine.cpp): timer, keyboard and floppy on   *)
(* lines 0, 1, 6 of the master, the slave on line 2, the mouse on its line *)
(* 4; and the two initializations the repository ships: pic_configure of   *)
(* the BIOS (manual EOI) and init_pic of the small_os sample (automatic    *)
(* EOI), each followed by the unmasking its drivers do.                    *)
(***************************************************************************)
EXTENDS Interrupts

Command(p, v) == [op |-> "command", pic |-> p, v |-> v]
Data(p, v) == [op |-> "data", pic |-> p, v |-> v]
CliOp == [op |-> "cli"]
Work == [op |-> "work"]
StiOp == [op |-> "sti"]

InitPic(icw4) ==
  << CliOp,
     Command("m", 17), Command("s", 17),
     Data("m", 32), Data("s", 40),
     Data("m", 4), Data("s", 2),
     Data("m", icw4), Data("s", icw4),
     Data("m", 251), Data("s", 255),
     Data("m", 184), Data("s", 239),    \* unmask lines 0, 1, 6 and the mouse
     StiOp >>

MCBootScripts == {InitPic(1), InitPic(3)}
MCManualEoi == {InitPic(1)}

\* A handler acknowledges its line on the controllers it came through: with
\* non-specific EOIs, or with the specific ones of the small_os sample.
NonSpecificEoi ==
  [n \in Byte |-> CASE n \in 32..39 -> <<Command("m", 32)>>
                    [] n \in 40..47 -> <<Command("s", 32), Command("m", 32)>>
                    [] OTHER -> <<Work>>]

SpecificEoi ==
  [n \in Byte |-> CASE n \in 32..39 -> <<Command("m", 96 + n - 32)>>
                    [] n \in 40..47 -> <<Command("s", 96 + n - 40), Command("m", 98)>>
                    [] OTHER -> <<Work>>]

\* The initializations and the handlers are well formed, whatever the registers
\* held before: these are the states the guest executes them in.
LabelsOf(s, g) ==
  LET lab[i \in 1..(Len(s) + 1)] ==
        IF i = 1 THEN PoweredOn(g) ELSE BootAfter(lab[i - 1], s[i - 1])
  IN  lab

ASSUME MCWellFormed ==
  \A s \in BootScripts, g \in PowerOnBytes :
    Boots(s, LabelsOf(s, g)) /\ LabelsOf(s, g)[1] = PoweredOn(g)
ASSUME MCNonSpecific == NonSpecific
=============================================================================
