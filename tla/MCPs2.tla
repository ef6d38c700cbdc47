--------------------------------- MODULE MCPs2 ---------------------------------
(***************************************************************************)
(* Set-up programs for Ps2: the one of the small_os sample (configuration  *)
(* byte 0x47, then "enable" sent to the mouse, whose acknowledgement is    *)
(* left for its interrupt handler), and variations that use the other      *)
(* commands.                                                               *)
(***************************************************************************)
EXTENDS Ps2

C(v) == [op |-> "command", v |-> v]
D(v) == [op |-> "data", v |-> v]
R == [op |-> "read"]
S == [op |-> "sti"]

InitKeyMouse == <<C(96), D(71), C(212), D(244), S>>

\* Both devices' clocks, off and on again; the configuration read back; the A20
\* gate; a byte echoed through each device and read.
ClocksAndRam == <<C(96), D(119), C(173), C(168), C(167), C(32), R, S>>
GateAndEcho == <<C(96), D(0), C(209), D(2), C(210), D(70), R, C(211), D(90), R,
                 C(99), D(50), C(35), R, C(212), D(255), C(96), D(71), S>>
Disabling == <<C(96), D(71), C(174), S>>

MCScripts == {InitKeyMouse, ClocksAndRam, GateAndEcho, Disabling}
MCInitKeyMouse == {InitKeyMouse}

\* The programs are well formed, whatever the configuration byte was before:
\* these are their labels (WellFormed asks for some).
LabelsOf(s, g) ==
  LET lab[i \in 1..(Len(s) + 1)] ==
        IF i = 1 THEN StartLabel(g) ELSE LabelAfter(lab[i - 1], s[i - 1])
  IN  lab

ASSUME MCWellFormed ==
  \A s \in MCScripts, g \in GarbageBytes :
    Labels(s, LabelsOf(s, g)) /\ LabelsOf(s, g)[1] = StartLabel(g)
=============================================================================
