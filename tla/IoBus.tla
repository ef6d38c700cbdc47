--------------------------------- MODULE IoBus ---------------------------------
(***************************************************************************)
(* How the processor finds the device behind a port or a physical address  *)
(* (io/port_mapped_io.h, io/mem_mapped_io.h) and the ranges that the       *)
(* machine assigns to the display (machine.cpp).                           *)
(*                                                                         *)
(* A range is [base, len, dev].  Both managers keep a std::map by base, so *)
(* a second assignment of a base replaces the first; the ranges of the     *)
(* machine have different bases.  An access of several bytes goes byte by  *)
(* byte to the device found for its first one.                             *)
(***************************************************************************)
EXTENDS Integers

NoDevice == [base |-> 0, len |-> 0, dev |-> "none"]

\* upper_bound(a) stepped back once: the last range that begins at or below a.
LastBelow(ranges, a) ==
  {r \in ranges : r.base <= a /\ \A q \in ranges : q.base <= a => q.base <= r.base}

\* The range that a belongs to; the address behind the last one of a range
\* belongs to none, even where an earlier and longer range would cover it.
RangeOf(ranges, a) ==
  LET below == LastBelow(ranges, a) IN
  IF \E r \in below : a < r.base + r.len THEN CHOOSE r \in below : TRUE ELSE NoDevice

DeviceAt(ranges, a) == RangeOf(ranges, a).dev

Assigned(base, len, dev) == [base |-> base, len |-> len, dev |-> dev]

VgaPorts ==
  { Assigned(948, 2, "crt"), Assigned(954, 1, "vga"), Assigned(960, 2, "attr"),
    Assigned(962, 2, "vga"), Assigned(964, 2, "seq"), Assigned(966, 4, "dac"),
    Assigned(972, 1, "vga"), Assigned(974, 2, "gc"), Assigned(980, 2, "crt"),
    Assigned(986, 1, "vga") }
=============================================================================
