------------------------------ MODULE DataChannel ------------------------------
(***************************************************************************)
(* What the floppy data register promises (write_datareg and read_datareg  *)
(* of floppy_disk_driver.cpp): one side puts bytes, the other gets each of *)
(* them once, in order, and the next is put only when the last was taken.  *)
(***************************************************************************)
EXTENDS Integers, Sequences

CONSTANT Values

VARIABLES sent, received

Init == sent = <<>> /\ received = <<>>

Put ==
  /\ Len(sent) = Len(received)
  /\ \E v \in Values : sent' = Append(sent, v)
  /\ UNCHANGED received

Get ==
  /\ Len(received) < Len(sent)
  /\ received' = Append(received, sent[Len(received) + 1])
  /\ UNCHANGED sent

Next == Put \/ Get

Spec == Init /\ [][Next]_<<sent, received>>
=============================================================================
