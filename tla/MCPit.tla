--------------------------------- MODULE MCPit ---------------------------------
(* Two channels, one-bit bytes, a mode that ticks and one that does not.    *)
EXTENDS Pit

MCByte == 0..1
MCModes == {0, 2}
MCAccesses == {Latch, HiByte, LoHi}
================================================================================
