--------------------------------- MODULE MCAlu ---------------------------------
(* Words of three bits: 0 to 7, or -4 to 3.                                *)
EXTENDS Alu

SizesAll == {8, 16, 32}
================================================================================
