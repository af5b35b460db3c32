--------------------------- MODULE MCConfigChannel ----------------------------
(* The screen block for TLC: its timeout can be written alone, its idle level    *)
(* cannot.                                                                       *)
EXTENDS ConfigChannel, TLC
=============================================================================
