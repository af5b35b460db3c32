--------------------------- MODULE MCPublication ----------------------------
(* Publication for TLC: a sensor and a binary sensor filled from data frames,  *)
(* and a sensor of the Wi-Fi status.                                           *)
EXTENDS Publication, TLC
=============================================================================
