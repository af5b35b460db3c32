---------------------------- MODULE MCConnection ----------------------------
(* Connection on a few clients, for TLC.                                      *)
EXTENDS Connection, TLC
=============================================================================
