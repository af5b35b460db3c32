-------------------------- MODULE MCEntryLifecycle --------------------------
(* The entry and its flows with two scheduled reloads, for TLC.               *)
EXTENDS ConfigFlow, TLC
=============================================================================
