------------------------------ MODULE MCAdapter -----------------------------
(* Adapter with two setters and two values of each rating, for TLC.           *)
EXTENDS Adapter, TLC

\* setters, voltages and currents are interchangeable among themselves
Symmetric ==
    Permutations(Writers) \cup Permutations(Voltages) \cup Permutations(Currents)
=============================================================================
