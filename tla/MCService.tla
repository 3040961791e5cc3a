------------------------------ MODULE MCService ------------------------------
(* Small instances of Service for TLC.                                     *)
EXTENDS Service, TLC

MCSymmetry == Permutations(Callers) \cup Permutations(Servers) \cup Permutations(Ports)
=============================================================================
