------------------------------ MODULE MCSkelUsb ------------------------------
(* Small instances of SkelUsb for TLC.                                     *)
EXTENDS SkelUsb, TLC

Symmetry == Permutations(Proc) \cup Permutations(Dev) \cup Permutations(Urb)
=============================================================================
