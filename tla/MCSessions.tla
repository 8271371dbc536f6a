------------------------------- MODULE MCSessions -------------------------------
(* Small instance of Sessions for TLC.                                         *)
EXTENDS Sessions, TLC

Symmetry == Permutations(Tabs) \cup Permutations(Users) \cup Permutations(Requests)
=============================================================================
