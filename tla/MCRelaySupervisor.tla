-------------------------- MODULE MCRelaySupervisor --------------------------
(* RelaySupervisor with two TLDs.                                          *)
EXTENDS RelaySupervisor, TLC

ChildSymmetry == Permutations(Child)
=============================================================================
