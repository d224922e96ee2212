----------------------------- MODULE MCLifecycle -----------------------------
(* Lifecycle with two manifests: the first declares a service on a path of *)
(* host a, the second one on host c, on a port of its own.  start is used  *)
(* for the same path and for the rest of host a.                           *)
EXTENDS Lifecycle, TLC

A == <<"a", "root">>
APath == <<"a", "api">>
C == <<"c", "root">>

TwoManifests == {"m1", "m2"}
Both  == [m \in Manifest |-> IF m = "m1" THEN {APath} ELSE {C}]

RunAC == {APath, C}
ByHand == {A, APath}

OwnPort == [r \in RunRoute |-> IF r = APath THEN "p1" ELSE "p2"]

PidSymmetry == Permutations(Worker) \cup Permutations(Service) \cup Permutations(Command)
=============================================================================
