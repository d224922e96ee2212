---------------------------- MODULE MCCertificates ----------------------------
(* Certificates with two processes and two projects, registered one after  *)
(* the other.                                                              *)
EXTENDS Certificates, TLC

MCName == {"roxey.dev", "a.dev", "b.dev"}
MCWanted == {{"roxey.dev", "a.dev"}, MCName}

Identities ==
    {f @@ g @@ h : f \in Permutations(CA), g \in Permutations(Pair),
                   h \in Permutations(Proc)}
=============================================================================
