----------------------------- MODULE MCRegistry -----------------------------
(* Registry on two hosts, prefixes /a, /b and /a/b -- two of one length    *)
(* and one nested in another -- and the paths that tell them apart.        *)
EXTENDS Registry, TLC

MCPrefix == {"/a", "/b", "/a/b"}
MCPath   == {"/", "/a", "/a/b", "/a/b/c", "/ab", "/b"}

MCLength == [p \in MCPrefix |-> IF p = "/a/b" THEN 4 ELSE 2]

MCUnder ==
    [q \in MCPath |->
        CASE q = "/a"                -> {"/a"}
          [] q \in {"/a/b", "/a/b/c"} -> {"/a", "/a/b"}
          [] q = "/b"                -> {"/b"}
          [] OTHER                   -> {}]
=============================================================================
