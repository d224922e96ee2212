-------------------------------- MODULE MCGate -------------------------------
(* Gate on a hosted relay (two owners, groups, ad-hoc host gates) and on a *)
(* local one (hosts of one project).                                       *)
EXTENDS Gate, TLC

Offer(h, u, g, s) == [host |-> h, user |-> u, group |-> g, secret |-> s]

(* Groups of one secret, as --protect makes them, of two secrets, as a     *)
(* manifest may, and a gate of its own host.                               *)
Gates ==
    {Offer("a", "u1", "up1", "s1"), Offer("b", "u1", "up1", "s1"),
     Offer("a", "u1", NoGroup, "s2"), Offer("b", "u1", "up1", "s2"),
     Offer("b", "u1", "up2", "s1"),
     Offer("c", "u2", "up1", "s1")}

Addresses == Permutations(Key)

(* A project's bare domain and one of its hosts, on a local relay.         *)
LocalProject == {Offer("proj", "u1", "up1", "s1"), Offer("app.proj", "u1", "up1", "s1")}
Subdomain == {<<"app.proj", "proj">>}
=============================================================================
