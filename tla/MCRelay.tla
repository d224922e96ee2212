------------------------------- MODULE MCRelay -------------------------------
(* Relay on one host with the root route and two nested prefixes.          *)
EXTENDS Relay, TLC

MCPrefix == {"/api", "/api/v2"}
MCPath   == {"/", "/api/v2"}
MCLength == [p \in MCPrefix |-> IF p = "/api" THEN 4 ELSE 7]
MCUnder  == [q \in MCPath |-> IF q = "/" THEN {} ELSE MCPrefix]

Wants(prefix, protect) == [host |-> "h1", prefix |-> prefix, protect |-> protect]
MCAsked ==
    {Wants(Root, NoSecret), Wants("/api", "s1"), Wants("/api/v2", NoSecret)}
MCPresented == {{}, {"s1"}, {HostCookie}}
=============================================================================
