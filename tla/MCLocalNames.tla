---------------------------- MODULE MCLocalNames ----------------------------
(* LocalNames with two directories under one TLD: the first may also run   *)
(* against a remote relay, the second under a TLD that resolves natively.  *)
EXTENDS LocalNames, TLC

MCFQDN == {"a.dev", "b.dev", "roxey.dev", "b.localhost", "localhost"}
MCTLDOf == [n \in MCFQDN |-> IF n \in {"b.localhost", "localhost"} THEN "localhost" ELSE "dev"]

Dev(name) == [names |-> {name, "roxey.dev"}, tld |-> "dev", local |-> TRUE]
Native == [names |-> {"b.localhost"}, tld |-> "localhost", local |-> TRUE]
Remote == [names |-> {"a.dev"}, tld |-> "dev", local |-> FALSE]

(* An older block above another line, which is not ended.                  *)
MCFirstHosts == {<<"BEGIN", "a.dev", "END", "", "127.0.0.1 localhost">>}

MCManifests ==
    [d \in Dir |-> IF d = "d1" THEN {Dev("a.dev"), Remote} ELSE {Dev("b.dev"), Native}]
=============================================================================
