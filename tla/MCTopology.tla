------------------------------ MODULE MCTopology -----------------------------
(* Topology over manifests of one or two environments with two spawned     *)
(* routes and a proxy route.                                               *)
EXTENDS Topology, TLC

App == << <<"app">> >>
Api == << <<"api">> >>
AppAcme == << <<"app">>, <<"acme">> >>
WebAcme == << <<"web">>, <<"acme">> >>
AppDashAcme == << <<"app", "acme">> >>
None == <<>>

Relay(tld, local, key) == [tld |-> tld, local |-> local, key |-> key]
Relays == {Relay("", TRUE, FALSE), Relay("f43.run", FALSE, TRUE), Relay("", FALSE, TRUE)}

Hosts == {<<App>>, <<AppAcme, WebAcme>>, <<AppDashAcme, AppAcme>>, <<App, App>>}

AtApi == <<"api">>
AtApiSlash == <<"api", "">>
AtWeb == <<"web">>

Run(e, path, name, port) ==
    [env |-> e, path |-> path, run |-> TRUE, name |-> name, port |-> port, target |-> Nowhere]
Proxy(e, path, target) ==
    [env |-> e, path |-> path, run |-> FALSE, name |-> None, port |-> 0, target |-> target]

Targets(h) == {Port(3000), Port(4000), Elsewhere} \cup {Ref(n) : n \in {Api, h[1], h[Len(h)]}}

MCManifests ==
    {[tld |-> r.tld, local |-> r.local, key |-> r.key, hosts |-> h,
      routes |-> <<Run(1, RootPath, n1, p1), Run(Len(h), path, n2, p2), Proxy(1, at, t)>>] :
        <<r, h, n1, p1, path, n2, p2, at, t>> \in
           UNION {Relays \X {h} \X {None, Api} \X {0, 3000} \X {RootPath, AtApi}
                  \X {None, Api, App} \X {0, 3000, 4000}
                  \X {AtWeb, AtApiSlash} \X Targets(h) : h \in Hosts}}

Absent == [kind |-> "none"]
Words2 == {<<"fix">>, <<"fix", "app">>}
=============================================================================
