------------------------------ MODULE Topology -------------------------------
(***************************************************************************)
(* From a manifest to the topology an up opens: Load and Validate          *)
(* (src/cli/manifest), the rewriting of hosts for a fork preview and the   *)
(* assignment of ports (src/cli/preview), and the resolution of            *)
(* {{port:...}}, in the order of cmdUp (src/cli/main.go).                  *)
(*                                                                         *)
(* A host is a sequence of labels, a label a sequence of words, so that    *)
(* "app-x.acme" is << <<"app","x">>, <<"acme">> >>; a route's name is a    *)
(* host of one label.  A path is the sequence of what follows its slashes: *)
(* "/" is <<"">>, "/api" is <<"api">> and "/api/" is <<"api", "">>.  A     *)
(* manifest lists its hosts, and its routes with the index of their        *)
(* environment.                                                            *)
(***************************************************************************)
EXTENDS Integers, SequencesExt

CONSTANTS
    Manifests,      \* what roxey.yaml may say
    Slugs,          \* preview slugs
    Free,           \* ports FreePort may return
    MaxPort,        \* 65535
    NoName, Nowhere \* a route without a name, without a target

(* The manifests YAML can be read into, Validate not yet called.           *)
HostName == Seq(Seq(STRING)) \ {<<>>}
Path == Seq(STRING) \ {<<>>}

Port(p) == [kind |-> "port", port |-> p]        \* localhost:<p>
Ref(n) == [kind |-> "ref", name |-> n]          \* localhost:{{port:<n>}}
Elsewhere == [kind |-> "elsewhere"]             \* an address of another machine

Target == {Elsewhere, Nowhere} \cup [kind : {"port"}, port : Int]
                               \cup [kind : {"ref"}, name : HostName]

Route == [env : Nat, path : Path, run : BOOLEAN, name : HostName \cup {NoName},
          port : Int, target : Target]

Manifest == [tld : STRING, local : BOOLEAN, key : BOOLEAN,
             hosts : Seq(HostName), routes : Seq(Route)]

ASSUME TopologyAssumption ==
    /\ MaxPort \in Nat
    /\ Free \subseteq 1..MaxPort
    /\ Slugs \subseteq Seq(STRING)
    /\ \A d \in Manifests :
          /\ d \in Manifest
          /\ \A i \in DOMAIN d.routes : d.routes[i].env \in DOMAIN d.hosts

VARIABLES
    phase,      \* how far cmdUp has come: "open" or "refused" at the end,
                \* or "torn" with some of its tunnels
    declared,   \* the manifest as it was read
    m,          \* the manifest cmdUp rewrites in place
    isPreview

vars == <<phase, declared, m, isPreview>>

-----------------------------------------------------------------------------
(* Manifests.                                                              *)
RootPath == <<"">>

Index == DOMAIN m.routes
Runs == {i \in Index : m.routes[i].run}

RelayOK(d) ==
    /\ d.tld # "" \/ d.local
    /\ ~(d.local /\ d.key)

HostsOK(d) ==
    /\ d.hosts # <<>>
    /\ \A i, j \in DOMAIN d.hosts : d.hosts[i] = d.hosts[j] => i = j
    /\ \A e \in DOMAIN d.hosts : \E i \in DOMAIN d.routes : d.routes[i].env = e

RouteOK(d, r) ==
    IF r.run
    THEN /\ r.target = Nowhere
         /\ r.port \in 0..MaxPort
         /\ r.name # NoName => ~\E e \in DOMAIN d.hosts : d.hosts[e] = r.name
    ELSE r.name = NoName /\ r.target # Nowhere

Valid(d) ==
    /\ RelayOK(d) /\ HostsOK(d)
    /\ \A i \in DOMAIN d.routes : RouteOK(d, d.routes[i])
    /\ \A i, j \in DOMAIN d.routes :
          i # j =>
             /\ d.routes[i].env = d.routes[j].env => d.routes[i].path # d.routes[j].path
             /\ d.routes[i].name # NoName => d.routes[i].name # d.routes[j].name

(* Preview hosts.  On a relay that takes dotted names the slug joins the   *)
(* first label; elsewhere the host becomes one label.                      *)
Subdomain(h, slug) == <<Head(h) \o slug>> \o Tail(h)

Flattened(h, slug) == <<slug \o FlattenSeq(h)>>

(* Mutant: the slug takes the place of the first label.                    *)
PreviewHostReplaced(h, slug, local) ==
    IF local THEN <<slug>> \o Tail(h) ELSE Flattened(h, slug)

PreviewHost(h, slug, local) ==
    IF local THEN Subdomain(h, slug) ELSE Flattened(h, slug)

-----------------------------------------------------------------------------
(* Ports.                                                                  *)

AutoPorts == {i \in Runs : isPreview \/ m.routes[i].port = 0}

(* Mutant: the pinned ports are not taken into account.                    *)
UsedNone == {}

(* Ports that are spoken for before any is assigned.                       *)
Used == IF isPreview THEN {} ELSE {m.routes[i].port : i \in Runs} \ {0}

Assignments ==
    {f \in [AutoPorts -> Free \ Used] : \A i, j \in AutoPorts : f[i] = f[j] => i = j}

(* The spawned routes that declared the port a proxy route points at.      *)
Declaring(r) ==
    IF ~r.run /\ r.target.kind = "port" /\ r.target.port > 0
    THEN {i \in Runs : m.routes[i].port = r.target.port}
    ELSE {}

Ambiguous == isPreview /\ \E j \in Index : Cardinality(Declaring(m.routes[j])) > 1

(* Mutant: a proxy route keeps the port it was written with.               *)
RetargetedNot(r, f) == r.target

Retargeted(r, f) ==
    IF isPreview /\ Declaring(r) # {}
    THEN Port(f[CHOOSE i \in Declaring(r) : TRUE])
    ELSE r.target

WithPorts(f) ==
    [m EXCEPT !.routes = [i \in Index |->
        IF i \in AutoPorts THEN [m.routes[i] EXCEPT !.port = f[i]]
        ELSE IF m.routes[i].run THEN m.routes[i]
        ELSE [m.routes[i] EXCEPT !.target = Retargeted(m.routes[i], f)]]]

-----------------------------------------------------------------------------
(* References.                                                             *)

Named(n) == {i \in Runs : m.routes[i].name = n}

(* The spawned root routes of the host declared as n, by its present name. *)
Roots(n) ==
    {i \in Runs : /\ m.routes[i].path = RootPath
                  /\ \E e \in DOMAIN declared.hosts :
                        /\ declared.hosts[e] = n
                        /\ m.hosts[m.routes[i].env] = m.hosts[e]}

(* portIndex.port: a route's name comes first.                             *)
Means(n) == IF Named(n) # {} THEN Named(n) ELSE Roots(n)

Refs == {m.routes[i].target.name : i \in {j \in Index : ~m.routes[j].run
                                                        /\ m.routes[j].target.kind = "ref"}}

Resolved(r) ==
    IF ~r.run /\ r.target.kind = "ref"
    THEN [r EXCEPT !.target = Port(m.routes[CHOOSE i \in Means(r.target.name) : TRUE].port)]
    ELSE r

-----------------------------------------------------------------------------
(* Tunnels.  startOne's key for a route: its host and, but for a last      *)
(* slash, its path.                                                        *)
PathPrefix(path) == IF Last(path) = "" THEN Front(path) ELSE path
TunnelKey(i) == <<m.hosts[m.routes[i].env], PathPrefix(m.routes[i].path)>>

Collide == \E i, j \in Index : i # j /\ TunnelKey(i) = TunnelKey(j)

-----------------------------------------------------------------------------
Init ==
    /\ phase = "read"
    /\ declared \in Manifests
    /\ m = declared
    /\ isPreview \in BOOLEAN

(* LoadWith: a manifest without a TLD gets the local relay's.              *)
Load ==
    /\ phase = "read"
    /\ Valid(m)
    /\ phase' = "loaded"
    /\ m' = [m EXCEPT !.tld = IF @ = "" THEN "dev" ELSE @]
    /\ UNCHANGED <<declared, isPreview>>

LoadFails ==
    /\ phase = "read"
    /\ ~Valid(m)
    /\ phase' = "refused"
    /\ UNCHANGED <<declared, m, isPreview>>

(* up --online of a manifest with dotted hosts is a preview by itself.     *)
GoOnline ==
    /\ phase = "loaded"
    /\ m' = [m EXCEPT !.local = FALSE, !.tld = "f43.run",
                      !.key = m.key /\ ~m.local /\ m.tld = "f43.run"]
    /\ isPreview' = (isPreview \/ \E e \in DOMAIN m.hosts : Len(m.hosts[e]) > 1)
    /\ phase' = "online"
    /\ UNCHANGED declared

Rename(slug) ==
    /\ phase \in {"loaded", "online"}
    /\ isPreview
    /\ m' = [m EXCEPT !.hosts = [e \in DOMAIN @ |-> PreviewHost(@[e], slug, m.local)]]
    /\ phase' = "named"
    /\ UNCHANGED <<declared, isPreview>>

KeepNames ==
    /\ phase \in {"loaded", "online"}
    /\ ~isPreview
    /\ phase' = "named"
    /\ UNCHANGED <<declared, m, isPreview>>

AssignPorts ==
    /\ phase = "named"
    /\ ~Ambiguous
    /\ \E f \in Assignments : m' = WithPorts(f)
    /\ phase' = "assigned"
    /\ UNCHANGED <<declared, isPreview>>

AssignFails ==
    /\ phase = "named"
    /\ Ambiguous
    /\ phase' = "refused"
    /\ UNCHANGED <<declared, m, isPreview>>

ResolveTemplates ==
    /\ phase = "assigned"
    /\ \A n \in Refs : Cardinality(Means(n)) = 1
    /\ m' = [m EXCEPT !.routes = [i \in Index |-> Resolved(m.routes[i])]]
    /\ phase' = "ready"
    /\ UNCHANGED <<declared, isPreview>>

ResolveFails ==
    /\ phase = "assigned"
    /\ \E n \in Refs : Cardinality(Means(n)) # 1
    /\ phase' = "refused"
    /\ UNCHANGED <<declared, m, isPreview>>

(* startOne for every route: the second of one key finds the first's       *)
(* worker running, and the run ends there.                                 *)
OpenTunnels ==
    /\ phase = "ready" /\ ~Collide
    /\ phase' = "open"
    /\ UNCHANGED <<declared, m, isPreview>>

OpenFails ==
    /\ phase = "ready" /\ Collide
    /\ phase' = "torn"
    /\ UNCHANGED <<declared, m, isPreview>>

Next ==
    \/ Load \/ LoadFails
    \/ GoOnline \/ KeepNames
    \/ \E slug \in Slugs : Rename(slug)
    \/ AssignPorts \/ AssignFails
    \/ ResolveTemplates \/ ResolveFails
    \/ OpenTunnels \/ OpenFails

Spec == Init /\ [][Next]_vars

-----------------------------------------------------------------------------
(* Two services are told the same port only if the manifest pins both to   *)
(* it and this is no preview: an assigned port is nobody else's.           *)
PortsApart ==
    phase \in {"assigned", "ready", "open", "torn"} =>
        \A i, j \in Runs :
            i # j /\ m.routes[i].port = m.routes[j].port =>
                /\ ~isPreview
                /\ declared.routes[i].port # 0
                /\ declared.routes[i].port = declared.routes[j].port

(* The spawned route a reader of the manifest takes n for: the route of    *)
(* that name or the one at the root of that host.                          *)
MeantBy(n, i) ==
    /\ declared.routes[i].run
    /\ \/ declared.routes[i].name = n
       \/ /\ declared.hosts[declared.routes[i].env] = n
          /\ declared.routes[i].path = RootPath

(* A host without a spawned root route, whose reference should fail, is    *)
(* taken for another where a label-only relay makes one host of both.      *)
Mistaken(n, j) ==
    /\ isPreview /\ ~m.local
    /\ ~\E i \in Runs : MeantBy(n, i)
    /\ declared.routes[j].path = RootPath
    /\ FlattenSeq(declared.hosts[declared.routes[j].env]) = FlattenSeq(n)

(* Where a {{port:n}} may end up.                                          *)
RefFollows(n, is) ==
    \E j \in Runs : is = Port(m.routes[j].port) /\ (MeantBy(n, j) \/ Mistaken(n, j))

(* Where an address may: in a preview with the service that declared it.   *)
PortFollows(was, is) ==
    LET those == {j \in Runs : declared.routes[j].port = was.port}
    IN IF was.kind = "port" /\ was.port > 0 /\ isPreview /\ those # {}
       THEN \A j \in those : is = Port(m.routes[j].port)
       ELSE is = was

(* Whatever ports are assigned, and to whatever hosts are renamed, a proxy *)
(* route ends up at the service its author meant: a {{port:...}} at the    *)
(* port of the service it names, an address at the port it says, or, in a  *)
(* preview, at the new port of the service that declared it.  The only     *)
(* reference that goes astray is to a host that is Mistaken for another.   *)
TargetsFollow ==
    phase \in {"ready", "open", "torn"} =>
        \A i \in Index \ Runs :
            LET was == declared.routes[i].target
                is  == m.routes[i].target
            IN IF was.kind = "ref" THEN RefFollows(was.name, is) ELSE PortFollows(was, is)

(* Hazard: a run that fails at a tunnel, with the services and others up,  *)
(* over a manifest that Validate took ("duplicated" host, path).  Two      *)
(* routes never claim one tunnel, except where a label-only relay makes    *)
(* one host of "a.b" and "a-b", or paths differ in a last slash.           *)
TunnelsApart ==
    phase \in {"ready", "open", "torn"} =>
        \A i, j \in Index :
            LET e == declared.routes[i].env
                f == declared.routes[j].env
            IN  i # j /\ TunnelKey(i) = TunnelKey(j) =>
                   IF e = f
                   THEN Last(m.routes[i].path) # Last(m.routes[j].path)
                   ELSE /\ isPreview /\ ~m.local
                        /\ FlattenSeq(declared.hosts[e]) = FlattenSeq(declared.hosts[f])
=============================================================================
