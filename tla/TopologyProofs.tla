--------------------------- MODULE TopologyProofs ---------------------------
(***************************************************************************)
(* Proofs about Topology for any manifests, slugs and free ports: what up  *)
(* rewrites keeps the services, their ports and their tunnels apart, and   *)
(* every proxy route at its service.                                       *)
(***************************************************************************)
EXTENDS Topology, FiniteSetTheorems, SequenceTheorems, WellFoundedInduction, TLAPS

-----------------------------------------------------------------------------
(* Sequences of sequences.                                                 *)

(* A set of numbers that is not empty has a least one.                     *)
LEMMA LeastNumber ==
  ASSUME NEW S \in SUBSET Nat, S # {}
  PROVE  \E i \in S : \A j \in S : i <= j
<1>1. PICK i \in S : \A j \in S : ~(<<j, i>> \in OpToRel(<, Nat))
    BY NatLessThanWellFounded, WFMin
<1>2. \A j \in S : ~(j < i)
    BY <1>1 DEF OpToRel
<1> QED  BY <1>2

(* The recursion by which FlattenSeq joins the first of its sequences.     *)
Joins(f, s, n) == \A i \in 1..n : f[i] = IF i = 1 THEN s[i] ELSE f[i - 1] \o s[i]

(* For every length there is a function the recursion describes.           *)
LEMMA JoinsExists ==
  ASSUME NEW W, NEW s \in Seq(Seq(W))
  PROVE  \A n \in 0..Len(s) : \E f \in [1..n -> Seq(W)] : Joins(f, s, n)
<1> DEFINE Bad == {n \in 0..Len(s) : ~\E f \in [1..n -> Seq(W)] : Joins(f, s, n)}
<1> SUFFICES ASSUME Bad # {} PROVE FALSE
  OBVIOUS
<1>0. Len(s) \in Nat /\ \A i \in 1..Len(s) : s[i] \in Seq(W)
  OBVIOUS
<1>a. Bad \in SUBSET Nat
  BY <1>0
<1>1. PICK n \in Bad : \A k \in Bad : n <= k
  BY <1>a, LeastNumber
<1>2. n # 0
  <2> SUFFICES ASSUME n = 0 PROVE FALSE
    OBVIOUS
  <2> DEFINE f == [i \in 1..0 |-> <<>>]
  <2>1. f \in [1..n -> Seq(W)] /\ \A i \in 1..n : FALSE
    OBVIOUS
  <2>2. Joins(f, s, n)
    BY <2>1 DEF Joins
  <2> QED  BY <1>1, <2>1, <2>2
<1>3. n - 1 \in 0..Len(s) /\ n - 1 \notin Bad
  <2>1. n \in 1..Len(s)
    BY <1>0, <1>1, <1>2
  <2>2. n - 1 \in 0..Len(s) /\ ~(n <= n - 1)
    BY <1>0, <2>1
  <2> QED  BY <1>1, <2>2
<1>4. PICK f \in [1..(n - 1) -> Seq(W)] : Joins(f, s, n - 1)
  BY <1>3
<1> DEFINE g == [i \in 1..n |-> IF i < n THEN f[i]
                                ELSE IF i = 1 THEN s[i] ELSE f[i - 1] \o s[i]]
<1>5. g \in [1..n -> Seq(W)]
  <2> SUFFICES ASSUME NEW i \in 1..n PROVE g[i] \in Seq(W)
    OBVIOUS
  <2>1. CASE i < n
    BY <2>1, <1>0, <1>1, <1>4
  <2>2. CASE i = n /\ i = 1
    BY <2>2, <1>0, <1>1
  <2>3. CASE i = n /\ i # 1
    <3>1. f[i - 1] \in Seq(W) /\ s[i] \in Seq(W)
      BY <2>3, <1>0, <1>1, <1>4
    <3> QED  BY <2>3, <3>1
  <2> QED  BY <2>1, <2>2, <2>3, <1>0, <1>1
<1>b. \A i \in 1..(n - 1) : f[i] = IF i = 1 THEN s[i] ELSE f[i - 1] \o s[i]
  BY <1>4, Zenon DEF Joins
<1>6. Joins(g, s, n)
  <2> SUFFICES ASSUME NEW i \in 1..n
               PROVE  g[i] = IF i = 1 THEN s[i] ELSE g[i - 1] \o s[i]
    BY DEF Joins
  <2>1. n \in Nat /\ i \in Nat
    BY <1>0
  <2>2. CASE i = 1
    <3>1. 1 < n => 1 \in 1..(n - 1)
      BY <2>1
    <3>2. 1 < n => f[1] = s[1]
      BY <3>1, <1>b
    <3> QED  BY <2>1, <2>2, <3>2
  <2>3. CASE i # 1
    <3>1. i - 1 \in 1..n /\ i - 1 < n
      BY <2>1, <2>3
    <3>2. g[i - 1] = f[i - 1]
      BY <3>1
    <3>3. i < n => f[i] = f[i - 1] \o s[i]
      <4>1. i < n => i \in 1..(n - 1)
        BY <2>1
      <4> QED  BY <2>3, <4>1, <1>b
    <3>4. i < n \/ i = n
      BY <2>1
    <3> QED  BY <2>3, <3>2, <3>3, <3>4
  <2> QED  BY <2>2, <2>3
<1> QED  BY <1>5, <1>6

(* What FlattenSeq makes of sequences is a sequence.                       *)
LEMMA FlattenType ==
  ASSUME NEW W, NEW s \in Seq(Seq(W))
  PROVE  FlattenSeq(s) \in Seq(W)
<1> DEFINE n == Len(s)
           R(f) == [i \in 1..n |-> IF i = 1 THEN s[i] ELSE f[i - 1] \o s[i]]
           F == CHOOSE f : f = R(f)
<1>1. CASE n = 0
  BY <1>1 DEF FlattenSeq
<1>2. CASE n # 0
  <2>1. PICK f \in [1..n -> Seq(W)] : Joins(f, s, n)
    BY JoinsExists
  <2>2. f = R(f)
    BY <2>1 DEF Joins
  <2>3. F = R(F)
    BY <2>2
  <2> HIDE DEF F
  <2>4. \A i \in 1..n : F[i] \in Seq(W)
    <3> DEFINE Bad == {i \in 1..n : F[i] \notin Seq(W)}
    <3> SUFFICES ASSUME Bad # {} PROVE FALSE
      OBVIOUS
    <3>0. Bad \in SUBSET Nat
      OBVIOUS
    <3>1. PICK i \in Bad : \A k \in Bad : i <= k
      BY <3>0, LeastNumber
    <3>2. F[i] = IF i = 1 THEN s[i] ELSE F[i - 1] \o s[i]
      BY <2>3
    <3>3. CASE i = 1
      BY <3>1, <3>2, <3>3
    <3>4. CASE i # 1
      <4>1. i - 1 \in 1..n /\ i - 1 \notin Bad
        <5>1. i \in 1..n /\ i - 1 \in 1..n /\ ~(i <= i - 1)
          BY <3>4
        <5> QED  BY <3>1, <5>1
      <4>2. F[i - 1] \in Seq(W) /\ s[i] \in Seq(W)
        BY <4>1
      <4>3. F[i] \in Seq(W)
        BY <3>2, <3>4, <4>2
      <4> QED  BY <3>1, <4>3
    <3> QED  BY <3>3, <3>4
  <2>5. FlattenSeq(s) = F[n]
    BY <1>2 DEF FlattenSeq, F
  <2> QED  BY <1>2, <2>4, <2>5
<1> QED  BY <1>1, <1>2

(* A sequence is its head and its tail.                                    *)
LEMMA HeadAndTail ==
  ASSUME NEW W, NEW s \in Seq(W), NEW t \in Seq(W), s # <<>>, t # <<>>,
         Head(s) = Head(t), Tail(s) = Tail(t)
  PROVE  s = t
<1>1. Len(s) \in Nat \ {0} /\ Len(t) \in Nat \ {0}
  OBVIOUS
<1>2. Len(Tail(s)) = Len(s) - 1 /\ Len(Tail(t)) = Len(t) - 1
  BY <1>1
<1>3. Len(s) = Len(t)
  <2>1. Len(s) - 1 = Len(t) - 1
    BY <1>2, Zenon
  <2> QED  BY <1>1, <2>1
<1>4. ASSUME NEW i \in 1..Len(s) PROVE s[i] = t[i]
  <2>1. CASE i = 1
    BY <2>1
  <2>2. CASE i # 1
    <3>1. i - 1 \in 1..(Len(s) - 1) /\ (i - 1) + 1 = i
      BY <1>1, <2>2
    <3>2. Tail(s)[i - 1] = s[i] /\ Tail(t)[i - 1] = t[i]
      BY <1>1, <1>2, <1>3, <3>1
    <3> QED  BY <3>2
  <2> QED  BY <2>1, <2>2
<1> QED  BY <1>3, <1>4

-----------------------------------------------------------------------------
(* Preview hosts.                                                          *)

(* A preview host is a host.                                               *)
LEMMA PreviewHostType ==
  ASSUME NEW h \in HostName, NEW slug \in Seq(STRING), NEW local
  PROVE  PreviewHost(h, slug, local) \in HostName
<1>1. FlattenSeq(h) \in Seq(STRING)
  BY FlattenType DEF HostName
<1>2. Flattened(h, slug) \in HostName
  BY <1>1 DEF Flattened, HostName
<1>3. Head(h) \in Seq(STRING) /\ Tail(h) \in Seq(Seq(STRING))
  BY DEF HostName
<1> DEFINE x == Head(h) \o slug
<1>4. x \in Seq(STRING)
  BY <1>3
<1> HIDE DEF x
<1>5. <<x>> \o Tail(h) \in HostName
  BY <1>3, <1>4 DEF HostName
<1>6. Subdomain(h, slug) \in HostName
  BY <1>5 DEF Subdomain, x
<1> QED  BY <1>2, <1>6 DEF PreviewHost

(* On a relay that takes dotted names two hosts stay two; elsewhere they   *)
(* become one only if they differ in nothing but their dots.               *)
LEMMA PreviewHostsApart ==
  ASSUME NEW h \in HostName, NEW k \in HostName, NEW slug \in Seq(STRING),
         NEW local, PreviewHost(h, slug, local) = PreviewHost(k, slug, local)
  PROVE  /\ local => h = k
         /\ ~local => FlattenSeq(h) = FlattenSeq(k)
<1>1. CASE ~local
  <2>1. FlattenSeq(h) \in Seq(STRING) /\ FlattenSeq(k) \in Seq(STRING)
    BY FlattenType DEF HostName
  <2>2. slug \o FlattenSeq(h) = slug \o FlattenSeq(k)
    BY <1>1 DEF PreviewHost, Flattened
  <2> QED  BY <1>1, <2>1, <2>2, ConcatSimplifications
<1>2. CASE local
  <2> DEFINE x == Head(h) \o slug
             y == Head(k) \o slug
  <2>1. /\ Head(h) \in Seq(STRING) /\ Tail(h) \in Seq(Seq(STRING))
        /\ Head(k) \in Seq(STRING) /\ Tail(k) \in Seq(Seq(STRING))
    BY DEF HostName
  <2>2. x \in Seq(STRING) /\ y \in Seq(STRING)
    BY <2>1
  <2>3. <<x>> \o Tail(h) = <<y>> \o Tail(k)
    BY <1>2 DEF PreviewHost, Subdomain
  <2> HIDE DEF x, y
  <2>4. x = y
    <3>1. (<<x>> \o Tail(h))[1] = x /\ (<<y>> \o Tail(k))[1] = y
      BY <2>1, <2>2
    <3> QED  BY <2>3, <3>1
  <2>5. Tail(h) = Tail(k)
    <3>1. <<x>> \in Seq(Seq(STRING))
      BY <2>2
    <3>2. <<x>> \o Tail(h) = <<x>> \o Tail(k)
      BY <2>3, <2>4
    <3> QED  BY <2>1, <3>1, <3>2, ConcatSimplifications
  <2>6. Head(h) = Head(k)
    BY <2>1, <2>4, ConcatSimplifications DEF x, y
  <2> QED  BY <1>2, <2>5, <2>6, HeadAndTail DEF HostName
<1> QED  BY <1>1, <1>2

(* What startOne makes of two paths tells them apart, but for a last slash. *)
LEMMA PrefixesApart ==
  ASSUME NEW p \in Path, NEW q \in Path, PathPrefix(p) = PathPrefix(q), Last(p) = Last(q)
  PROVE  p = q
<1>1. CASE Last(p) = ""
  <2>1. Front(p) = Front(q)
    BY <1>1 DEF PathPrefix
  <2>2. Len(p) \in Nat \ {0} /\ Len(q) \in Nat \ {0}
    BY DEF Path
  <2>3. ASSUME NEW t \in Path
        PROVE  /\ Len(Front(t)) = Len(t) - 1
               /\ \A i \in 1..(Len(t) - 1) : Front(t)[i] = t[i]
    <3>1. t \in Seq(STRING) /\ Len(t) \in Nat \ {0}
      BY DEF Path
    <3> DEFINE n == Len(t) - 1
    <3>2. 1 \in 1..(Len(t) + 1) /\ n \in 0..Len(t) /\ n \in Nat
      BY <3>1
    <3> HIDE DEF n
    <3>3. /\ Len(SubSeq(t, 1, n)) = IF 1 <= n THEN n - 1 + 1 ELSE 0
          /\ \A i \in 1..(n - 1 + 1) : SubSeq(t, 1, n)[i] = t[1 + i - 1]
      BY <3>1, <3>2, SubSeqProperties
    <3>4. \A i \in 1..n : SubSeq(t, 1, n)[i] = t[i]
      BY <3>2, <3>3
    <3>5. Len(SubSeq(t, 1, n)) = n
      BY <3>2, <3>3
    <3> QED  BY <3>4, <3>5 DEF Front, n
  <2>4. Len(p) = Len(q)
    BY <2>1, <2>2, <2>3
  <2>5. ASSUME NEW i \in 1..Len(p) PROVE p[i] = q[i]
    <3>1. CASE i = Len(p)
      BY <2>4, <3>1 DEF Last
    <3>2. CASE i # Len(p)
      <4>1. i \in 1..(Len(p) - 1)
        BY <2>2, <3>2
      <4> QED  BY <2>1, <2>3, <2>4, <4>1
    <3> QED  BY <3>1, <3>2
  <2> QED  BY <2>4, <2>5 DEF Path
<1>2. CASE Last(p) # ""
  BY <1>2 DEF PathPrefix
<1> QED  BY <1>1, <1>2

-----------------------------------------------------------------------------
(* The inductive invariant.                                                *)

(* Only LoadFails, AssignFails and ResolveFails leave a manifest unnamed.  *)
NamedPhase == {"named", "assigned", "ready", "open", "torn"}
OpenPhase == {"ready", "open", "torn"}

(* The provers do not know that a literal is a STRING.                     *)
Tld == STRING \cup {"dev", "f43.run"}

TopologyTypeOK ==
    /\ phase \in {"read", "refused", "loaded", "online"} \cup NamedPhase
    /\ isPreview \in BOOLEAN
    /\ declared \in Manifests
    /\ m \in [tld : Tld, local : BOOLEAN, key : BOOLEAN,
             hosts : [DOMAIN declared.hosts -> HostName],
             routes : [DOMAIN declared.routes -> Route]]

(* Of a route cmdUp rewrites the port and the target only.                 *)
SameRoute(r, s) ==
    r.env = s.env /\ r.path = s.path /\ r.run = s.run /\ r.name = s.name

RoutesStay ==
    \A i \in DOMAIN declared.routes : SameRoute(m.routes[i], declared.routes[i])

(* What the hosts are once they are named.                                 *)
HostsNamed ==
    IF isPreview
    THEN \E slug \in Slugs :
            m.hosts = [e \in DOMAIN declared.hosts |->
                          PreviewHost(declared.hosts[e], slug, m.local)]
    ELSE m.hosts = declared.hosts

(* How far the manifest has been rewritten.                                *)
Rewritten ==
    /\ phase = "read" => m = declared
    /\ phase \notin {"read", "refused"} => Valid(declared)
    /\ phase \in {"loaded", "online"} => m.hosts = declared.hosts
    /\ phase \in {"loaded", "online", "named"} => m.routes = declared.routes
    /\ phase \in NamedPhase => HostsNamed

(* The proxy routes' targets when the ports are assigned.                  *)
PortsFollow ==
    phase = "assigned" =>
        \A i \in Index \ Runs : PortFollows(declared.routes[i].target, m.routes[i].target)

IInv ==
    /\ TopologyTypeOK /\ RoutesStay /\ Rewritten
    /\ PortsApart /\ PortsFollow /\ TargetsFollow

-----------------------------------------------------------------------------
(* A manifest as the proofs use it: functions in place of sequences.       *)
LEMMA ManifestFacts ==
  ASSUME NEW d \in Manifests
  PROVE  /\ d \in [tld : Tld, local : BOOLEAN, key : BOOLEAN,
                   hosts : [DOMAIN d.hosts -> HostName],
                   routes : [DOMAIN d.routes -> Route]]
         /\ \A i \in DOMAIN d.routes : d.routes[i].env \in DOMAIN d.hosts
         /\ IsFiniteSet(DOMAIN d.routes)
<1>1. /\ d \in Manifest
      /\ \A i \in DOMAIN d.routes : d.routes[i].env \in DOMAIN d.hosts
  BY TopologyAssumption
<1>2. d.hosts \in Seq(HostName) /\ d.routes \in Seq(Route)
  BY <1>1 DEF Manifest
<1>3. /\ d.hosts \in [DOMAIN d.hosts -> HostName]
      /\ d.routes \in [DOMAIN d.routes -> Route]
      /\ DOMAIN d.routes = 1..Len(d.routes) /\ Len(d.routes) \in Nat
  BY <1>2
<1>4. IsFiniteSet(DOMAIN d.routes)
  <2>1. 1 \in Int /\ Len(d.routes) \in Int
    BY <1>3
  <2> QED  BY <1>3, <2>1, FS_Interval
<1> QED  BY <1>1, <1>3, <1>4 DEF Manifest, Tld

(* Which routes there are, and which are spawned, the manifest says.       *)
LEMMA RunsStay ==
  ASSUME TopologyTypeOK, RoutesStay
  PROVE  /\ Index = DOMAIN declared.routes
         /\ Runs = {i \in DOMAIN declared.routes : declared.routes[i].run}
BY DEF TopologyTypeOK, RoutesStay, SameRoute, Index, Runs

LEMMA InitIInv == Init => IInv
<1> SUFFICES ASSUME Init PROVE IInv
  OBVIOUS
<1>1. TopologyTypeOK
  BY ManifestFacts DEF Init, TopologyTypeOK, NamedPhase
<1>2. RoutesStay
  BY DEF Init, RoutesStay, SameRoute
<1>3. Rewritten
  BY DEF Init, Rewritten, NamedPhase
<1>4. PortsApart /\ PortsFollow /\ TargetsFollow
  BY DEF Init, PortsApart, PortsFollow, TargetsFollow
<1> QED  BY <1>1, <1>2, <1>3, <1>4 DEF IInv

-----------------------------------------------------------------------------
(* Before the ports are assigned.                                          *)

(* What Load and GoOnline may write.                                       *)
LEMMA Relabelled ==
  ASSUME NEW H, NEW R, NEW t \in Tld, NEW l \in BOOLEAN, NEW k \in BOOLEAN,
         NEW r \in [tld : Tld, local : BOOLEAN, key : BOOLEAN, hosts : H, routes : R]
  PROVE  LET q == [r EXCEPT !.local = l, !.tld = t, !.key = k]
         IN  /\ q \in [tld : Tld, local : BOOLEAN, key : BOOLEAN, hosts : H, routes : R]
             /\ q.hosts = r.hosts /\ q.routes = r.routes
OBVIOUS

LEMMA LoadIInv == IInv /\ (Load \/ LoadFails) => IInv'
<1> SUFFICES ASSUME IInv, Load \/ LoadFails PROVE IInv'
  OBVIOUS
<1> USE DEF IInv
<1>1. phase = "read" /\ m = declared /\ declared' = declared /\ isPreview' = isPreview
  BY DEF Load, LoadFails, Rewritten
<1>2. m' \in [tld : Tld, local : BOOLEAN, key : BOOLEAN,
              hosts : [DOMAIN declared.hosts -> HostName],
              routes : [DOMAIN declared.routes -> Route]]
      /\ m'.hosts = m.hosts /\ m'.routes = m.routes
  <2>1. CASE Load
    <3> DEFINE t == IF m.tld = "" THEN "dev" ELSE m.tld
    <3>1. m' = [m EXCEPT !.tld = t] /\ m.tld \in Tld
      BY <2>1 DEF Load, TopologyTypeOK
    <3>2. t \in Tld
      BY <3>1 DEF Tld
    <3> HIDE DEF t
    <3> QED  BY <3>1, <3>2 DEF TopologyTypeOK
  <2>2. CASE LoadFails
    BY <2>2 DEF LoadFails, TopologyTypeOK
  <2> QED  BY <2>1, <2>2
<1>3. phase' \in {"loaded", "refused"} /\ (phase' = "loaded" => Valid(declared))
  BY <1>1 DEF Load, LoadFails
<1>4. TopologyTypeOK'
  BY <1>1, <1>2, <1>3 DEF TopologyTypeOK
<1>5. RoutesStay'
  BY <1>1, <1>2 DEF RoutesStay
<1>6. Rewritten'
  BY <1>1, <1>2, <1>3 DEF Rewritten, NamedPhase
<1>7. PortsApart' /\ PortsFollow' /\ TargetsFollow'
  BY <1>3 DEF PortsApart, PortsFollow, TargetsFollow
<1> QED  BY <1>4, <1>5, <1>6, <1>7

LEMMA GoOnlineIInv == IInv /\ GoOnline => IInv'
<1> SUFFICES ASSUME IInv, GoOnline PROVE IInv'
  OBVIOUS
<1> USE DEF IInv
<1>1. /\ phase = "loaded" /\ phase' = "online" /\ declared' = declared
      /\ isPreview' \in BOOLEAN
  BY DEF GoOnline, TopologyTypeOK
<1>2. (m.key /\ ~m.local /\ m.tld = "f43.run") \in BOOLEAN
  OBVIOUS
<1>3. m' \in [tld : Tld, local : BOOLEAN, key : BOOLEAN,
              hosts : [DOMAIN declared.hosts -> HostName],
              routes : [DOMAIN declared.routes -> Route]]
      /\ m'.hosts = m.hosts /\ m'.routes = m.routes
  <2> DEFINE k == m.key /\ ~m.local /\ m.tld = "f43.run"
  <2>1. m' = [m EXCEPT !.local = FALSE, !.tld = "f43.run", !.key = k]
    BY DEF GoOnline
  <2>2. k \in BOOLEAN
    BY <1>2
  <2> HIDE DEF k
  <2>3. "f43.run" \in Tld /\ FALSE \in BOOLEAN
    BY DEF Tld
  <2> QED  BY <2>1, <2>2, <2>3, Relabelled, Zenon DEF TopologyTypeOK
<1>4. TopologyTypeOK'
  BY <1>1, <1>3 DEF TopologyTypeOK
<1>5. RoutesStay'
  BY <1>1, <1>3 DEF RoutesStay
<1>6. Rewritten'
  BY <1>1, <1>3 DEF Rewritten, NamedPhase
<1>7. PortsApart' /\ PortsFollow' /\ TargetsFollow'
  BY <1>1 DEF PortsApart, PortsFollow, TargetsFollow
<1> QED  BY <1>4, <1>5, <1>6, <1>7

LEMMA RenameIInv == ASSUME NEW slug \in Slugs PROVE IInv /\ Rename(slug) => IInv'
<1> SUFFICES ASSUME IInv, Rename(slug) PROVE IInv'
  OBVIOUS
<1> USE DEF IInv
<1>1. /\ phase \in {"loaded", "online"} /\ phase' = "named" /\ declared' = declared
      /\ isPreview /\ isPreview' = isPreview
      /\ m.hosts = declared.hosts /\ m.routes = declared.routes
  BY DEF Rename, Rewritten
<1> DEFINE hosts == [e \in DOMAIN declared.hosts |->
                        PreviewHost(declared.hosts[e], slug, m.local)]
<1>2. hosts \in [DOMAIN declared.hosts -> HostName]
  <2>1. slug \in Seq(STRING)
    BY TopologyAssumption
  <2>2. \A e \in DOMAIN declared.hosts : declared.hosts[e] \in HostName
    BY <1>1 DEF TopologyTypeOK
  <2> QED  BY <2>1, <2>2, PreviewHostType
<1>3. m' = [m EXCEPT !.hosts = hosts]
  BY <1>1 DEF Rename
<1> HIDE DEF hosts
<1>4. /\ m' \in [tld : Tld, local : BOOLEAN, key : BOOLEAN,
                 hosts : [DOMAIN declared.hosts -> HostName],
                 routes : [DOMAIN declared.routes -> Route]]
      /\ m'.hosts = hosts /\ m'.routes = m.routes /\ m'.local = m.local
  BY <1>2, <1>3 DEF TopologyTypeOK
<1>5. TopologyTypeOK'
  BY <1>1, <1>4 DEF TopologyTypeOK, NamedPhase
<1>6. RoutesStay'
  BY <1>1, <1>4 DEF RoutesStay
<1>7. HostsNamed'
  BY <1>1, <1>4 DEF HostsNamed, hosts
<1>8. Rewritten'
  BY <1>1, <1>4, <1>7 DEF Rewritten
<1>9. PortsApart' /\ PortsFollow' /\ TargetsFollow'
  BY <1>1 DEF PortsApart, PortsFollow, TargetsFollow
<1> QED  BY <1>5, <1>6, <1>8, <1>9

LEMMA KeepNamesIInv == IInv /\ KeepNames => IInv'
<1> SUFFICES ASSUME IInv, KeepNames PROVE IInv'
  OBVIOUS
<1> USE DEF IInv
<1>1. /\ phase \in {"loaded", "online"} /\ phase' = "named" /\ ~isPreview
      /\ UNCHANGED <<declared, m, isPreview>>
  BY DEF KeepNames
<1>2. TopologyTypeOK'
  BY <1>1 DEF TopologyTypeOK, NamedPhase
<1>3. RoutesStay'
  BY <1>1 DEF RoutesStay
<1>4. Rewritten'
  BY <1>1 DEF Rewritten, HostsNamed
<1>5. PortsApart' /\ PortsFollow' /\ TargetsFollow'
  BY <1>1 DEF PortsApart, PortsFollow, TargetsFollow
<1> QED  BY <1>2, <1>3, <1>4, <1>5

-----------------------------------------------------------------------------
(* The assignment of ports.                                                *)

(* A new port is a number, nobody's pinned port and nobody else's new one.  *)
LEMMA PortsAssigned ==
  ASSUME NEW f \in Assignments, NEW i \in AutoPorts
  PROVE  f[i] \in Int /\ f[i] \notin Used /\ \A j \in AutoPorts : f[i] = f[j] => i = j
<1>1. f[i] \in Free \ Used /\ \A j \in AutoPorts : f[i] = f[j] => i = j
  BY DEF Assignments
<1>2. MaxPort \in Nat /\ Free \subseteq 1..MaxPort
  BY TopologyAssumption
<1>3. f[i] \in 1..MaxPort
  BY <1>1, <1>2, Zenon
<1>4. f[i] \in Int
  BY <1>2, <1>3
<1> QED  BY <1>1, <1>4

(* The target AssignPorts writes is a target.                              *)
LEMMA RetargetedType ==
  ASSUME TopologyTypeOK, NEW f \in Assignments, NEW r \in Route
  PROVE  Retargeted(r, f) \in Target
<1>1. CASE isPreview /\ Declaring(r) # {}
  <2> DEFINE i == CHOOSE k \in Declaring(r) : TRUE
  <2>1. i \in Declaring(r)
    BY <1>1
  <2> HIDE DEF i
  <2>2. i \in AutoPorts
    BY <1>1, <2>1 DEF Declaring, AutoPorts
  <2>3. f[i] \in Int
    BY <2>2, PortsAssigned
  <2>4. Retargeted(r, f) = Port(f[i])
    BY <1>1 DEF Retargeted, i
  <2> QED  BY <2>3, <2>4 DEF Target, Port
<1>2. CASE ~(isPreview /\ Declaring(r) # {})
  BY <1>2 DEF Retargeted, Route
<1> QED  BY <1>1, <1>2

(* What AssignPorts makes of every route.                                  *)
LEMMA WithPortsRoutes ==
  ASSUME TopologyTypeOK, RoutesStay, NEW f \in Assignments, m' = WithPorts(f)
  PROVE  /\ m' \in [tld : Tld, local : BOOLEAN, key : BOOLEAN,
                    hosts : [DOMAIN declared.hosts -> HostName],
                    routes : [DOMAIN declared.routes -> Route]]
         /\ m'.hosts = m.hosts /\ m'.local = m.local
         /\ \A i \in Index :
               /\ SameRoute(m'.routes[i], m.routes[i])
               /\ m'.routes[i].port = IF i \in AutoPorts THEN f[i] ELSE m.routes[i].port
               /\ i \notin Runs => m'.routes[i].target = Retargeted(m.routes[i], f)
<1> DEFINE new == [i \in Index |->
        IF i \in AutoPorts THEN [m.routes[i] EXCEPT !.port = f[i]]
        ELSE IF m.routes[i].run THEN m.routes[i]
        ELSE [m.routes[i] EXCEPT !.target = Retargeted(m.routes[i], f)]]
<1>1. Index = DOMAIN declared.routes
  BY RunsStay
<1>2. ASSUME NEW i \in Index
      PROVE  /\ new[i] \in Route
             /\ SameRoute(new[i], m.routes[i])
             /\ new[i].port = IF i \in AutoPorts THEN f[i] ELSE m.routes[i].port
             /\ i \notin Runs => new[i].target = Retargeted(m.routes[i], f)
  <2>1. m.routes[i] \in Route
    BY <1>1 DEF TopologyTypeOK
  <2> DEFINE r == m.routes[i]
             t == Retargeted(r, f)
  <2>2. t \in Target
    BY <2>1, RetargetedType
  <2>3. i \in Runs <=> r.run
    BY DEF Runs
  <2> HIDE DEF r, t
  <2>4. CASE i \in AutoPorts
    <3>1. f[i] \in Int
      BY <2>4, PortsAssigned
    <3>2. new[i] = [r EXCEPT !.port = f[i]]
      BY <2>4 DEF r
    <3>3. i \in Runs
      BY <2>4 DEF AutoPorts
    <3> HIDE DEF new
    <3> QED  BY <2>1, <2>4, <3>1, <3>2, <3>3 DEF Route, SameRoute, r
  <2>5. CASE i \notin AutoPorts /\ i \in Runs
    <3>1. new[i] = r
      BY <2>3, <2>5 DEF r
    <3> HIDE DEF new
    <3> QED  BY <2>1, <2>5, <3>1 DEF SameRoute, r
  <2>6. CASE i \notin Runs
    <3>1. new[i] = [r EXCEPT !.target = t]
      BY <2>3, <2>6 DEF r, t, AutoPorts
    <3>2. i \notin AutoPorts
      BY <2>6 DEF AutoPorts
    <3> HIDE DEF new
    <3>3. /\ r \in Route /\ r = m.routes[i] /\ t = Retargeted(m.routes[i], f)
      BY <2>1 DEF r, t
    <3> QED  BY <2>2, <2>6, <3>1, <3>2, <3>3 DEF Route, SameRoute
  <2> QED  BY <2>4, <2>5, <2>6
<1>3. m' = [m EXCEPT !.routes = new]
  BY DEF WithPorts
<1>4. new \in [DOMAIN declared.routes -> Route]
  BY <1>1, <1>2
<1> HIDE DEF new
<1>5. m'.routes = new /\ m'.hosts = m.hosts /\ m'.local = m.local
  BY <1>3 DEF TopologyTypeOK
<1>6. m' \in [tld : Tld, local : BOOLEAN, key : BOOLEAN,
              hosts : [DOMAIN declared.hosts -> HostName],
              routes : [DOMAIN declared.routes -> Route]]
  BY <1>3, <1>4 DEF TopologyTypeOK
<1> QED  BY <1>2, <1>5, <1>6

(* Where no port is ambiguous, a preview moves a proxy route with the only *)
(* service that declared its port.                                         *)
LEMMA Follows ==
  ASSUME TopologyTypeOK, NEW f \in Assignments, ~Ambiguous,
         NEW i \in Index \ Runs, NEW j \in Declaring(m.routes[i]), isPreview
  PROVE  Retargeted(m.routes[i], f) = Port(f[j])
<1> DEFINE D == Declaring(m.routes[i])
<1>1. IsFiniteSet(D)
  <2>1. IsFiniteSet(DOMAIN declared.routes)
    BY ManifestFacts DEF TopologyTypeOK
  <2>2. D \in SUBSET DOMAIN declared.routes
    BY DEF Declaring, Runs, Index, TopologyTypeOK
  <2> QED  BY <2>1, <2>2, FS_Subset
<1>2. Cardinality(D) <= 1 /\ Cardinality(D) \in Nat
  BY <1>1, FS_CardinalityType DEF Ambiguous
<1>3. Cardinality(D) = 1
  BY <1>1, <1>2, FS_EmptySet
<1>4. PICK x : D = {x}
  BY <1>1, <1>3, FS_Singleton
<1>5. (CHOOSE k \in D : TRUE) = j
  BY <1>4
<1> QED  BY <1>5 DEF Retargeted

LEMMA AssignPortsIInv == IInv /\ (AssignPorts \/ AssignFails) => IInv'
<1> SUFFICES ASSUME IInv, AssignPorts \/ AssignFails PROVE IInv'
  OBVIOUS
<1> USE DEF IInv
<1>1. CASE AssignFails
  <2>1. phase' = "refused" /\ UNCHANGED <<declared, m, isPreview>>
    BY <1>1 DEF AssignFails
  <2>2. TopologyTypeOK' /\ RoutesStay' /\ Rewritten'
    BY <2>1 DEF TopologyTypeOK, RoutesStay, Rewritten, NamedPhase
  <2>3. PortsApart' /\ PortsFollow' /\ TargetsFollow'
    BY <2>1 DEF PortsApart, PortsFollow, TargetsFollow
  <2> QED  BY <2>2, <2>3
<1>2. CASE AssignPorts
  <2>1. PICK f \in Assignments : m' = WithPorts(f)
    BY <1>2 DEF AssignPorts
  <2>2. /\ phase = "named" /\ phase' = "assigned" /\ ~Ambiguous
        /\ declared' = declared /\ isPreview' = isPreview
        /\ m.routes = declared.routes
    BY <1>2 DEF AssignPorts, Rewritten
  <2>3. /\ m' \in [tld : Tld, local : BOOLEAN, key : BOOLEAN,
                   hosts : [DOMAIN declared.hosts -> HostName],
                   routes : [DOMAIN declared.routes -> Route]]
        /\ m'.hosts = m.hosts /\ m'.local = m.local
        /\ \A i \in Index :
              /\ SameRoute(m'.routes[i], m.routes[i])
              /\ m'.routes[i].port = IF i \in AutoPorts THEN f[i] ELSE m.routes[i].port
              /\ i \notin Runs => m'.routes[i].target = Retargeted(m.routes[i], f)
    BY <2>1, WithPortsRoutes
  <2>4. Index = DOMAIN declared.routes
    BY RunsStay
  <2>5. TopologyTypeOK'
    BY <2>2, <2>3 DEF TopologyTypeOK, NamedPhase
  <2>6. RoutesStay'
    BY <2>2, <2>3, <2>4 DEF RoutesStay
  <2>7. Rewritten'
    BY <2>2, <2>3 DEF Rewritten, HostsNamed, NamedPhase
  <2>8. Index' = Index /\ Runs' = Runs
    <3>1. /\ Index = DOMAIN declared.routes
          /\ Runs = {i \in DOMAIN declared.routes : declared.routes[i].run}
      BY RunsStay
    <3>2. /\ Index' = DOMAIN declared'.routes
          /\ Runs' = {i \in DOMAIN declared'.routes : declared'.routes[i].run}
      BY <2>5, <2>6 DEF TopologyTypeOK, RoutesStay, SameRoute, Index, Runs
    <3> QED  BY <2>2, <3>1, <3>2
  <2>9. PortsApart'
    <3> SUFFICES ASSUME NEW i \in Runs, NEW j \in Runs, i # j,
                        m'.routes[i].port = m'.routes[j].port
                 PROVE  /\ ~isPreview
                        /\ declared.routes[i].port # 0
                        /\ declared.routes[i].port = declared.routes[j].port
      BY <2>2, <2>8 DEF PortsApart
    <3>1. i \in Index /\ j \in Index
      BY DEF Runs
    <3>2. ASSUME NEW k \in Runs, NEW l \in Runs, k \in AutoPorts, l \notin AutoPorts
          PROVE  m'.routes[k].port # m'.routes[l].port
      <4>1. m.routes[l].port \in Used
        BY <3>2 DEF Used, AutoPorts
      <4>2. m'.routes[k].port = f[k] /\ m'.routes[l].port = m.routes[l].port
        BY <2>3, <3>2 DEF Runs
      <4> QED  BY <3>2, <4>1, <4>2, PortsAssigned
    <3>3. ~(i \in AutoPorts /\ j \in AutoPorts)
      BY <2>3, <3>1, PortsAssigned
    <3>4. i \notin AutoPorts /\ j \notin AutoPorts
      BY <3>2, <3>3
    <3> QED  BY <2>2, <2>3, <3>1, <3>4 DEF AutoPorts
  <2>10. PortsFollow'
    <3> SUFFICES ASSUME NEW i \in Index \ Runs
                 PROVE  PortFollows(declared.routes[i].target, m.routes[i].target)'
      BY <2>2, <2>8 DEF PortsFollow
    <3> DEFINE was == declared.routes[i].target
               is == m'.routes[i].target
               those == {j \in Runs : declared.routes[j].port = was.port}
    <3>0. (IF was.kind = "port" /\ was.port > 0 /\ isPreview /\ those # {}
           THEN \A j \in those : is = Port(m'.routes[j].port)
           ELSE is = was)
          => PortFollows(declared.routes[i].target, m.routes[i].target)'
      BY <2>2, <2>8 DEF PortFollows, Port
    <3>1. is = Retargeted(m.routes[i], f)
      BY <2>3
    <3>2. ~m.routes[i].run /\ m.routes[i].target = was
      BY <2>2 DEF Runs
    <3>3. Declaring(m.routes[i]) =
             IF was.kind = "port" /\ was.port > 0 THEN those ELSE {}
      BY <2>2, <3>2 DEF Declaring
    <3>4. CASE ~(isPreview /\ Declaring(m.routes[i]) # {})
      <4>1. is = was
        BY <3>1, <3>2, <3>4 DEF Retargeted
      <4>2. ~(was.kind = "port" /\ was.port > 0 /\ isPreview /\ those # {})
        BY <3>3, <3>4
      <4> HIDE DEF was, is, those
      <4> QED  BY <3>0, <4>1, <4>2
    <3>5. CASE isPreview /\ Declaring(m.routes[i]) # {}
      <4>1. was.kind = "port" /\ was.port > 0 /\ those = Declaring(m.routes[i])
        BY <3>3, <3>5
      <4>2. ASSUME NEW j \in those PROVE is = Port(m'.routes[j].port)
        <5>1. is = Port(f[j])
          BY <2>2, <3>1, <3>5, <4>1, Follows
        <5>2. j \in Index /\ j \in AutoPorts
          BY <3>5 DEF AutoPorts, Runs
        <5> QED  BY <2>3, <5>1, <5>2
      <4>3. was.kind = "port" /\ was.port > 0 /\ isPreview /\ those # {}
        BY <3>5, <4>1
      <4> HIDE DEF was, is, those
      <4> QED  BY <3>0, <4>2, <4>3
    <3> QED  BY <3>4, <3>5
  <2>11. TargetsFollow'
    BY <2>2 DEF TargetsFollow
  <2> QED  BY <2>5, <2>6, <2>7, <2>9, <2>10, <2>11
<1> QED  BY <1>1, <1>2

-----------------------------------------------------------------------------
(* References.                                                             *)

(* Named hosts that are equal were declared so, or flattening made them.   *)
LEMMA HostsApart ==
  ASSUME TopologyTypeOK, HostsNamed,
         NEW e \in DOMAIN declared.hosts, NEW f \in DOMAIN declared.hosts,
         m.hosts[e] = m.hosts[f]
  PROVE  \/ declared.hosts[e] = declared.hosts[f]
         \/ /\ isPreview /\ ~m.local
            /\ FlattenSeq(declared.hosts[e]) = FlattenSeq(declared.hosts[f])
<1>1. declared.hosts[e] \in HostName /\ declared.hosts[f] \in HostName
  BY ManifestFacts DEF TopologyTypeOK
<1>2. CASE ~isPreview
  BY <1>2 DEF HostsNamed
<1>3. CASE isPreview
  <2>1. PICK slug \in Slugs :
           m.hosts = [d \in DOMAIN declared.hosts |->
                         PreviewHost(declared.hosts[d], slug, m.local)]
    BY <1>3 DEF HostsNamed
  <2>2. slug \in Seq(STRING)
    BY TopologyAssumption
  <2>3. PreviewHost(declared.hosts[e], slug, m.local)
           = PreviewHost(declared.hosts[f], slug, m.local)
    BY <2>1
  <2> QED  BY <1>1, <1>3, <2>2, <2>3, PreviewHostsApart
<1> QED  BY <1>2, <1>3

(* A reference that means one route means the route its author did, or is  *)
(* to a host that is mistaken for another.                                 *)
LEMMA MeansMeant ==
  ASSUME TopologyTypeOK, RoutesStay, HostsNamed, NEW n, NEW x, Means(n) = {x}
  PROVE  x \in Runs /\ (MeantBy(n, x) \/ Mistaken(n, x))
<1>1. /\ Index = DOMAIN declared.routes
      /\ Runs = {i \in DOMAIN declared.routes : declared.routes[i].run}
  BY RunsStay
<1>2. \A i \in Runs : SameRoute(m.routes[i], declared.routes[i])
  BY <1>1 DEF RoutesStay
<1>3. x \in Runs
  BY DEF Means, Named, Roots
<1>4. CASE Named(n) # {}
  <2>1. x \in Named(n)
    BY <1>4 DEF Means
  <2> QED  BY <1>1, <1>2, <1>3, <2>1 DEF Named, MeantBy, SameRoute
<1>5. CASE Named(n) = {}
  <2>1. Roots(n) = {x}
    BY <1>5 DEF Means
  <2> DEFINE env(i) == declared.routes[i].env
  <2>2. PICK e \in DOMAIN declared.hosts :
           /\ declared.routes[x].path = RootPath /\ declared.hosts[e] = n
           /\ m.hosts[env(x)] = m.hosts[e]
    BY <1>2, <2>1 DEF Roots, SameRoute
  <2>3. \A i \in Runs : env(i) \in DOMAIN declared.hosts
    BY <1>1, ManifestFacts DEF TopologyTypeOK
  <2>4. CASE declared.hosts[env(x)] = n
    BY <1>1, <1>3, <2>2, <2>4 DEF MeantBy
  <2>5. CASE declared.hosts[env(x)] # n
    <3>1. /\ isPreview /\ ~m.local
          /\ FlattenSeq(declared.hosts[env(x)]) = FlattenSeq(n)
      BY <1>3, <2>2, <2>3, <2>5, HostsApart
    <3>2. ASSUME NEW i \in Runs, MeantBy(n, i) PROVE FALSE
      <4>1. declared.routes[i].name # n
        BY <1>2, <1>5 DEF Named, SameRoute
      <4>2. declared.hosts[env(i)] = n /\ declared.routes[i].path = RootPath
        BY <3>2, <4>1 DEF MeantBy
      <4>3. m.routes[i].path = RootPath /\ m.routes[i].env = env(i)
        BY <1>2, <4>2 DEF SameRoute
      <4>4. m.hosts[m.routes[i].env] = m.hosts[env(i)] /\ env(i) \in DOMAIN declared.hosts
        BY <2>3, <4>3
      <4>5. i \in Roots(n)
        BY <4>2, <4>3, <4>4 DEF Roots
      <4> QED  BY <2>1, <2>5, <4>2, <4>5
    <3> QED  BY <1>3, <2>2, <3>1, <3>2 DEF Mistaken
  <2> QED  BY <2>4, <2>5
<1> QED  BY <1>3, <1>4, <1>5

(* What ResolveRouteTargets makes of one route.                            *)
LEMMA ResolvedRoute ==
  ASSUME TopologyTypeOK, RoutesStay, HostsNamed,
         \A n \in Refs : Cardinality(Means(n)) = 1, NEW i \in Index
  PROVE  LET r == m.routes[i]
             s == Resolved(r)
         IN  /\ s \in Route /\ SameRoute(s, r) /\ s.port = r.port
             /\ \/ /\ r.run \/ r.target.kind # "ref"
                   /\ s.target = r.target
                \/ /\ ~r.run /\ r.target.kind = "ref"
                   /\ \E j \in Runs :
                         /\ s.target = Port(m.routes[j].port)
                         /\ MeantBy(r.target.name, j) \/ Mistaken(r.target.name, j)
<1> DEFINE r == m.routes[i]
           n == r.target.name
<1>1. r \in Route
  BY RunsStay DEF TopologyTypeOK
<1>2. CASE r.run \/ r.target.kind # "ref"
  <2>1. Resolved(r) = r
    BY <1>2 DEF Resolved
  <2> HIDE DEF r
  <2>2. SameRoute(r, r)
    BY DEF SameRoute
  <2> QED  BY <1>1, <1>2, <2>1, <2>2 DEF r
<1>3. CASE ~r.run /\ r.target.kind = "ref"
  <2>1. n \in Refs
    BY <1>3 DEF Refs
  <2>2. IsFiniteSet(Means(n))
    <3>1. IsFiniteSet(DOMAIN declared.routes)
      BY ManifestFacts DEF TopologyTypeOK
    <3>2. Means(n) \in SUBSET DOMAIN declared.routes
      BY RunsStay DEF Means, Named, Roots
    <3> QED  BY <3>1, <3>2, FS_Subset
  <2>3. PICK x : Means(n) = {x}
    BY <2>1, <2>2, FS_Singleton
  <2>4. x \in Runs /\ (MeantBy(n, x) \/ Mistaken(n, x))
    BY <2>3, MeansMeant
  <2>5. (CHOOSE k \in Means(n) : TRUE) = x
    BY <2>3
  <2> DEFINE p == m.routes[x].port
  <2>6. p \in Int
    BY <2>4, RunsStay DEF TopologyTypeOK, Route
  <2>7. Resolved(r) = [r EXCEPT !.target = Port(p)]
    BY <1>3, <2>5 DEF Resolved
  <2>8. Port(p) \in Target
    BY <2>6 DEF Port, Target
  <2>9. /\ Resolved(r) \in Route /\ SameRoute(Resolved(r), r)
        /\ Resolved(r).port = r.port /\ Resolved(r).target = Port(p)
    <3> HIDE DEF r, p
    <3> QED  BY <1>1, <2>7, <2>8 DEF Route, SameRoute
  <2> QED  BY <1>3, <2>4, <2>9
<1> QED  BY <1>2, <1>3

LEMMA ResolveIInv == IInv /\ (ResolveTemplates \/ ResolveFails) => IInv'
<1> SUFFICES ASSUME IInv, ResolveTemplates \/ ResolveFails PROVE IInv'
  OBVIOUS
<1> USE DEF IInv
<1>1. CASE ResolveFails
  <2>1. phase' = "refused" /\ UNCHANGED <<declared, m, isPreview>>
    BY <1>1 DEF ResolveFails
  <2>2. TopologyTypeOK' /\ RoutesStay' /\ Rewritten'
    BY <2>1 DEF TopologyTypeOK, RoutesStay, Rewritten, NamedPhase
  <2>3. PortsApart' /\ PortsFollow' /\ TargetsFollow'
    BY <2>1 DEF PortsApart, PortsFollow, TargetsFollow
  <2> QED  BY <2>2, <2>3
<1>2. CASE ResolveTemplates
  <2>1. /\ phase = "assigned" /\ phase' = "ready"
        /\ declared' = declared /\ isPreview' = isPreview
        /\ Valid(declared) /\ HostsNamed
    BY <1>2 DEF ResolveTemplates, Rewritten, NamedPhase
  <2> DEFINE new == [i \in Index |-> Resolved(m.routes[i])]
  <2>2. /\ Index = DOMAIN declared.routes
        /\ Runs = {i \in DOMAIN declared.routes : declared.routes[i].run}
    BY RunsStay
  <2>3. \A n \in Refs : Cardinality(Means(n)) = 1
    BY <1>2 DEF ResolveTemplates
  <2>4. ASSUME NEW i \in Index
        PROVE  /\ new[i] \in Route /\ SameRoute(new[i], m.routes[i])
               /\ new[i].port = m.routes[i].port
    BY <2>1, <2>3, ResolvedRoute
  <2>5. new \in [DOMAIN declared.routes -> Route]
    BY <2>2, <2>4
  <2>6. m' = [m EXCEPT !.routes = new]
    BY <1>2 DEF ResolveTemplates
  <2>7. \A i \in Index : new[i] = Resolved(m.routes[i])
    OBVIOUS
  <2> HIDE DEF new
  <2>8. /\ m' \in [tld : Tld, local : BOOLEAN, key : BOOLEAN,
                   hosts : [DOMAIN declared.hosts -> HostName],
                   routes : [DOMAIN declared.routes -> Route]]
        /\ m'.routes = new /\ m'.hosts = m.hosts /\ m'.local = m.local
    BY <2>5, <2>6 DEF TopologyTypeOK
  <2>9. TopologyTypeOK'
    BY <2>1, <2>8 DEF TopologyTypeOK, NamedPhase
  <2>10. RoutesStay'
    BY <2>1, <2>2, <2>4, <2>8 DEF RoutesStay, SameRoute
  <2>11. Rewritten'
    BY <2>1, <2>8 DEF Rewritten, HostsNamed, NamedPhase
  <2>12. Index' = Index /\ Runs' = Runs
    <3>1. /\ Index' = DOMAIN declared'.routes
          /\ Runs' = {i \in DOMAIN declared'.routes : declared'.routes[i].run}
      BY <2>9, <2>10 DEF TopologyTypeOK, RoutesStay, SameRoute, Index, Runs
    <3> QED  BY <2>1, <2>2, <3>1
  <2>13. PortsApart'
    <3>1. \A i \in Runs : m'.routes[i].port = m.routes[i].port
      BY <2>4, <2>8 DEF Runs
    <3> QED  BY <2>1, <2>12, <3>1 DEF PortsApart
  <2>14. PortsFollow'
    BY <2>1 DEF PortsFollow
  <2>15. TargetsFollow'
    <3>1. \A n, j : MeantBy(n, j)' <=> MeantBy(n, j)
      BY <2>1 DEF MeantBy
    <3>2. \A n, j : Mistaken(n, j)' <=> Mistaken(n, j)
      BY <2>1, <2>8, <2>12, <3>1 DEF Mistaken
    <3> SUFFICES ASSUME NEW i \in Index \ Runs
                 PROVE  LET was == declared.routes[i].target
                            is  == m'.routes[i].target
                            those == {j \in Runs : declared.routes[j].port = was.port}
                        IN IF was.kind = "ref"
                           THEN \E j \in Runs :
                                   /\ is = Port(m'.routes[j].port)
                                   /\ MeantBy(was.name, j) \/ Mistaken(was.name, j)
                           ELSE IF was.kind = "port" /\ was.port > 0 /\ isPreview /\ those # {}
                           THEN \A j \in those : is = Port(m'.routes[j].port)
                           ELSE is = was
      BY <2>1, <2>12, <3>1, <3>2 DEF TargetsFollow, RefFollows, PortFollows, Port
    <3> DEFINE was == declared.routes[i].target
               is  == m'.routes[i].target
               at  == m.routes[i].target
               those == {j \in Runs : declared.routes[j].port = was.port}
               moved == was.kind = "port" /\ was.port > 0 /\ isPreview /\ those # {}
    <3>3. ~m.routes[i].run
      BY DEF Runs
    <3>4. \A j \in Runs : m'.routes[j].port = m.routes[j].port
      BY <2>4, <2>8 DEF Runs
    <3>5. IF moved THEN \A j \in those : at = Port(m.routes[j].port) ELSE at = was
      BY <2>1 DEF PortsFollow, PortFollows
    <3>6. CASE was.kind = "ref"
      <4>1. at = was /\ at.kind = "ref"
        BY <3>5, <3>6
      <4>2. PICK j \in Runs : /\ is = Port(m.routes[j].port)
                              /\ MeantBy(at.name, j) \/ Mistaken(at.name, j)
        BY <2>1, <2>3, <2>7, <2>8, <3>3, <4>1, ResolvedRoute
      <4>3. is = Port(m'.routes[j].port)
        BY <3>4, <4>2
      <4> QED  BY <3>6, <4>1, <4>2, <4>3
    <3>7. CASE was.kind # "ref"
      <4>1. at.kind # "ref"
        <5>1. CASE moved
          <6>1. PICK j \in those : at = Port(m.routes[j].port)
            BY <3>5, <5>1
          <6> QED  BY <6>1 DEF Port
        <5> QED  BY <3>5, <3>7, <5>1
      <4>2. is = at
        BY <2>1, <2>3, <2>7, <2>8, <3>3, <4>1, ResolvedRoute
      <4>3. IF moved THEN \A j \in those : is = Port(m'.routes[j].port) ELSE is = was
        BY <3>4, <3>5, <4>2
      <4> QED  BY <3>7, <4>3
    <3> QED  BY <3>6, <3>7
  <2> QED  BY <2>9, <2>10, <2>11, <2>13, <2>14, <2>15
<1> QED  BY <1>1, <1>2

LEMMA OpenIInv == IInv /\ (OpenTunnels \/ OpenFails \/ UNCHANGED vars) => IInv'
<1> SUFFICES ASSUME IInv, OpenTunnels \/ OpenFails \/ UNCHANGED vars PROVE IInv'
  OBVIOUS
<1> USE DEF IInv
<1>1. /\ UNCHANGED <<declared, m, isPreview>>
      /\ \/ phase = "ready" /\ phase' \in {"open", "torn"}
         \/ phase' = phase
  BY DEF OpenTunnels, OpenFails, vars
<1>2. TopologyTypeOK' /\ RoutesStay'
  BY <1>1 DEF TopologyTypeOK, RoutesStay, NamedPhase
<1>3. Rewritten'
  BY <1>1 DEF Rewritten, HostsNamed, NamedPhase
<1>4. Index' = Index /\ Runs' = Runs
  BY <1>1 DEF Index, Runs
<1>5. PortsApart'
  BY <1>1, <1>4 DEF PortsApart
<1>6. PortsFollow'
  BY <1>1, <1>4 DEF PortsFollow, PortFollows
<1>7. TargetsFollow'
  <2>1. \A n, j : (MeantBy(n, j)' <=> MeantBy(n, j)) /\ (Mistaken(n, j)' <=> Mistaken(n, j))
    BY <1>1, <1>4 DEF MeantBy, Mistaken
  <2>2. \A n, t : RefFollows(n, t)' <=> RefFollows(n, t)
    BY <1>1, <1>4, <2>1 DEF RefFollows, Port
  <2>3. \A w, t : PortFollows(w, t)' <=> PortFollows(w, t)
    BY <1>1, <1>4 DEF PortFollows, Port
  <2> QED  BY <1>1, <1>4, <2>2, <2>3 DEF TargetsFollow
<1> QED  BY <1>2, <1>3, <1>5, <1>6, <1>7

-----------------------------------------------------------------------------
(* The theorems.                                                           *)

(* Every step of cmdUp keeps the invariant.                                *)
LEMMA NextIInv == IInv /\ [Next]_vars => IInv'
<1> SUFFICES ASSUME IInv, [Next]_vars PROVE IInv'
  OBVIOUS
<1>1. CASE Load \/ LoadFails
  BY <1>1, LoadIInv
<1>2. CASE GoOnline
  BY <1>2, GoOnlineIInv
<1>3. CASE KeepNames
  BY <1>3, KeepNamesIInv
<1>4. ASSUME NEW slug \in Slugs, Rename(slug) PROVE IInv'
  BY <1>4, RenameIInv
<1>5. CASE AssignPorts \/ AssignFails
  BY <1>5, AssignPortsIInv
<1>6. CASE ResolveTemplates \/ ResolveFails
  BY <1>6, ResolveIInv
<1>7. CASE OpenTunnels \/ OpenFails \/ UNCHANGED vars
  BY <1>7, OpenIInv
<1> QED  BY <1>1, <1>2, <1>3, <1>4, <1>5, <1>6, <1>7 DEF Next

(* The invariant holds throughout.                                         *)
LEMMA Invariance == Spec => []IInv
<1>1. Init => IInv
  BY InitIInv
<1>2. IInv /\ [Next]_vars => IInv'
  BY NextIInv
<1> QED  BY <1>1, <1>2, PTL DEF Spec

(* What Validate tells apart stays apart, but for what HostsApart and      *)
(* PrefixesApart leave.                                                    *)
LEMMA ValidTunnelsApart == IInv => TunnelsApart
<1> SUFFICES ASSUME IInv, phase \in OpenPhase, NEW i \in Index, NEW j \in Index,
                    i # j, TunnelKey(i) = TunnelKey(j)
             PROVE  LET e == declared.routes[i].env
                        f == declared.routes[j].env
                    IN  IF e = f
                        THEN Last(m.routes[i].path) # Last(m.routes[j].path)
                        ELSE /\ isPreview /\ ~m.local
                             /\ FlattenSeq(declared.hosts[e]) = FlattenSeq(declared.hosts[f])
  BY DEF TunnelsApart, OpenPhase
<1> USE DEF IInv
<1> DEFINE e == declared.routes[i].env
           f == declared.routes[j].env
<1>1. Valid(declared) /\ HostsNamed
  BY DEF Rewritten, OpenPhase, NamedPhase
<1>2. i \in DOMAIN declared.routes /\ j \in DOMAIN declared.routes
  BY RunsStay
<1>3. /\ m.routes[i].env = e /\ m.routes[i].path = declared.routes[i].path
      /\ m.routes[j].env = f /\ m.routes[j].path = declared.routes[j].path
  BY <1>2 DEF RoutesStay, SameRoute
<1>4. /\ m.hosts[e] = m.hosts[f]
      /\ PathPrefix(m.routes[i].path) = PathPrefix(m.routes[j].path)
  BY <1>3 DEF TunnelKey
<1>5. CASE e = f
  <2>1. m.routes[i].path # m.routes[j].path
    BY <1>1, <1>2, <1>3, <1>5 DEF Valid
  <2>2. m.routes[i].path \in Path /\ m.routes[j].path \in Path
    BY <1>2 DEF TopologyTypeOK, Route
  <2> QED  BY <1>4, <1>5, <2>1, <2>2, PrefixesApart
<1>6. CASE e # f
  <2>1. e \in DOMAIN declared.hosts /\ f \in DOMAIN declared.hosts
    BY <1>2, ManifestFacts DEF TopologyTypeOK
  <2>2. declared.hosts[e] # declared.hosts[f]
    BY <1>1, <1>6, <2>1 DEF Valid, HostsOK
  <2> QED  BY <1>1, <1>4, <1>6, <2>1, <2>2, HostsApart
<1> QED  BY <1>5, <1>6

(* distinctPort (preview.go:243): no port that AssignPorts chose is the    *)
(* port of another service, whatever is pinned and whatever FreePort says. *)
THEOREM TopologyPortsApart == Spec => []PortsApart
<1>1. IInv => PortsApart
  BY DEF IInv
<1> QED  BY <1>1, Invariance, PTL

(* AssignPorts (preview.go:218) and ResolveRouteTargets (manifest.go:151): *)
(* for every manifest, slug and assignment of ports a proxy route ends at  *)
(* the service its author meant, but for a host without a spawned root     *)
(* route that flattening makes one with another.                           *)
THEOREM TopologyTargetsFollow == Spec => []TargetsFollow
<1>1. IInv => TargetsFollow
  BY DEF IInv
<1> QED  BY <1>1, Invariance, PTL

(* Validate (manifest.go:331) and previewHost (preview.go:165): two routes *)
(* of a manifest claim one tunnel only if flattening makes one host of two *)
(* or their paths differ in a last slash.                                  *)
THEOREM TopologyTunnelsApart == Spec => []TunnelsApart
<1>1. IInv => TunnelsApart
  BY ValidTunnelsApart
<1> QED  BY <1>1, Invariance, PTL
=============================================================================
