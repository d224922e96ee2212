----------------------------- MODULE RelayProofs -----------------------------
(***************************************************************************)
(* The relay's routing table and its handlers, for every set of hosts,     *)
(* prefixes, entries, tunnels, requests and secrets and every number of    *)
(* crashes.                                                                *)
(*                                                                         *)
(* First what the operations of RouteTable do to the relation Holds, for   *)
(* every table that satisfies TableTypeOK and TableOK: what follows        *)
(* reasons about Holds through these lemmas and never opens a list again.  *)
(* Then Registry: the table holds exactly the registered entries,          *)
(* implements RouteDirectory and resolves to the longest prefix.           *)
(*                                                                         *)
(* Then the safety properties of Relay.  Those about routes are not        *)
(* inductive by themselves: that a greeted tunnel is routed needs to know  *)
(* which phases a greeted handler can be in (HandlerInv), and that a       *)
(* stream passed its gate needs to know what each phase of a request has   *)
(* established (VisitInv).                                                 *)
(*                                                                         *)
(* Last what happens in the end: requests settle, routes come free.        *)
(***************************************************************************)
EXTENDS Relay, Registry, FiniteSetTheorems, WellFoundedInduction, TLAPS

(* The elements of a list form a finite set.                               *)
LEMMA RangeFinite ==
    ASSUME NEW S, NEW s \in Seq(S)
    PROVE  IsFiniteSet(Range(s))
<1>1. s \in Surjection(DOMAIN s, Range(s))
    <2>1. s \in [DOMAIN s -> Range(s)]
        <3>1. s = [i \in DOMAIN s |-> s[i]]
            OBVIOUS
        <3> QED BY <3>1 DEF Range
    <2>2. \A t \in Range(s) : \E i \in DOMAIN s : s[i] = t
        BY DEF Range
    <2> QED BY <2>1, <2>2 DEF Surjection
<1>2. DOMAIN s = 1..Len(s) /\ Len(s) \in Nat
    OBVIOUS
<1>3. IsFiniteSet(DOMAIN s)
    BY <1>2, FS_Interval
<1> QED BY <1>1, <1>3, FS_Surjection

(* A list of a finite set is a sequence over it, without repetitions.      *)
LEMMA ListOfSet ==
    ASSUME NEW S, IsFiniteSet(S), NEW s \in Bijection(1..Cardinality(S), S)
    PROVE  /\ s \in Seq(S)
           /\ Range(s) = S
           /\ \A i, j \in DOMAIN s : s[i] = s[j] => i = j
<1>1. Cardinality(S) \in Nat
    BY FS_CardinalityType
<1>2. s \in [1..Cardinality(S) -> S] /\ IsInjective(s)
    BY DEF Bijection, Injection
<1>3. \A t \in S : \E i \in 1..Cardinality(S) : s[i] = t
    BY DEF Bijection, Surjection
<1>4. DOMAIN s = 1..Cardinality(S)
    BY <1>2
<1>5. s \in Seq(S)
    BY <1>1, <1>2
<1>6. Range(s) = S
    BY <1>2, <1>3, <1>4 DEF Range
<1> QED BY <1>2, <1>5, <1>6 DEF IsInjective

(* A sorted list with a new prefix keeps every prefix once.                *)
LEMMA SortedListProperties ==
    ASSUME NEW S \in SUBSET PrefixEntry, IsFiniteSet(S),
           \A x, y \in S : x.prefix = y.prefix => x = y,
           NEW s \in SortedLists(S)
    PROVE  /\ s \in Seq(PrefixEntry)
           /\ Range(s) = S
           /\ SortedDescending(s)
           /\ PrefixOnce(s)
<1>1. s \in Bijection(1..Cardinality(S), S) /\ SortedDescending(s)
    BY DEF SortedLists, SortedDescending
<1>2. /\ s \in Seq(S)
      /\ Range(s) = S
      /\ \A i, j \in DOMAIN s : s[i] = s[j] => i = j
    BY <1>1, ListOfSet
<1>3. \A i \in DOMAIN s : s[i] \in S
    BY <1>2 DEF Range
<1>4. PrefixOnce(s)
    BY <1>2, <1>3 DEF PrefixOnce
<1>5. s \in Seq(PrefixEntry)
    BY <1>2
<1> QED BY <1>1, <1>2, <1>4, <1>5

(* What is left of a good list after removing an entry is a good list.     *)
LEMMA KeptListProperties ==
    ASSUME NEW s \in Seq(PrefixEntry), SortedDescending(s), PrefixOnce(s),
           NEW e, NEW t \in KeptLists(s, e)
    PROVE  /\ t \in Seq(PrefixEntry)
           /\ Range(t) = {x \in Range(s) : x.entry # e}
           /\ SortedDescending(t)
           /\ PrefixOnce(t)
<1> DEFINE kept == {x \in Range(s) : x.entry # e}
<1>1. IsFiniteSet(Range(s))
    BY RangeFinite
<1>2. IsFiniteSet(kept)
    BY <1>1, FS_Subset
<1>3. /\ t \in Bijection(1..Cardinality(kept), kept)
      /\ \A i, j \in DOMAIN t : i < j =>
            \E k, l \in DOMAIN s : k < l /\ s[k] = t[i] /\ s[l] = t[j]
    BY DEF KeptLists
<1>4. /\ t \in Seq(kept)
      /\ Range(t) = kept
      /\ \A i, j \in DOMAIN t : t[i] = t[j] => i = j
    BY <1>2, <1>3, ListOfSet
<1>5. \A i \in DOMAIN t : \E k \in DOMAIN s : s[k] = t[i]
    BY <1>4 DEF Range
<1>6. SortedDescending(t)
    BY <1>3 DEF SortedDescending
<1>7. PrefixOnce(t)
    <2> SUFFICES ASSUME NEW i \in DOMAIN t, NEW j \in DOMAIN t,
                        t[i].prefix = t[j].prefix
                 PROVE  i = j
        BY DEF PrefixOnce
    <2>1. PICK k \in DOMAIN s : s[k] = t[i]
        BY <1>5
    <2>2. PICK l \in DOMAIN s : s[l] = t[j]
        BY <1>5
    <2>3. k = l
        BY <2>1, <2>2 DEF PrefixOnce
    <2> QED BY <2>1, <2>2, <2>3, <1>4
<1>8. Range(s) \subseteq PrefixEntry
    BY DEF Range
<1>9. t \in Seq(PrefixEntry)
    BY <1>4, <1>8
<1> QED BY <1>4, <1>6, <1>7, <1>9

(* A host without a table has the empty one, which is a good one.          *)
LEMMA TableAtGood ==
    ASSUME TableTypeOK, TableOK, NEW h \in Host
    PROVE  /\ TableAt(h) \in HostTable
           /\ SortedDescending(TableAt(h).prefixed)
           /\ PrefixOnce(TableAt(h).prefixed)
<1>1. CASE h \in DOMAIN table
    BY <1>1 DEF TableAt, TableTypeOK, TableOK
<1>2. CASE h \notin DOMAIN table
    <2>1. EmptyTable \in HostTable
        BY DEF EmptyTable, HostTable
    <2>2. SortedDescending(EmptyTable.prefixed) /\ PrefixOnce(EmptyTable.prefixed)
        BY DEF EmptyTable, SortedDescending, PrefixOnce
    <2> QED BY <1>2, <2>1, <2>2 DEF TableAt
<1> QED BY <1>1, <1>2

(* A route is vacant exactly when no entry holds it.                       *)
LEMMA VacantMeansUnheld ==
    ASSUME TableTypeOK, TableOK, NEW h \in Host, NEW p \in Route
    PROVE  Vacant(h, p) <=> \A e \in Entry : ~Holds(h, p, e)
<1>1. TableAt(h) \in HostTable
    BY TableAtGood
<1>2. CASE p = Root
    <2>1. TableAt(h).root \in Entry \cup {NoEntry}
        BY <1>1 DEF HostTable
    <2> QED BY <1>2, <2>1, RouteAssumption DEF Vacant, Holds
<1>3. CASE p # Root
    <2>1. Range(TableAt(h).prefixed) \subseteq PrefixEntry
        BY <1>1 DEF HostTable, Range
    <2>2. \A x \in PrefixEntry : x = [prefix |-> x.prefix, entry |-> x.entry]
                                  /\ x.entry \in Entry
        BY DEF PrefixEntry
    <2>3. \A e : [prefix |-> p, entry |-> e].prefix = p
        OBVIOUS
    <2> QED BY <1>3, <2>1, <2>2, <2>3 DEF Vacant, Holds
<1> QED BY <1>2, <1>3

(* A route has one holder.                                                 *)
LEMMA OneHolder ==
    ASSUME TableTypeOK, TableOK, NEW h \in Host, NEW p \in Route,
           NEW e, NEW f, Holds(h, p, e), Holds(h, p, f)
    PROVE  e = f
<1>1. CASE p = Root
    BY <1>1 DEF Holds
<1>2. CASE p # Root
    <2> DEFINE s == TableAt(h).prefixed
    <2>1. PrefixOnce(s)
        BY TableAtGood
    <2>2. PICK i \in DOMAIN s : s[i] = [prefix |-> p, entry |-> e]
        BY <1>2 DEF Holds, Range
    <2>3. PICK j \in DOMAIN s : s[j] = [prefix |-> p, entry |-> f]
        BY <1>2 DEF Holds, Range
    <2>4. i = j
        BY <2>1, <2>2, <2>3 DEF PrefixOnce
    <2> QED BY <2>2, <2>3, <2>4
<1> QED BY <1>1, <1>2

(* Register keeps the table good and adds exactly one holder.              *)
LEMMA RegisterEffect ==
    ASSUME TableTypeOK, TableOK,
           NEW h \in Host, NEW p \in Route, NEW e \in Entry,
           Register(h, p, e)
    PROVE  /\ TableTypeOK'
           /\ TableOK'
           /\ \A g \in Host, r \in Route, f \in Entry :
                 Holds(g, r, f)' <=> Holds(g, r, f) \/ (g = h /\ r = p /\ f = e)
<1> DEFINE old == TableAt(h)
<1>1. PICK t \in WithEntry(old, p, e) :
          table' = [x \in DOMAIN table \cup {h} |-> IF x = h THEN t ELSE table[x]]
    BY DEF Register
<1>2. Vacant(h, p)
    BY DEF Register
<1>3. /\ old \in HostTable
      /\ SortedDescending(old.prefixed)
      /\ PrefixOnce(old.prefixed)
    BY TableAtGood
<1>4. /\ t \in HostTable
      /\ SortedDescending(t.prefixed)
      /\ PrefixOnce(t.prefixed)
      /\ t # EmptyTable
      /\ \A r \in Route, f \in Entry :
            (IF r = Root THEN t.root = f
                         ELSE [prefix |-> r, entry |-> f] \in Range(t.prefixed))
            <=> Holds(h, r, f) \/ (r = p /\ f = e)
    <2>1. CASE p = Root
        <3>1. t = [old EXCEPT !.root = e]
            BY <1>1, <2>1 DEF WithEntry
        <3>2. /\ t.root = e /\ t.prefixed = old.prefixed /\ t \in HostTable
            BY <1>3, <3>1 DEF HostTable
        <3>3. t # EmptyTable
            BY <3>2, RouteAssumption DEF EmptyTable
        <3>4. old.root = NoEntry
            BY <1>2, <2>1 DEF Vacant
        <3> QED BY <1>3, <2>1, <3>2, <3>3, <3>4, RouteAssumption DEF Holds
    <2>2. CASE p # Root
        <3> DEFINE x == [prefix |-> p, entry |-> e]
                   S == Range(old.prefixed) \cup {x}
        <3>1. PICK s \in SortedLists(S) : t = [old EXCEPT !.prefixed = s]
            BY <1>1, <2>2 DEF WithEntry
        <3>2. old.prefixed \in Seq(PrefixEntry)
            BY <1>3 DEF HostTable
        <3>3. IsFiniteSet(S)
            BY <3>2, RangeFinite, FS_AddElement
        <3>4. x \in PrefixEntry /\ x.prefix = p /\ x.entry = e
            BY <2>2 DEF PrefixEntry, Route
        <3>5. Range(old.prefixed) \subseteq PrefixEntry
            BY <3>2 DEF Range
        <3>6. \A y \in Range(old.prefixed) : y.prefix # p
            BY <1>2, <2>2 DEF Vacant
        <3>7. \A y, z \in Range(old.prefixed) : y.prefix = z.prefix => y = z
            BY <1>3 DEF PrefixOnce, Range
        <3>8. \A y, z \in S : y.prefix = z.prefix => y = z
            BY <3>4, <3>6, <3>7
        <3>9. /\ s \in Seq(PrefixEntry) /\ Range(s) = S
              /\ SortedDescending(s) /\ PrefixOnce(s)
            BY <3>3, <3>4, <3>5, <3>8, SortedListProperties
        <3>10. t.prefixed = s /\ t.root = old.root /\ t \in HostTable
            BY <1>3, <3>1, <3>9 DEF HostTable
        <3>11. t # EmptyTable
            <4>1. x \in Range(s)
                BY <3>9
            <4>2. Range(<< >>) = {}
                BY DEF Range
            <4> QED BY <4>1, <4>2, <3>10 DEF EmptyTable
        <3>12. \A r \in Route, f \in Entry :
                  [prefix |-> r, entry |-> f] \in S
                  <=> \/ [prefix |-> r, entry |-> f] \in Range(old.prefixed)
                      \/ r = p /\ f = e
            OBVIOUS
        <3> QED BY <2>2, <3>9, <3>10, <3>11, <3>12 DEF Holds
    <2> QED BY <2>1, <2>2
<1>5. DOMAIN table' = DOMAIN table \cup {h}
    BY <1>1
<1>6. TableAt(h)' = t
    BY <1>1, <1>5 DEF TableAt
<1>7. \A g \in Host : g # h => TableAt(g)' = TableAt(g)
    BY <1>1, <1>5 DEF TableAt
<1>8. TableTypeOK'
    BY <1>1, <1>4, <1>5 DEF TableTypeOK
<1>9. TableOK'
    BY <1>1, <1>4, <1>5 DEF TableOK
<1>10. \A g \in Host, r \in Route, f \in Entry :
          Holds(g, r, f)' <=> Holds(g, r, f) \/ (g = h /\ r = p /\ f = e)
    BY <1>4, <1>6, <1>7 DEF Holds
<1> QED BY <1>8, <1>9, <1>10

(* Unregister keeps the table good; where the entry holds one route of a   *)
(* host at most, it takes that one away and nothing else.                  *)
LEMMA UnregisterEffect ==
    ASSUME TableTypeOK, TableOK,
           NEW h \in Host, NEW p \in Route, NEW e \in Entry,
           \A r \in Route : Holds(h, r, e) => r = p,
           Unregister(h, p, e)
    PROVE  /\ TableTypeOK'
           /\ TableOK'
           /\ \A g \in Host, r \in Route, f \in Entry :
                 Holds(g, r, f)' <=> Holds(g, r, f) /\ ~(g = h /\ f = e)
<1>1. CASE h \notin DOMAIN table
    <2>1. table' = table
        BY <1>1 DEF Unregister
    <2>2. \A r \in Route : ~Holds(h, r, e)
        <3>1. TableAt(h) = EmptyTable
            BY <1>1 DEF TableAt
        <3>2. Range(<< >>) = {}
            BY DEF Range
        <3> QED BY <3>1, <3>2, RouteAssumption DEF Holds, EmptyTable
    <2>3. TableTypeOK' /\ TableOK'
        BY <2>1 DEF TableTypeOK, TableOK
    <2>4. \A g \in Host, r \in Route, f \in Entry : Holds(g, r, f)' <=> Holds(g, r, f)
        BY <2>1 DEF Holds, TableAt
    <2> QED BY <2>2, <2>3, <2>4
<1>2. CASE h \in DOMAIN table
    <2> DEFINE old == table[h]
    <2>1. PICK t \in WithoutEntry(old, p, e) :
              table' = IF t = EmptyTable THEN Restrict(table, DOMAIN table \ {h})
                                         ELSE [table EXCEPT ![h] = t]
        BY <1>2 DEF Unregister
    <2>2. /\ old = TableAt(h)
          /\ old \in HostTable
          /\ SortedDescending(old.prefixed)
          /\ PrefixOnce(old.prefixed)
        BY <1>2, TableAtGood DEF TableAt
    <2>3. /\ t \in HostTable
          /\ SortedDescending(t.prefixed)
          /\ PrefixOnce(t.prefixed)
          /\ \A r \in Route, f \in Entry :
                (IF r = Root THEN t.root = f
                             ELSE [prefix |-> r, entry |-> f] \in Range(t.prefixed))
                <=> Holds(h, r, f) /\ f # e
        <3>1. CASE p = Root
            <4>1. t = IF old.root = e THEN [old EXCEPT !.root = NoEntry] ELSE old
                BY <2>1, <3>1 DEF WithoutEntry
            <4>2. /\ t.prefixed = old.prefixed /\ t \in HostTable
                  /\ t.root = IF old.root = e THEN NoEntry ELSE old.root
                BY <2>2, <4>1 DEF HostTable
            <4>3. \A r \in Route : r # Root => [prefix |-> r, entry |-> e] \notin Range(old.prefixed)
                BY <2>2, <3>1 DEF Holds
            <4>4. \A f \in Entry : t.root = f <=> old.root = f /\ f # e
                BY <4>2, RouteAssumption
            <4> QED BY <2>2, <3>1, <4>2, <4>3, <4>4 DEF Holds
        <3>2. CASE p # Root
            <4>1. PICK s \in KeptLists(old.prefixed, e) : t = [old EXCEPT !.prefixed = s]
                BY <2>1, <3>2 DEF WithoutEntry
            <4>2. old.prefixed \in Seq(PrefixEntry)
                BY <2>2 DEF HostTable
            <4>3. /\ s \in Seq(PrefixEntry)
                  /\ Range(s) = {x \in Range(old.prefixed) : x.entry # e}
                  /\ SortedDescending(s) /\ PrefixOnce(s)
                BY <2>2, <4>2, KeptListProperties
            <4>4. t.prefixed = s /\ t.root = old.root /\ t \in HostTable
                BY <2>2, <4>1, <4>3 DEF HostTable
            <4>5. old.root # e
                BY <2>2, <3>2 DEF Holds, Route
            <4>6. \A r \in Route, f \in Entry :
                      [prefix |-> r, entry |-> f] \in Range(s)
                      <=> [prefix |-> r, entry |-> f] \in Range(old.prefixed) /\ f # e
                BY <4>3
            <4> QED BY <2>2, <4>3, <4>4, <4>5, <4>6 DEF Holds
        <3> QED BY <3>1, <3>2
    <2>4. CASE t = EmptyTable
        <3>1. table' = [x \in DOMAIN table \ {h} |-> table[x]]
            BY <2>1, <2>4 DEF Restrict
        <3>2. DOMAIN table' = DOMAIN table \ {h}
            BY <3>1
        <3>3. TableAt(h)' = t /\ \A g \in Host : g # h => TableAt(g)' = TableAt(g)
            BY <2>4, <3>1, <3>2 DEF TableAt
        <3>4. TableTypeOK' /\ TableOK'
            BY <3>1, <3>2 DEF TableTypeOK, TableOK
        <3> QED BY <2>3, <3>3, <3>4 DEF Holds
    <2>5. CASE t # EmptyTable
        <3>1. table' = [table EXCEPT ![h] = t]
            BY <2>1, <2>5
        <3>2. DOMAIN table' = DOMAIN table
            BY <3>1
        <3>3. TableAt(h)' = t /\ \A g \in Host : g # h => TableAt(g)' = TableAt(g)
            <4>1. table'[h] = t /\ \A g \in DOMAIN table : g # h => table'[g] = table[g]
                BY <1>2, <3>1 DEF TableTypeOK
            <4> QED BY <1>2, <3>2, <4>1 DEF TableAt
        <3>4. \A g \in DOMAIN table : table'[g] = IF g = h THEN t ELSE table[g]
            BY <1>2, <3>1
        <3>5. TableTypeOK' /\ TableOK'
            BY <2>3, <2>5, <3>2, <3>4 DEF TableTypeOK, TableOK
        <3> QED BY <2>3, <3>3, <3>5 DEF Holds
    <2> QED BY <2>4, <2>5
<1> QED BY <1>1, <1>2

(* Every non-empty set of naturals has a least element.                    *)
LEMMA LeastNatural ==
    ASSUME NEW S \in SUBSET Nat, S # {}
    PROVE  \E i \in S : \A j \in S : i <= j
<1>1. PICK i \in S : \A j \in S : ~(<<j, i>> \in OpToRel(<, Nat))
    BY NatLessThanWellFounded, WFMin
<1>2. \A j \in S : ~(j < i)
    BY <1>1 DEF OpToRel
<1> QED BY <1>2

(* Resolve answers with the holder of the longest prefix the path is under *)
(* and, when no such prefix is held, with whatever the root is.            *)
LEMMA ResolveEffect ==
    ASSUME TableTypeOK, TableOK, NEW h \in Host, NEW q \in Path
    PROVE  \/ /\ \A p \in Under[q], f \in Entry : ~Holds(h, p, f)
              /\ Holds(h, Root, Resolve(h, q))
              /\ Resolve(h, q) \in Entry \cup {NoEntry}
           \/ \E p \in Under[q] :
                 /\ Holds(h, p, Resolve(h, q))
                 /\ Resolve(h, q) \in Entry
                 /\ \A r \in Under[q], f \in Entry :
                       Holds(h, r, f) => Length[r] <= Length[p]
<1> DEFINE s == TableAt(h).prefixed
           hits == {i \in DOMAIN s : s[i].prefix \in Under[q]}
<1>1. /\ TableAt(h) \in HostTable
      /\ SortedDescending(s)
    BY TableAtGood
<1>2. s \in Seq(PrefixEntry)
    BY <1>1 DEF HostTable
<1>3. Under[q] \subseteq Prefix /\ Root \notin Under[q]
    BY RouteAssumption
<1>4. \A p \in Under[q] : \A f : Holds(h, p, f) => \E i \in hits : s[i] = [prefix |-> p, entry |-> f]
    BY <1>3 DEF Holds, Range
<1>5. CASE hits = {}
    <2>1. Resolve(h, q) = TableAt(h).root
        BY <1>5 DEF Resolve
    <2>2. \A p \in Under[q], f \in Entry : ~Holds(h, p, f)
        BY <1>4, <1>5
    <2> QED BY <1>1, <2>1, <2>2 DEF Holds, HostTable
<1>6. CASE hits # {}
    <2>1. hits \in SUBSET Nat
        BY <1>2
    <2>2. \E i \in hits : \A j \in hits : i <= j
        BY <1>6, <2>1, LeastNatural
    <2>3. PICK i \in hits : (\A j \in hits : i <= j) /\ Resolve(h, q) = s[i].entry
        BY <1>6, <2>2 DEF Resolve
    <2>4. i \in DOMAIN s /\ s[i] \in PrefixEntry /\ s[i].prefix \in Under[q]
        BY <1>2
    <2> DEFINE x == s[i]
    <2>5. x = [prefix |-> x.prefix, entry |-> x.entry] /\ x.entry \in Entry
        <3>1. \A y \in PrefixEntry : y = [prefix |-> y.prefix, entry |-> y.entry]
                                     /\ y.entry \in Entry
            BY DEF PrefixEntry
        <3> QED BY <2>4, <3>1
    <2>6. Holds(h, x.prefix, x.entry)
        <3>1. x \in Range(s)
            BY <2>4 DEF Range
        <3>2. x.prefix # Root
            BY <1>3, <2>4
        <3> QED BY <2>5, <3>1, <3>2 DEF Holds
    <2>7. ASSUME NEW r \in Under[q], NEW f \in Entry, Holds(h, r, f)
          PROVE  Length[r] <= Length[x.prefix]
        <3>1. PICK j \in hits : s[j] = [prefix |-> r, entry |-> f]
            BY <2>7, <1>4
        <3>2. s[j].prefix = r /\ j \in DOMAIN s /\ i <= j
            BY <2>3, <3>1
        <3>3. Length[r] \in Nat
            BY <1>3, RouteAssumption
        <3>4. CASE i = j
            BY <3>2, <3>3, <3>4
        <3>5. CASE i # j
            <4>1. i < j
                BY <2>1, <3>2, <3>5
            <4>2. Length[s[i].prefix] >= Length[s[j].prefix]
                BY <1>1, <2>4, <3>2, <4>1 DEF SortedDescending
            <4>3. Length[s[i].prefix] \in Nat
                BY <1>3, <2>4, RouteAssumption
            <4> QED BY <3>2, <3>3, <4>2, <4>3
        <3> QED BY <3>4, <3>5
    <2> QED BY <2>3, <2>4, <2>5, <2>6, <2>7
<1> QED BY <1>5, <1>6

-----------------------------------------------------------------------------
(* The directory                                                           *)

(* The owner of a route is its holder, and nobody when it has none.        *)
LEMMA OwnerIsHolder ==
    ASSUME TableTypeOK, TableOK, NEW h \in Host, NEW p \in Route
    PROVE  /\ \A e \in Entry : OwnerOf(h, p) = e <=> Holds(h, p, e)
           /\ OwnerOf(h, p) = NoEntry <=> \A e \in Entry : ~Holds(h, p, e)
           /\ OwnerOf(h, p) \in Entry \cup {NoEntry}
<1>1. CASE \E e \in Entry : Holds(h, p, e)
    <2>1. PICK e \in Entry : Holds(h, p, e)
        BY <1>1
    <2>2. OwnerOf(h, p) \in Entry /\ Holds(h, p, OwnerOf(h, p))
        BY <1>1 DEF OwnerOf
    <2>3. \A f \in Entry : Holds(h, p, f) => f = OwnerOf(h, p)
        BY <2>2, OneHolder
    <2> QED BY <2>1, <2>2, <2>3, RouteAssumption
<1>2. CASE ~\E e \in Entry : Holds(h, p, e)
    BY <1>2, RouteAssumption DEF OwnerOf
<1> QED BY <1>1, <1>2

(* A registration is a claim of a free route.                              *)
LEMMA RegisterClaims ==
    ASSUME TableTypeOK, TableOK,
           NEW h \in Host, NEW p \in Route, NEW e \in Entry,
           \A g \in Host, r \in Route : ~Holds(g, r, e),
           Register(h, p, e)
    PROVE  Directory!Claim(<<h, p>>, e)
<1>1. /\ TableTypeOK' /\ TableOK'
      /\ \A g \in Host, r \in Route, f \in Entry :
            Holds(g, r, f)' <=> Holds(g, r, f) \/ (g = h /\ r = p /\ f = e)
    BY RegisterEffect
<1>2. \A f \in Entry : ~Holds(h, p, f)
    BY VacantMeansUnheld DEF Register
<1>3. OwnerOf(h, p) = NoEntry
    BY <1>2, OwnerIsHolder
<1>4. \A g \in Host, r \in Route : OwnerOf(g, r) # e
    BY OwnerIsHolder
<1>5. \A g \in Host, r \in Route :
          OwnerOf(g, r)' = IF g = h /\ r = p THEN e ELSE OwnerOf(g, r)
    <2> SUFFICES ASSUME NEW g \in Host, NEW r \in Route
                 PROVE  OwnerOf(g, r)' = IF g = h /\ r = p THEN e ELSE OwnerOf(g, r)
        OBVIOUS
    <2>1. CASE g = h /\ r = p
        <3>1. Holds(g, r, e)'
            BY <1>1, <2>1
        <3>2. \A f \in Entry : Holds(g, r, f)' => f = e
            BY <1>1, <1>2, <2>1
        <3> QED BY <2>1, <3>1, <3>2 DEF OwnerOf
    <2>2. CASE ~(g = h /\ r = p)
        <3>1. \A f \in Entry : Holds(g, r, f)' <=> Holds(g, r, f)
            BY <1>1, <2>2
        <3> QED BY <2>2, <3>1 DEF OwnerOf
    <2> QED BY <2>1, <2>2
<1>6. Owners' = [Owners EXCEPT ![<<h, p>>] = e]
    <2>1. \A x \in Host \X Route :
              Owners'[x] = IF x = <<h, p>> THEN e ELSE Owners[x]
        <3> SUFFICES ASSUME NEW g \in Host, NEW r \in Route
                     PROVE  Owners'[<<g, r>>] =
                                IF <<g, r>> = <<h, p>> THEN e ELSE Owners[<<g, r>>]
            OBVIOUS
        <3>1. Owners'[<<g, r>>] = OwnerOf(g, r)' /\ Owners[<<g, r>>] = OwnerOf(g, r)
            BY DEF Owners
        <3> QED BY <1>5, <3>1
    <2>2. Owners = [x \in Host \X Route |-> Owners[x]]
          /\ Owners' = [x \in Host \X Route |-> Owners'[x]]
        BY DEF Owners
    <2> QED BY <2>1, <2>2
<1>7. Owners[<<h, p>>] = NoEntry /\ \A x \in Host \X Route : Owners[x] # e
    BY <1>3, <1>4 DEF Owners
<1>8. Directory!Routes = Host \X Route
    BY DEF Directory!Routes, Route
<1> QED BY <1>6, <1>7, <1>8 DEF Directory!Claim

(* An entry that unregisters releases its own route.                       *)
LEMMA UnregisterReleases ==
    ASSUME TableTypeOK, TableOK,
           NEW h \in Host, NEW p \in Route, NEW e \in Entry,
           Holds(h, p, e),
           \A g \in Host, r \in Route : Holds(g, r, e) => g = h /\ r = p,
           Unregister(h, p, e)
    PROVE  Directory!Release(<<h, p>>, e)
<1>1. /\ TableTypeOK' /\ TableOK'
      /\ \A g \in Host, r \in Route, f \in Entry :
            Holds(g, r, f)' <=> Holds(g, r, f) /\ ~(g = h /\ f = e)
    BY UnregisterEffect
<1>2. OwnerOf(h, p) = e
    BY OwnerIsHolder
<1>3. \A f \in Entry : ~Holds(h, p, f)'
    BY <1>1, OneHolder
<1>4. \A g \in Host, r \in Route :
          OwnerOf(g, r)' = IF g = h /\ r = p THEN NoEntry ELSE OwnerOf(g, r)
    <2> SUFFICES ASSUME NEW g \in Host, NEW r \in Route
                 PROVE  OwnerOf(g, r)' = IF g = h /\ r = p THEN NoEntry ELSE OwnerOf(g, r)
        OBVIOUS
    <2>1. CASE g = h /\ r = p
        BY <1>3, <2>1 DEF OwnerOf
    <2>2. CASE ~(g = h /\ r = p)
        <3>1. \A f \in Entry : Holds(g, r, f)' <=> Holds(g, r, f)
            BY <1>1, <2>2
        <3> QED BY <2>2, <3>1 DEF OwnerOf
    <2> QED BY <2>1, <2>2
<1>5. Owners' = [Owners EXCEPT ![<<h, p>>] = NoEntry]
    <2>1. \A x \in Host \X Route :
              Owners'[x] = IF x = <<h, p>> THEN NoEntry ELSE Owners[x]
        <3> SUFFICES ASSUME NEW g \in Host, NEW r \in Route
                     PROVE  Owners'[<<g, r>>] =
                                IF <<g, r>> = <<h, p>> THEN NoEntry ELSE Owners[<<g, r>>]
            OBVIOUS
        <3>1. Owners'[<<g, r>>] = OwnerOf(g, r)' /\ Owners[<<g, r>>] = OwnerOf(g, r)
            BY DEF Owners
        <3> QED BY <1>4, <3>1
    <2>2. Owners = [x \in Host \X Route |-> Owners[x]]
          /\ Owners' = [x \in Host \X Route |-> Owners'[x]]
        BY DEF Owners
    <2> QED BY <2>1, <2>2
<1>6. Owners[<<h, p>>] = e
    BY <1>2 DEF Owners
<1> QED BY <1>5, <1>6 DEF Directory!Release

(* Resolve gives the directory's answer.                                   *)
LEMMA ResolveAnswers ==
    ASSUME TableTypeOK, TableOK, NEW h \in Host, NEW q \in Path
    PROVE  Directory!Answers(h, q, Resolve(h, q))
<1> DEFINE e == Resolve(h, q)
<1>1. Under[q] \subseteq Route /\ Root \in Route
    BY RouteAssumption DEF Route
<1>2. \A p \in Route : Owners[<<h, p>>] = OwnerOf(h, p)
    BY DEF Owners
<1>3. \A p \in Under[q] : p \in Directory!Candidates(h, q)
                          <=> \E f \in Entry : Holds(h, p, f)
    <2>1. \A p \in Under[q] : OwnerOf(h, p) # NoEntry <=> \E f \in Entry : Holds(h, p, f)
        BY <1>1, OwnerIsHolder
    <2> QED BY <1>1, <1>2, <2>1 DEF Directory!Candidates
<1>4. Directory!Candidates(h, q) \subseteq Under[q]
    BY DEF Directory!Candidates
<1>5. CASE /\ \A p \in Under[q], f \in Entry : ~Holds(h, p, f)
           /\ Holds(h, Root, e)
           /\ e \in Entry \cup {NoEntry}
    <2>1. Directory!Candidates(h, q) = {}
        BY <1>3, <1>4, <1>5
    <2>2. OwnerOf(h, Root) = e
        <3>1. CASE e \in Entry
            BY <1>1, <1>5, <3>1, OwnerIsHolder
        <3>2. CASE e = NoEntry
            <4>1. \A f \in Entry : ~Holds(h, Root, f)
                BY <1>5, <3>2, RouteAssumption DEF Holds
            <4> QED BY <1>1, <3>2, <4>1, OwnerIsHolder
        <3> QED BY <1>5, <3>1, <3>2
    <2> QED BY <1>1, <1>2, <2>1, <2>2 DEF Directory!Answers
<1>6. CASE \E p \in Under[q] :
              /\ Holds(h, p, e)
              /\ e \in Entry
              /\ \A r \in Under[q], f \in Entry : Holds(h, r, f) => Length[r] <= Length[p]
    <2>1. PICK p \in Under[q] :
              /\ Holds(h, p, e)
              /\ e \in Entry
              /\ \A r \in Under[q], f \in Entry : Holds(h, r, f) => Length[r] <= Length[p]
        BY <1>6
    <2>2. p \in Directory!Candidates(h, q)
        BY <1>3, <2>1
    <2>3. Owners[<<h, p>>] = e
        BY <1>1, <1>2, <2>1, OwnerIsHolder
    <2>4. \A r \in Directory!Candidates(h, q) : Length[r] <= Length[p]
        BY <1>3, <1>4, <2>1
    <2> QED BY <2>2, <2>3, <2>4 DEF Directory!Answers
<1> QED BY <1>5, <1>6, ResolveEffect

-----------------------------------------------------------------------------
(* The registry                                                            *)

RegistryInv == RegistryTypeOK /\ TableOK /\ HeldExactly

LEMMA InitRegistryInv == RegistryInit => RegistryInv
<1> SUFFICES ASSUME RegistryInit PROVE RegistryInv
    OBVIOUS
<1>1. DOMAIN table = {}
    BY DEF RegistryInit
<1>2. RegistryTypeOK /\ TableOK
    BY <1>1 DEF RegistryInit, RegistryTypeOK, TableTypeOK, TableOK
<1>3. HeldExactly
    <2>1. \A h : TableAt(h) = EmptyTable
        BY <1>1 DEF TableAt
    <2>2. Range(<< >>) = {}
        BY DEF Range
    <2>3. \A e \in Entry, h \in Host, p \in Route : ~Holds(h, p, e)
        BY <2>1, <2>2, RouteAssumption DEF Holds, EmptyTable
    <2> QED BY <2>3, RegistryAssumption DEF HeldExactly, RegistryInit
<1> QED BY <1>2, <1>3 DEF RegistryInv

LEMMA RegisterKeeps ==
    ASSUME RegistryInv, NEW e \in Entry, NEW h \in Host, NEW p \in Route,
           CallRegister(e, h, p)
    PROVE  RegistryInv'
<1> USE DEF RegistryInv
<1>1. CASE Register(h, p, e) /\ route' = [route EXCEPT ![e] = <<h, p>>]
    <2>1. /\ TableTypeOK' /\ TableOK'
          /\ \A g \in Host, r \in Route, f \in Entry :
                Holds(g, r, f)' <=> Holds(g, r, f) \/ (g = h /\ r = p /\ f = e)
        BY <1>1, RegisterEffect DEF RegistryTypeOK
    <2>2. <<h, p>> \in Host \X Route
        OBVIOUS
    <2>3. RegistryTypeOK'
        BY <1>1, <2>1, <2>2 DEF RegistryTypeOK
    <2>4. \A f \in Entry : route'[f] = IF f = e THEN <<h, p>> ELSE route[f]
        BY <1>1 DEF RegistryTypeOK
    <2>5. route[e] \notin Host \X Route
        BY RegistryAssumption DEF CallRegister
    <2>6. \A g \in Host, r \in Route : ~Holds(g, r, e)
        BY <2>5 DEF HeldExactly
    <2>7. HeldExactly'
        BY <2>1, <2>4, <2>6 DEF HeldExactly
    <2> QED BY <2>1, <2>3, <2>7
<1>2. CASE RegisterFails(h, p) /\ route' = [route EXCEPT ![e] = Spent]
    <2>1. table' = table
        BY <1>2 DEF RegisterFails
    <2>2. \A g \in Host, r \in Route, f \in Entry : Holds(g, r, f)' <=> Holds(g, r, f)
        BY <2>1 DEF Holds, TableAt
    <2>3. \A f \in Entry : route'[f] = IF f = e THEN Spent ELSE route[f]
        BY <1>2 DEF RegistryTypeOK
    <2>4. \A g \in Host, r \in Route : route[e] # <<g, r>> /\ Spent # <<g, r>>
        BY RegistryAssumption DEF CallRegister
    <2>5. HeldExactly'
        BY <2>2, <2>3, <2>4 DEF HeldExactly
    <2>6. RegistryTypeOK' /\ TableOK'
        BY <1>2, <2>1 DEF RegistryTypeOK, TableTypeOK, TableOK
    <2> QED BY <2>5, <2>6
<1> QED BY <1>1, <1>2 DEF CallRegister

LEMMA UnregisterKeeps ==
    ASSUME RegistryInv, NEW e \in Entry, CallUnregister(e)
    PROVE  RegistryInv'
<1> USE DEF RegistryInv
<1>1. PICK h \in Host, p \in Route : route[e] = <<h, p>>
    BY DEF CallUnregister
<1>2. Unregister(h, p, e)
    BY <1>1 DEF CallUnregister
<1>3. \A g \in Host, r \in Route : Holds(g, r, e) => g = h /\ r = p
    BY <1>1 DEF HeldExactly
<1>4. /\ TableTypeOK' /\ TableOK'
      /\ \A g \in Host, r \in Route, f \in Entry :
            Holds(g, r, f)' <=> Holds(g, r, f) /\ ~(g = h /\ f = e)
    BY <1>2, <1>3, UnregisterEffect DEF RegistryTypeOK
<1>5. RegistryTypeOK'
    BY <1>4 DEF RegistryTypeOK, CallUnregister
<1>6. \A f \in Entry : route'[f] = IF f = e THEN Spent ELSE route[f]
    BY DEF RegistryTypeOK, CallUnregister
<1>7. \A g \in Host, r \in Route : Spent # <<g, r>>
    BY RegistryAssumption
<1>8. HeldExactly'
    BY <1>3, <1>4, <1>6, <1>7 DEF HeldExactly
<1> QED BY <1>4, <1>5, <1>8

LEMMA RegistryStutters ==
    ASSUME RegistryInv, UNCHANGED registryVars
    PROVE  RegistryInv'
BY DEF RegistryInv, registryVars, RegistryTypeOK, TableTypeOK, TableOK, HeldExactly, Holds, TableAt

(* The entries in the table are exactly those registered and not yet       *)
(* unregistered, each under its own route; the lists are sorted and a host *)
(* without tunnels has no table.                                           *)
THEOREM RegistryInvariant == RegistrySpec => [](RegistryTypeOK /\ TableOK /\ HeldExactly)
<1>1. RegistryInv /\ [RegistryNext]_registryVars => RegistryInv'
    BY RegisterKeeps, UnregisterKeeps, RegistryStutters DEF RegistryNext
<1>2. RegistryInv => RegistryTypeOK /\ TableOK /\ HeldExactly
    BY DEF RegistryInv
<1> QED BY InitRegistryInv, <1>1, <1>2, PTL DEF RegistrySpec

LEMMA RegistryInitDirectory == RegistryInit => Directory!Init
<1> SUFFICES ASSUME RegistryInit PROVE Directory!Init
    OBVIOUS
<1>1. RegistryInv
    BY InitRegistryInv
<1>2. \A h \in Host, p \in Route, e \in Entry : ~Holds(h, p, e)
    BY <1>1, RegistryAssumption DEF RegistryInv, HeldExactly, RegistryInit
<1>3. \A h \in Host, p \in Route : OwnerOf(h, p) = NoEntry
    BY <1>2 DEF OwnerOf
<1> QED BY <1>3 DEF Directory!Init, Directory!Routes, Owners, Route

LEMMA RegistryStepDirectory == RegistryInv /\ [RegistryNext]_registryVars => [Directory!Next]_Owners
<1> SUFFICES ASSUME RegistryInv, [RegistryNext]_registryVars
             PROVE  [Directory!Next]_Owners
    OBVIOUS
<1> USE DEF RegistryInv
<1>1. ASSUME table' = table
      PROVE  Owners' = Owners
    BY <1>1 DEF Owners, OwnerOf, Holds, TableAt
<1>2. ASSUME NEW e \in Entry, NEW h \in Host, NEW p \in Route, CallRegister(e, h, p)
      PROVE  [Directory!Next]_Owners
    <2>1. CASE Register(h, p, e)
        <3>1. \A g \in Host, r \in Route : ~Holds(g, r, e)
            BY <1>2, RegistryAssumption DEF CallRegister, HeldExactly
        <3>2. Directory!Claim(<<h, p>>, e)
            BY <2>1, <3>1, RegisterClaims DEF RegistryTypeOK
        <3>3. <<h, p>> \in Directory!Routes
            BY DEF Directory!Routes, Route
        <3> QED BY <3>2, <3>3 DEF Directory!Next
    <2>2. CASE RegisterFails(h, p)
        BY <1>1, <2>2 DEF RegisterFails
    <2> QED BY <1>2, <2>1, <2>2 DEF CallRegister
<1>3. ASSUME NEW e \in Entry, CallUnregister(e)
      PROVE  [Directory!Next]_Owners
    <2>1. PICK h \in Host, p \in Route : route[e] = <<h, p>>
        BY <1>3 DEF CallUnregister
    <2>2. Unregister(h, p, e)
        BY <1>3, <2>1 DEF CallUnregister
    <2>3. Holds(h, p, e)
          /\ \A g \in Host, r \in Route : Holds(g, r, e) => g = h /\ r = p
        BY <2>1 DEF HeldExactly
    <2>4. Directory!Release(<<h, p>>, e)
        BY <2>2, <2>3, UnregisterReleases DEF RegistryTypeOK
    <2>5. <<h, p>> \in Directory!Routes
        BY DEF Directory!Routes, Route
    <2> QED BY <2>4, <2>5 DEF Directory!Next
<1>4. CASE UNCHANGED registryVars
    BY <1>1, <1>4 DEF registryVars
<1> QED BY <1>2, <1>3, <1>4 DEF RegistryNext

(* The sorted lists implement the directory of owners.                     *)
THEOREM RegistryImplementsDirectory == RegistrySpec => RegistryImplements
<1>1. RegistryInv /\ [RegistryNext]_registryVars => RegistryInv'
    BY RegisterKeeps, UnregisterKeeps, RegistryStutters DEF RegistryNext
<1> QED BY InitRegistryInv, RegistryInitDirectory, RegistryStepDirectory, <1>1, PTL
        DEF RegistrySpec, RegistryImplements, Directory!Spec

(* Resolve answers with the holder of the longest prefix of the path.      *)
THEOREM RegistryResolvesLongest == RegistrySpec => []ResolvesLongest
<1>1. TableTypeOK /\ TableOK => ResolvesLongest
    BY ResolveAnswers DEF ResolvesLongest
<1>2. RegistryTypeOK => TableTypeOK
    BY DEF RegistryTypeOK
<1> QED BY RegistryInvariant, <1>1, <1>2, PTL

-----------------------------------------------------------------------------
(* The handlers and the requests                                           *)

AfterGreeting == {"greeted", "ready", "serving", "leaving", "closing", "over"}

HandlerInv ==
    \A e \in Entry :
        /\ handler[e] # "idle" => tunnel[e] \in Tunnel
        /\ handler[e] = "idle" => link[e] = "none"
        /\ e \in greeted => handler[e] \in AfterGreeting
        /\ handler[e] \in {"greeted", "ready", "serving", "leaving"} => e \in greeted
        /\ handler[e] \in {"registering", "greeting"} \/ e \in greeted
               => link[e] # "none"
        /\ e \in greeted /\ handler[e] \in {"leaving", "closing", "over"}
               => link[e] = "broken"
        /\ ready[e] => e \in greeted
        /\ event[e] = "closed" => handler[e] = "over"

(* What a request that is not over has established.                        *)
Settled(v) == visit[v] = NoVisit \/ visit[v].phase = "over"

VisitInv ==
    \A v \in Visit : ~Settled(v) =>
        LET e == visit[v].entry
            t == tunnel[e]
        IN  /\ e \in Entry /\ handler[e] # "idle"
            /\ t.host = visit[v].host
            /\ t.prefix = Root \/ t.prefix \in Under[visit[v].path]
            /\ visit[v].phase # "gate" => Admits(t, visit[v].presents)
            /\ visit[v].phase \in {"opening", "streaming"} => e \in greeted

IInv == TypeOK /\ TableOK /\ RoutesHeldExactly /\ HandlerInv /\ VisitInv

-----------------------------------------------------------------------------
(* A step that leaves the table and the handlers' phases alone, or moves a *)
(* handler between phases on the same side of Holding.                     *)
LEMMA SameTable ==
    ASSUME table' = table
    PROVE  /\ TableTypeOK => TableTypeOK'
           /\ TableOK => TableOK'
           /\ \A h, p, e : Holds(h, p, e)' <=> Holds(h, p, e)
BY DEF TableTypeOK, TableOK, Holds, TableAt

LEMMA EmptyHolds ==
    ASSUME table = [h \in {} |-> EmptyTable]
    PROVE  /\ TableTypeOK /\ TableOK
           /\ \A h, p : \A e \in Entry : ~Holds(h, p, e)
<1>1. DOMAIN table = {}
    OBVIOUS
<1>2. Range(<< >>) = {}
    BY DEF Range
<1> QED BY <1>1, <1>2, RouteAssumption DEF TableTypeOK, TableOK, Holds, TableAt, EmptyTable

LEMMA InitIInv == Init => IInv
<1> SUFFICES ASSUME Init PROVE IInv
    OBVIOUS
<1>1. /\ TableTypeOK /\ TableOK
      /\ \A h \in Host, p \in Route, e \in Entry : ~Holds(h, p, e)
    BY EmptyHolds DEF Init
<1>2. TypeOK
    BY <1>1, RelayAssumption DEF Init, TypeOK, Phases, Holding
<1>3. RoutesHeldExactly
    BY <1>1 DEF RoutesHeldExactly, Init, Holding
<1>4. HandlerInv /\ VisitInv
    BY DEF HandlerInv, VisitInv, Settled, Init
<1> QED BY <1>1, <1>2, <1>3, <1>4 DEF IInv

(* RoutesHeldExactly survives a step that moves one handler between two    *)
(* phases that both hold a route, or both do not.                          *)
LEMMA SameRoutes ==
    ASSUME IInv, table' = table, NEW e \in Entry, NEW phase \in Phases,
           handler' = [handler EXCEPT ![e] = phase],
           handler[e] \in Holding <=> phase \in Holding,
           \A f \in Entry : handler[f] \in Holding => tunnel'[f] = tunnel[f]
    PROVE  TableTypeOK' /\ TableOK' /\ RoutesHeldExactly'
<1>1. TableTypeOK' /\ TableOK' /\ \A h, p, f : Holds(h, p, f)' <=> Holds(h, p, f)
    BY SameTable DEF IInv, TypeOK
<1>2. \A f \in Entry : handler'[f] = IF f = e THEN phase ELSE handler[f]
    BY DEF IInv, TypeOK
<1>3. \A f \in Entry : handler'[f] \in Holding <=> handler[f] \in Holding
    BY <1>2
<1> QED BY <1>1, <1>3 DEF RoutesHeldExactly, IInv

(* VisitInv survives a step that leaves the requests alone, forgets no     *)
(* greeting and changes no tunnel that was asked for.                      *)
LEMMA SameVisits ==
    ASSUME IInv, visit' = visit, greeted \subseteq greeted',
           \A e \in Entry : handler[e] # "idle" =>
               handler'[e] # "idle" /\ tunnel'[e] = tunnel[e]
    PROVE  VisitInv'
BY DEF VisitInv, Settled, IInv

-----------------------------------------------------------------------------
(* The handlers                                                            *)

LEMMA ArriveIInv == ASSUME IInv, NEW e \in Entry, Arrive(e) PROVE IInv'
<1> USE DEF Arrive, Goto, handlerVars
<1>1. PICK phase \in {"checking"} : handler' = [handler EXCEPT ![e] = phase]
    OBVIOUS
<1>2. phase \in Phases /\ (handler[e] \in Holding <=> phase \in Holding)
    BY DEF Phases, Holding
<1>3. \A f \in Entry : handler'[f] = IF f = e THEN phase ELSE handler[f]
    BY <1>1 DEF IInv, TypeOK
<1>4. \A f \in Entry : handler[f] # "idle" => tunnel'[f] = tunnel[f]
    BY DEF IInv, TypeOK
<1>5. TableTypeOK' /\ TableOK' /\ RoutesHeldExactly'
    <2>1. table' = table /\ \A f \in Entry : handler[f] \in Holding => tunnel'[f] = tunnel[f]
        BY <1>4 DEF Holding
    <2> HIDE DEF Arrive, Goto, handlerVars
    <2> QED BY <1>1, <1>2, <2>1, SameRoutes
<1>6. TypeOK'
    BY <1>1, <1>2, <1>5, RelayAssumption DEF IInv, TypeOK
<1>7. HandlerInv'
    <2>1. PICK t \in Tunnel : tunnel' = [tunnel EXCEPT ![e] = t]
        BY RelayAssumption
    <2>2. \A f \in Entry : tunnel'[f] = IF f = e THEN t ELSE tunnel[f]
        BY <2>1 DEF IInv, TypeOK
    <2> QED BY <1>1, <1>3, <2>1, <2>2 DEF IInv, HandlerInv, TypeOK, AfterGreeting
<1>8. VisitInv'
    BY <1>3, <1>4, SameVisits
<1> QED BY <1>5, <1>6, <1>7, <1>8 DEF IInv

LEMMA CheckIInv == ASSUME IInv, NEW e \in Entry, Check(e) PROVE IInv'
<1> USE DEF Check, Goto, handlerVars
<1>1. PICK phase \in {"upgrading", "over"} : handler' = [handler EXCEPT ![e] = phase]
    OBVIOUS
<1>2. phase \in Phases /\ (handler[e] \in Holding <=> phase \in Holding)
    BY DEF Phases, Holding
<1>3. \A f \in Entry : handler'[f] = IF f = e THEN phase ELSE handler[f]
    BY <1>1 DEF IInv, TypeOK
<1>4. \A f \in Entry : handler[f] # "idle" => tunnel'[f] = tunnel[f]
    BY DEF IInv, TypeOK
<1>5. TableTypeOK' /\ TableOK' /\ RoutesHeldExactly'
    <2>1. table' = table /\ \A f \in Entry : handler[f] \in Holding => tunnel'[f] = tunnel[f]
        BY <1>4 DEF Holding
    <2> HIDE DEF Check, Goto, handlerVars
    <2> QED BY <1>1, <1>2, <2>1, SameRoutes
<1>6. TypeOK'
    BY <1>1, <1>2, <1>5 DEF IInv, TypeOK
<1>7. HandlerInv'
    BY <1>1, <1>3, <1>4 DEF IInv, HandlerInv, TypeOK, AfterGreeting
<1>8. VisitInv'
    BY <1>3, <1>4, SameVisits
<1> QED BY <1>5, <1>6, <1>7, <1>8 DEF IInv

LEMMA UpgradeIInv == ASSUME IInv, NEW e \in Entry, Upgrade(e) PROVE IInv'
<1> USE DEF Upgrade, Goto, handlerVars
<1>1. PICK phase \in {"registering", "over"} : handler' = [handler EXCEPT ![e] = phase]
    OBVIOUS
<1>2. phase \in Phases /\ (handler[e] \in Holding <=> phase \in Holding)
    BY DEF Phases, Holding
<1>3. \A f \in Entry : handler'[f] = IF f = e THEN phase ELSE handler[f]
    BY <1>1 DEF IInv, TypeOK
<1>4. \A f \in Entry : handler[f] # "idle" => tunnel'[f] = tunnel[f]
    BY DEF IInv, TypeOK
<1>5. TableTypeOK' /\ TableOK' /\ RoutesHeldExactly'
    <2>1. table' = table /\ \A f \in Entry : handler[f] \in Holding => tunnel'[f] = tunnel[f]
        BY <1>4 DEF Holding
    <2> HIDE DEF Upgrade, Goto, handlerVars
    <2> QED BY <1>1, <1>2, <2>1, SameRoutes
<1>6. TypeOK'
    BY <1>1, <1>2, <1>5 DEF IInv, TypeOK
<1>7. HandlerInv'
    BY <1>1, <1>3, <1>4 DEF IInv, HandlerInv, TypeOK, AfterGreeting
<1>8. VisitInv'
    BY <1>3, <1>4, SameVisits
<1> QED BY <1>5, <1>6, <1>7, <1>8 DEF IInv

LEMMA GreetIInv == ASSUME IInv, NEW e \in Entry, Greet(e) PROVE IInv'
<1> USE DEF Greet, Goto, handlerVars
<1>1. PICK phase \in {"greeted"} : handler' = [handler EXCEPT ![e] = phase]
    OBVIOUS
<1>2. phase \in Phases /\ (handler[e] \in Holding <=> phase \in Holding)
    BY DEF Phases, Holding
<1>3. \A f \in Entry : handler'[f] = IF f = e THEN phase ELSE handler[f]
    BY <1>1 DEF IInv, TypeOK
<1>4. \A f \in Entry : handler[f] # "idle" => tunnel'[f] = tunnel[f]
    BY DEF IInv, TypeOK
<1>5. TableTypeOK' /\ TableOK' /\ RoutesHeldExactly'
    <2>1. table' = table /\ \A f \in Entry : handler[f] \in Holding => tunnel'[f] = tunnel[f]
        BY <1>4 DEF Holding
    <2> HIDE DEF Greet, Goto, handlerVars
    <2> QED BY <1>1, <1>2, <2>1, SameRoutes
<1>6. TypeOK'
    BY <1>1, <1>2, <1>5 DEF IInv, TypeOK
<1>7. HandlerInv'
    BY <1>1, <1>3, <1>4 DEF IInv, HandlerInv, TypeOK, AfterGreeting
<1>8. VisitInv'
    BY <1>3, <1>4, SameVisits
<1> QED BY <1>5, <1>6, <1>7, <1>8 DEF IInv

LEMMA MarkReadyIInv == ASSUME IInv, NEW e \in Entry, MarkReady(e) PROVE IInv'
<1> USE DEF MarkReady, Goto, handlerVars
<1>1. PICK phase \in {"ready"} : handler' = [handler EXCEPT ![e] = phase]
    OBVIOUS
<1>2. phase \in Phases /\ (handler[e] \in Holding <=> phase \in Holding)
    BY DEF Phases, Holding
<1>3. \A f \in Entry : handler'[f] = IF f = e THEN phase ELSE handler[f]
    BY <1>1 DEF IInv, TypeOK
<1>4. \A f \in Entry : handler[f] # "idle" => tunnel'[f] = tunnel[f]
    BY DEF IInv, TypeOK
<1>5. TableTypeOK' /\ TableOK' /\ RoutesHeldExactly'
    <2>1. table' = table /\ \A f \in Entry : handler[f] \in Holding => tunnel'[f] = tunnel[f]
        BY <1>4 DEF Holding
    <2> HIDE DEF MarkReady, Goto, handlerVars
    <2> QED BY <1>1, <1>2, <2>1, SameRoutes
<1>6. TypeOK'
    BY <1>1, <1>2, <1>5 DEF IInv, TypeOK
<1>7. HandlerInv'
    BY <1>1, <1>3, <1>4 DEF IInv, HandlerInv, TypeOK, AfterGreeting
<1>8. VisitInv'
    BY <1>3, <1>4, SameVisits
<1> QED BY <1>5, <1>6, <1>7, <1>8 DEF IInv

LEMMA RecordConnectIInv == ASSUME IInv, NEW e \in Entry, RecordConnect(e) PROVE IInv'
<1> USE DEF RecordConnect, Goto, handlerVars
<1>1. PICK phase \in {"serving"} : handler' = [handler EXCEPT ![e] = phase]
    OBVIOUS
<1>2. phase \in Phases /\ (handler[e] \in Holding <=> phase \in Holding)
    BY DEF Phases, Holding
<1>3. \A f \in Entry : handler'[f] = IF f = e THEN phase ELSE handler[f]
    BY <1>1 DEF IInv, TypeOK
<1>4. \A f \in Entry : handler[f] # "idle" => tunnel'[f] = tunnel[f]
    BY DEF IInv, TypeOK
<1>5. TableTypeOK' /\ TableOK' /\ RoutesHeldExactly'
    <2>1. table' = table /\ \A f \in Entry : handler[f] \in Holding => tunnel'[f] = tunnel[f]
        BY <1>4 DEF Holding
    <2> HIDE DEF RecordConnect, Goto, handlerVars
    <2> QED BY <1>1, <1>2, <2>1, SameRoutes
<1>6. TypeOK'
    BY <1>1, <1>2, <1>5 DEF IInv, TypeOK
<1>7. HandlerInv'
    <2>1. \A f \in Entry : event'[f] = "closed" => event[f] = "closed" /\ f # e
        <3>1. PICK row \in {"open", "none"} : event' = [event EXCEPT ![e] = row]
            OBVIOUS
        <3>2. event \in [Entry -> {"none", "open", "closed"}]
            BY DEF IInv, TypeOK
        <3>3. \A f \in Entry : event'[f] = IF f = e THEN row ELSE event[f]
            BY <3>1, <3>2
        <3> QED BY <3>3
    <2>2. /\ handler[e] = "ready" /\ tunnel' = tunnel /\ link' = link
          /\ greeted' = greeted /\ ready' = ready /\ phase = "serving"
        OBVIOUS
    <2> QED BY <1>3, <2>1, <2>2 DEF IInv, HandlerInv, AfterGreeting
<1>8. VisitInv'
    BY <1>3, <1>4, SameVisits
<1> QED BY <1>5, <1>6, <1>7, <1>8 DEF IInv

LEMMA AcceptFailsIInv == ASSUME IInv, NEW e \in Entry, AcceptFails(e) PROVE IInv'
<1> USE DEF AcceptFails, Goto, handlerVars
<1>1. PICK phase \in {"leaving"} : handler' = [handler EXCEPT ![e] = phase]
    OBVIOUS
<1>2. phase \in Phases /\ (handler[e] \in Holding <=> phase \in Holding)
    BY DEF Phases, Holding
<1>3. \A f \in Entry : handler'[f] = IF f = e THEN phase ELSE handler[f]
    BY <1>1 DEF IInv, TypeOK
<1>4. \A f \in Entry : handler[f] # "idle" => tunnel'[f] = tunnel[f]
    BY DEF IInv, TypeOK
<1>5. TableTypeOK' /\ TableOK' /\ RoutesHeldExactly'
    <2>1. table' = table /\ \A f \in Entry : handler[f] \in Holding => tunnel'[f] = tunnel[f]
        BY <1>4 DEF Holding
    <2> HIDE DEF AcceptFails, Goto, handlerVars
    <2> QED BY <1>1, <1>2, <2>1, SameRoutes
<1>6. TypeOK'
    BY <1>1, <1>2, <1>5 DEF IInv, TypeOK
<1>7. HandlerInv'
    BY <1>1, <1>3, <1>4 DEF IInv, HandlerInv, TypeOK, AfterGreeting
<1>8. VisitInv'
    BY <1>3, <1>4, SameVisits
<1> QED BY <1>5, <1>6, <1>7, <1>8 DEF IInv

LEMMA RecordDisconnectIInv == ASSUME IInv, NEW e \in Entry, RecordDisconnect(e) PROVE IInv'
<1> USE DEF RecordDisconnect, Goto, handlerVars
<1>1. PICK phase \in {"over"} : handler' = [handler EXCEPT ![e] = phase]
    OBVIOUS
<1>2. phase \in Phases /\ (handler[e] \in Holding <=> phase \in Holding)
    BY DEF Phases, Holding
<1>3. \A f \in Entry : handler'[f] = IF f = e THEN phase ELSE handler[f]
    BY <1>1 DEF IInv, TypeOK
<1>4. \A f \in Entry : handler[f] # "idle" => tunnel'[f] = tunnel[f]
    BY DEF IInv, TypeOK
<1>5. TableTypeOK' /\ TableOK' /\ RoutesHeldExactly'
    <2>1. table' = table /\ \A f \in Entry : handler[f] \in Holding => tunnel'[f] = tunnel[f]
        BY <1>4 DEF Holding
    <2> HIDE DEF RecordDisconnect, Goto, handlerVars
    <2> QED BY <1>1, <1>2, <2>1, SameRoutes
<1>6. TypeOK'
    BY <1>1, <1>2, <1>5 DEF IInv, TypeOK
<1>7. HandlerInv'
    BY <1>1, <1>3, <1>4 DEF IInv, HandlerInv, TypeOK, AfterGreeting
<1>8. VisitInv'
    BY <1>3, <1>4, SameVisits
<1> QED BY <1>5, <1>6, <1>7, <1>8 DEF IInv

(* RoutesHeldExactly after a handler registered.                           *)
LEMMA RegisterPendingIInv ==
    ASSUME IInv, NEW e \in Entry, RegisterPending(e)
    PROVE  IInv'
<1> USE DEF RegisterPending, Goto, handlerVars
<1> DEFINE h == tunnel[e].host
           p == tunnel[e].prefix
<1>0. handler[e] = "registering" /\ h \in Host /\ p \in Route
    BY DEF IInv, HandlerInv, Tunnel
<1>1. CASE Register(h, p, e) /\ handler' = [handler EXCEPT ![e] = "greeting"] /\ link' = link
    <2>1. /\ TableTypeOK' /\ TableOK'
          /\ \A g \in Host, r \in Route, f \in Entry :
                Holds(g, r, f)' <=> Holds(g, r, f) \/ (g = h /\ r = p /\ f = e)
        BY <1>0, <1>1, RegisterEffect DEF IInv, TypeOK
    <2>2. \A f \in Entry : handler'[f] = IF f = e THEN "greeting" ELSE handler[f]
        BY <1>1 DEF IInv, TypeOK
    <2>3. \A g \in Host, r \in Route : ~Holds(g, r, e)
        BY <1>0 DEF IInv, RoutesHeldExactly, Holding
    <2>4. RoutesHeldExactly'
        BY <2>1, <2>2, <2>3 DEF IInv, RoutesHeldExactly, Holding
    <2>5. TypeOK'
        BY <1>1, <2>1 DEF IInv, TypeOK, Phases, Holding
    <2>6. HandlerInv'
        BY <1>0, <1>1, <2>2 DEF IInv, HandlerInv, AfterGreeting
    <2>7. VisitInv'
        BY <2>2, SameVisits
    <2> QED BY <2>1, <2>4, <2>5, <2>6, <2>7 DEF IInv
<1>2. CASE /\ RegisterFails(h, p) /\ handler' = [handler EXCEPT ![e] = "over"]
           /\ link' = [link EXCEPT ![e] = "broken"]
    <2>1. \A f \in Entry : handler'[f] = IF f = e THEN "over" ELSE handler[f]
        BY <1>2 DEF IInv, TypeOK
    <2>2. TableTypeOK' /\ TableOK' /\ RoutesHeldExactly'
        <3>1. table' = table /\ "over" \in Phases
              /\ (handler[e] \in Holding <=> "over" \in Holding)
            BY <1>0, <1>2 DEF RegisterFails, Phases, Holding
        <3> QED BY <1>2, <3>1, SameRoutes
    <2>3. TypeOK'
        BY <1>2, <2>2 DEF IInv, TypeOK, Phases
    <2>4. HandlerInv'
        BY <1>0, <1>2, <2>1 DEF IInv, HandlerInv, AfterGreeting, TypeOK
    <2>5. VisitInv'
        BY <2>1, SameVisits
    <2> QED BY <2>2, <2>3, <2>4, <2>5 DEF IInv
<1> QED BY <1>1, <1>2

(* A handler that holds a route and unregisters takes only its own away.   *)
LEMMA UnregisterRoutes ==
    ASSUME IInv, NEW e \in Entry, handler[e] \in Holding,
           NEW phase \in Phases \ Holding,
           Unregister(tunnel[e].host, tunnel[e].prefix, e),
           handler' = [handler EXCEPT ![e] = phase], tunnel' = tunnel
    PROVE  TableTypeOK' /\ TableOK' /\ RoutesHeldExactly'
<1> DEFINE h == tunnel[e].host
           p == tunnel[e].prefix
<1>1. h \in Host /\ p \in Route
    BY DEF IInv, HandlerInv, Tunnel, Holding
<1>2. \A g \in Host, r \in Route : Holds(g, r, e) => g = h /\ r = p
    BY DEF IInv, RoutesHeldExactly
<1>3. /\ TableTypeOK' /\ TableOK'
      /\ \A g \in Host, r \in Route, f \in Entry :
            Holds(g, r, f)' <=> Holds(g, r, f) /\ ~(g = h /\ f = e)
    BY <1>1, <1>2, UnregisterEffect DEF IInv, TypeOK
<1>4. \A f \in Entry : handler'[f] = IF f = e THEN phase ELSE handler[f]
    BY DEF IInv, TypeOK
<1>5. RoutesHeldExactly'
    BY <1>2, <1>3, <1>4 DEF IInv, RoutesHeldExactly
<1> QED BY <1>3, <1>5

LEMMA GreetFailsIInv == ASSUME IInv, NEW e \in Entry, GreetFails(e) PROVE IInv'
<1> USE DEF GreetFails, Goto, handlerVars
<1>1. handler[e] \in Holding /\ "over" \in Phases \ Holding
    BY DEF Phases, Holding
<1>2. TableTypeOK' /\ TableOK' /\ RoutesHeldExactly'
    BY <1>1, UnregisterRoutes
<1>3. \A f \in Entry : handler'[f] = IF f = e THEN "over" ELSE handler[f]
    BY DEF IInv, TypeOK
<1>4. TypeOK'
    BY <1>1, <1>2 DEF IInv, TypeOK
<1>5. HandlerInv'
    BY <1>3 DEF IInv, HandlerInv, AfterGreeting
<1>6. VisitInv'
    BY <1>3, SameVisits
<1> QED BY <1>2, <1>4, <1>5, <1>6 DEF IInv

LEMMA LeaveIInv == ASSUME IInv, NEW e \in Entry, Leave(e) PROVE IInv'
<1> USE DEF Leave, Goto, handlerVars
<1>1. handler[e] \in Holding /\ "closing" \in Phases \ Holding
    BY DEF Phases, Holding
<1>2. TableTypeOK' /\ TableOK' /\ RoutesHeldExactly'
    BY <1>1, UnregisterRoutes
<1>3. \A f \in Entry : handler'[f] = IF f = e THEN "closing" ELSE handler[f]
    BY DEF IInv, TypeOK
<1>4. TypeOK'
    BY <1>1, <1>2 DEF IInv, TypeOK
<1>5. HandlerInv'
    BY <1>3 DEF IInv, HandlerInv, AfterGreeting
<1>6. VisitInv'
    BY <1>3, SameVisits
<1> QED BY <1>2, <1>4, <1>5, <1>6 DEF IInv

LEMMA LinkBreaksIInv == ASSUME IInv, NEW e \in Entry, LinkBreaks(e) PROVE IInv'
<1> USE DEF LinkBreaks, handlerVars
<1>1. TableTypeOK' /\ TableOK' /\ RoutesHeldExactly'
    BY SameTable DEF IInv, TypeOK, RoutesHeldExactly
<1>2. TypeOK'
    BY <1>1 DEF IInv, TypeOK
<1>3. \A f \in Entry : link'[f] = IF f = e THEN "broken" ELSE link[f]
    BY DEF IInv, TypeOK
<1>4. HandlerInv'
    BY <1>3 DEF IInv, HandlerInv
<1>5. VisitInv'
    BY SameVisits
<1> QED BY <1>1, <1>2, <1>4, <1>5 DEF IInv

-----------------------------------------------------------------------------
(* The requests                                                            *)

(* A step of one request leaves the tunnels alone.                         *)
LEMMA RequestKeepsTunnels ==
    ASSUME IInv, UnchangedTunnels, visit' \in [Visit -> Request \cup {NoVisit}]
    PROVE  TypeOK' /\ TableOK' /\ RoutesHeldExactly' /\ HandlerInv'
<1> USE DEF UnchangedTunnels, handlerVars
<1>1. TableTypeOK' /\ TableOK' /\ \A h, p, e : Holds(h, p, e)' <=> Holds(h, p, e)
    BY SameTable DEF IInv, TypeOK
<1>2. TypeOK'
    BY <1>1 DEF IInv, TypeOK
<1>3. RoutesHeldExactly'
    BY <1>1 DEF IInv, RoutesHeldExactly
<1>4. HandlerInv'
    BY DEF IInv, HandlerInv
<1> QED BY <1>1, <1>2, <1>3, <1>4

(* A request that moves keeps what it asks and whom it resolved to.        *)
LEMMA MoveKeeps ==
    ASSUME IInv, NEW v \in Visit, visit[v] # NoVisit,
           NEW phase \in {"dialing", "waiting", "opening", "streaming", "over"},
           MoveTo(v, phase)
    PROVE  /\ visit' \in [Visit -> Request \cup {NoVisit}]
           /\ visit'[v].phase = phase
           /\ visit'[v].host = visit[v].host
           /\ visit'[v].path = visit[v].path
           /\ visit'[v].presents = visit[v].presents
           /\ visit'[v].entry = visit[v].entry
           /\ \A w \in Visit : w # v => visit'[w] = visit[w]
<1>1. visit \in [Visit -> Request \cup {NoVisit}] /\ visit[v] \in Request
    BY DEF IInv, TypeOK
<1>2. visit' = [visit EXCEPT ![v] = [visit[v] EXCEPT !.phase = phase]]
    BY DEF MoveTo
<1>3. [visit[v] EXCEPT !.phase = phase] \in Request
    BY <1>1 DEF Request
<1>4. visit'[v] = [visit[v] EXCEPT !.phase = phase]
    BY <1>1, <1>2
<1> QED BY <1>1, <1>2, <1>3, <1>4 DEF Request

LEMMA RequestStepIInv ==
    ASSUME IInv, NEW v \in Visit, RequestStep(v) \/ EndStream(v)
    PROVE  IInv'
<1> DEFINE e == visit[v].entry
           Moved == \E phase \in {"dialing", "waiting", "opening", "streaming", "over"} :
                       /\ MoveTo(v, phase)
                       /\ phase # "over" =>
                             /\ visit[v].phase # "over"
                             /\ Admits(tunnel[e], visit[v].presents)
                             /\ phase \in {"opening", "streaming"} => e \in greeted
<1>1. visit[v] # NoVisit /\ UnchangedTunnels
    BY DEF RequestStep, PassGate, AwaitReady, OpenStream, EndStream
<1>2. visit[v].phase \notin {"over"} => ~Settled(v)
    BY <1>1 DEF Settled
<1>3. Moved
    <2>1. CASE PassGate(v)
        <3>1. visit[v].phase = "gate"
            BY <2>1 DEF PassGate
        <3>2. CASE Admits(tunnel[e], visit[v].presents)
            BY <2>1, <3>1, <3>2 DEF PassGate
        <3>3. CASE ~Admits(tunnel[e], visit[v].presents)
            BY <2>1, <3>3 DEF PassGate
        <3> QED BY <3>2, <3>3
    <2>2. CASE AwaitReady(v)
        <3>1. visit[v].phase \in {"dialing", "waiting"}
            BY <2>2 DEF AwaitReady
        <3>2. e \in Entry /\ Admits(tunnel[e], visit[v].presents)
            BY <1>2, <3>1 DEF IInv, VisitInv
        <3>3. ready[e] => e \in greeted
            BY <3>2 DEF IInv, HandlerInv
        <3>4. CASE ready[e] /\ MoveTo(v, "opening")
            BY <3>1, <3>2, <3>3, <3>4
        <3>5. CASE MoveTo(v, "waiting")
            BY <3>1, <3>2, <3>5
        <3>6. CASE MoveTo(v, "over")
            BY <3>6
        <3> QED BY <2>2, <3>4, <3>5, <3>6 DEF AwaitReady
    <2>3. CASE OpenStream(v)
        <3>1. visit[v].phase = "opening"
            BY <2>3 DEF OpenStream
        <3>2. e \in greeted /\ Admits(tunnel[e], visit[v].presents)
            BY <1>2, <3>1 DEF IInv, VisitInv
        <3>3. CASE link[e] = "open"
            BY <2>3, <3>1, <3>2, <3>3 DEF OpenStream
        <3>4. CASE link[e] # "open"
            BY <2>3, <3>4 DEF OpenStream
        <3> QED BY <3>3, <3>4
    <2>4. CASE EndStream(v)
        BY <2>4 DEF EndStream
    <2> QED BY <2>1, <2>2, <2>3, <2>4 DEF RequestStep
<1>4. PICK phase \in {"dialing", "waiting", "opening", "streaming", "over"} :
          /\ MoveTo(v, phase)
          /\ phase # "over" =>
                /\ visit[v].phase # "over"
                /\ Admits(tunnel[e], visit[v].presents)
                /\ phase \in {"opening", "streaming"} => e \in greeted
    BY <1>3
<1>5. /\ visit' \in [Visit -> Request \cup {NoVisit}]
      /\ visit'[v].phase = phase
      /\ visit'[v].host = visit[v].host
      /\ visit'[v].path = visit[v].path
      /\ visit'[v].presents = visit[v].presents
      /\ visit'[v].entry = visit[v].entry
      /\ \A w \in Visit : w # v => visit'[w] = visit[w]
    BY <1>1, <1>4, MoveKeeps
<1>6. VisitInv'
    <2> SUFFICES ASSUME NEW w \in Visit, ~Settled(w)'
                 PROVE  /\ visit'[w].entry \in Entry /\ handler'[visit'[w].entry] # "idle"
                        /\ tunnel'[visit'[w].entry].host = visit'[w].host
                        /\ \/ tunnel'[visit'[w].entry].prefix = Root
                           \/ tunnel'[visit'[w].entry].prefix \in Under[visit'[w].path]
                        /\ visit'[w].phase # "gate" =>
                              Admits(tunnel'[visit'[w].entry], visit'[w].presents)
                        /\ visit'[w].phase \in {"opening", "streaming"}
                              => visit'[w].entry \in greeted'
        BY DEF VisitInv
    <2>1. tunnel' = tunnel /\ handler' = handler /\ greeted' = greeted
        BY <1>1 DEF UnchangedTunnels, handlerVars
    <2>2. CASE w = v
        <3>1. phase # "over"
            BY <1>5, <2>2 DEF Settled
        <3>2. ~Settled(v)
            BY <1>1, <1>4, <3>1 DEF Settled
        <3>3. /\ e \in Entry /\ handler[e] # "idle"
              /\ tunnel[e].host = visit[v].host
              /\ tunnel[e].prefix = Root \/ tunnel[e].prefix \in Under[visit[v].path]
            BY <3>2 DEF IInv, VisitInv
        <3> QED BY <1>4, <1>5, <2>1, <2>2, <3>1, <3>3
    <2>3. CASE w # v
        <3>1. visit'[w] = visit[w] /\ ~Settled(w)
            BY <1>5, <2>3 DEF Settled
        <3> QED BY <2>1, <3>1 DEF IInv, VisitInv
    <2> QED BY <2>2, <2>3
<1>7. TypeOK' /\ TableOK' /\ RoutesHeldExactly' /\ HandlerInv'
    BY <1>1, <1>5, RequestKeepsTunnels
<1> QED BY <1>6, <1>7 DEF IInv

LEMMA ResolveRequestIInv ==
    ASSUME IInv, NEW v \in Visit, ResolveRequest(v)
    PROVE  IInv'
<1>1. PICK h \in Host, q \in Path, C \in Presented :
          visit' = [visit EXCEPT ![v] =
              [phase |-> IF Resolve(h, q) = NoEntry THEN "over" ELSE "gate",
               host |-> h, path |-> q, presents |-> C, entry |-> Resolve(h, q)]]
    BY DEF ResolveRequest
<1> DEFINE e == Resolve(h, q)
           new == [phase |-> IF e = NoEntry THEN "over" ELSE "gate",
                   host |-> h, path |-> q, presents |-> C, entry |-> e]
<1>2. e \in Entry \cup {NoEntry}
      /\ (e # NoEntry => /\ handler[e] \in Holding /\ tunnel[e].host = h
                         /\ tunnel[e].prefix = Root \/ tunnel[e].prefix \in Under[q])
    <2>1. Under[q] \subseteq Route /\ Root \in Route
        BY RouteAssumption DEF Route
    <2>2. CASE Holds(h, Root, e) /\ e \in Entry \cup {NoEntry}
        BY <2>1, <2>2 DEF IInv, RoutesHeldExactly
    <2>3. CASE \E p \in Under[q] : Holds(h, p, e) /\ e \in Entry
        BY <2>1, <2>3 DEF IInv, RoutesHeldExactly
    <2> QED BY <2>2, <2>3, ResolveEffect DEF IInv, TypeOK
<1>3. new \in Request
    BY <1>2, RelayAssumption DEF Request
<1>4. visit' \in [Visit -> Request \cup {NoVisit}]
    BY <1>1, <1>3 DEF IInv, TypeOK
<1>5. \A w \in Visit : visit'[w] = IF w = v THEN new ELSE visit[w]
    BY <1>1 DEF IInv, TypeOK
<1>6. UnchangedTunnels
    BY DEF ResolveRequest
<1>7. VisitInv'
    <2> SUFFICES ASSUME NEW w \in Visit, ~Settled(w)'
                 PROVE  /\ visit'[w].entry \in Entry /\ handler'[visit'[w].entry] # "idle"
                        /\ tunnel'[visit'[w].entry].host = visit'[w].host
                        /\ \/ tunnel'[visit'[w].entry].prefix = Root
                           \/ tunnel'[visit'[w].entry].prefix \in Under[visit'[w].path]
                        /\ visit'[w].phase # "gate" =>
                              Admits(tunnel'[visit'[w].entry], visit'[w].presents)
                        /\ visit'[w].phase \in {"opening", "streaming"}
                              => visit'[w].entry \in greeted'
        BY DEF VisitInv
    <2>1. tunnel' = tunnel /\ handler' = handler /\ greeted' = greeted
        BY <1>6 DEF UnchangedTunnels, handlerVars
    <2>2. CASE w = v
        <3>1. e # NoEntry /\ visit'[w] = new
            BY <1>5, <2>2 DEF Settled
        <3>2. "idle" \notin Holding
            BY DEF Holding
        <3> QED BY <1>2, <2>1, <3>1, <3>2
    <2>3. CASE w # v
        <3>1. visit'[w] = visit[w] /\ ~Settled(w)
            BY <1>5, <2>3 DEF Settled
        <3> QED BY <2>1, <3>1 DEF IInv, VisitInv
    <2> QED BY <2>2, <2>3
<1> QED BY <1>4, <1>6, <1>7, RequestKeepsTunnels DEF IInv

-----------------------------------------------------------------------------
(* The process                                                             *)

LEMMA CrashIInv == ASSUME IInv, Crash PROVE IInv'
<1> USE DEF Crash, handlerVars
<1>1. table' = [h \in {} |-> EmptyTable]
    OBVIOUS
<1>2. /\ TableTypeOK' /\ TableOK'
      /\ \A h \in Host, p \in Route, e \in Entry : ~Holds(h, p, e)'
    BY <1>1, EmptyHolds, RouteAssumption DEF TableTypeOK, TableOK, Holds, TableAt, EmptyTable, Range
<1>3. \A e \in Entry : handler'[e] = IF handler[e] = "idle" THEN "idle" ELSE "over"
    OBVIOUS
<1>4. \A e \in Entry : link'[e] = IF link[e] = "none" THEN "none" ELSE "broken"
    OBVIOUS
<1>5. \A v \in Visit : Settled(v)'
    <2>1. \A v \in Visit : visit[v] # NoVisit => visit[v] \in Request
        BY DEF IInv, TypeOK
    <2>2. \A r \in Request : [r EXCEPT !.phase = "over"].phase = "over"
        BY DEF Request
    <2>3. \A v \in Visit : visit'[v] = IF visit[v] = NoVisit THEN NoVisit
                                       ELSE [visit[v] EXCEPT !.phase = "over"]
        OBVIOUS
    <2> QED BY <2>1, <2>2, <2>3 DEF Settled
<1>6. TypeOK'
    <2>1. \A r \in Request : [r EXCEPT !.phase = "over"] \in Request
        BY DEF Request
    <2>2. visit' \in [Visit -> Request \cup {NoVisit}]
        BY <2>1 DEF IInv, TypeOK
    <2>3. handler' \in [Entry -> Phases]
        BY DEF Phases
    <2>4. link' \in [Entry -> {"none", "open", "broken"}]
        OBVIOUS
    <2>5. crashes' \in 0..MaxCrashes
        BY RelayAssumption DEF IInv, TypeOK
    <2> QED BY <1>2, <2>2, <2>3, <2>4, <2>5 DEF IInv, TypeOK
<1>7. RoutesHeldExactly'
    BY <1>2, <1>3 DEF RoutesHeldExactly, Holding
<1>8. HandlerInv'
    <2>1. \A e \in Entry : e \in greeted => link[e] # "none"
        BY DEF IInv, HandlerInv
    <2> QED BY <1>3, <1>4, <2>1 DEF IInv, HandlerInv, AfterGreeting
<1>9. VisitInv'
    BY <1>5 DEF VisitInv
<1> QED BY <1>2, <1>6, <1>7, <1>8, <1>9 DEF IInv

LEMMA RestartIInv == ASSUME IInv, Restart PROVE IInv'
<1>1. TableTypeOK' /\ TableOK' /\ \A h, p, e : Holds(h, p, e)' <=> Holds(h, p, e)
    BY SameTable DEF Restart, IInv, TypeOK
<1>2. TypeOK'
    BY <1>1 DEF Restart, handlerVars, IInv, TypeOK
<1>3. RoutesHeldExactly' /\ HandlerInv' /\ VisitInv'
    BY <1>1 DEF Restart, handlerVars, IInv, RoutesHeldExactly, HandlerInv, VisitInv, Settled
<1> QED BY <1>1, <1>2, <1>3 DEF IInv

LEMMA StutterIInv == ASSUME IInv, UNCHANGED vars PROVE IInv'
<1>1. TableTypeOK' /\ TableOK' /\ \A h, p, e : Holds(h, p, e)' <=> Holds(h, p, e)
    BY SameTable DEF vars, IInv, TypeOK
<1>2. TypeOK'
    BY <1>1 DEF vars, IInv, TypeOK
<1>3. RoutesHeldExactly' /\ HandlerInv' /\ VisitInv'
    BY <1>1 DEF vars, IInv, RoutesHeldExactly, HandlerInv, VisitInv, Settled
<1> QED BY <1>1, <1>2, <1>3 DEF IInv

LEMMA NextIInv == IInv /\ [Next]_vars => IInv'
<1> SUFFICES ASSUME IInv, [Next]_vars PROVE IInv'
    OBVIOUS
<1>1. ASSUME NEW e \in Entry, Arrive(e) \/ HandlerStep(e) \/ LinkBreaks(e)
      PROVE  IInv'
    BY <1>1, ArriveIInv, CheckIInv, UpgradeIInv, RegisterPendingIInv, GreetIInv,
       GreetFailsIInv, MarkReadyIInv, RecordConnectIInv, AcceptFailsIInv, LeaveIInv,
       RecordDisconnectIInv, LinkBreaksIInv DEF HandlerStep
<1>2. ASSUME NEW v \in Visit, ResolveRequest(v) \/ RequestStep(v) \/ EndStream(v)
      PROVE  IInv'
    BY <1>2, ResolveRequestIInv, RequestStepIInv
<1> QED BY <1>1, <1>2, CrashIInv, RestartIInv, StutterIInv DEF Next

-----------------------------------------------------------------------------
(* The theorems                                                            *)

(* The inductive invariant holds in every reachable state.                 *)
THEOREM RelayInvariant == Spec => []IInv
BY InitIInv, NextIInv, PTL DEF Spec

(* The state is well typed.                                                *)
THEOREM RelayTypeOK == Spec => []TypeOK
<1>1. IInv => TypeOK
    BY DEF IInv
<1> QED BY RelayInvariant, <1>1, PTL

(* The table holds exactly the routes of the handlers between Register and *)
(* Unregister: no two tunnels share a route, none is lost and none is left *)
(* behind, whatever the interleaving of upgrades, drops and crashes.       *)
THEOREM RelayRoutesHeldExactly == Spec => []RoutesHeldExactly
<1>1. IInv => RoutesHeldExactly
    BY DEF IInv
<1> QED BY RelayInvariant, <1>1, PTL

(* A CLI that was greeted and is still connected has its route.            *)
THEOREM RelayGreetedIsRouted == Spec => []GreetedIsRouted
<1>1. IInv => GreetedIsRouted
    <2> SUFFICES ASSUME IInv, NEW e \in greeted, link[e] = "open"
                 PROVE  HasRoute(e)
        BY DEF GreetedIsRouted
    <2>1. e \in Entry /\ handler[e] \in Holding /\ tunnel[e] \in Tunnel
        BY DEF IInv, TypeOK, HandlerInv, AfterGreeting, Holding
    <2>2. tunnel[e].host \in Host /\ tunnel[e].prefix \in Route
        BY <2>1 DEF Tunnel
    <2> QED BY <2>1, <2>2 DEF IInv, RoutesHeldExactly, HasRoute
<1> QED BY RelayInvariant, <1>1, PTL

(* No stream is opened to a CLI before its greeting.                       *)
THEOREM RelayNoStreamBeforeGreeting == Spec => []NoStreamBeforeGreeting
<1>1. IInv => NoStreamBeforeGreeting
    BY DEF IInv, VisitInv, Settled, NoStreamBeforeGreeting, Streaming
<1> QED BY RelayInvariant, <1>1, PTL

(* A request streams only to a tunnel of its host and path whose gate it   *)
(* passed.                                                                 *)
THEOREM RelayOnlyThroughItsGate == Spec => []OnlyThroughItsGate
<1>1. IInv => OnlyThroughItsGate
    BY DEF IInv, VisitInv, Settled, OnlyThroughItsGate, Streaming
<1> QED BY RelayInvariant, <1>1, PTL

(* A step that takes the route of a greeted tunnel away is its own         *)
(* clean-up after its session broke, or a crash.                           *)
LEMMA RouteLoss ==
    ASSUME IInv, [Next]_vars, NEW e \in Entry,
           handler[e] \in Holding, handler'[e] \notin Holding
    PROVE  ~up' \/ link[e] = "broken"
<1> SUFFICES ASSUME up' PROVE link[e] = "broken"
    BY DEF IInv, TypeOK
<1>1. ASSUME NEW f \in Entry, NEW phase, handler' = [handler EXCEPT ![f] = phase]
      PROVE  f = e /\ phase \notin Holding
    BY <1>1 DEF IInv, TypeOK
<1>2. ASSUME NEW f \in Entry, Arrive(f) \/ HandlerStep(f) \/ LinkBreaks(f)
      PROVE  link[e] = "broken"
    <2>1. CASE Arrive(f)
        BY <1>1, <2>1 DEF Arrive, Goto, Holding
    <2>2. CASE Check(f) \/ Upgrade(f) \/ RegisterPending(f)
        <3>1. f = e
            BY <1>1, <2>2 DEF Check, Upgrade, RegisterPending, Goto
        <3> QED BY <2>2, <3>1 DEF Check, Upgrade, RegisterPending, Holding
    <2>3. CASE Greet(f) \/ MarkReady(f) \/ RecordConnect(f) \/ AcceptFails(f)
        BY <1>1, <2>3 DEF Greet, MarkReady, RecordConnect, AcceptFails, Goto, Holding
    <2>4. CASE GreetFails(f)
        BY <1>1, <2>4 DEF GreetFails, Goto
    <2>5. CASE Leave(f)
        <3>1. f = e /\ handler[e] = "leaving"
            BY <1>1, <2>5 DEF Leave, Goto
        <3> QED BY <3>1 DEF IInv, HandlerInv
    <2>6. CASE RecordDisconnect(f)
        <3>1. f = e /\ handler[e] = "closing"
            BY <1>1, <2>6 DEF RecordDisconnect, Goto
        <3> QED BY <3>1 DEF Holding
    <2>7. CASE LinkBreaks(f)
        BY <2>7 DEF LinkBreaks
    <2> QED BY <1>2, <2>1, <2>2, <2>3, <2>4, <2>5, <2>6, <2>7 DEF HandlerStep
<1>3. ASSUME NEW v \in Visit, ResolveRequest(v) \/ RequestStep(v) \/ EndStream(v)
      PROVE  FALSE
    BY <1>3 DEF ResolveRequest, RequestStep, PassGate, AwaitReady, OpenStream,
                EndStream, UnchangedTunnels
<1>4. CASE Crash
    BY <1>4 DEF Crash
<1>5. CASE Restart \/ UNCHANGED vars
    BY <1>5 DEF Restart, vars
<1> QED BY <1>2, <1>3, <1>4, <1>5 DEF Next

(* Once asked for, a tunnel's route does not change.                       *)
LEMMA TunnelStays ==
    ASSUME IInv, [Next]_vars, NEW e \in Entry, handler[e] # "idle"
    PROVE  tunnel'[e] = tunnel[e]
<1>1. ASSUME NEW f \in Entry, Arrive(f)
      PROVE  tunnel'[e] = tunnel[e]
    BY <1>1 DEF Arrive, IInv, TypeOK
<1>2. ASSUME NEW f \in Entry, HandlerStep(f) \/ LinkBreaks(f)
      PROVE  tunnel' = tunnel
    BY <1>2 DEF HandlerStep, LinkBreaks, Check, Upgrade, RegisterPending, Greet,
                GreetFails, MarkReady, RecordConnect, AcceptFails, Leave,
                RecordDisconnect, handlerVars
<1>3. ASSUME NEW v \in Visit, ResolveRequest(v) \/ RequestStep(v) \/ EndStream(v)
      PROVE  tunnel' = tunnel
    BY <1>3 DEF ResolveRequest, RequestStep, PassGate, AwaitReady, OpenStream,
                EndStream, UnchangedTunnels, handlerVars
<1>4. CASE Crash \/ Restart \/ UNCHANGED vars
    BY <1>4 DEF Crash, Restart, vars, handlerVars
<1> QED BY <1>1, <1>2, <1>3, <1>4 DEF Next

(* A live tunnel keeps its route.                                          *)
THEOREM RelayLiveRouteStays == Spec => LiveRouteStays
<1> DEFINE Kept == \A e \in Entry :
                      e \in greeted /\ HasRoute(e) /\ ~HasRoute(e)'
                          => link[e] = "broken" \/ ~up'
<1>1. IInv /\ IInv' /\ [Next]_vars => Kept
    <2> SUFFICES ASSUME IInv, IInv', [Next]_vars, NEW e \in Entry,
                        e \in greeted, HasRoute(e), ~HasRoute(e)'
                 PROVE  link[e] = "broken" \/ ~up'
        OBVIOUS
    <2>1. handler[e] \in AfterGreeting /\ tunnel[e] \in Tunnel
        BY DEF IInv, HandlerInv, AfterGreeting
    <2>2. tunnel[e].host \in Host /\ tunnel[e].prefix \in Route
        BY <2>1 DEF Tunnel
    <2>3. handler[e] \in Holding
        BY <2>2 DEF HasRoute, IInv, RoutesHeldExactly
    <2>4. tunnel'[e] = tunnel[e]
        BY <2>3, TunnelStays DEF Holding
    <2>5. handler'[e] \notin Holding
        BY <2>2, <2>4 DEF HasRoute, IInv, RoutesHeldExactly
    <2> QED BY <2>3, <2>5, RouteLoss
<1> QED BY RelayInvariant, <1>1, PTL DEF Spec, LiveRouteStays

(* The only step that closes a row is the last one of its handler.         *)
LEMMA RowSteps ==
    ASSUME IInv, [Next]_vars, NEW e \in Entry, event'[e] # event[e]
    PROVE  \/ handler[e] = "ready" /\ event'[e] # "closed"
           \/ handler[e] = "closing" /\ event'[e] = "closed"
<1>1. ASSUME NEW f \in Entry, RecordConnect(f)
      PROVE  handler[e] = "ready" /\ event'[e] # "closed"
    <2>1. PICK row \in {"open", "none"} : event' = [event EXCEPT ![f] = row]
        BY <1>1 DEF RecordConnect
    <2>2. event \in [Entry -> {"none", "open", "closed"}]
        BY DEF IInv, TypeOK
    <2>3. f = e /\ event'[e] = row
        BY <2>1, <2>2
    <2> QED BY <1>1, <2>3 DEF RecordConnect
<1>2. ASSUME NEW f \in Entry, RecordDisconnect(f)
      PROVE  handler[e] = "closing" /\ event'[e] = "closed"
    BY <1>2 DEF RecordDisconnect, IInv, TypeOK
<1>3. ASSUME NEW f \in Entry, Arrive(f) \/ LinkBreaks(f) \/ Check(f) \/ Upgrade(f)
                 \/ RegisterPending(f) \/ Greet(f) \/ GreetFails(f) \/ MarkReady(f)
                 \/ AcceptFails(f) \/ Leave(f)
      PROVE  event' = event
    BY <1>3 DEF Arrive, LinkBreaks, Check, Upgrade, RegisterPending, Greet,
                GreetFails, MarkReady, AcceptFails, Leave, handlerVars
<1>4. ASSUME NEW v \in Visit, ResolveRequest(v) \/ RequestStep(v) \/ EndStream(v)
      PROVE  event' = event
    BY <1>4 DEF ResolveRequest, RequestStep, PassGate, AwaitReady, OpenStream,
                EndStream, UnchangedTunnels, handlerVars
<1>5. CASE Crash \/ Restart \/ UNCHANGED vars
    BY <1>5 DEF Crash, Restart, vars, handlerVars
<1> QED BY <1>1, <1>2, <1>3, <1>4, <1>5 DEF Next, HandlerStep

(* A handler outside Holding has no route.                                 *)
LEMMA NoRouteOutsideHolding ==
    ASSUME IInv, NEW e \in Entry, handler[e] \notin Holding, handler[e] # "idle"
    PROVE  ~HasRoute(e)
BY DEF IInv, HandlerInv, Tunnel, RoutesHeldExactly, HasRoute

(* A row of the history is closed after the tunnel's route is gone, for    *)
(* good.                                                                   *)
THEOREM RelayRowClosesAfterRoute == Spec => RowClosesAfterRoute
<1> DEFINE Bracketed == \A e \in Entry :
               /\ event[e] # "closed" /\ event'[e] = "closed" => ~HasRoute(e)
               /\ event[e] = "closed" => event'[e] = "closed" /\ ~HasRoute(e)'
<1>1. IInv /\ IInv' /\ [Next]_vars => Bracketed
    <2> SUFFICES ASSUME IInv, IInv', [Next]_vars, NEW e \in Entry
                 PROVE  /\ event[e] # "closed" /\ event'[e] = "closed" => ~HasRoute(e)
                        /\ event[e] = "closed" => event'[e] = "closed" /\ ~HasRoute(e)'
        OBVIOUS
    <2>1. ASSUME event[e] # "closed", event'[e] = "closed"
          PROVE  ~HasRoute(e)
        <3>1. handler[e] = "closing"
            BY <2>1, RowSteps
        <3> QED BY <3>1, NoRouteOutsideHolding DEF Holding
    <2>2. ASSUME event[e] = "closed"
          PROVE  event'[e] = "closed" /\ ~HasRoute(e)'
        <3>1. handler[e] = "over"
            BY <2>2 DEF IInv, HandlerInv
        <3>2. event'[e] = "closed"
            BY <2>2, <3>1, RowSteps
        <3>3. handler'[e] = "over" /\ tunnel'[e] \in Tunnel
            BY <3>2 DEF IInv, HandlerInv
        <3> QED BY <3>2, <3>3 DEF IInv, Tunnel, RoutesHeldExactly, HasRoute, Holding
    <2> QED BY <2>1, <2>2
<1> QED BY RelayInvariant, <1>1, PTL DEF Spec, RowClosesAfterRoute

LEMMA InitDirectory == Init => Directory!Init
<1> SUFFICES ASSUME Init PROVE Directory!Init
    OBVIOUS
<1>1. \A h \in Host, p \in Route, e \in Entry : ~Holds(h, p, e)
    BY EmptyHolds DEF Init
<1>2. \A h \in Host, p \in Route : OwnerOf(h, p) = NoEntry
    BY <1>1 DEF OwnerOf
<1> QED BY <1>2 DEF Directory!Init, Directory!Routes, Owners, Route

LEMMA StepDirectory == IInv /\ [Next]_vars => [Directory!Next]_Owners
<1> SUFFICES ASSUME IInv, [Next]_vars
             PROVE  [Directory!Next]_Owners
    OBVIOUS
<1>0. Directory!Routes = Host \X Route
    BY DEF Directory!Routes, Route
<1>1. ASSUME table' = table
      PROVE  Owners' = Owners
    BY <1>1 DEF Owners, OwnerOf, Holds, TableAt
<1>2. ASSUME NEW e \in Entry, RegisterPending(e)
      PROVE  [Directory!Next]_Owners
    <2> DEFINE h == tunnel[e].host
               p == tunnel[e].prefix
    <2>1. handler[e] = "registering" /\ h \in Host /\ p \in Route
        BY <1>2 DEF RegisterPending, IInv, HandlerInv, Tunnel
    <2>2. CASE Register(h, p, e)
        <3>1. \A g \in Host, r \in Route : ~Holds(g, r, e)
            BY <2>1 DEF IInv, RoutesHeldExactly, Holding
        <3>2. Directory!Claim(<<h, p>>, e)
            BY <2>1, <2>2, <3>1, RegisterClaims DEF IInv, TypeOK
        <3>3. <<h, p>> \in Directory!Routes
            BY <1>0, <2>1
        <3> QED BY <3>2, <3>3 DEF Directory!Next
    <2>3. CASE RegisterFails(h, p)
        BY <1>1, <2>3 DEF RegisterFails
    <2> QED BY <1>2, <2>2, <2>3 DEF RegisterPending
<1>3. ASSUME NEW e \in Entry, GreetFails(e) \/ Leave(e)
      PROVE  [Directory!Next]_Owners
    <2> DEFINE h == tunnel[e].host
               p == tunnel[e].prefix
    <2>1. handler[e] \in Holding /\ Unregister(h, p, e)
        BY <1>3 DEF GreetFails, Leave, Holding
    <2>2. h \in Host /\ p \in Route
        BY <2>1 DEF IInv, HandlerInv, Tunnel, Holding
    <2>3. Holds(h, p, e)
          /\ \A g \in Host, r \in Route : Holds(g, r, e) => g = h /\ r = p
        BY <2>1, <2>2 DEF IInv, RoutesHeldExactly
    <2>4. Directory!Release(<<h, p>>, e)
        BY <2>1, <2>2, <2>3, UnregisterReleases DEF IInv, TypeOK
    <2>5. <<h, p>> \in Directory!Routes
        BY <1>0, <2>2
    <2> QED BY <2>4, <2>5 DEF Directory!Next
<1>4. ASSUME NEW e \in Entry, Arrive(e) \/ LinkBreaks(e) \/ Check(e) \/ Upgrade(e)
                 \/ Greet(e) \/ MarkReady(e) \/ RecordConnect(e) \/ AcceptFails(e)
                 \/ RecordDisconnect(e)
      PROVE  table' = table
    BY <1>4 DEF Arrive, LinkBreaks, Check, Upgrade, Greet, MarkReady,
                RecordConnect, AcceptFails, RecordDisconnect
<1>5. ASSUME NEW v \in Visit, ResolveRequest(v) \/ RequestStep(v) \/ EndStream(v)
      PROVE  table' = table
    BY <1>5 DEF ResolveRequest, RequestStep, PassGate, AwaitReady, OpenStream,
                EndStream, UnchangedTunnels
<1>6. CASE Crash
    <2>1. \A h \in Host, p \in Route, e \in Entry : ~Holds(h, p, e)'
        BY <1>6, RouteAssumption DEF Crash, Holds, TableAt, EmptyTable, Range
    <2>2. \A h \in Host, p \in Route : OwnerOf(h, p)' = NoEntry
        BY <2>1 DEF OwnerOf
    <2>3. Directory!ReleaseAll
        BY <1>0, <2>2 DEF Directory!ReleaseAll, Owners
    <2> QED BY <2>3 DEF Directory!Next
<1>7. CASE Restart \/ UNCHANGED vars
    BY <1>1, <1>7 DEF Restart, vars
<1> QED BY <1>1, <1>2, <1>3, <1>4, <1>5, <1>6, <1>7 DEF Next, HandlerStep

(* The relay, with its handlers interleaved and its crashes, implements    *)
(* the directory of owners.                                                *)
THEOREM RelayImplementsDirectory == Spec => ImplementsDirectory
BY RelayInvariant, InitDirectory, StepDirectory, PTL
   DEF Spec, ImplementsDirectory, Directory!Spec
-----------------------------------------------------------------------------
(* What happens in the end.  The prover does not look into ENABLED: that a *)
(* step can be taken where the code goes on by itself is a hypothesis of   *)
(* the theorems below.  It holds by the form of these steps, which choose  *)
(* the new values of the variables and ask nothing else of them.           *)

VisitAt(v, phase) == visit[v] # NoVisit /\ visit[v].phase = phase
Answered(v) == visit[v] # NoVisit /\ visit[v].phase \in {"streaming", "over"}
Asking(v) ==
    visit[v] # NoVisit /\ visit[v].phase \in {"gate", "dialing", "waiting", "opening"}
RequestsCanStep == \A v \in Visit : Asking(v) => ENABLED <<RequestStep(v)>>_vars

(* A request is left alone by every step but its own and a crash.          *)
LEMMA VisitMoves ==
    ASSUME IInv, [Next]_vars, NEW v \in Visit, Asking(v)
    PROVE  visit'[v] = visit[v] \/ RequestStep(v) \/ Answered(v)'
<1>1. visit \in [Visit -> Request \cup {NoVisit}]
    BY DEF IInv, TypeOK
<1>2. ASSUME NEW e \in Entry, Arrive(e) \/ HandlerStep(e) \/ LinkBreaks(e)
      PROVE  visit' = visit
    BY <1>2 DEF Arrive, HandlerStep, LinkBreaks, Check, Upgrade, RegisterPending, Greet,
                GreetFails, MarkReady, RecordConnect, AcceptFails, Leave,
                RecordDisconnect
<1>3. ASSUME NEW w \in Visit, w # v,
             ResolveRequest(w) \/ RequestStep(w) \/ EndStream(w)
      PROVE  visit'[v] = visit[v]
    BY <1>1, <1>3 DEF ResolveRequest, RequestStep, PassGate, AwaitReady, OpenStream,
                      EndStream, MoveTo
<1>4. ~ResolveRequest(v) /\ ~EndStream(v)
    BY DEF ResolveRequest, EndStream, Asking
<1>5. CASE Crash
    <2>1. visit'[v] = [visit[v] EXCEPT !.phase = "over"]
        BY <1>5 DEF Crash, Asking
    <2>2. visit[v] \in Request
        BY <1>1 DEF Asking
    <2>3. visit'[v] \in Request /\ visit'[v].phase = "over"
        BY <2>1, <2>2 DEF Request
    <2> QED BY <2>3, VisitAssumption DEF Answered
<1>6. CASE Restart \/ UNCHANGED vars
    BY <1>6 DEF Restart, vars
<1> QED BY <1>2, <1>3, <1>4, <1>5, <1>6 DEF Next

(* Its own steps take it from the gate to the dial, past the wait for the  *)
(* greeting, and to an answer or a stream.                                 *)
LEMMA RequestAdvances ==
    ASSUME IInv, NEW v \in Visit, RequestStep(v)
    PROVE  /\ VisitAt(v, "gate") => VisitAt(v, "dialing")' \/ Answered(v)'
           /\ VisitAt(v, "dialing") => VisitAt(v, "waiting")' \/ VisitAt(v, "opening")'
           /\ VisitAt(v, "waiting") => VisitAt(v, "opening")' \/ Answered(v)'
           /\ VisitAt(v, "opening") => Answered(v)'
<1>1. visit[v] # NoVisit
    BY DEF RequestStep, PassGate, AwaitReady, OpenStream
<1>2. ASSUME NEW phase \in {"dialing", "waiting", "opening", "streaming", "over"},
             MoveTo(v, phase)
      PROVE  visit'[v] # NoVisit /\ visit'[v].phase = phase
    <2>1. visit'[v].phase = phase /\ visit' \in [Visit -> Request \cup {NoVisit}]
        BY <1>1, <1>2, MoveKeeps
    <2>2. visit[v] \in Request /\ visit'[v] = [visit[v] EXCEPT !.phase = phase]
        BY <1>1, <1>2 DEF MoveTo, IInv, TypeOK
    <2>3. visit'[v] \in Request
        BY <2>2 DEF Request
    <2> QED BY <2>1, <2>3, VisitAssumption
<1>3. CASE PassGate(v)
    BY <1>2, <1>3 DEF PassGate, VisitAt, Answered
<1>4. CASE AwaitReady(v)
    BY <1>2, <1>4 DEF AwaitReady, VisitAt, Answered
<1>5. CASE OpenStream(v)
    BY <1>2, <1>5 DEF OpenStream, VisitAt, Answered
<1> QED BY <1>3, <1>4, <1>5 DEF RequestStep

(* Every request is answered or streams in the end, also one that waits    *)
(* for a greeting that never comes.                                        *)
THEOREM RelayRequestsSettle == FairSpec /\ []RequestsCanStep => RequestsSettle
<1>1. ASSUME NEW v \in Visit
      PROVE  FairSpec /\ []RequestsCanStep => ((visit[v] # NoVisit) ~> Answered(v))
    <2>1. FairSpec => Spec /\ RequestFairness(v)
        BY DEF FairSpec
    <2>2. RequestsCanStep => (Asking(v) => ENABLED <<RequestStep(v)>>_vars)
        BY DEF RequestsCanStep
    <2>3. IInv => (visit[v] # NoVisit => Asking(v) \/ Answered(v))
        BY DEF IInv, TypeOK, Request, Asking, Answered
    <2>4. Asking(v) <=> \/ VisitAt(v, "gate") \/ VisitAt(v, "dialing")
                        \/ VisitAt(v, "waiting") \/ VisitAt(v, "opening")
        BY DEF Asking, VisitAt
    <2>5. IInv /\ Asking(v) /\ [Next]_vars /\ ~RequestStep(v) =>
              /\ VisitAt(v, "gate") => VisitAt(v, "gate")' \/ Answered(v)'
              /\ VisitAt(v, "dialing") => VisitAt(v, "dialing")' \/ Answered(v)'
              /\ VisitAt(v, "waiting") => VisitAt(v, "waiting")' \/ Answered(v)'
              /\ VisitAt(v, "opening") => VisitAt(v, "opening")' \/ Answered(v)'
        BY VisitMoves DEF VisitAt
    <2>6. IInv /\ RequestStep(v) =>
              /\ VisitAt(v, "gate") => VisitAt(v, "dialing")' \/ Answered(v)'
              /\ VisitAt(v, "dialing") => VisitAt(v, "waiting")' \/ VisitAt(v, "opening")'
              /\ VisitAt(v, "waiting") => VisitAt(v, "opening")' \/ Answered(v)'
              /\ VisitAt(v, "opening") => Answered(v)'
        BY RequestAdvances
    <2> QED BY <2>1, <2>2, <2>3, <2>4, <2>5, <2>6, RelayInvariant, PTL
            DEF Spec, RequestFairness
<1> QED BY <1>1 DEF RequestsSettle, Answered

(* Where a handler is while its tunnel has a route.                        *)
HandlerAt(e, phase) == handler[e] = phase
Broken(e) == link[e] = "broken"
InHolding(e) == handler[e] \in Holding
RouteGone(e) == tunnel[e] = NoTunnel \/ ~HasRoute(e)
HandlersCanStep ==
    \A e \in Entry : InHolding(e) /\ Broken(e) => ENABLED <<HandlerStep(e)>>_vars

(* Outside Holding no route is left, or none was asked for.                *)
LEMMA OutsideHasNoRoute ==
    ASSUME IInv, NEW e \in Entry, ~InHolding(e)
    PROVE  RouteGone(e)
<1>1. tunnel[e] = NoTunnel \/ tunnel[e] \in Tunnel
    BY DEF IInv, TypeOK
<1>2. ASSUME tunnel[e] \in Tunnel PROVE ~HasRoute(e)
    <2>1. tunnel[e].host \in Host /\ tunnel[e].prefix \in Route
        BY <1>2 DEF Tunnel
    <2> QED BY <2>1 DEF IInv, RoutesHeldExactly, HasRoute, InHolding
<1> QED BY <1>1, <1>2 DEF RouteGone

(* Others leave a handler whose session is down where it is.               *)
LEMMA HandlerMoves ==
    ASSUME IInv, [Next]_vars, NEW e \in Entry, InHolding(e), Broken(e)
    PROVE  HandlerStep(e) \/ handler'[e] = handler[e] \/ ~InHolding(e)'
<1>1. handler \in [Entry -> Phases]
    BY DEF IInv, TypeOK
<1>2. ASSUME NEW f \in Entry, f # e, Arrive(f) \/ HandlerStep(f)
      PROVE  handler'[e] = handler[e]
    BY <1>1, <1>2 DEF Arrive, HandlerStep, Check, Upgrade, RegisterPending, Greet,
                      GreetFails, MarkReady, RecordConnect, AcceptFails, Leave,
                      RecordDisconnect, Goto
<1>3. ~Arrive(e)
    BY DEF Arrive, InHolding, Holding
<1>4. ASSUME NEW f \in Entry, LinkBreaks(f) PROVE handler' = handler
    BY <1>4 DEF LinkBreaks
<1>5. ASSUME NEW v \in Visit, ResolveRequest(v) \/ RequestStep(v) \/ EndStream(v)
      PROVE  handler' = handler
    BY <1>5 DEF ResolveRequest, RequestStep, PassGate, AwaitReady, OpenStream,
                EndStream, UnchangedTunnels
<1>6. CASE Crash
    BY <1>6 DEF Crash, InHolding, Holding
<1>7. CASE Restart \/ UNCHANGED vars
    BY <1>7 DEF Restart, vars
<1> QED BY <1>2, <1>3, <1>4, <1>5, <1>6, <1>7 DEF Next

(* A session that is down stays down.                                      *)
LEMMA BrokenStays ==
    ASSUME IInv, [Next]_vars, NEW e \in Entry, InHolding(e), Broken(e)
    PROVE  Broken(e)'
<1>1. link \in [Entry -> {"none", "open", "broken"}]
    BY DEF IInv, TypeOK
<1>2. ASSUME NEW f \in Entry, Upgrade(f) \/ RegisterPending(f) \/ LinkBreaks(f)
      PROVE  Broken(e)'
    BY <1>1, <1>2 DEF Upgrade, RegisterPending, LinkBreaks, Broken, InHolding, Holding
<1>3. ASSUME NEW f \in Entry, Arrive(f) \/ Check(f) \/ Greet(f) \/ GreetFails(f)
                 \/ MarkReady(f) \/ RecordConnect(f) \/ AcceptFails(f) \/ Leave(f)
                 \/ RecordDisconnect(f)
      PROVE  link' = link
    BY <1>3 DEF Arrive, Check, Greet, GreetFails, MarkReady, RecordConnect,
                AcceptFails, Leave, RecordDisconnect
<1>4. ASSUME NEW v \in Visit, ResolveRequest(v) \/ RequestStep(v) \/ EndStream(v)
      PROVE  link' = link
    BY <1>4 DEF ResolveRequest, RequestStep, PassGate, AwaitReady, OpenStream,
                EndStream, UnchangedTunnels
<1>5. CASE Crash
    BY <1>5 DEF Crash, Broken
<1>6. CASE Restart \/ UNCHANGED vars
    BY <1>6 DEF Restart, vars, Broken
<1> QED BY <1>2, <1>3, <1>4, <1>5, <1>6 DEF Next, HandlerStep, Broken

(* Its own steps take it through the greeting to the clean-up.             *)
LEMMA HandlerAdvances ==
    ASSUME IInv, NEW e \in Entry, HandlerStep(e)
    PROVE  /\ HandlerAt(e, "greeting") => HandlerAt(e, "greeted")' \/ ~InHolding(e)'
           /\ HandlerAt(e, "greeted") => HandlerAt(e, "ready")'
           /\ HandlerAt(e, "ready") => HandlerAt(e, "serving")'
           /\ HandlerAt(e, "serving") => HandlerAt(e, "leaving")'
           /\ HandlerAt(e, "leaving") => ~InHolding(e)'
<1>1. handler \in [Entry -> Phases]
    BY DEF IInv, TypeOK
<1>2. CASE Check(e) \/ Upgrade(e) \/ RegisterPending(e) \/ RecordDisconnect(e)
    BY <1>2 DEF Check, Upgrade, RegisterPending, RecordDisconnect, HandlerAt
<1>3. CASE Greet(e) \/ GreetFails(e) \/ MarkReady(e) \/ RecordConnect(e)
           \/ AcceptFails(e) \/ Leave(e)
    BY <1>1, <1>3 DEF Greet, GreetFails, MarkReady, RecordConnect, AcceptFails, Leave,
                      Goto, HandlerAt, InHolding, Holding
<1> QED BY <1>2, <1>3 DEF HandlerStep

(* Wherever its handler was when its session went down, a tunnel gives its *)
(* route up.                                                               *)
THEOREM RelayBrokenTunnelFreesRoute ==
    FairSpec /\ []HandlersCanStep => BrokenTunnelFreesRoute
<1>1. ASSUME NEW e \in Entry
      PROVE  FairSpec /\ []HandlersCanStep => (Broken(e) ~> RouteGone(e))
    <2>1. FairSpec => Spec /\ HandlerFairness(e)
        BY DEF FairSpec
    <2>2. HandlersCanStep => (InHolding(e) /\ Broken(e) => ENABLED <<HandlerStep(e)>>_vars)
        BY DEF HandlersCanStep
    <2>3. IInv => (~InHolding(e) => RouteGone(e))
        BY OutsideHasNoRoute
    <2>4. InHolding(e) <=> \/ HandlerAt(e, "greeting") \/ HandlerAt(e, "greeted")
                           \/ HandlerAt(e, "ready") \/ HandlerAt(e, "serving")
                           \/ HandlerAt(e, "leaving")
        BY DEF InHolding, Holding, HandlerAt
    <2>5. IInv /\ InHolding(e) /\ Broken(e) /\ [Next]_vars /\ ~HandlerStep(e) =>
              /\ HandlerAt(e, "greeting") => HandlerAt(e, "greeting")' \/ ~InHolding(e)'
              /\ HandlerAt(e, "greeted") => HandlerAt(e, "greeted")' \/ ~InHolding(e)'
              /\ HandlerAt(e, "ready") => HandlerAt(e, "ready")' \/ ~InHolding(e)'
              /\ HandlerAt(e, "serving") => HandlerAt(e, "serving")' \/ ~InHolding(e)'
              /\ HandlerAt(e, "leaving") => HandlerAt(e, "leaving")' \/ ~InHolding(e)'
        BY HandlerMoves DEF HandlerAt
    <2>6. IInv /\ HandlerStep(e) =>
              /\ HandlerAt(e, "greeting") => HandlerAt(e, "greeted")' \/ ~InHolding(e)'
              /\ HandlerAt(e, "greeted") => HandlerAt(e, "ready")'
              /\ HandlerAt(e, "ready") => HandlerAt(e, "serving")'
              /\ HandlerAt(e, "serving") => HandlerAt(e, "leaving")'
              /\ HandlerAt(e, "leaving") => ~InHolding(e)'
        BY HandlerAdvances
    <2>7. IInv /\ InHolding(e) /\ Broken(e) /\ [Next]_vars => Broken(e)'
        BY BrokenStays
    <2> QED BY <2>1, <2>2, <2>3, <2>4, <2>5, <2>6, <2>7, RelayInvariant, PTL
            DEF Spec, HandlerFairness
<1> QED BY <1>1 DEF BrokenTunnelFreesRoute, Broken, RouteGone
=============================================================================
