----------------------------- MODULE RouteTable -----------------------------
(***************************************************************************)
(* The relay's live routing table: relay.Registry of                       *)
(* src/backend/relay/relay.go.  A public host maps to a hostTable: one     *)
(* root entry and a list of path-prefixed entries kept sorted by           *)
(* descending prefix length, so that Resolve's first match is its longest. *)
(* Every operation runs under Registry.mu and is one step here.            *)
(*                                                                         *)
(* The module has no specification of its own: Registry and Relay call     *)
(* these operations.                                                       *)
(***************************************************************************)
EXTENDS Naturals, FiniteSets, Sequences, Functions

CONSTANTS
    Host,      \* public hosts
    Prefix,    \* non-empty path prefixes a tunnel may be registered for
    Root,      \* the prefix "", registered in hostTable.root
    Path,      \* request paths
    Entry,     \* identities of *Entry values, one per Register call
    NoEntry,   \* the nil *Entry
    Length,    \* len(prefix)
    Under      \* Under[q]: the prefixes p with q = p or q starting with p/

(* Two prefixes of one path have different lengths: both are initial       *)
(* substrings of it.                                                       *)
ASSUME RouteAssumption ==
    /\ Root \notin Prefix
    /\ NoEntry \notin Entry
    /\ Length \in [Prefix -> Nat]
    /\ Under \in [Path -> SUBSET Prefix]
    /\ \A q \in Path : \A p1, p2 \in Under[q] :
          Length[p1] = Length[p2] => p1 = p2

VARIABLE table     \* [the hosts present -> their hostTable]

Route == Prefix \cup {Root}
PrefixEntry == [prefix : Prefix, entry : Entry]
HostTable == [root : Entry \cup {NoEntry}, prefixed : Seq(PrefixEntry)]
EmptyTable == [root |-> NoEntry, prefixed |-> << >>]

TableAt(h) == IF h \in DOMAIN table THEN table[h] ELSE EmptyTable

(* Mutant: a root route is taken without looking.                          *)
VacantRoot(h, p) ==
    p = Root \/ \A x \in Range(TableAt(h).prefixed) : x.prefix # p

(* The condition Check reports on and Register tests again.                *)
Vacant(h, p) ==
    IF p = Root
    THEN TableAt(h).root = NoEntry
    ELSE \A x \in Range(TableAt(h).prefixed) : x.prefix # p

(* Mutant: the list is left as append made it.                             *)
UnsortedLists(S) == Bijection(1..Cardinality(S), S)

(* The lists sort.Slice may leave: it is not stable, so prefixes of equal  *)
(* length come in any order.                                               *)
SortedLists(S) ==
    {s \in Bijection(1..Cardinality(S), S) :
        \A i, j \in DOMAIN s :
            i < j => Length[s[i].prefix] >= Length[s[j].prefix]}

(* hostTables that may result from adding e under p.                       *)
WithEntry(t, p, e) ==
    IF p = Root
    THEN {[t EXCEPT !.root = e]}
    ELSE {[t EXCEPT !.prefixed = s] :
             s \in SortedLists(Range(t.prefixed) \cup
                                  {[prefix |-> p, entry |-> e]})}

(* The list without the elements of entry e, the others in their order.    *)
KeptLists(s, e) ==
    LET kept == {x \in Range(s) : x.entry # e}
    IN  {t \in Bijection(1..Cardinality(kept), kept) :
           \A i, j \in DOMAIN t : i < j =>
              \E k, l \in DOMAIN s : k < l /\ s[k] = t[i] /\ s[l] = t[j]}

WithoutEntry(t, p, e) ==
    IF p = Root
    THEN {IF t.root = e THEN [t EXCEPT !.root = NoEntry] ELSE t}
    ELSE {[t EXCEPT !.prefixed = s] : s \in KeptLists(t.prefixed, e)}

-----------------------------------------------------------------------------
(* Registry.Register on a vacant route: the new entry e answers <<h, p>>.  *)
Register(h, p, e) ==
    /\ Vacant(h, p)
    /\ \E t \in WithEntry(TableAt(h), p, e) :
          table' = [x \in DOMAIN table \cup {h} |->
                        IF x = h THEN t ELSE table[x]]

(* Registry.Register on a taken route returns an error.                    *)
RegisterFails(h, p) ==
    /\ ~Vacant(h, p)
    /\ UNCHANGED table

(* Mutant: the whole host goes.                                            *)
UnregisterHost(h, p, e) ==
    table' = Restrict(table, DOMAIN table \ {h})

(* Registry.Unregister removes e, never another entry of the same route,   *)
(* and drops a host's table with its last entry.                           *)
Unregister(h, p, e) ==
    IF h \notin DOMAIN table
    THEN UNCHANGED table
    ELSE \E t \in WithoutEntry(table[h], p, e) :
            table' = IF t = EmptyTable
                     THEN Restrict(table, DOMAIN table \ {h})
                     ELSE [table EXCEPT ![h] = t]

(* Registry.Resolve: the first listed prefix the path is under, else root. *)
Resolve(h, q) ==
    LET t    == TableAt(h)
        hits == {i \in DOMAIN t.prefixed : t.prefixed[i].prefix \in Under[q]}
    IN  IF hits = {}
        THEN t.root
        ELSE t.prefixed[CHOOSE i \in hits : \A j \in hits : i <= j].entry

(* Whether e is what the table holds for <<h, p>>.                         *)
Holds(h, p, e) ==
    IF p = Root
    THEN TableAt(h).root = e
    ELSE [prefix |-> p, entry |-> e] \in Range(TableAt(h).prefixed)

(* The directory the table stands for: the holder of every route.         *)
OwnerOf(h, p) ==
    IF \E e \in Entry : Holds(h, p, e)
    THEN CHOOSE e \in Entry : Holds(h, p, e)
    ELSE NoEntry

Owners == [x \in Host \X Route |-> OwnerOf(x[1], x[2])]

Directory == INSTANCE RouteDirectory WITH owner <- Owners

-----------------------------------------------------------------------------
(* Every list is sorted, and holds a prefix and an entry at most once; no  *)
(* host is kept with an empty table.                                       *)
SortedDescending(s) ==
    \A i, j \in DOMAIN s :
        i < j => Length[s[i].prefix] >= Length[s[j].prefix]
PrefixOnce(s) ==
    \A i, j \in DOMAIN s : s[i].prefix = s[j].prefix => i = j

TableTypeOK ==
    /\ DOMAIN table \subseteq Host
    /\ \A h \in DOMAIN table : table[h] \in HostTable

TableOK ==
    \A h \in DOMAIN table :
        /\ SortedDescending(table[h].prefixed)
        /\ PrefixOnce(table[h].prefixed)
        /\ table[h] # EmptyTable
=============================================================================
