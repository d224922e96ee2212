--------------------------- MODULE RouteDirectory ---------------------------
(***************************************************************************)
(* What the relay promises its tunnels and its visitors, without tables or *)
(* handlers: a route -- a public host with a path prefix -- has at most    *)
(* one owner, only its owner gives it up, nobody owns two routes, and a    *)
(* request goes to the owner of the longest prefix it is under.  A relay   *)
(* that stops forgets every owner at once.                                 *)
(***************************************************************************)
EXTENDS Naturals

CONSTANTS Host, Prefix, Root, Path, Entry, NoEntry, Length, Under

VARIABLE owner     \* [Host \X (Prefix \cup {Root}) -> Entry \cup {NoEntry}]

Routes == Host \X (Prefix \cup {Root})

Init == owner = [x \in Routes |-> NoEntry]

Claim(x, e) ==
    /\ owner[x] = NoEntry
    /\ \A y \in Routes : owner[y] # e
    /\ owner' = [owner EXCEPT ![x] = e]

Release(x, e) ==
    /\ owner[x] = e
    /\ owner' = [owner EXCEPT ![x] = NoEntry]

ReleaseAll == owner' = [x \in Routes |-> NoEntry]

Next ==
    \/ \E x \in Routes, e \in Entry : Claim(x, e) \/ Release(x, e)
    \/ ReleaseAll

Spec == Init /\ [][Next]_owner

-----------------------------------------------------------------------------
(* Who answers path q of host h.                                           *)
Candidates(h, q) == {p \in Under[q] : owner[<<h, p>>] # NoEntry}

Answers(h, q, e) ==
    IF Candidates(h, q) = {}
    THEN e = owner[<<h, Root>>]
    ELSE \E p \in Candidates(h, q) :
            /\ e = owner[<<h, p>>]
            /\ \A p2 \in Candidates(h, q) : Length[p2] <= Length[p]
=============================================================================
